-------------------------- MODULE ProcessorSharing --------------------------
(****************************************************************************)
(* What the scheduler promises its callers, free of rings, contexts, stacks *)
(* and interrupt flags: one thread at a time has the turn, it is alive and  *)
(* has something to do, the idle thread has the turn only when no thread    *)
(* has, only the thread that has the turn goes to sleep or leaves, and a    *)
(* thread that leaves gives the turn away at once and never has it again.   *)
(****************************************************************************)
CONSTANTS Threads, Idle

VARIABLES turn,     \* who has the processor
          live,     \* threads that exist
          asleep,   \* live threads that wait for time to pass
          leaving   \* live threads that have finished
vars == <<turn, live, asleep, leaving>>

\* Time may wake any sleeper at any moment; nothing else does.
Runnable(t) == t \in live /\ t \notin asleep /\ t \notin leaving

Admit(t) ==
    /\ t \in Threads \ live
    /\ live' = live \cup {t}
    /\ UNCHANGED <<turn, asleep, leaving>>

\* The turn goes to a runnable thread other than the ones in gone.
PassTurn(gone) ==
    \/ \E t \in Threads \ gone : Runnable(t) /\ turn' = t
    \/ (\A t \in Threads \ gone : ~Runnable(t)) /\ turn' = Idle

Switch ==
    /\ PassTurn({})
    /\ asleep' \subseteq asleep
    /\ UNCHANGED <<live, leaving>>

Wake ==
    /\ asleep' \subseteq asleep
    /\ UNCHANGED <<turn, live, leaving>>

Sleep ==
    /\ Runnable(turn)
    /\ asleep' = asleep \cup {turn}
    /\ UNCHANGED <<turn, live, leaving>>

Leave ==
    /\ Runnable(turn)
    /\ PassTurn({turn})
    /\ leaving' = leaving \cup {turn}
    /\ UNCHANGED <<live, asleep>>

Reap(t) ==
    /\ t \in leaving /\ t # turn
    /\ live' = live \ {t}
    /\ leaving' = leaving \ {t}
    /\ UNCHANGED <<turn, asleep>>

Init == turn = Idle /\ live = {} /\ asleep = {} /\ leaving = {}
Next == (\E t \in Threads : Admit(t) \/ Reap(t)) \/ Switch \/ Wake \/ Sleep \/ Leave
Spec == Init /\ [][Next]_vars
=============================================================================
