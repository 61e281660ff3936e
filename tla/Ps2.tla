-------------------------------- MODULE Ps2 --------------------------------
(****************************************************************************)
(* Starting the PS/2 keyboard (hw/ps2/ps2.cc): Initialize, DetectDevice and *)
(* the reads and writes they are made of, against a controller and a        *)
(* keyboard that may be slow, ask for a command again, or be typed on in    *)
(* the meantime.  The hardware is described as far as the driver relies on  *)
(* it: the controller answers at once and ahead of the keyboard.            *)
(****************************************************************************)
EXTENDS Integers, Sequences

CONSTANTS MaxKeys,     \* bound: scan codes waiting in the keyboard
          MaxResends   \* bound: commands the keyboard asks for again

ASSUME Ps2Assumption == MaxKeys \in Nat /\ MaxResends \in Nat

VARIABLES at,          \* the step the driver is at, and if it is to write or to read
          tries,       \* WriteDevice0's i
          type,        \* device_type: "none" yet, "valid" or "Invalid"
          cfg,         \* what was read as the configuration byte
          out,         \* the controller's output buffer, and its answers behind it
          queue,       \* bytes the keyboard has yet to send
          scanning,    \* the keyboard reports keys
          firstIrq,    \* the bit of the controller's configuration
          handled,     \* the last byte IsrKeyboard has read, or "none"
          typed, late, resends  \* history: a key was pressed before the end of Initialize;
                                \* Read gave up on a byte under way, or a test failed;
                                \* commands asked for again
driver   == <<at, tries, type, cfg, firstIrq>>
keyboard == <<queue, scanning, resends>>
vars     == <<driver, out, keyboard, handled, typed, late>>

Done == <<"done", "write">>

\* Commands that are answered, the controller's and the keyboard's.
ControllerCommands == {"test_controller", "test_port1", "read0"}
DeviceCommands     == {"reset_no_scan", "get_id", "reset"}

\* An answer read; what IsrKeyboard should read is "scan".  Read makes up
\* "invalid" when nothing comes.
Replies == {"scan", "ack", "resend", "id", "device_test_passed", "controller_test_passed",
            "port_test_passed", "failed", "config", "invalid"}
-----------------------------------------------------------------------------
(* The keyboard.                                                            *)

PressKey ==
    /\ scanning /\ Len(queue) < MaxKeys
    /\ queue' = Append(queue, "scan")
    /\ typed' = (typed \/ at # Done)
    /\ UNCHANGED <<driver, out, scanning, resends, handled, late>>

Transfer ==
    /\ out = <<>> /\ queue # <<>>
    /\ out' = <<Head(queue)>> /\ queue' = Tail(queue)
    /\ UNCHANGED <<driver, scanning, resends, handled, typed, late>>

Answer == [reset_no_scan |-> <<"ack">>, get_id |-> <<"ack", "id", "id">>,
           reset |-> <<"ack", "device_test_passed">>]

\* A command drops what the keyboard had yet to send.
Obey(command) ==
    \/ /\ queue' = Answer[command]
       /\ scanning' = (command # "reset_no_scan" /\ (command = "reset" \/ scanning))
       /\ UNCHANGED resends
    \/ /\ resends < MaxResends
       /\ queue' = <<"resend">> /\ resends' = resends + 1
       /\ UNCHANGED scanning
-----------------------------------------------------------------------------
(* Read; Initialize's exchanges with the controller.                        *)

Read(reply) ==
    \/ out # <<>> /\ reply = Head(out) /\ out' = Tail(out) /\ UNCHANGED late
    \/ out = <<>> /\ reply = "invalid" /\ late' = (late \/ queue # <<>>) /\ UNCHANGED out

Quietly == UNCHANGED <<keyboard, handled, typed>>

Drain ==
    /\ at = <<"drain", "read">>
    /\ \E reply \in Replies :
         Read(reply) /\ at' = IF reply = "invalid" THEN <<"test_controller", "write">> ELSE at
    /\ UNCHANGED <<tries, type, cfg, firstIrq>> /\ Quietly

\* What the controller answers, and what Initialize does next.
Exchange ==
    [test_controller |-> [answer |-> "controller_test_passed", next |-> "test_port1"],
     test_port1      |-> [answer |-> "port_test_passed",       next |-> "read0"],
     read0           |-> [answer |-> "config",                 next |-> "reset_no_scan"]]

WriteController ==
    /\ at[1] \in ControllerCommands /\ at[2] = "write"
    /\ \/ out' = Append(out, Exchange[at[1]].answer) /\ UNCHANGED late
       \/ at[1] # "read0" /\ out' = Append(out, "failed") /\ late' = TRUE
    /\ at' = <<at[1], "read">>
    /\ UNCHANGED <<tries, type, cfg, firstIrq>> /\ Quietly

\* Whatever is read as the configuration byte is taken for it.
Accepted(step, reply) ==
    \/ reply = Exchange[step].answer
    \/ step = "read0" /\ reply # "invalid"

ReadController ==
    /\ at[1] \in ControllerCommands /\ at[2] = "read"
    /\ \E reply \in Replies :
         /\ Read(reply)
         /\ at' = IF Accepted(at[1], reply) THEN <<Exchange[at[1]].next, "write">> ELSE Done
         /\ cfg' = IF at[1] = "read0" THEN reply ELSE cfg
    /\ UNCHANGED <<tries, type, firstIrq>> /\ Quietly
-----------------------------------------------------------------------------
(* DetectDevice, and what Initialize does with its result.                  *)

\* Mutant of MayRetry: one try less.
MayRetryOnce == tries < 1

MayRetry == tries < 2

\* Mutant of Acked: anything but a request to send it again will do.
AckedByAnything(reply) == reply # "resend"

Acked(reply) == reply = "ack"

AfterCommand ==
    [reset_no_scan |-> <<"get_id", "write">>, get_id |-> <<"high", "read">>,
     reset |-> <<"self_test", "read">>]

WriteDevice ==
    /\ at[1] \in DeviceCommands /\ at[2] = "write"
    /\ Obey(at[1])
    /\ at' = <<at[1], "read">>
    /\ UNCHANGED <<tries, type, cfg, firstIrq, out, handled, typed, late>>

ReadDevice ==
    /\ at[1] \in DeviceCommands /\ at[2] = "read"
    /\ \E reply \in Replies :
         /\ Read(reply)
         /\ IF reply = "resend" /\ MayRetry
            THEN at' = <<at[1], "write">> /\ tries' = tries + 1 /\ UNCHANGED type
            ELSE /\ tries' = 0
                 /\ at' = IF Acked(reply) THEN AfterCommand[at[1]] ELSE Done
                 /\ type' = IF Acked(reply) THEN type ELSE "Invalid"
    /\ UNCHANGED <<cfg, firstIrq>> /\ Quietly

\* Neither byte of the ID is looked at, nor whether there was one.
ReadId ==
    /\ at \in {<<"high", "read">>, <<"low", "read">>}
    /\ \E reply \in Replies : Read(reply)
    /\ at' = IF at[1] = "high" THEN <<"low", "read">> ELSE <<"reset", "write">>
    /\ UNCHANGED <<tries, type, cfg, firstIrq>> /\ Quietly

\* Mutant of TestPassed: the result is not looked at.
TestIgnored(reply) == TRUE

TestPassed(reply) == reply = "device_test_passed"

ReadSelfTest ==
    /\ at = <<"self_test", "read">>
    /\ \E reply \in Replies :
         /\ Read(reply)
         /\ at' = IF TestPassed(reply) THEN <<"write0", "write">> ELSE Done
         /\ type' = IF TestPassed(reply) THEN "valid" ELSE "Invalid"
    /\ UNCHANGED <<tries, cfg, firstIrq>> /\ Quietly

WriteConfig ==
    /\ at = <<"write0", "write">>
    /\ at' = Done /\ firstIrq' = TRUE
    /\ UNCHANGED <<tries, type, cfg, out, late>> /\ Quietly

\* Interrupts are unmasked after Initialize.
IsrKeyboard ==
    /\ at = Done /\ firstIrq /\ out # <<>>
    /\ handled' = Head(out) /\ out' = Tail(out)
    /\ UNCHANGED <<driver, keyboard, typed, late>>

Init ==
    /\ at = <<"drain", "read">> /\ tries = 0 /\ type = "none" /\ cfg = "none"
    /\ out \in {<<>>, <<"scan">>} /\ queue \in {<<>>, <<"scan">>}
    /\ scanning \in BOOLEAN /\ firstIrq \in BOOLEAN
    /\ handled = "none" /\ typed = FALSE /\ late = FALSE /\ resends = 0

Next ==
    \/ PressKey \/ Transfer
    \/ Drain \/ WriteController \/ ReadController
    \/ WriteDevice \/ ReadDevice \/ ReadId \/ ReadSelfTest \/ WriteConfig
    \/ IsrKeyboard

Spec == Init /\ [][Next]_vars
-----------------------------------------------------------------------------
(* Properties.                                                              *)

\* A keyboard that is reported valid works: it scans, and the configuration byte
\* that is written back is the one the controller had, not a key's or a reply's.
ValidKeyboardScans ==
    type = "valid" => scanning /\ cfg = "config"

\* Of a keyboard that is reported valid, replies to commands do not reach HandleInput, which
\* would take them for keys, though none of the reads checks that its byte answers the last
\* command.  Nothing is said after a failed detection: IsrKeyboard is connected by then, the
\* firmware may have left its interrupt enabled, and a late reply does get there.
RepliesAreNotHandled == firstIrq /\ type = "valid" => handled \in {"scan", "none"}

\* With nothing typed, no test failed and no reply given up on, the keyboard is found, whatever
\* the firmware has left in the buffers and although it may ask for commands again, twice.
QuietKeyboardIsFound == at = Done /\ ~typed /\ ~late /\ resends <= 2 => type = "valid" /\ firstIrq
=============================================================================
