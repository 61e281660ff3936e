--------------------------- MODULE DevicesProofs ---------------------------
(****************************************************************************)
(* Proofs about Devices, in three parts.                                    *)
(*                                                                          *)
(* The serial ports: SerialInv says what every line of Setup has added.     *)
(*                                                                          *)
(* The keyboard's start: Ps2Inv says, for every place in Initialize, which  *)
(* bytes are under way from keyboard and controller.  Unless a byte nobody  *)
(* asked for is ahead of them, they are what the driver is about to read,   *)
(* then scan codes and nothing else.                                        *)
(*                                                                          *)
(* Typing: TypingInv says that the scan codes on the way, read from the     *)
(* flags as they are, print all that has been typed and end with the        *)
(* modifiers that are meant.  Reading is stated by the flags on the way,    *)
(* one set for every code, so that readings can be put together and taken   *)
(* apart without induction.                                                 *)
(****************************************************************************)
EXTENDS Devices, NaturalFacts, SequenceTheorems, TLAPS

(* The serial ports.                                                        *)

\* What a register may hold.
Values == Nat \cup Texts
Registers ==
    [dlab : BOOLEAN, loopback : BOOLEAN, divisor : Values \X Values, interrupts : Values,
     format : {"firmware's", "dlab", "8N1"}, received : Values]

\* What InitializePort has done to a port that is there before line n of Setup.
SetUpTo(u, n) ==
    /\ n \in 3..5 => u.dlab
    /\ n >= 4 => u.divisor[1] = 2
    /\ n >= 5 => u.divisor = <<2, 0>>
    /\ n >= 6 => ~u.dlab /\ u.format = "8N1"
    /\ n >= 8 => u.loopback
    /\ n = 9 => u.received = Com!TestByte

\* A port that has passed the test.
Ready(p) == kind[p] = "fine" /\ SetUpTo(uart[p], 6) /\ ~uart[p].loopback

SerialInv ==
    /\ kind \in [Com!Ports -> {"fine", "absent", "faulty"}]
    /\ uart \in [Com!Ports -> Registers]
    /\ sent = [p \in Com!Ports |-> IF p = output_port THEN given ELSE <<>>]
    /\ port \in Com!Ports \cup {"chosen", "done"} /\ line \in 1..9
    /\ port \in Com!Ports /\ kind[port] # "absent" => SetUpTo(uart[port], line)
    /\ has \subseteq {p \in Com!Ports : p # port /\ (port = "com1" => p # "com2")}
    /\ \A p \in has : Ready(p)
    /\ \A p \in Com!Ports : kind[p] = "fine" /\ p \notin has => port = "com1" \/ port = p
    /\ output_port = "none" \/ (port = "done" /\ output_port \in has)
    /\ port = "done" /\ has # {} => output_port # "none"
    /\ given # <<>> => output_port # "none"

\* The lines of Setup.
LEMMA SetupLines ==
  /\ Len(Com!Setup) = 8
  /\ Com!Setup[1] = <<"int_enabled", 0>> /\ Com!Setup[2] = <<"line_ctrl", "dlab">>
  /\ Com!Setup[3] = <<"data", 2>> /\ Com!Setup[4] = <<"int_enabled", 0>>
  /\ Com!Setup[5] = <<"line_ctrl", "8N1">> /\ Com!Setup[6] = <<"fifo_ctrl", "clear">>
  /\ Com!Setup[7] = <<"modem_ctrl", "loopback">> /\ Com!Setup[8] = <<"data", 174>>
BY DEF Com!Setup, Com!TestByte

\* Each line brings a port on by one, and keeps what is received from the wire.
LEMMA LineIsWritten ==
  ASSUME NEW u \in Registers, NEW n \in 1..8, SetUpTo(u, n)
  PROVE  /\ ~(Com!Setup[n][1] = "data" /\ ~u.dlab /\ ~u.loopback)
         /\ Com!Received(u, Com!Setup[n][1], Com!Setup[n][2]) \in Registers
         /\ SetUpTo(Com!Received(u, Com!Setup[n][1], Com!Setup[n][2]), n + 1)
<1>1. u \in [dlab : BOOLEAN, loopback : BOOLEAN, divisor : Values \X Values, interrupts : Values,
             format : {"firmware's", "dlab", "8N1"}, received : Values]
      /\ 0 \in Values /\ 2 \in Values /\ 174 \in Values
  BY DEF Registers, Values
<1> HIDE DEF Values
<1>2. CASE n = 1
  BY <1>1, <1>2, SetupLines DEF Com!Received, SetUpTo, Registers
<1>3. CASE n = 2
  <2> DEFINE w == [u EXCEPT !.dlab = ("dlab" = "dlab"), !.format = "dlab"]
  <2>1. Com!Received(u, Com!Setup[n][1], Com!Setup[n][2]) = w /\ Com!Setup[n][1] # "data"
    BY <1>3, SetupLines DEF Com!Received
  <2>2. w \in Registers /\ (w.dlab <=> TRUE) /\ w.divisor = u.divisor /\ w.format = "dlab"
        /\ (w.loopback <=> u.loopback)
    BY <1>1 DEF Registers
  <2> HIDE DEF w
  <2>3. SetUpTo(w, n + 1)
    BY <1>3, <2>2 DEF SetUpTo
  <2> QED BY <2>1, <2>2, <2>3
<1>4. CASE n = 3
  BY <1>1, <1>4, SetupLines DEF Com!Received, SetUpTo, Registers
<1>5. CASE n = 4
  BY <1>1, <1>5, SetupLines DEF Com!Received, SetUpTo, Registers
<1>6. CASE n = 5
  <2> DEFINE w == [u EXCEPT !.dlab = ("8N1" = "dlab"), !.format = "8N1"]
  <2>1. Com!Received(u, Com!Setup[n][1], Com!Setup[n][2]) = w /\ Com!Setup[n][1] # "data"
    BY <1>6, SetupLines DEF Com!Received
  <2>2. w \in Registers /\ (w.dlab <=> FALSE) /\ w.divisor = u.divisor /\ w.format = "8N1"
        /\ (w.loopback <=> u.loopback)
    BY <1>1 DEF Registers
  <2> HIDE DEF w
  <2>3. SetUpTo(w, n + 1)
    BY <1>6, <2>2 DEF SetUpTo
  <2> QED BY <2>1, <2>2, <2>3
<1>7. CASE n = 6
  BY <1>1, <1>7, SetupLines DEF Com!Received, SetUpTo, Registers
<1>8. CASE n = 7
  <2> DEFINE w == [u EXCEPT !.loopback = ("loopback" = "loopback")]
  <2>1. Com!Received(u, Com!Setup[n][1], Com!Setup[n][2]) = w /\ Com!Setup[n][1] # "data"
    BY <1>8, SetupLines DEF Com!Received
  <2>2. w \in Registers /\ (w.dlab <=> u.dlab) /\ w.divisor = u.divisor /\ w.format = u.format
        /\ (w.loopback <=> TRUE)
    BY <1>1 DEF Registers
  <2> HIDE DEF w
  <2>3. SetUpTo(w, n + 1)
    BY <1>8, <2>2 DEF SetUpTo
  <2> QED BY <2>1, <2>2, <2>3
<1>9. CASE n = 8
  BY <1>1, <1>9, SetupLines DEF Com!Received, SetUpTo, Registers, Com!TestByte
<1> QED BY <1>2, <1>3, <1>4, <1>5, <1>6, <1>7, <1>8, <1>9

\* A ready port sends what is written to its data register, and stays as it is.
LEMMA SerialStep ==
  ASSUME SerialInv, Com!Next
  PROVE  SerialInv'
<1>0. line \in Nat /\ Com!Ports = {"com1", "com2"}
  BY DEF SerialInv, Com!Ports
<1>1. CASE Com!InitializePort
  <2>1. port \in Com!Ports /\ line \in 1..8
    BY <1>0, <1>1, SetupLines DEF Com!InitializePort, SerialInv
  <2> DEFINE u == uart[port]
             w == Com!Received(u, Com!Setup[line][1], Com!Setup[line][2])
  <2>2. u \in Registers /\ output_port = "none"
    BY <2>1 DEF SerialInv, Com!Ports
  <2>3. kind[port] # "absent" =>
          /\ ~(Com!Setup[line][1] = "data" /\ ~u.dlab /\ ~u.loopback) /\ w \in Registers /\ SetUpTo(w, line + 1)
    BY <2>1, <2>2, LineIsWritten DEF SerialInv
  <2>4. uart' = (IF kind[port] = "absent" THEN uart ELSE [uart EXCEPT ![port] = w]) /\ sent' = sent
    BY <1>1, <2>3 DEF Com!InitializePort, Com!WriteReg
  <2>5. UNCHANGED <<kind, port, has, output_port, given>> /\ line' = line + 1 /\ line' \in 1..9
    BY <1>1, <2>1 DEF Com!InitializePort
  <2> HIDE DEF w
  <2>6. uart' \in [Com!Ports -> Registers] /\ (kind'[port'] # "absent" => SetUpTo(uart'[port'], line'))
    BY <2>1, <2>3, <2>4, <2>5 DEF SerialInv
  <2>7. \A p \in has : Ready(p)'
    BY <2>4, <2>5 DEF SerialInv, Ready
  <2> QED BY <2>1, <2>2, <2>4, <2>5, <2>6, <2>7 DEF SerialInv
<1>2. CASE Com!TestPort
  <2>1. /\ port \in Com!Ports /\ line = 9 /\ output_port = "none" /\ port # "chosen" /\ port # "done"
        /\ UNCHANGED <<kind, output_port, given>> /\ line' = 1 /\ port' = (IF port = "com1" THEN "com2" ELSE "chosen")
    BY <1>0, <1>2, SetupLines DEF Com!TestPort, SerialInv, Com!After
  <2>2. SetUpTo(uart[port], 1)
    BY DEF SetUpTo
  <2>3. CASE kind[port] = "fine" /\ uart[port].received = Com!TestByte
    <3> DEFINE w == [uart[port] EXCEPT !.loopback = FALSE]
    <3>1. /\ Com!Received(uart[port], "modem_ctrl", "ready") = [uart[port] EXCEPT !.loopback = ("ready" = "loopback")]
          /\ "modem_ctrl" # "data" /\ ("ready" = "loopback") = FALSE
      BY DEF Com!Received
    <3>2. uart' = [uart EXCEPT ![port] = w] /\ sent' = sent /\ has' = has \cup {port}
      BY <1>2, <2>3, <3>1 DEF Com!TestPort, Com!WriteReg
    <3>3. uart[port] \in Registers /\ SetUpTo(uart[port], 9)
      BY <2>1, <2>3 DEF SerialInv
    <3>4. w \in Registers /\ ~w.loopback /\ w.divisor = uart[port].divisor /\ w.format = uart[port].format
          /\ (w.dlab <=> uart[port].dlab)
      BY <3>3 DEF Registers
    <3> HIDE DEF w
    <3>5. SetUpTo(w, 6)
      BY <3>3, <3>4 DEF SetUpTo
    <3>6. uart' \in [Com!Ports -> Registers] /\ uart'[port] = w
      BY <2>1, <3>2, <3>4 DEF SerialInv
    <3>7. \A p \in has' : Ready(p)'
      BY <2>1, <2>3, <3>2, <3>4, <3>5, <3>6 DEF SerialInv, Ready
    <3>8. has' \subseteq {p \in Com!Ports : p # port' /\ (port' = "com1" => p # "com2")}
      BY <1>0, <2>1, <3>2 DEF SerialInv
    <3>9. port' \in Com!Ports => SetUpTo(uart'[port'], line')
      BY <2>1 DEF SetUpTo
    <3>10. \A p \in Com!Ports : kind'[p] = "fine" /\ p \notin has' => port' = "com1" \/ port' = p
      BY <1>0, <2>1, <3>2 DEF SerialInv
    <3> QED BY <1>0, <2>1, <3>2, <3>6, <3>7, <3>8, <3>9, <3>10 DEF SerialInv
  <2>4. CASE ~(kind[port] = "fine" /\ uart[port].received = Com!TestByte)
    <3>1. UNCHANGED <<uart, sent, has>>
      BY <1>2, <2>4 DEF Com!TestPort
    <3>2. port' \in Com!Ports => SetUpTo(uart'[port'], line')
      BY <2>1 DEF SetUpTo
    <3>3. \A p \in has : Ready(p)'
      BY <2>1, <3>1 DEF SerialInv, Ready
    <3>4. kind[port] = "fine" => uart[port].received = Com!TestByte
      BY <2>1 DEF SerialInv, SetUpTo
    <3> QED BY <1>0, <2>1, <2>4, <3>1, <3>2, <3>3, <3>4 DEF SerialInv
  <2> QED BY <2>3, <2>4
<1>3. CASE Com!SetPort
  <2>1. port = "chosen" /\ port' = "done" /\ UNCHANGED <<kind, uart, sent, line, has, given>>
        /\ output_port = "none" /\ given = <<>>
        /\ output_port' = IF "com1" \in has THEN "com1" ELSE IF "com2" \in has THEN "com2" ELSE "none"
    BY <1>3 DEF Com!SetPort, SerialInv
  <2>2. \A p \in has : Ready(p)'
    BY <2>1 DEF SerialInv, Ready
  <2> DEFINE none == <<>>
  <2>3. sent' = [p \in Com!Ports |-> IF p = output_port' THEN given' ELSE none]
    <3>1. sent = [p \in Com!Ports |-> IF p = output_port THEN given ELSE none]
      BY DEF SerialInv
    <3>2. sent' = sent /\ given = none /\ given' = none
      BY <2>1
    <3> HIDE DEF none
    <3>3. sent = [p \in Com!Ports |-> none]
      BY <3>1, <3>2
    <3>4. [p \in Com!Ports |-> IF p = output_port' THEN given' ELSE none] = [p \in Com!Ports |-> none]
      BY <3>2
    <3> QED BY <3>2, <3>3, <3>4
  <2> QED BY <1>0, <2>1, <2>2, <2>3 DEF SerialInv
<1>4. ASSUME NEW c \in Texts, Com!Write(c) PROVE SerialInv'
  <2>1. UNCHANGED <<kind, port, line, has, output_port>>
    BY <1>4 DEF Com!Write
  <2>2. CASE output_port = "none"
    <3>1. UNCHANGED <<uart, sent, given>>
      BY <1>4, <2>2 DEF Com!Write
    <3>2. \A p \in has : Ready(p)'
      BY <2>1, <3>1 DEF SerialInv, Ready
    <3> QED BY <2>1, <3>1, <3>2 DEF SerialInv
  <2>3. CASE output_port # "none"
    <3>1. output_port \in Com!Ports /\ Ready(output_port) /\ port = "done"
      BY <2>3 DEF SerialInv
    <3>2. ~uart[output_port].dlab /\ ~uart[output_port].loopback /\ kind[output_port] # "absent"
      BY <3>1 DEF Ready, SetUpTo
    <3>3. uart' = uart /\ sent' = [sent EXCEPT ![output_port] = Append(@, c)] /\ given' = Append(given, c)
      BY <1>4, <2>3, <3>2 DEF Com!Write, Com!WriteReg
    <3>4. sent' = [p \in Com!Ports |-> IF p = output_port' THEN given' ELSE <<>>]
      BY <2>1, <3>1, <3>3 DEF SerialInv
    <3>5. \A p \in has : Ready(p)'
      BY <2>1, <3>3 DEF SerialInv, Ready
    <3> QED BY <2>1, <2>3, <3>1, <3>3, <3>4, <3>5 DEF SerialInv
  <2> QED BY <2>2, <2>3
<1> QED BY <1>1, <1>2, <1>3, <1>4 DEF Com!Next

\* Nothing is set up before the first line, whatever the firmware has left.
LEMMA SerialInit ==
  ASSUME Com!Init
  PROVE  SerialInv
<1>1. kind \in [Com!Ports -> {"fine", "absent", "faulty"}] /\ uart \in [Com!Ports -> Com!Uart]
      /\ sent = [p \in Com!Ports |-> <<>>] /\ given = <<>> /\ port = "com1" /\ line = 1 /\ has = {}
      /\ output_port = "none"
  BY DEF Com!Init
<1>2. Com!Uart \subseteq Registers
  BY DEF Com!Uart, Registers, Values
<1>3. SetUpTo(uart[port], line)
  BY <1>1 DEF SetUpTo
<1> QED BY <1>1, <1>2, <1>3 DEF SerialInv, Com!Ports

\* What the invariant says of the ports once one is chosen.
LEMMA SerialSafe == ASSUME SerialInv PROVE SendsText
<1>1. port = "done" /\ (\E p \in Com!Ports : kind[p] = "fine") => output_port # "none"
  BY DEF SerialInv, Com!Ports
<1>2. output_port # "none" =>
        kind[output_port] = "fine" /\ uart[output_port].divisor = <<2, 0>> /\ uart[output_port].format = "8N1"
  <2>1. output_port # "none" => Ready(output_port)
    BY DEF SerialInv
  <2> QED BY <2>1 DEF Ready, SetUpTo
<1> QED BY <1>1, <1>2 DEF SerialInv, SendsText, Com!SendsText

\* Serial's property: whatever state the firmware has left the ports in and whichever are
\* there, what Write is given goes out of a port that works, as Initialize has set it,
\* and nothing else goes out.
THEOREM TextIsAlwaysSent == SpecDevices => []SendsText
<1>1. InitDevices => SerialInv
  BY SerialInit DEF InitDevices
<1>2. SerialInv /\ [NextDevices]_<<vars, typing, serial>> => SerialInv'
  <2> SUFFICES ASSUME SerialInv, [NextDevices]_<<vars, typing, serial>> PROVE SerialInv'
    OBVIOUS
  <2>1. CASE Com!Next
    BY <2>1, SerialStep
  <2>2. CASE UNCHANGED serial
    BY <2>2 DEF serial, SerialInv, Ready
  <2> QED BY <2>1, <2>2 DEF NextDevices, SerialPorts, KeyboardRuns
<1>3. SerialInv => SendsText
  BY SerialSafe
<1> QED BY <1>1, <1>2, <1>3, PTL DEF SpecDevices

-----------------------------------------------------------------------------
(* The keyboard's start.                                                    *)

\* All bytes under way, in the order in which they are read.
Flight == out \o queue

\* First the bytes of p, then keys.
Begins(f, p) ==
    /\ Len(f) >= Len(p)
    /\ \A i \in 1..Len(f) : f[i] = IF i <= Len(p) THEN p[i] ELSE "scan"

\* Where the driver may be.
Places ==
    {<<"drain", "read">>, <<"high", "read">>, <<"low", "read">>, <<"self_test", "read">>,
     <<"write0", "write">>, Done} \cup ((ControllerCommands \cup DeviceCommands) \X {"write", "read"})

Written(c) == at = <<c, "read">>

\* What is under way at each place while nothing has gone wrong.
Coming ==
    IF Written("reset_no_scan") THEN {<<"ack">>, <<"resend">>}
    ELSE IF Written("get_id") THEN {<<"ack", "id", "id">>, <<"resend">>}
    ELSE IF Written("reset") THEN {<<"ack", "device_test_passed">>, <<"resend">>}
    ELSE IF at = <<"high", "read">> THEN {<<"id", "id">>}
    ELSE IF at = <<"low", "read">> THEN {<<"id">>}
    ELSE IF at = <<"self_test", "read">> THEN {<<"device_test_passed">>}
    ELSE {<<>>}

\* Bytes of the ID that were given up on come later.
MayCome ==
    IF at = <<"low", "read">> THEN {<<"id">>, <<"id", "id">>}
    ELSE IF at = <<"reset", "write">> THEN {<<>>, <<"id">>, <<"id", "id">>}
    ELSE Coming

\* Another byte is ahead of the answer.
Missed == out # <<>> /\ Head(out) \in {"scan", "id", "config"}

Testing == at[1] \in ControllerCommands /\ at[2] = "read"
Starts  == {<<"drain", "read">>} \cup (ControllerCommands \X {"write", "read"})

Ps2Types ==
    /\ at \in Places /\ out \in Seq(Replies) /\ queue \in Seq(Replies)
    /\ tries \in Nat /\ resends \in Nat

\* What is under way.
PipeInv ==
    /\ Testing => /\ Begins(queue, <<>>)
                  /\ \E x \in {Exchange[at[1]].answer, "failed"} :
                       out \in {<<x>>, <<"scan", x>>} /\ (at[1] = "read0" => x # "failed")
    /\ \/ Testing \/ at = Done
       \/ at[1] \in DeviceCommands /\ Missed /\ Len(out) = 1
       \/ Len(out) <= 1 /\ \E p \in MayCome : Begins(Flight, p)

\* The keyboard that is reported valid.
FoundInv ==
    /\ at \in Starts \cup {Done} \/ cfg = "config" \/ (at[1] = "reset_no_scan" /\ out = <<"config">>)
    /\ at[1] \in {"self_test", "write0"} \/ (Written("reset") /\ ~Missed /\ Flight # <<>> /\ Head(Flight) = "ack")
         => scanning
    /\ at \notin {<<"write0", "write">>, Done} => type = "none"
    /\ at = <<"write0", "write">> => type = "valid"
    /\ at # Done => handled = "none"
    /\ at = Done => (type = "valid" => scanning /\ cfg = "config" /\ Begins(Flight, <<>>) /\ handled \in {"scan", "none"})

\* Nothing is typed or given up on.
Quiet == ~typed /\ ~late /\ resends <= 2

QuietInv ==
    Quiet =>
      /\ at \in ControllerCommands \X {"write"} => out = <<>> /\ queue = <<>>
      /\ Testing => out = <<Exchange[at[1]].answer>> /\ queue = <<>>
      /\ at \notin Starts \cup {Done} => Flight \in Coming
      /\ tries <= resends
      /\ at[1] \in DeviceCommands /\ at[2] = "read" /\ Flight = <<"resend">> => tries < resends
      /\ at = Done => type = "valid" /\ firstIrq

Ps2Inv == Ps2Types /\ PipeInv /\ FoundInv /\ QuietInv

\* What is read comes from what is under way; moving a byte into the buffer changes nothing.
LEMMA FlightFacts ==
  ASSUME out \in Seq(Replies), queue \in Seq(Replies)
  PROVE  /\ Flight \in Seq(Replies) /\ Len(Flight) = Len(out) + Len(queue)
         /\ out # <<>> => Flight # <<>> /\ Head(Flight) = Head(out) /\ Tail(Flight) = Tail(out) \o queue
         /\ out = <<>> => Flight = queue
         /\ queue # <<>> => <<Head(queue)>> \o Tail(queue) = queue
         /\ out \o Append(queue, "scan") = Append(Flight, "scan")
<1>1. Flight \in Seq(Replies) /\ Len(Flight) = Len(out) + Len(queue)
  BY DEF Flight
<1>2. ASSUME out # <<>> PROVE Flight # <<>> /\ Head(Flight) = Head(out) /\ Tail(Flight) = Tail(out) \o queue
  <2>1. Flight # <<>> /\ Head(Flight) = Head(out)
    BY <1>1, <1>2 DEF Flight
  <2>2. Tail(out) \in Seq(Replies) /\ Len(Tail(out)) = Len(out) - 1
        /\ \A i \in 1..(Len(out) - 1) : Tail(out)[i] = out[i + 1]
    BY <1>2
  <2>3. Tail(Flight) \in Seq(Replies) /\ Len(Tail(Flight)) = Len(Flight) - 1
        /\ \A i \in 1..(Len(Flight) - 1) : Tail(Flight)[i] = Flight[i + 1]
    BY <1>1, <2>1
  <2>4. Tail(out) \o queue \in Seq(Replies) /\ Len(Tail(out) \o queue) = Len(Flight) - 1
    BY <1>1, <2>2
  <2>5. \A i \in 1..(Len(Flight) - 1) : Tail(Flight)[i] = (Tail(out) \o queue)[i]
    <3> TAKE i \in 1..(Len(Flight) - 1)
    <3>1. CASE i <= Len(out) - 1
      <4>1. (Tail(out) \o queue)[i] = out[i + 1]
        BY <1>1, <2>2, <3>1
      <4>2. Flight[i + 1] = out[i + 1]
        BY <1>1, <3>1 DEF Flight
      <4> QED BY <2>3, <4>1, <4>2
    <3>2. CASE i > Len(out) - 1
      <4>1. (Tail(out) \o queue)[i] = queue[i - (Len(out) - 1)]
        <5> DEFINE t == Tail(out)
        <5>1. t \in Seq(Replies) /\ Len(t) = Len(out) - 1 /\ i \in 1..(Len(t) + Len(queue)) /\ i > Len(t)
          BY <1>1, <2>2, <3>2
        <5> HIDE DEF t
        <5>2. (t \o queue)[i] = queue[i - Len(t)]
          BY <1>1, <5>1, ConcatProperties
        <5> QED BY <5>1, <5>2 DEF t
      <4>2. Flight[i + 1] = queue[i + 1 - Len(out)]
        BY <1>1, <3>2 DEF Flight
      <4> QED BY <1>1, <2>3, <4>1, <4>2
    <3> QED BY <1>1, <3>1, <3>2
  <2> QED BY <2>1, <2>3, <2>4, <2>5, SeqEqual
<1>3. queue # <<>> => <<Head(queue)>> \o Tail(queue) = queue
  BY HeadTailProperties
<1>4. out \o Append(queue, "scan") = Append(Flight, "scan")
  BY DEF Flight, Replies
<1>5. out = <<>> => Flight = queue
  BY DEF Flight
<1> QED BY <1>1, <1>2, <1>3, <1>4, <1>5

\* The bytes are read one by one, and after them keys.
LEMMA BeginsTail ==
  ASSUME NEW f \in Seq(Replies), NEW p \in Seq(Replies), Begins(f, p)
  PROVE  /\ p # <<>> => f # <<>> /\ Head(f) = Head(p) /\ Begins(Tail(f), Tail(p))
         /\ p = <<>> /\ f # <<>> => Head(f) = "scan" /\ Begins(Tail(f), <<>>)
<1>1. ASSUME p # <<>> PROVE f # <<>> /\ Head(f) = Head(p) /\ Begins(Tail(f), Tail(p))
  <2>1. Len(p) >= 1 /\ Len(f) >= Len(p) /\ f # <<>>
    BY <1>1 DEF Begins
  <2>2. f[1] = p[1]
    BY <2>1 DEF Begins
  <2>3. Len(Tail(f)) = Len(f) - 1 /\ Len(Tail(p)) = Len(p) - 1
        /\ (\A i \in 1..(Len(f) - 1) : Tail(f)[i] = f[i + 1]) /\ (\A i \in 1..(Len(p) - 1) : Tail(p)[i] = p[i + 1])
    BY <1>1, <2>1
  <2>4. \A i \in 1..(Len(f) - 1) : f[i + 1] = IF i + 1 <= Len(p) THEN p[i + 1] ELSE "scan"
    BY <2>1 DEF Begins
  <2>5. \A i \in 1..Len(Tail(f)) : Tail(f)[i] = IF i <= Len(Tail(p)) THEN Tail(p)[i] ELSE "scan"
    BY <2>1, <2>3, <2>4
  <2> QED BY <1>1, <2>1, <2>2, <2>3, <2>5 DEF Begins
<1>2. ASSUME p = <<>>, f # <<>> PROVE Head(f) = "scan" /\ Begins(Tail(f), <<>>)
  <2>1. \A i \in 1..Len(f) : f[i] = "scan"
    BY <1>2 DEF Begins
  <2>2. Len(f) >= 1 /\ Len(Tail(f)) = Len(f) - 1 /\ \A i \in 1..(Len(f) - 1) : Tail(f)[i] = f[i + 1]
    BY <1>2
  <2> QED BY <1>2, <2>1, <2>2 DEF Begins
<1> QED BY <1>1, <1>2

\* Another key comes at the end.
LEMMA BeginsAppend ==
  ASSUME NEW f \in Seq(Replies), NEW p \in Seq(Replies), Begins(f, p)
  PROVE  Begins(Append(f, "scan"), p)
<1>1. Len(Append(f, "scan")) = Len(f) + 1 /\ \A i \in 1..(Len(f) + 1) : Append(f, "scan")[i] = IF i <= Len(f) THEN f[i] ELSE "scan"
  OBVIOUS
<1> QED BY <1>1 DEF Begins

\* The answers themselves.
LEMMA BeginsItself ==
  ASSUME NEW p \in Seq(Replies)
  PROVE  Begins(p, p)
BY DEF Begins

\* The sequences that come.
LEMMA Sequences ==
  /\ \A a : <<a>> # <<>> /\ Head(<<a>>) = a /\ Tail(<<a>>) = <<>> /\ Len(<<a>>) = 1
  /\ \A a, b : <<a, b>> # <<>> /\ Head(<<a, b>>) = a /\ Tail(<<a, b>>) = <<b>> /\ Len(<<a, b>>) = 2
  /\ \A a, b, c : <<a, b, c>> # <<>> /\ Head(<<a, b, c>>) = a /\ Tail(<<a, b, c>>) = <<b, c>>
  /\ \A a, b \in Replies : Append(<<>>, a) = <<a>> /\ Append(<<a>>, b) = <<a, b>>
<1>1. /\ \A a : <<a>> # <<>> /\ Head(<<a>>) = a /\ Tail(<<a>>) = <<>> /\ Len(<<a>>) = 1
      /\ \A a, b : <<a, b>> # <<>> /\ Head(<<a, b>>) = a /\ Tail(<<a, b>>) = <<b>> /\ Len(<<a, b>>) = 2
      /\ \A a, b, c : <<a, b, c>> # <<>> /\ Head(<<a, b, c>>) = a /\ Tail(<<a, b, c>>) = <<b, c>>
  OBVIOUS
<1>2. ASSUME NEW a \in Replies PROVE Append(<<>>, a) = <<a>>
  OBVIOUS
<1>3. ASSUME NEW a \in Replies, NEW b \in Replies PROVE Append(<<a>>, b) = <<a, b>>
  <2> DEFINE u == Append(<<a>>, b)
             w == <<a, b>>
  <2>1. u \in Seq(Replies) /\ Len(u) = 2 /\ u[1] = a /\ u[2] = b
    <3> HIDE DEF Replies
    <3>1. <<a>> \in Seq(Replies) /\ Len(<<a>>) = 1 /\ <<a>>[1] = a
      OBVIOUS
    <3> QED BY <3>1, AppendProperties
  <2>2. w \in Seq(Replies) /\ Len(w) = 2 /\ w[1] = a /\ w[2] = b
    OBVIOUS
  <2> HIDE DEF u, w
  <2>3. u = w
    BY <2>1, <2>2, SeqEqual
  <2> QED BY <2>3 DEF u, w
<1> QED BY <1>1, <1>2, <1>3

\* A buffer of one byte.
LEMMA OneByte ==
  ASSUME NEW s \in Seq(Replies), s # <<>>, Len(s) <= 1
  PROVE  Len(s) = 1 /\ s = <<Head(s)>> /\ Tail(s) = <<>>
<1>1. Len(s) = 1
  BY EmptySeq
<1>2. Tail(s) \in Seq(Replies) /\ Len(Tail(s)) = 0
  BY <1>1
<1>3. s = <<s[1]>>
  BY <1>1
<1>4. Head(s) = s[1]
  OBVIOUS
<1>5. Tail(s) = <<>>
  BY <1>2, EmptySeq
<1>6. s = <<Head(s)>>
  BY <1>3, <1>4
<1> QED BY <1>1, <1>5, <1>6

\* All of it is made of replies.
LEMMA Comings ==
  /\ Coming \subseteq Seq(Replies) /\ MayCome \subseteq Seq(Replies)
<1>1. \A a, b, c \in Replies : <<a>> \in Seq(Replies) /\ <<a, b>> \in Seq(Replies) /\ <<a, b, c>> \in Seq(Replies)
  OBVIOUS
<1>2. {"ack", "resend", "id", "device_test_passed"} \subseteq Replies
  BY DEF Replies
<1>3. <<>> \in Seq(Replies)
  OBVIOUS
<1> HIDE DEF Replies
<1>4. {<<"ack">>, <<"resend">>, <<"ack", "id", "id">>, <<"ack", "device_test_passed">>, <<"id", "id">>, <<"id">>,
        <<"device_test_passed">>, <<>>} \subseteq Seq(Replies)
  BY <1>1, <1>2, <1>3
<1> QED BY <1>4 DEF Coming, MayCome

\* A read takes the first byte under way, or gives up when the buffer is empty.
LEMMA ReadFacts ==
  ASSUME out \in Seq(Replies), queue \in Seq(Replies), Len(out) <= 1, UNCHANGED queue,
         NEW p \in Seq(Replies), Begins(Flight, p), NEW reply \in Replies, Read(reply)
  PROVE  /\ out' \in Seq(Replies) /\ Len(out') <= 1
         /\ \/ reply = "invalid" /\ out = <<>> /\ out' = out /\ Flight' = Flight
            \/ out # <<>> /\ out' = <<>> /\ p # <<>> /\ reply = Head(p) /\ Begins(Flight', Tail(p))
            \/ out # <<>> /\ out' = <<>> /\ p = <<>> /\ reply = "scan" /\ Begins(Flight', <<>>)
<1>1. CASE out = <<>>
  <2>1. reply = "invalid" /\ out' = out
    BY <1>1 DEF Read
  <2> QED BY <1>1, <2>1 DEF Flight
<1>2. CASE out # <<>>
  <2>1. reply = Head(out) /\ out' = Tail(out)
    BY <1>2 DEF Read
  <2>2. Len(out) = 1 /\ out' = <<>>
    BY <1>2, <2>1, OneByte
  <2>3. Flight \in Seq(Replies) /\ Flight # <<>> /\ reply = Head(Flight) /\ Flight' = Tail(Flight)
    BY <1>2, <2>1, FlightFacts DEF Flight
  <2>4. \/ p # <<>> /\ reply = Head(p) /\ Begins(Flight', Tail(p))
        \/ p = <<>> /\ reply = "scan" /\ Begins(Flight', <<>>)
    BY <2>3, BeginsTail
  <2> QED BY <1>2, <2>2, <2>4
<1> QED BY <1>1, <1>2

\* A read that does not give up on a byte takes it.
LEMMA QuietRead ==
  ASSUME out \in Seq(Replies), queue \in Seq(Replies), UNCHANGED queue, Flight # <<>>,
         NEW reply \in Replies, Read(reply), ~late'
  PROVE  out # <<>> /\ reply = Head(Flight) /\ Flight' = Tail(Flight)
<1>1. out # <<>>
  BY FlightFacts DEF Read
<1>2. reply = Head(out) /\ out' = Tail(out)
  BY <1>1 DEF Read
<1> QED BY <1>1, <1>2, FlightFacts DEF Flight

\* A byte is ahead of what comes, or it is the first of what comes.
LEMMA MissedOrNot ==
  ASSUME out \in Seq(Replies), queue \in Seq(Replies)
  PROVE  Missed <=> out # <<>> /\ Flight # <<>> /\ Head(Flight) \in {"scan", "id", "config"}
BY FlightFacts DEF Missed

\* A key is pressed.
LEMMA PressKeyKeeps ==
  ASSUME Ps2Inv, PressKey
  PROVE  Ps2Inv'
<1>1. /\ UNCHANGED <<at, tries, type, cfg, firstIrq, out, scanning, resends, handled, late>>
      /\ queue' = Append(queue, "scan") /\ scanning /\ typed' = (typed \/ at # Done)
  BY DEF PressKey, driver
<1>2. out \in Seq(Replies) /\ queue \in Seq(Replies)
  BY DEF Ps2Inv, Ps2Types
<1>3. Flight' = Append(Flight, "scan") /\ Flight \in Seq(Replies) /\ queue' \in Seq(Replies)
  BY <1>1, <1>2, FlightFacts DEF Flight, Replies
<1>4. (Testing' <=> Testing) /\ MayCome' = MayCome /\ (Missed' <=> Missed)
  BY <1>1 DEF Testing, MayCome, Coming, Written, Missed
<1> DEFINE none == <<>>
<1>a. none \in Seq(Replies)
  OBVIOUS
<1>5. \A p \in MayCome \cup {none} : Begins(Flight, p) => Begins(Flight', p)
  <2> HIDE DEF none
  <2> QED BY <1>3, <1>a, BeginsAppend, Comings
<1>6. Begins(queue, none) => Begins(queue', none)
  <2> HIDE DEF none
  <2> QED BY <1>1, <1>2, <1>a, BeginsAppend
<1>7. Ps2Types'
  BY <1>1, <1>3 DEF Ps2Inv, Ps2Types
<1>8. PipeInv'
  BY <1>1, <1>4, <1>5, <1>6 DEF Ps2Inv, PipeInv
<1>9. FoundInv'
  BY <1>1, <1>5 DEF Ps2Inv, FoundInv
<1>10. QuietInv'
  <2> SUFFICES ASSUME Quiet' PROVE QuietInv'
    BY DEF QuietInv
  <2>1. Quiet /\ at = Done
    BY <1>1 DEF Quiet
  <2> QED BY <1>1, <2>1 DEF Ps2Inv, QuietInv, Done, Testing, ControllerCommands, DeviceCommands
<1> QED BY <1>7, <1>8, <1>9, <1>10 DEF Ps2Inv

\* A byte gets from the keyboard to the controller.
LEMMA TransferKeeps ==
  ASSUME Ps2Inv, Transfer
  PROVE  Ps2Inv'
<1>1. /\ UNCHANGED <<at, tries, type, cfg, firstIrq, scanning, resends, handled, typed, late>>
      /\ out = <<>> /\ queue # <<>> /\ out' = <<Head(queue)>> /\ queue' = Tail(queue)
  BY DEF Transfer, driver
<1>2. out \in Seq(Replies) /\ queue \in Seq(Replies)
  BY DEF Ps2Inv, Ps2Types
<1>3. Flight' = Flight /\ out' \in Seq(Replies) /\ queue' \in Seq(Replies) /\ Len(out') = 1
  BY <1>1, <1>2, FlightFacts DEF Flight
<1>4. MayCome' = MayCome /\ Coming' = Coming /\ ~Missed /\ out # <<"config">> /\ ~Testing
  <2>1. \A x, y : <<x>> # <<>> /\ <<x, y>> # <<>>
    OBVIOUS
  <2> QED BY <1>1, <2>1 DEF Testing, MayCome, Coming, Written, Missed, Ps2Inv, PipeInv
<1>5. Ps2Types'
  BY <1>1, <1>3 DEF Ps2Inv, Ps2Types
<1>6. PipeInv'
  BY <1>1, <1>3, <1>4 DEF Ps2Inv, PipeInv, Testing
<1>7. FoundInv'
  BY <1>1, <1>3, <1>4 DEF Ps2Inv, FoundInv, Written
<1>8. QuietInv'
  <2>1. Quiet => ~(at \in ControllerCommands \X {"write"})
    BY <1>1 DEF Ps2Inv, QuietInv
  <2> QED BY <1>1, <1>3, <1>4, <2>1 DEF Ps2Inv, QuietInv, Quiet, Testing
<1> QED BY <1>5, <1>6, <1>7, <1>8 DEF Ps2Inv

\* What comes at each place.
ComingOK ==
    /\ at \in Starts \cup (DeviceCommands \X {"write"}) \cup {<<"write0", "write">>} => Coming = {<<>>}
    /\ at \in Starts \cup {<<"reset_no_scan", "write">>, <<"get_id", "write">>, <<"write0", "write">>} => MayCome = {<<>>}
    /\ at = <<"reset", "write">> => MayCome = {<<>>, <<"id">>, <<"id", "id">>}
    /\ at = <<"reset_no_scan", "read">> => Coming = {<<"ack">>, <<"resend">>} /\ MayCome = Coming
    /\ at = <<"get_id", "read">> => Coming = {<<"ack", "id", "id">>, <<"resend">>} /\ MayCome = Coming
    /\ at = <<"reset", "read">> => Coming = {<<"ack", "device_test_passed">>, <<"resend">>} /\ MayCome = Coming
    /\ at = <<"high", "read">> => Coming = {<<"id", "id">>} /\ MayCome = Coming
    /\ at = <<"low", "read">> => Coming = {<<"id">>} /\ MayCome = {<<"id">>, <<"id", "id">>}
    /\ at = <<"self_test", "read">> => Coming = {<<"device_test_passed">>} /\ MayCome = Coming
    /\ Testing <=> at \in ControllerCommands \X {"read"}

ComingIsKnown == at \in Places => ComingOK

\* Place by place.
LEMMA ComingIs == ComingIsKnown
<1> SUFFICES ASSUME at \in Places PROVE ComingOK
  BY DEF ComingIsKnown
<1>1. at \in Starts \cup (DeviceCommands \X {"write"}) \cup {<<"write0", "write">>} => Coming = {<<>>}
  BY DEF Coming, Written, Starts, ControllerCommands, DeviceCommands
<1>2. at \in Starts \cup {<<"reset_no_scan", "write">>, <<"get_id", "write">>, <<"write0", "write">>} => MayCome = {<<>>}
  BY DEF MayCome, Coming, Written, Starts, ControllerCommands, DeviceCommands
<1>3. Testing <=> at \in ControllerCommands \X {"read"}
  BY DEF Testing, Places, Done, ControllerCommands, DeviceCommands
<1> QED BY <1>1, <1>2, <1>3 DEF ComingOK, MayCome, Coming, Written

\* The driver waits until nothing comes.
LEMMA DrainKeeps ==
  ASSUME Ps2Inv, Drain, ComingOK, ComingOK'
  PROVE  Ps2Inv'
<1>1. PICK reply \in Replies : Read(reply) /\ at' = IF reply = "invalid" THEN <<"test_controller", "write">> ELSE at
  BY DEF Drain
<1>2. at = <<"drain", "read">> /\ UNCHANGED <<tries, type, cfg, firstIrq, queue, scanning, resends, handled, typed>>
  BY DEF Drain, Quietly, keyboard
<1>3. /\ at \in Starts /\ at' \in Starts /\ at' \in Places /\ at # Done /\ at' # Done
      /\ at' # <<"write0", "write">> /\ at # <<"write0", "write">>
      /\ at[1] \notin ControllerCommands \cup DeviceCommands /\ at'[1] \notin {"self_test", "write0"} \cup DeviceCommands
      /\ at' \notin ControllerCommands \X {"read"} /\ at \notin ControllerCommands \X {"read"}
  BY <1>1, <1>2 DEF Starts, ControllerCommands, DeviceCommands, Places, Done
<1>4. MayCome = {<<>>} /\ MayCome' = {<<>>} /\ ~Testing /\ ~Testing'
  BY <1>3 DEF ComingOK
<1>5. Len(out) <= 1 /\ Begins(Flight, <<>>)
  BY <1>3, <1>4 DEF Ps2Inv, PipeInv
<1>6. out' \in Seq(Replies) /\ Len(out') <= 1 /\ Begins(Flight', <<>>)
      /\ (reply = "invalid" => out = <<>> /\ out' = <<>>)
  <2> DEFINE none == <<>>
  <2>1. none \in Seq(Replies) /\ none = <<>>
    OBVIOUS
  <2>2. Begins(Flight, none)
    BY <1>5
  <2> HIDE DEF none
  <2>3. /\ out' \in Seq(Replies) /\ Len(out') <= 1
        /\ \/ reply = "invalid" /\ out = <<>> /\ out' = out /\ Flight' = Flight
           \/ out # <<>> /\ out' = <<>> /\ reply = "scan" /\ Begins(Flight', <<>>)
    BY <1>1, <1>2, <1>5, <2>1, <2>2, ReadFacts DEF Ps2Inv, Ps2Types
  <2> QED BY <1>5, <2>3
<1>7. Ps2Types'
  BY <1>2, <1>3, <1>6 DEF Ps2Inv, Ps2Types
<1>8. PipeInv'
  BY <1>4, <1>6 DEF PipeInv
<1>9. FoundInv'
  BY <1>2, <1>3 DEF Ps2Inv, FoundInv, Written, DeviceCommands
<1>10. QuietInv'
  <2> SUFFICES ASSUME Quiet' PROVE QuietInv'
    BY DEF QuietInv
  <2>1. reply = "invalid" => queue = <<>>
    BY <1>1, <1>6 DEF Read, Quiet
  <2>2. at' \in ControllerCommands \X {"write"} => reply = "invalid"
    BY <1>1, <1>3
  <2>3. tries' <= resends'
    BY <1>1, <1>2 DEF Ps2Inv, QuietInv, Quiet, Read
  <2> QED BY <1>2, <1>3, <1>4, <1>6, <2>1, <2>2, <2>3 DEF QuietInv
<1> QED BY <1>7, <1>8, <1>9, <1>10 DEF Ps2Inv

\* A command to the controller, which answers behind what is in its buffer.
LEMMA WriteControllerKeeps ==
  ASSUME Ps2Inv, WriteController, ComingOK, ComingOK'
  PROVE  Ps2Inv'
<1>1. PICK c \in ControllerCommands : at = <<c, "write">> /\ at' = <<c, "read">>
  BY DEF WriteController, Ps2Inv, Ps2Types, Places, Done, ControllerCommands, DeviceCommands
<1>2. UNCHANGED <<tries, type, cfg, firstIrq, queue, scanning, resends, handled, typed>>
  BY DEF WriteController, Quietly, keyboard
<1>3. PICK x \in {Exchange[c].answer, "failed"} :
        out' = Append(out, x) /\ (x = "failed" => c # "read0") /\ (x # Exchange[c].answer => late')
        /\ (late' \/ late' = late)
  <2>1. at[1] = c
    BY <1>1
  <2>2. CASE out' = Append(out, Exchange[at[1]].answer) /\ UNCHANGED late
    <3>1. Exchange[c].answer # "failed"
      BY DEF Exchange, ControllerCommands
    <3> QED BY <2>1, <2>2, <3>1
  <2>3. CASE at[1] # "read0" /\ out' = Append(out, "failed") /\ late' = TRUE
    BY <2>1, <2>3
  <2> QED BY <2>2, <2>3 DEF WriteController
<1>4. /\ at \in Starts /\ at' \in Starts /\ at' \in Places /\ at # Done /\ at' # Done
      /\ at' # <<"write0", "write">> /\ at # <<"write0", "write">>
      /\ at'[1] \notin {"self_test", "write0"} \cup DeviceCommands /\ at[1] \notin DeviceCommands
      /\ at' \in ControllerCommands \X {"read"} /\ at \notin ControllerCommands \X {"read"} /\ at'[1] = c
      /\ at' \notin ControllerCommands \X {"write"} /\ at \in ControllerCommands \X {"write"}
  BY <1>1 DEF Starts, ControllerCommands, DeviceCommands, Places, Done
<1>5. MayCome = {<<>>} /\ ~Testing /\ Testing' /\ Len(out) <= 1 /\ Begins(Flight, <<>>)
  BY <1>4 DEF ComingOK, Ps2Inv, PipeInv
<1>6. x \in Replies /\ out' \in Seq(Replies)
  <2>1. x \in Replies
    BY DEF ControllerCommands, Exchange, Replies
  <2> QED BY <1>3, <2>1 DEF Ps2Inv, Ps2Types
<1>7. out \in {<<>>, <<"scan">>} /\ Begins(queue, <<>>)
  <2>1. CASE out = <<>>
    BY <1>5, <2>1, FlightFacts DEF Ps2Inv, Ps2Types
  <2>2. CASE out # <<>>
    <3> DEFINE none == <<>>
    <3>1. none \in Seq(Replies) /\ none = <<>> /\ Begins(Flight, none)
      BY <1>5
    <3> HIDE DEF none
    <3>2. Head(Flight) = Head(out) /\ Tail(Flight) = Tail(out) \o queue /\ Flight \in Seq(Replies) /\ Flight # <<>>
      BY <2>2, FlightFacts DEF Ps2Inv, Ps2Types
    <3>3. Head(Flight) = "scan" /\ Begins(Tail(Flight), <<>>)
      BY <3>1, <3>2, BeginsTail
    <3>4. out = <<Head(out)>> /\ Tail(out) = <<>>
      BY <1>5, <2>2, OneByte DEF Ps2Inv, Ps2Types
    <3>5. out = <<"scan">>
      BY <3>2, <3>3, <3>4
    <3>6. <<>> \o queue = queue
      BY DEF Ps2Inv, Ps2Types
    <3> QED BY <3>2, <3>3, <3>4, <3>5, <3>6
  <2> QED BY <2>1, <2>2
<1>8. out' \in {<<x>>, <<"scan", x>>} /\ (out = <<>> => out' = <<x>>)
  <2>1. "scan" \in Replies /\ x \in Replies
    BY <1>6 DEF Replies
  <2> HIDE DEF Replies
  <2> QED BY <1>3, <1>7, <2>1, Sequences
<1>9. Ps2Types'
  BY <1>2, <1>4, <1>6 DEF Ps2Inv, Ps2Types
<1>10. PipeInv'
  BY <1>2, <1>3, <1>4, <1>5, <1>7, <1>8 DEF PipeInv
<1>11. FoundInv'
  BY <1>2, <1>4 DEF Ps2Inv, FoundInv, Written, DeviceCommands
<1>12. QuietInv'
  <2> SUFFICES ASSUME Quiet' PROVE QuietInv'
    BY DEF QuietInv
  <2>1. Quiet /\ x = Exchange[c].answer
    BY <1>2, <1>3 DEF Quiet
  <2>2. out = <<>> /\ queue = <<>>
    BY <1>4, <2>1 DEF Ps2Inv, QuietInv
  <2>3. tries' <= resends'
    BY <1>2, <2>1 DEF Ps2Inv, QuietInv
  <2> QED BY <1>2, <1>4, <1>5, <1>8, <2>1, <2>2, <2>3 DEF QuietInv
<1> QED BY <1>9, <1>10, <1>11, <1>12 DEF Ps2Inv

\* The controller's answer, if no key is ahead of it.
LEMMA ReadControllerKeeps ==
  ASSUME Ps2Inv, ReadController, ComingOK, ComingOK'
  PROVE  Ps2Inv'
<1>1. PICK c \in ControllerCommands : at = <<c, "read">>
  BY DEF ReadController, Ps2Inv, Ps2Types, Places, Done, ControllerCommands, DeviceCommands
<1>2. PICK reply \in Replies :
        /\ Read(reply)
        /\ at' = IF Accepted(c, reply) THEN <<Exchange[c].next, "write">> ELSE Done
        /\ cfg' = IF c = "read0" THEN reply ELSE cfg
  BY <1>1 DEF ReadController
<1>3. UNCHANGED <<tries, type, firstIrq, queue, scanning, resends, handled, typed>>
  BY DEF ReadController, Quietly, keyboard
<1>4. /\ at \in Starts /\ at # Done /\ at # <<"write0", "write">>
      /\ at \in ControllerCommands \X {"read"} /\ at[1] = c
  BY <1>1 DEF Starts, ControllerCommands, DeviceCommands, Places, Done
<1>5. Testing
  BY <1>4 DEF ComingOK
<1>6. PICK x \in {Exchange[c].answer, "failed"} :
        out \in {<<x>>, <<"scan", x>>} /\ (c = "read0" => x # "failed")
  BY <1>4, <1>5 DEF Ps2Inv, PipeInv
<1>7. reply = Head(out) /\ out' = Tail(out) /\ UNCHANGED late /\ out # <<>>
  BY <1>2, <1>6, Sequences DEF Read
<1>8. out' \in Seq(Replies) /\ queue' \in Seq(Replies)
  BY <1>3, <1>7 DEF Ps2Inv, Ps2Types
<1>9. \/ out = <<x>> /\ reply = x /\ out' = <<>>
      \/ out = <<"scan", x>> /\ reply = "scan" /\ out' = <<x>>
  <2>1. CASE out = <<x>>
    BY <1>7, <2>1, Sequences
  <2>2. CASE out = <<"scan", x>>
    BY <1>7, <2>2, Sequences
  <2> QED BY <1>6, <2>1, <2>2
<1>10. /\ Exchange["test_controller"].answer = "controller_test_passed" /\ Exchange["test_controller"].next = "test_port1"
       /\ Exchange["test_port1"].answer = "port_test_passed" /\ Exchange["test_port1"].next = "read0"
       /\ Exchange["read0"].answer = "config" /\ Exchange["read0"].next = "reset_no_scan"
  BY DEF Exchange
<1>11. CASE ~Accepted(c, reply)
  <2>1. at' = Done /\ ~(at' \in Starts) /\ Done[1] \notin {"self_test", "write0"} \cup DeviceCommands
        /\ at' \notin ControllerCommands \X {"write"} /\ Done # <<"write0", "write">> /\ at' \in Places
    BY <1>2, <1>11 DEF Done, Starts, ControllerCommands, DeviceCommands, Places
  <2>2. ~Testing'
    BY <2>1 DEF ComingOK, Done, ControllerCommands
  <2>3. type = "none"
    BY <1>4 DEF Ps2Inv, FoundInv
  <2>4. ~Quiet'
    <3> SUFFICES ASSUME Quiet' PROVE FALSE
      OBVIOUS
    <3>1. out = <<Exchange[c].answer>>
      BY <1>3, <1>4, <1>5, <1>7 DEF Ps2Inv, QuietInv, Quiet
    <3>2. reply = Exchange[c].answer
      BY <1>7, <3>1
    <3> QED BY <1>11, <3>2 DEF Accepted
  <2>5. Ps2Types' /\ PipeInv'
    BY <1>3, <1>8, <2>1, <2>2 DEF Ps2Inv, Ps2Types, PipeInv
  <2>6. FoundInv'
    BY <1>3, <2>1, <2>3 DEF Ps2Inv, FoundInv, Written, DeviceCommands
  <2> QED BY <2>4, <2>5, <2>6 DEF Ps2Inv, QuietInv
<1>12. CASE Accepted(c, reply)
  <2>1. /\ at' \in (ControllerCommands \X {"write"}) \cup {<<"reset_no_scan", "write">>} /\ at' \in Places /\ at' # Done
        /\ at' # <<"write0", "write">> /\ at'[1] \notin {"self_test", "write0", "reset"} /\ at'[2] = "write"
        /\ at' \notin ControllerCommands \X {"read"} /\ (at' = <<"reset_no_scan", "write">> <=> c = "read0")
        /\ (c # "read0" => at' \in Starts) /\ (c = "read0" => at' \notin Starts \cup {Done} /\ at'[1] \in DeviceCommands)
    BY <1>2, <1>10, <1>12 DEF Done, Starts, ControllerCommands, DeviceCommands, Places
  <2>2. ~Testing' /\ MayCome' = {<<>>} /\ Coming' = {<<>>}
    BY <2>1 DEF ComingOK, Starts, DeviceCommands
  <2>3. CASE out = <<x>> /\ reply = x /\ out' = <<>>
    <3>1. Begins(queue, <<>>) /\ Flight' = queue /\ Len(out') = 0
      <4>1. <<>> \o queue = queue
        BY DEF Ps2Inv, Ps2Types
      <4> QED BY <1>3, <1>5, <2>3, <4>1 DEF Ps2Inv, PipeInv, Flight
    <3>2. c = "read0" => cfg' = "config"
      BY <1>2, <1>6, <1>10, <2>3
    <3>3. Ps2Types' /\ PipeInv'
      BY <1>3, <1>8, <2>1, <2>2, <3>1 DEF Ps2Inv, Ps2Types, PipeInv
    <3>4. FoundInv'
      BY <1>3, <1>4, <2>1, <3>2 DEF Ps2Inv, FoundInv, Written
    <3>5. Quiet' => Quiet /\ queue = <<>> /\ tries' <= resends'
      BY <1>3, <1>4, <1>5, <1>7 DEF Ps2Inv, QuietInv, Quiet
    <3>6. QuietInv'
      BY <1>3, <2>1, <2>2, <2>3, <3>1, <3>5 DEF QuietInv
    <3> QED BY <3>3, <3>4, <3>6 DEF Ps2Inv
  <2>4. CASE out = <<"scan", x>> /\ reply = "scan" /\ out' = <<x>>
    <3>1. c = "read0" /\ x = "config"
      BY <1>6, <1>10, <1>12, <2>4 DEF Accepted, ControllerCommands
    <3>2. Missed' /\ Len(out') = 1 /\ out' = <<"config">>
      BY <2>4, <3>1 DEF Missed
    <3>3. Ps2Types' /\ PipeInv'
      BY <1>3, <1>8, <2>1, <2>2, <3>1, <3>2 DEF Ps2Inv, Ps2Types, PipeInv
    <3>4. FoundInv'
      BY <1>3, <1>4, <2>1, <3>1, <3>2 DEF Ps2Inv, FoundInv, Written
    <3>5. ~Quiet'
      <4> SUFFICES ASSUME Quiet' PROVE FALSE
        OBVIOUS
      <4>1. out = <<Exchange[c].answer>>
        BY <1>3, <1>4, <1>5, <1>7 DEF Ps2Inv, QuietInv, Quiet
      <4> QED BY <2>4, <4>1
    <3> QED BY <3>3, <3>4, <3>5 DEF Ps2Inv, QuietInv
  <2> QED BY <1>9, <2>3, <2>4
<1> QED BY <1>11, <1>12

\* What the keyboard answers.
LEMMA Answers ==
  /\ Answer["reset_no_scan"] = <<"ack">> /\ Answer["get_id"] = <<"ack", "id", "id">>
  /\ Answer["reset"] = <<"ack", "device_test_passed">>
  /\ \A c \in DeviceCommands :
       /\ Answer[c] \in Seq(Replies) /\ Answer[c] # <<"resend">> /\ <<"resend">> \in Seq(Replies)
       /\ Answer[c] # <<>> /\ Head(Answer[c]) = "ack"
<1>1. Answer["reset_no_scan"] = <<"ack">> /\ Answer["get_id"] = <<"ack", "id", "id">>
      /\ Answer["reset"] = <<"ack", "device_test_passed">>
  BY DEF Answer
<1>2. <<"ack">> # <<"resend">> /\ <<"ack", "id", "id">> # <<"resend">> /\ <<"ack", "device_test_passed">> # <<"resend">>
  OBVIOUS
<1>3. "ack" \in Replies /\ "id" \in Replies /\ "device_test_passed" \in Replies /\ "resend" \in Replies
  BY DEF Replies
<1>4. <<"ack">> \in Seq(Replies) /\ <<"ack", "id", "id">> \in Seq(Replies)
      /\ <<"ack", "device_test_passed">> \in Seq(Replies) /\ <<"resend">> \in Seq(Replies)
  <2> HIDE DEF Replies
  <2> QED BY <1>3
<1>5. /\ <<"ack">> # <<>> /\ Head(<<"ack">>) = "ack" /\ <<"ack", "id", "id">> # <<>>
      /\ Head(<<"ack", "id", "id">>) = "ack" /\ <<"ack", "device_test_passed">> # <<>>
      /\ Head(<<"ack", "device_test_passed">>) = "ack"
  BY Sequences
<1> QED BY <1>1, <1>2, <1>4, <1>5 DEF DeviceCommands

\* A command to the keyboard: the answer is next, unless there is a byte in the controller's buffer.
LEMMA WriteDeviceKeeps ==
  ASSUME Ps2Inv, WriteDevice, ComingOK, ComingOK'
  PROVE  Ps2Inv'
<1>1. PICK c \in DeviceCommands : at = <<c, "write">> /\ at' = <<c, "read">>
  BY DEF WriteDevice, Ps2Inv, Ps2Types, Places, Done, ControllerCommands, DeviceCommands
<1>2. UNCHANGED <<tries, type, cfg, firstIrq, out, handled, typed, late>>
  BY DEF WriteDevice
<1>3. \/ queue' = Answer[c] /\ resends' = resends /\ (c = "reset" => scanning')
      \/ queue' = <<"resend">> /\ resends' = resends + 1
  <2>1. Obey(c)
    BY <1>1 DEF WriteDevice
  <2> QED BY <2>1 DEF Obey
<1>4. /\ at \notin Starts /\ at' \notin Starts /\ at' \in Places /\ at # Done /\ at' # Done
      /\ at' # <<"write0", "write">> /\ at # <<"write0", "write">> /\ at[1] = c /\ at'[1] = c /\ at'[2] = "read"
      /\ c \notin {"self_test", "write0"} /\ at' \notin ControllerCommands \X {"write", "read"}
      /\ at \notin ControllerCommands \X {"read"} /\ at \in DeviceCommands \X {"write"}
  BY <1>1 DEF Starts, ControllerCommands, DeviceCommands, Places, Done
<1>5. Coming = {<<>>} /\ ~Testing /\ ~Testing' /\ Coming' = {Answer[c], <<"resend">>} /\ MayCome' = Coming'
      /\ MayCome \subseteq {<<>>, <<"id">>, <<"id", "id">>}
  <2>1. Coming = {<<>>} /\ ~Testing /\ ~Testing'
    BY <1>4 DEF ComingOK
  <2>2. Coming' = {Answer[c], <<"resend">>} /\ MayCome' = Coming'
    BY <1>1, Answers DEF ComingOK, DeviceCommands
  <2>3. MayCome \subseteq {<<>>, <<"id">>, <<"id", "id">>}
    BY <1>1 DEF ComingOK, DeviceCommands
  <2> QED BY <2>1, <2>2, <2>3
<1>6. queue' \in Coming' /\ queue' \in Seq(Replies) /\ resends' \in Nat /\ resends' >= resends
      /\ (queue' = <<"resend">> => resends' = resends + 1)
  <2>1. resends \in Nat
    BY DEF Ps2Inv, Ps2Types
  <2>2. CASE queue' = Answer[c] /\ resends' = resends
    BY <1>5, <2>1, <2>2, Answers
  <2>3. CASE queue' = <<"resend">> /\ resends' = resends + 1
    BY <1>5, <2>1, <2>3, Answers
  <2> QED BY <1>3, <2>2, <2>3
<1>7. Ps2Types'
  BY <1>2, <1>4, <1>6 DEF Ps2Inv, Ps2Types
<1>8. CASE out # <<>>
  <2>1. Len(out) = 1 /\ Missed
    <3>1. CASE Missed /\ Len(out) = 1
      BY <3>1
    <3>2. CASE Len(out) <= 1 /\ \E p \in MayCome : Begins(Flight, p)
      <4>1. PICK p \in MayCome : Begins(Flight, p)
        BY <3>2
      <4>2. Flight # <<>> /\ Head(Flight) = Head(out) /\ Flight \in Seq(Replies)
        BY <1>8, FlightFacts DEF Ps2Inv, Ps2Types
      <4>3. p # <<>> => Head(p) = "id"
        BY <1>5, Sequences
      <4>4. Head(Flight) \in {"id", "scan"}
        <5>1. p \in Seq(Replies)
          BY Comings
        <5> QED BY <4>1, <4>2, <4>3, <5>1, BeginsTail
      <4> QED BY <1>8, <3>2, <4>2, <4>4, OneByte DEF Missed, Ps2Inv, Ps2Types
    <3> QED BY <1>4, <1>5, <3>1, <3>2 DEF Ps2Inv, PipeInv
  <2>2. Missed' /\ Len(out') = 1
    BY <1>2, <2>1 DEF Missed
  <2>3. PipeInv'
    BY <1>4, <1>5, <2>2 DEF PipeInv
  <2>4. FoundInv'
    BY <1>2, <1>4, <2>2 DEF Ps2Inv, FoundInv
  <2>5. ~Quiet'
    <3> SUFFICES ASSUME Quiet' PROVE FALSE
      OBVIOUS
    <3>1. Quiet
      BY <1>2, <1>6 DEF Quiet, Ps2Inv, Ps2Types
    <3>2. Flight = <<>>
      BY <1>4, <1>5, <3>1 DEF Ps2Inv, QuietInv
    <3> QED BY <1>8, <3>2, FlightFacts DEF Ps2Inv, Ps2Types
  <2> QED BY <1>7, <2>3, <2>4, <2>5 DEF Ps2Inv, QuietInv
<1>9. CASE out = <<>>
  <2>1. Flight' = queue' /\ Len(out') = 0
    BY <1>2, <1>6, <1>9 DEF Flight
  <2>2. Begins(Flight', queue')
    BY <1>6, <2>1, BeginsItself
  <2>3. PipeInv'
    BY <1>2, <1>5, <1>6, <1>9, <2>1, <2>2, <1>4 DEF PipeInv
  <2>4. cfg' = "config"
    BY <1>2, <1>4, <1>9, Sequences DEF Ps2Inv, FoundInv
  <2>5. Written("reset")' /\ Head(Flight') = "ack" => scanning'
    BY <1>1, <1>3, <2>1, Sequences DEF Written
  <2>6. FoundInv'
    BY <1>2, <1>4, <2>4, <2>5 DEF Ps2Inv, FoundInv, Written
  <2>7. QuietInv'
    <3> SUFFICES ASSUME Quiet' PROVE QuietInv'
      BY DEF QuietInv
    <3>1. Quiet
      BY <1>2, <1>6 DEF Quiet, Ps2Inv, Ps2Types
    <3>2. tries' <= resends' /\ (Flight' = <<"resend">> => tries' < resends')
      BY <1>2, <1>6, <2>1, <3>1 DEF Ps2Inv, QuietInv, Ps2Types
    <3> QED BY <1>4, <1>5, <1>6, <2>1, <3>2 DEF QuietInv
  <2> QED BY <1>7, <2>3, <2>6, <2>7 DEF Ps2Inv
<1> QED BY <1>8, <1>9

\* The answer to a command: any byte but the acknowledgement ends in failure.
LEMMA ReadDeviceKeeps ==
  ASSUME Ps2Inv, ReadDevice, ComingOK, ComingOK'
  PROVE  Ps2Inv'
<1>1. PICK c \in DeviceCommands : at = <<c, "read">>
  BY DEF ReadDevice, Ps2Inv, Ps2Types, Places, Done, ControllerCommands, DeviceCommands
<1>2. PICK reply \in Replies :
        /\ Read(reply)
        /\ IF reply = "resend" /\ MayRetry
           THEN at' = <<c, "write">> /\ tries' = tries + 1 /\ UNCHANGED type
           ELSE /\ tries' = 0
                /\ at' = IF Acked(reply) THEN AfterCommand[c] ELSE Done
                /\ type' = IF Acked(reply) THEN type ELSE "Invalid"
  BY <1>1 DEF ReadDevice
<1>3. UNCHANGED <<cfg, firstIrq, queue, scanning, resends, handled, typed>> /\ (Quiet' => Quiet /\ ~late')
  <2>1. UNCHANGED <<cfg, firstIrq, queue, scanning, resends, handled, typed>>
    BY DEF ReadDevice, Quietly, keyboard
  <2>2. late' = late \/ late' = (late \/ queue # <<>>)
    BY <1>2 DEF Read
  <2>3. ~late' => ~late
    BY <2>2
  <2>4. typed' = typed /\ resends' = resends
    BY <2>1
  <2> HIDE DEF Ps2Inv
  <2>5. Quiet' => Quiet /\ ~late'
    BY <2>3, <2>4 DEF Quiet
  <2> QED BY <2>1, <2>5
<1>4. /\ at \notin Starts /\ at \in Places /\ at # Done /\ at # <<"write0", "write">> /\ at[1] = c /\ at[2] = "read"
      /\ c \notin {"self_test", "write0"} /\ at \notin ControllerCommands \X {"read"}
  BY <1>1 DEF Starts, ControllerCommands, DeviceCommands, Places, Done
<1>5. ~Testing /\ Coming = {Answer[c], <<"resend">>} /\ MayCome = Coming
  BY <1>1, <1>4, Answers DEF ComingOK, DeviceCommands
<1>6. type = "none" /\ handled = "none"
  BY <1>4 DEF Ps2Inv, FoundInv
<1>7. \A p \in Coming : p # <<>> /\ Head(p) \in {"ack", "resend"}
  <2>1. Answer[c] # <<>> /\ Head(Answer[c]) = "ack"
    BY Answers
  <2> QED BY <1>5, <2>1, Sequences
<1>8. out \in Seq(Replies) /\ queue \in Seq(Replies) /\ tries \in Nat /\ resends \in Nat
  BY DEF Ps2Inv, Ps2Types
<1>9. Quiet' => tries <= resends /\ Flight \in Coming /\ (Flight = <<"resend">> => tries < resends)
                /\ out # <<>> /\ reply = Head(Flight) /\ Flight' = Tail(Flight)
  <2> SUFFICES ASSUME Quiet'
               PROVE  tries <= resends /\ Flight \in Coming /\ (Flight = <<"resend">> => tries < resends)
                      /\ out # <<>> /\ reply = Head(Flight) /\ Flight' = Tail(Flight)
    OBVIOUS
  <2>1. tries <= resends /\ Flight \in Coming /\ (Flight = <<"resend">> => tries < resends)
    BY <1>3, <1>4 DEF Ps2Inv, QuietInv
  <2>2. Flight # <<>>
    BY <1>7, <2>1
  <2> QED BY <1>2, <1>3, <1>8, <2>1, <2>2, QuietRead
<1>10. ASSUME reply \notin {"ack", "resend"} \/ (reply = "resend" /\ ~MayRetry), out' \in Seq(Replies)
       PROVE  Ps2Inv'
  <2>1. tries' = 0 /\ at' = Done /\ type' = "Invalid"
    BY <1>2, <1>10 DEF Acked
  <2>2. at' \notin Starts /\ at' \notin ControllerCommands \X {"read", "write"} /\ Done[1] \notin {"self_test", "write0"}
        /\ Done # <<"write0", "write">> /\ at' \in Places /\ Done[1] # "reset" /\ Done # <<"reset", "read">>
    BY <2>1 DEF Done, Starts, ControllerCommands, Places
  <2>3. ~Testing'
    BY <2>2 DEF ComingOK
  <2>4. ~Quiet'
    <3> SUFFICES ASSUME Quiet' PROVE FALSE
      OBVIOUS
    <3>1. reply \in {"ack", "resend"}
      BY <1>7, <1>9
    <3>2. reply = "resend" /\ ~(tries < 2)
      BY <1>10, <3>1 DEF MayRetry
    <3>3. Flight = <<"resend">>
      BY <1>5, <1>9, <3>2, Answers, Sequences DEF DeviceCommands
    <3>4. resends <= 2
      BY <1>3 DEF Quiet
    <3> QED BY <1>8, <1>9, <3>2, <3>3, <3>4
  <2>5. Ps2Types'
    BY <1>3, <1>8, <1>10, <2>1, <2>2 DEF Ps2Types
  <2>6. PipeInv'
    BY <2>1, <2>3 DEF PipeInv
  <2>7. FoundInv'
    BY <1>3, <1>6, <2>1, <2>2 DEF FoundInv, Written
  <2> QED BY <2>4, <2>5, <2>6, <2>7 DEF Ps2Inv, QuietInv
<1>11. CASE Missed /\ Len(out) = 1
  <2>1. out # <<>> /\ Head(out) \in {"scan", "id", "config"}
    BY <1>11 DEF Missed
  <2>2. reply = Head(out) /\ out' = Tail(out)
    BY <1>2, <2>1 DEF Read
  <2>3. out' \in Seq(Replies)
    BY <1>8, <2>1, <2>2
  <2> QED BY <1>10, <2>1, <2>2, <2>3
<1>12. CASE Len(out) <= 1 /\ \E p \in Coming : Begins(Flight, p)
  <2>1. PICK p \in Coming : Begins(Flight, p)
    BY <1>12
  <2>2. p \in Seq(Replies) /\ p # <<>> /\ Head(p) \in {"ack", "resend"}
    BY <1>7, <2>1, Comings
  <2>3. /\ out' \in Seq(Replies) /\ Len(out') <= 1
        /\ \/ reply = "invalid"
           \/ out # <<>> /\ reply = Head(p) /\ Begins(Flight', Tail(p))
    BY <1>2, <1>3, <1>8, <1>12, <2>1, <2>2, ReadFacts
  <2>4. CASE reply = "invalid"
    BY <1>10, <2>3, <2>4
  <2>5. ~Missed \/ reply \notin {"ack", "resend"}
    BY <1>2 DEF Missed, Read
  <2>6. CASE reply = "resend" /\ out # <<>> /\ reply = Head(p) /\ Begins(Flight', Tail(p)) /\ MayRetry
    <3>1. at' = <<c, "write">> /\ tries' = tries + 1 /\ type' = type
      BY <1>2, <2>6
    <3>2. /\ at' \notin Starts /\ at' \in Places /\ at' # Done /\ at' # <<"write0", "write">> /\ at'[1] = c /\ at'[2] = "write"
          /\ at' \notin ControllerCommands \X {"read", "write"} /\ at' \in DeviceCommands \X {"write"}
          /\ at' # <<"reset", "read">>
      BY <3>1 DEF Starts, ControllerCommands, DeviceCommands, Places, Done
    <3>3. Coming' = {<<>>} /\ <<>> \in MayCome' /\ ~Testing'
      BY <3>1, <3>2 DEF ComingOK, DeviceCommands
    <3>4. Tail(p) = <<>>
      <4>1. Head(Answer[c]) = "ack"
        BY Answers
      <4> QED BY <1>5, <2>1, <2>6, <4>1, Sequences
    <3>5. Ps2Types'
      BY <1>3, <1>8, <2>3, <3>1, <3>2 DEF Ps2Types
    <3>6. PipeInv'
      BY <2>3, <2>6, <3>3, <3>4 DEF PipeInv
    <3>7. cfg = "config"
      <4>1. out # <<"config">>
        BY <2>5, <2>6, Sequences DEF Missed
      <4> QED BY <1>4, <4>1 DEF Ps2Inv, FoundInv
    <3>8. FoundInv'
      BY <1>3, <1>4, <1>6, <3>1, <3>2, <3>7 DEF FoundInv, Written
    <3>9. QuietInv'
      <4> SUFFICES ASSUME Quiet' PROVE QuietInv'
        BY DEF QuietInv
      <4>1. Flight = <<"resend">>
        <5>1. Head(Answer[c]) = "ack"
          BY Answers
        <5> QED BY <1>5, <1>9, <2>6, <5>1
      <4>2. Flight' = <<>> /\ tries' <= resends'
        BY <1>3, <1>8, <1>9, <3>1, <4>1, Sequences
      <4> QED BY <3>2, <3>3, <4>2 DEF QuietInv
    <3> QED BY <3>5, <3>6, <3>8, <3>9 DEF Ps2Inv
  <2>7. CASE reply = "ack" /\ out # <<>> /\ reply = Head(p) /\ Begins(Flight', Tail(p))
    <3>1. at' = AfterCommand[c] /\ tries' = 0 /\ type' = type
      BY <1>2, <2>7 DEF Acked
    <3>2. p = Answer[c] /\ Head(<<"resend">>) # "ack"
      BY <1>5, <2>1, <2>7, Sequences
    <3>3. /\ AfterCommand["reset_no_scan"] = <<"get_id", "write">> /\ AfterCommand["get_id"] = <<"high", "read">>
          /\ AfterCommand["reset"] = <<"self_test", "read">>
      BY DEF AfterCommand
    <3>4. /\ at' \notin Starts /\ at' \in Places /\ at' # Done /\ at' # <<"write0", "write">>
          /\ at' \notin ControllerCommands \X {"read", "write"} /\ at'[1] # "write0"
          /\ (at'[1] = "self_test" => c = "reset") /\ at' # <<"reset", "read">>
          /\ ~(at'[1] \in DeviceCommands /\ at'[2] = "read")
      BY <3>1, <3>3 DEF Starts, ControllerCommands, DeviceCommands, Places, Done
    <3>5. Coming' = {Tail(p)} /\ MayCome' = Coming' /\ ~Testing'
      <4>1. ~Testing'
        BY <3>4 DEF ComingOK
      <4>2. CASE c = "reset_no_scan"
        <5>1. at' = <<"get_id", "write">> /\ Tail(p) = <<>>
          BY <3>1, <3>2, <3>3, <4>2, Answers, Sequences
        <5>2. at' \in DeviceCommands \X {"write"}
          BY <5>1 DEF DeviceCommands
        <5> QED BY <4>1, <5>1, <5>2 DEF ComingOK
      <4>3. CASE c = "get_id"
        BY <3>1, <3>2, <3>3, <4>1, <4>3, Answers, Sequences DEF ComingOK
      <4>4. CASE c = "reset"
        BY <3>1, <3>2, <3>3, <4>1, <4>4, Answers, Sequences DEF ComingOK
      <4> QED BY <4>2, <4>3, <4>4 DEF DeviceCommands
    <3>6. Ps2Types'
      BY <1>3, <1>8, <2>3, <3>1, <3>4 DEF Ps2Types
    <3>7. PipeInv'
      BY <2>3, <2>7, <3>5 DEF PipeInv
    <3>8. cfg = "config"
      <4>1. out # <<"config">>
        BY <2>5, <2>7, Sequences DEF Missed
      <4> QED BY <1>4, <4>1 DEF Ps2Inv, FoundInv
    <3>9. c = "reset" => scanning
      <4>1. Flight # <<>> /\ Head(Flight) = "ack"
        BY <1>2, <1>8, <2>7, FlightFacts DEF Read
      <4> QED BY <1>1, <2>5, <2>7, <4>1 DEF Ps2Inv, FoundInv, Written
    <3>10. FoundInv'
      BY <1>3, <1>6, <3>1, <3>4, <3>8, <3>9 DEF FoundInv, Written
    <3>11. QuietInv'
      <4> SUFFICES ASSUME Quiet' PROVE QuietInv'
        BY DEF QuietInv
      <4>1. Flight = p
        BY <1>5, <1>9, <2>7, <3>2, Sequences
      <4>2. Flight' \in Coming' /\ tries' <= resends'
        BY <1>3, <1>8, <1>9, <3>1, <3>5, <4>1
      <4> QED BY <3>4, <3>5, <4>2 DEF QuietInv
    <3> QED BY <3>6, <3>7, <3>10, <3>11 DEF Ps2Inv
  <2> QED BY <1>10, <2>2, <2>3, <2>4, <2>6, <2>7
<1> QED BY <1>4, <1>5, <1>11, <1>12 DEF Ps2Inv, PipeInv

\* The two bytes of the ID.
LEMMA IdBytes ==
  <<"id">> # <<>> /\ Tail(<<"id">>) = <<>> /\ <<"id", "id">> # <<>> /\ Tail(<<"id", "id">>) = <<"id">>
BY Sequences

\* The ID: both reads take a byte or give up.
LEMMA ReadIdKeeps ==
  ASSUME Ps2Inv, ReadId, ComingOK, ComingOK'
  PROVE  Ps2Inv'
<1>1. PICK reply \in Replies : Read(reply)
  BY DEF ReadId
<1>2. /\ \/ at = <<"high", "read">> /\ at' = <<"low", "read">>
         \/ at = <<"low", "read">> /\ at' = <<"reset", "write">>
      /\ UNCHANGED <<tries, type, cfg, firstIrq, queue, scanning, resends, handled, typed>>
  BY DEF ReadId, Quietly, keyboard
<1>3. ~late' => ~late
  <2>1. late' = late \/ late' = (late \/ queue # <<>>)
    BY <1>1 DEF Read
  <2> QED BY <2>1
<1>4. /\ at \notin Starts /\ at # Done /\ at # <<"write0", "write">> /\ at[1] \notin DeviceCommands
      /\ at[1] # "reset_no_scan"
      /\ at' \notin Starts /\ at' \in Places /\ at' # Done /\ at' # <<"write0", "write">> /\ at'[1] \notin {"self_test", "write0"}
      /\ at \notin ControllerCommands \X {"read"} /\ at' \notin ControllerCommands \X {"read", "write"}
      /\ ~(at'[1] \in DeviceCommands /\ at'[2] = "read") /\ at' # <<"reset", "read">>
  BY <1>2 DEF Starts, ControllerCommands, DeviceCommands, Places, Done
<1>5. ~Testing /\ ~Testing'
  BY <1>4 DEF ComingOK
<1>6. PICK p \in MayCome : Len(out) <= 1 /\ Begins(Flight, p)
  BY <1>4, <1>5 DEF Ps2Inv, PipeInv
<1>7. p \in {<<"id">>, <<"id", "id">>} /\ p \in MayCome' /\ p \in Seq(Replies)
  BY <1>2, <1>6, Comings DEF ComingOK
<1>8. p # <<>> /\ Tail(p) \in MayCome'
  BY <1>2, <1>6, IdBytes DEF ComingOK
<1>9. out' \in Seq(Replies) /\ Len(out') <= 1 /\ (Begins(Flight', p) \/ Begins(Flight', Tail(p)))
  BY <1>1, <1>2, <1>6, <1>7, <1>8, ReadFacts DEF Ps2Inv, Ps2Types
<1>10. Ps2Types'
  BY <1>2, <1>4, <1>9 DEF Ps2Inv, Ps2Types
<1>11. PipeInv'
  BY <1>5, <1>7, <1>8, <1>9 DEF PipeInv
<1>12. FoundInv'
  BY <1>2, <1>4 DEF Ps2Inv, FoundInv, Written
<1>13. QuietInv'
  <2> SUFFICES ASSUME Quiet' PROVE QuietInv'
    BY DEF QuietInv
  <2>1. ~late' /\ ~late
    <3>1. ~late'
      BY DEF Quiet
    <3>2. ~late
      BY <1>3, <3>1
    <3> QED BY <3>1, <3>2
  <2>2. Quiet
    BY <1>2, <2>1 DEF Quiet
  <2>3. Flight \in Coming /\ tries <= resends
    BY <1>4, <2>2 DEF Ps2Inv, QuietInv
  <2>4. Flight # <<>> /\ Tail(Flight) \in Coming'
    <3>1. CASE at = <<"high", "read">> /\ at' = <<"low", "read">>
      BY <2>3, <3>1, IdBytes DEF ComingOK
    <3>2. CASE at = <<"low", "read">> /\ at' = <<"reset", "write">>
      <4>1. at' \in DeviceCommands \X {"write"}
        BY <3>2 DEF DeviceCommands
      <4> QED BY <2>3, <3>2, <4>1, IdBytes DEF ComingOK
    <3> QED BY <1>2, <3>1, <3>2
  <2>5. Flight' = Tail(Flight)
    BY <1>1, <1>2, <2>1, <2>4, QuietRead DEF Ps2Inv, Ps2Types
  <2> QED BY <1>2, <1>4, <1>5, <2>3, <2>4, <2>5 DEF QuietInv
<1> QED BY <1>10, <1>11, <1>12, <1>13 DEF Ps2Inv

\* The result of the keyboard's test.
LEMMA ReadSelfTestKeeps ==
  ASSUME Ps2Inv, ReadSelfTest, ComingOK, ComingOK'
  PROVE  Ps2Inv'
<1>1. PICK reply \in Replies :
        /\ Read(reply)
        /\ at' = IF TestPassed(reply) THEN <<"write0", "write">> ELSE Done
        /\ type' = IF TestPassed(reply) THEN "valid" ELSE "Invalid"
  BY DEF ReadSelfTest
<1>2. at = <<"self_test", "read">> /\ UNCHANGED <<tries, cfg, firstIrq, queue, scanning, resends, handled, typed>>
  BY DEF ReadSelfTest, Quietly, keyboard
<1>3. ~late' => ~late
  <2>1. late' = late \/ late' = (late \/ queue # <<>>)
    BY <1>1 DEF Read
  <2> QED BY <2>1
<1>4. /\ at \notin Starts /\ at # Done /\ at[1] \notin DeviceCommands /\ at[1] # "reset_no_scan"
      /\ at' \notin Starts /\ at' \in Places /\ at' # <<"reset", "read">>
      /\ at \notin ControllerCommands \X {"read"} /\ at' \notin ControllerCommands \X {"read", "write"}
      /\ at'[1] \notin DeviceCommands /\ Done # <<"write0", "write">> /\ Done[1] \notin {"self_test", "write0"}
  BY <1>1, <1>2 DEF Starts, ControllerCommands, DeviceCommands, Places, Done
<1>5. ~Testing /\ ~Testing' /\ Coming = {<<"device_test_passed">>} /\ MayCome = Coming
  BY <1>2, <1>4 DEF ComingOK
<1> DEFINE p == <<"device_test_passed">>
<1>6. p # <<>> /\ Head(p) = "device_test_passed" /\ Tail(p) = <<>> /\ p \in Seq(Replies)
  BY <1>5, Sequences, Comings
<1>7. Len(out) <= 1 /\ Begins(Flight, p) /\ scanning /\ cfg = "config" /\ handled = "none"
  BY <1>2, <1>4, <1>5 DEF Ps2Inv, PipeInv, FoundInv
<1> HIDE DEF p
<1>8. /\ out' \in Seq(Replies) /\ Len(out') <= 1
      /\ reply = "invalid" \/ (reply = "device_test_passed" /\ Begins(Flight', <<>>))
  <2>1. out \in Seq(Replies) /\ queue \in Seq(Replies) /\ queue' = queue
    BY <1>2 DEF Ps2Inv, Ps2Types
  <2>2. /\ out' \in Seq(Replies) /\ Len(out') <= 1
        /\ reply = "invalid" \/ (reply = Head(p) /\ Begins(Flight', Tail(p)))
    BY <1>1, <1>6, <1>7, <2>1, ReadFacts
  <2> QED BY <1>6, <2>2
<1>9. Ps2Types'
  BY <1>2, <1>4, <1>8 DEF Ps2Inv, Ps2Types
<1>10. Quiet' => reply = "device_test_passed" /\ Flight' = <<>> /\ tries <= resends
  <2> SUFFICES ASSUME Quiet' PROVE reply = "device_test_passed" /\ Flight' = <<>> /\ tries <= resends
    OBVIOUS
  <2>1. ~late' /\ ~late
    <3>1. ~late'
      BY DEF Quiet
    <3>2. ~late
      BY <1>3, <3>1
    <3> QED BY <3>1, <3>2
  <2>2. Quiet
    BY <1>2, <2>1 DEF Quiet
  <2>3. Flight = p /\ tries <= resends
    BY <1>4, <1>5, <2>2 DEF Ps2Inv, QuietInv, p
  <2>4. Flight # <<>>
    BY <1>6, <2>3
  <2>5. reply = Head(Flight) /\ Flight' = Tail(Flight)
    BY <1>1, <1>2, <2>1, <2>4, QuietRead DEF Ps2Inv, Ps2Types
  <2> QED BY <1>6, <2>3, <2>5
<1>11. CASE reply = "device_test_passed" /\ Begins(Flight', <<>>)
  <2>1. at' = <<"write0", "write">> /\ type' = "valid"
    BY <1>1, <1>11 DEF TestPassed
  <2>2. Coming' = {<<>>} /\ MayCome' = {<<>>} /\ at' # Done
    BY <1>4, <2>1 DEF ComingOK
  <2>3. PipeInv'
    BY <1>5, <1>8, <1>11, <2>2 DEF PipeInv
  <2>4. FoundInv'
    BY <1>2, <1>4, <1>7, <2>1, <2>2 DEF FoundInv, Written
  <2>5. QuietInv'
    BY <1>2, <1>4, <1>5, <1>10, <2>2 DEF QuietInv
  <2> QED BY <1>9, <2>3, <2>4, <2>5 DEF Ps2Inv
<1>12. CASE reply = "invalid"
  <2>1. at' = Done /\ type' = "Invalid"
    BY <1>1, <1>12 DEF TestPassed
  <2>2. PipeInv'
    BY <1>5, <2>1 DEF PipeInv
  <2>3. FoundInv'
    BY <1>4, <2>1 DEF FoundInv, Written
  <2>4. QuietInv'
    BY <1>10, <1>12 DEF QuietInv
  <2> QED BY <1>9, <2>2, <2>3, <2>4 DEF Ps2Inv
<1> QED BY <1>8, <1>11, <1>12

\* The configuration byte, with the keyboard's interrupt.
LEMMA WriteConfigKeeps ==
  ASSUME Ps2Inv, WriteConfig, ComingOK, ComingOK'
  PROVE  Ps2Inv'
<1>1. at = <<"write0", "write">> /\ at' = Done /\ firstIrq' = TRUE
      /\ UNCHANGED <<tries, type, cfg, out, late, queue, scanning, resends, handled, typed>>
  BY DEF WriteConfig, Quietly, keyboard
<1>2. /\ at \notin Starts /\ at # Done /\ at' \in Places /\ at' \notin ControllerCommands \X {"read", "write"}
      /\ at \notin ControllerCommands \X {"read"} /\ at[1] \notin DeviceCommands /\ at[1] # "reset_no_scan"
      /\ Done[1] \notin DeviceCommands \cup {"self_test", "write0"} /\ Done # <<"write0", "write">> /\ Done # <<"reset", "read">>
      /\ Done \notin Starts
  BY <1>1 DEF Starts, ControllerCommands, DeviceCommands, Places, Done
<1>3. ~Testing /\ ~Testing' /\ MayCome = {<<>>}
  BY <1>1, <1>2 DEF ComingOK
<1>4. Begins(Flight, <<>>) /\ Flight' = Flight /\ scanning /\ cfg = "config" /\ handled = "none" /\ type = "valid"
  BY <1>1, <1>2, <1>3 DEF Ps2Inv, PipeInv, FoundInv, Flight
<1>5. Ps2Types'
  BY <1>1, <1>2 DEF Ps2Inv, Ps2Types
<1>6. PipeInv' /\ FoundInv'
  BY <1>1, <1>2, <1>3, <1>4 DEF PipeInv, FoundInv, Written
<1>7. QuietInv'
  BY <1>1, <1>2, <1>3, <1>4 DEF Ps2Inv, QuietInv, Quiet
<1> QED BY <1>5, <1>6, <1>7 DEF Ps2Inv

\* What the interrupt handler reads.
LEMMA IsrKeyboardKeeps ==
  ASSUME Ps2Inv, IsrKeyboard, ComingOK, ComingOK'
  PROVE  Ps2Inv'
<1>1. at = Done /\ out # <<>> /\ handled' = Head(out) /\ out' = Tail(out)
      /\ UNCHANGED <<at, tries, type, cfg, firstIrq, late, queue, scanning, resends, typed>>
  BY DEF IsrKeyboard, driver, keyboard
<1>2. /\ at' \notin ControllerCommands \X {"read", "write"} /\ at' # <<"write0", "write">> /\ at' # <<"reset", "read">>
      /\ at'[1] \notin DeviceCommands \cup {"self_test", "write0"}
  BY <1>1 DEF Starts, ControllerCommands, DeviceCommands, Done
<1>3. ~Testing' /\ at' = Done /\ out \in Seq(Replies) /\ queue \in Seq(Replies)
  BY <1>1, <1>2 DEF ComingOK, Ps2Inv, Ps2Types
<1>4. Flight # <<>> /\ handled' = Head(Flight) /\ Flight' = Tail(Flight) /\ Flight \in Seq(Replies)
  BY <1>1, <1>3, FlightFacts DEF Flight
<1>5. Begins(Flight, <<>>) => handled' = "scan" /\ Begins(Flight', <<>>)
  <2> DEFINE none == <<>>
  <2>1. none \in Seq(Replies)
    OBVIOUS
  <2>2. none = <<>>
    OBVIOUS
  <2> HIDE DEF none
  <2>3. Begins(Flight, none) => Head(Flight) = "scan" /\ Begins(Tail(Flight), <<>>)
    BY <1>4, <2>1, <2>2, BeginsTail
  <2> QED BY <1>4, <2>2, <2>3
<1>6. Ps2Types'
  BY <1>1, <1>3 DEF Ps2Inv, Ps2Types
<1>7. PipeInv' /\ FoundInv'
  BY <1>1, <1>2, <1>3, <1>5 DEF Ps2Inv, PipeInv, FoundInv, Written
<1>8. QuietInv'
  BY <1>1, <1>2, <1>3 DEF Ps2Inv, QuietInv, Quiet
<1> QED BY <1>6, <1>7, <1>8 DEF Ps2Inv

\* Initialize begins with what the firmware has left in the buffers.
LEMMA Ps2Init ==
  ASSUME Init, ComingOK
  PROVE  Ps2Inv
<1>1. /\ at = <<"drain", "read">> /\ tries = 0 /\ type = "none" /\ resends = 0 /\ handled = "none"
      /\ out \in {<<>>, <<"scan">>} /\ queue \in {<<>>, <<"scan">>}
  BY DEF Init
<1>2. /\ at \in Places /\ at \in Starts /\ at # Done /\ at # <<"write0", "write">>
      /\ at \notin ControllerCommands \X {"read", "write"} /\ at[1] \notin DeviceCommands \cup {"self_test", "write0"}
  BY <1>1 DEF Places, Starts, Done, ControllerCommands, DeviceCommands
<1>3. ~Testing /\ MayCome = {<<>>}
  BY <1>2 DEF ComingOK
<1>4. <<>> \in Seq(Replies) /\ <<"scan">> \in Seq(Replies)
  <2>1. "scan" \in Replies
    BY DEF Replies
  <2> HIDE DEF Replies
  <2> QED BY <2>1
<1>5. out \in Seq(Replies) /\ queue \in Seq(Replies) /\ Len(out) <= 1 /\ Len(queue) <= 1
      /\ (\A i \in 1..Len(out) : out[i] = "scan") /\ (\A i \in 1..Len(queue) : queue[i] = "scan")
  <2>1. ASSUME NEW s \in {<<>>, <<"scan">>}
        PROVE  s \in Seq(Replies) /\ Len(s) <= 1 /\ \A i \in 1..Len(s) : s[i] = "scan"
    <3>1. CASE s = <<>>
      BY <1>4, <3>1
    <3>2. CASE s = <<"scan">>
      BY <1>4, <3>2
    <3> QED BY <3>1, <3>2
  <2> QED BY <1>1, <2>1
<1>6. Begins(Flight, <<>>)
  <2>1. Len(Flight) = Len(out) + Len(queue)
    BY <1>5, FlightFacts
  <2>2. \A i \in 1..Len(Flight) : Flight[i] = "scan"
    BY <1>5, <2>1 DEF Flight
  <2> QED BY <2>1, <2>2 DEF Begins
<1>7. Ps2Types
  BY <1>1, <1>2, <1>5 DEF Ps2Types
<1>8. PipeInv /\ FoundInv
  BY <1>1, <1>2, <1>3, <1>5, <1>6 DEF PipeInv, FoundInv, Written
<1>9. QuietInv
  BY <1>1, <1>2, <1>3 DEF QuietInv
<1> QED BY <1>7, <1>8, <1>9 DEF Ps2Inv

\* Every step of the driver, the controller and the keyboard.
LEMMA Ps2Step ==
  ASSUME Ps2Inv, Next, ComingOK, ComingOK'
  PROVE  Ps2Inv'
BY PressKeyKeeps, TransferKeeps, DrainKeeps, WriteControllerKeeps, ReadControllerKeeps, WriteDeviceKeeps,
   ReadDeviceKeeps, ReadIdKeeps, ReadSelfTestKeeps, WriteConfigKeeps, IsrKeyboardKeeps DEF Next

\* The invariant implies Ps2's properties.
LEMMA Ps2Safe ==
  ASSUME Ps2Inv
  PROVE  ValidKeyboardScans /\ RepliesAreNotHandled /\ QuietKeyboardIsFound
<1>1. type = "valid" => at \in {<<"write0", "write">>, Done}
  BY DEF Ps2Inv, FoundInv
<1>2. at = <<"write0", "write">> => scanning /\ cfg = "config" /\ handled = "none"
  <2>1. <<"write0", "write">> \notin Starts /\ <<"write0", "write">> # Done
    BY DEF Starts, Done, ControllerCommands
  <2> QED BY <2>1 DEF Ps2Inv, FoundInv
<1>3. at = Done /\ type = "valid" => scanning /\ cfg = "config" /\ handled \in {"scan", "none"}
  BY DEF Ps2Inv, FoundInv
<1>4. QuietKeyboardIsFound
  BY DEF Ps2Inv, QuietInv, Quiet, QuietKeyboardIsFound
<1> QED BY <1>1, <1>2, <1>3, <1>4 DEF ValidKeyboardScans, RepliesAreNotHandled

\* Every step leads from one place to another.
LEMMA PlaceStep ==
  ASSUME Ps2Inv, Next
  PROVE  at' \in Places
<1>1. at \in Places
  BY DEF Ps2Inv, Ps2Types
<1>2. CASE PressKey \/ Transfer \/ IsrKeyboard
  BY <1>1, <1>2 DEF PressKey, Transfer, IsrKeyboard, driver
<1>3. CASE Drain
  BY <1>1, <1>3 DEF Drain, Places, ControllerCommands
<1>4. CASE WriteController
  BY <1>1, <1>4 DEF WriteController, Places
<1>5. CASE ReadController
  <2>1. at' \in {<<"test_port1", "write">>, <<"read0", "write">>, <<"reset_no_scan", "write">>, Done}
    BY <1>5 DEF ReadController, Exchange, ControllerCommands
  <2> QED BY <2>1 DEF Places, ControllerCommands, DeviceCommands
<1>6. CASE WriteDevice
  BY <1>1, <1>6 DEF WriteDevice, Places
<1>7. CASE ReadDevice
  <2>1. at' = <<at[1], "write">> \/ at' = AfterCommand[at[1]] \/ at' = Done
    BY <1>7 DEF ReadDevice
  <2>2. at[1] \in DeviceCommands
    BY <1>7 DEF ReadDevice
  <2>3. at' = <<at[1], "write">> \/ at' \in {<<"get_id", "write">>, <<"high", "read">>, <<"self_test", "read">>, Done}
    BY <2>1, <2>2 DEF AfterCommand, DeviceCommands
  <2> QED BY <2>2, <2>3 DEF Places, DeviceCommands
<1>8. CASE ReadId \/ ReadSelfTest \/ WriteConfig
  BY <1>8 DEF ReadId, ReadSelfTest, WriteConfig, Places, DeviceCommands
<1> QED BY <1>2, <1>3, <1>4, <1>5, <1>6, <1>7, <1>8 DEF Next

\* The invariant holds whichever device runs.
LEMMA Ps2Invariance == SpecDevices => []Ps2Inv
<1>1. ComingIsKnown /\ ComingIsKnown'
  BY ComingIs, PTL
<1>2. InitDevices => Ps2Inv
  <2> SUFFICES ASSUME Init PROVE Ps2Inv
    BY DEF InitDevices, InitPs2Keyboard
  <2>1. ComingOK
    BY <1>1 DEF ComingIsKnown, Init, Places
  <2> QED BY <2>1, Ps2Init
<1>3. Ps2Inv /\ [NextDevices]_<<vars, typing, serial>> => Ps2Inv'
  <2> SUFFICES ASSUME Ps2Inv, [NextDevices]_<<vars, typing, serial>> PROVE Ps2Inv'
    OBVIOUS
  <2>1. CASE Next
    <3>1. ComingOK /\ ComingOK'
      BY <1>1, <2>1, PlaceStep DEF ComingIsKnown, Ps2Inv, Ps2Types
    <3> QED BY <2>1, <3>1, Ps2Step
  <2>2. CASE UNCHANGED vars
    <3>1. UNCHANGED <<at, tries, type, cfg, firstIrq, queue, scanning, resends, out, handled, typed, late>>
      BY <2>2 DEF vars, driver, keyboard
    <3>2. Ps2Types' /\ FoundInv'
      BY <3>1 DEF Ps2Inv, Ps2Types, FoundInv, Written, Missed, Flight, Begins
    <3>3. Coming' = Coming /\ MayCome' = MayCome /\ Flight' = Flight /\ (Testing' <=> Testing) /\ (Missed' <=> Missed)
      BY <3>1 DEF Coming, MayCome, Flight, Testing, Missed, Written
    <3>4. PipeInv' /\ QuietInv'
      BY <3>1, <3>3 DEF Ps2Inv, PipeInv, QuietInv, Quiet
    <3> QED BY <3>2, <3>4 DEF Ps2Inv
  <2> QED BY <2>1, <2>2 DEF NextDevices, SerialPorts, KeyboardRuns, NextPs2Keyboard, Starting, Running
<1> QED BY <1>2, <1>3, PTL DEF SpecDevices

\* Initialize, whatever the firmware left in the buffers, whatever is typed meanwhile
\* and whenever the keyboard is late or asks for a command again: a keyboard that is
\* reported valid scans, and the configuration byte is the controller's own.
THEOREM ValidKeyboardAlwaysScans == SpecDevices => []ValidKeyboardScans
BY Ps2Invariance, Ps2Safe, PTL

\* WriteDevice0, ReadDevice0 and IsrKeyboard: no reply to a command is left for
\* HandleInput to take for a scan code.
THEOREM RepliesAreNeverHandled == SpecDevices => []RepliesAreNotHandled
BY Ps2Invariance, Ps2Safe, PTL

\* Initialize and Drain: a keyboard that is quick and left alone is found, and its
\* interrupt is enabled, though it asks for commands again, twice.
THEOREM QuietKeyboardIsAlwaysFound == SpecDevices => []QuietKeyboardIsFound
BY Ps2Invariance, Ps2Safe, PTL

-----------------------------------------------------------------------------
(* Typing.                                                                  *)

Modifiers == {"Alt", "Shift", "Ctrl", "CapsLock"}
Marks     == Modifiers \cup {"Extended"}
Codes     == Typing!ScanCodes
Shapes    == {"shifted", "plain"}

\* What a code makes of the flags and of the release prefix, and what it prints.
FlagsAfter(f, r, code) ==
    LET plain == f \ {"Extended"}
    IN  IF code = "e0" THEN f \cup {"Extended"}
        ELSE IF code = "f0" THEN f
        ELSE IF "Extended" \in f /\ code \in {"12", "59"} THEN plain
        ELSE IF r = 1 THEN plain \ Typing!Modified(code)
        ELSE IF code = "58" THEN (plain \ {"CapsLock"}) \cup ({"CapsLock"} \ plain)
        ELSE plain \cup Typing!Modified(code)

ReleasedAfter(r, code) == IF code = "f0" \/ (r = 1 /\ code = "e0") THEN 1 ELSE 0

Prints(f, r, code) == code = "1c" /\ r = 0 /\ "Extended" \notin f
Shape(f) == IF ("Shift" \in f) # ("CapsLock" \in f) THEN "shifted" ELSE "plain"

\* Reading w from flags f0 and release prefix r0 ends with f1 and r1 and prints u:
\* fl, rl and n are the flags, the release prefixes (0 or 1) and the numbers of
\* characters printed on the way.
Reading(w, f0, r0, u, f1, r1, fl, rl, n) ==
    /\ fl \in [0..Len(w) -> SUBSET Marks] /\ rl \in [0..Len(w) -> {0, 1}] /\ n \in [0..Len(w) -> 0..Len(u)]
    /\ fl[0] = f0 /\ rl[0] = r0 /\ n[0] = 0
    /\ fl[Len(w)] = f1 /\ rl[Len(w)] = r1 /\ n[Len(w)] = Len(u)
    /\ \A i \in 1..Len(w) :
         /\ fl[i] = FlagsAfter(fl[i - 1], rl[i - 1], w[i])
         /\ rl[i] = ReleasedAfter(rl[i - 1], w[i])
         /\ IF Prints(fl[i - 1], rl[i - 1], w[i]) THEN n[i] = n[i - 1] + 1 /\ u[n[i]] = Shape(fl[i - 1])
            ELSE n[i] = n[i - 1]

Reads(w, f0, r0, u, f1, r1) == \E fl, rl, n : Reading(w, f0, r0, u, f1, r1, fl, rl, n)

\* Everything that is on the way will be read as it was typed.
TypingInv ==
    /\ wire \in Seq(Codes) /\ unseen \in Seq(Shapes) /\ released \in BOOLEAN
    /\ meant \subseteq Modifiers
    /\ "Ctrl" \in meant => held \cap {"left_ctrl", "right_ctrl"} # {}
    /\ Reads(wire, flags, IF released THEN 1 ELSE 0, unseen, meant, 0)

\* Modifiers' codes.
LEMMA CodeFacts ==
  /\ Typing!Modified("11") = {"Alt"} /\ Typing!Modified("12") = {"Shift"} /\ Typing!Modified("59") = {"Shift"}
  /\ Typing!Modified("14") = {"Ctrl"}
  /\ \A c : c \notin {"11", "12", "59", "14"} => Typing!Modified(c) = {}
  /\ \A c : Typing!Modified(c) \subseteq Modifiers
<1>1. DOMAIN Typing!Modifier = {"left_alt", "right_alt", "left_shift", "right_shift", "left_ctrl", "right_ctrl"}
  BY DEF Typing!Modifier
<1>2. /\ Typing!Modifier["left_alt"] = "Alt" /\ Typing!Modifier["right_alt"] = "Alt"
      /\ Typing!Modifier["left_shift"] = "Shift" /\ Typing!Modifier["right_shift"] = "Shift"
      /\ Typing!Modifier["left_ctrl"] = "Ctrl" /\ Typing!Modifier["right_ctrl"] = "Ctrl"
  BY DEF Typing!Modifier
<1>3. /\ Typing!Code["left_alt"] = "11" /\ Typing!Code["right_alt"] = "11" /\ Typing!Code["left_shift"] = "12"
      /\ Typing!Code["right_shift"] = "59" /\ Typing!Code["left_ctrl"] = "14" /\ Typing!Code["right_ctrl"] = "14"
  BY DEF Typing!Code
<1>4. \A c : Typing!Modified(c) = {Typing!Modifier[k] : k \in {m \in DOMAIN Typing!Modifier : Typing!Code[m] = c}}
  BY DEF Typing!Modified
<1>5. \A c, x : x \in Typing!Modified(c) <=>
        \/ x = "Alt" /\ c = "11"
        \/ x = "Shift" /\ c \in {"12", "59"}
        \/ x = "Ctrl" /\ c = "14"
  BY <1>1, <1>2, <1>3, <1>4
<1> QED BY <1>5 DEF Modifiers

\* One reading after another.
LEMMA ReadsBoth ==
  ASSUME NEW w \in Seq(Codes), NEW v \in Seq(Codes), NEW u \in Seq(Shapes), NEW x \in Seq(Shapes),
         NEW f0, NEW r0, NEW f1, NEW r1, NEW f2, NEW r2,
         Reads(w, f0, r0, u, f1, r1), Reads(v, f1, r1, x, f2, r2)
  PROVE  Reads(w \o v, f0, r0, u \o x, f2, r2)
<1>1. PICK fl, rl, n : Reading(w, f0, r0, u, f1, r1, fl, rl, n)
  BY DEF Reads
<1>2. PICK gl, ql, m : Reading(v, f1, r1, x, f2, r2, gl, ql, m)
  BY DEF Reads
<1> DEFINE a == Len(w)
           b == Len(v)
           c == Len(u)
           d == Len(x)
           hl == [i \in 0..(a + b) |-> IF i <= a THEN fl[i] ELSE gl[i - a]]
           pl == [i \in 0..(a + b) |-> IF i <= a THEN rl[i] ELSE ql[i - a]]
           l  == [i \in 0..(a + b) |-> IF i <= a THEN n[i] ELSE c + m[i - a]]
           y  == w \o v
           z  == u \o x
<1>3. a \in Nat /\ b \in Nat /\ Len(y) = a + b /\ c \in Nat /\ d \in Nat /\ Len(z) = c + d
  OBVIOUS
<1>4. /\ \A i \in 1..a : y[i] = w[i]
      /\ \A i \in (a + 1)..(a + b) : y[i] = v[i - a]
      /\ \A i \in 1..c : z[i] = u[i]
      /\ \A i \in (c + 1)..(c + d) : z[i] = x[i - c]
  OBVIOUS
<1>5. /\ fl \in [0..a -> SUBSET Marks] /\ rl \in [0..a -> {0, 1}] /\ n \in [0..a -> 0..c]
      /\ gl \in [0..b -> SUBSET Marks] /\ ql \in [0..b -> {0, 1}] /\ m \in [0..b -> 0..d]
      /\ fl[a] = gl[0] /\ rl[a] = ql[0] /\ n[a] = c /\ m[0] = 0
      /\ fl[0] = f0 /\ rl[0] = r0 /\ n[0] = 0 /\ gl[b] = f2 /\ ql[b] = r2 /\ m[b] = d
  BY <1>1, <1>2 DEF Reading
<1>6. \A i \in 1..a :
         /\ fl[i] = FlagsAfter(fl[i - 1], rl[i - 1], w[i])
         /\ rl[i] = ReleasedAfter(rl[i - 1], w[i])
         /\ IF Prints(fl[i - 1], rl[i - 1], w[i]) THEN n[i] = n[i - 1] + 1 /\ u[n[i]] = Shape(fl[i - 1])
            ELSE n[i] = n[i - 1]
  BY <1>1 DEF Reading
<1>7. \A i \in 1..b :
         /\ gl[i] = FlagsAfter(gl[i - 1], ql[i - 1], v[i])
         /\ ql[i] = ReleasedAfter(ql[i - 1], v[i])
         /\ IF Prints(gl[i - 1], ql[i - 1], v[i]) THEN m[i] = m[i - 1] + 1 /\ x[m[i]] = Shape(gl[i - 1])
            ELSE m[i] = m[i - 1]
  BY <1>2 DEF Reading
<1> SUFFICES Reading(y, f0, r0, z, f2, r2, hl, pl, l)
  BY DEF Reads
<1> HIDE DEF a, b, c, d, y, z
<1>8. \A i \in 0..(a + b) : hl[i] \in SUBSET Marks /\ pl[i] \in {0, 1} /\ l[i] \in 0..(c + d)
  <2> TAKE i \in 0..(a + b)
  <2>1. CASE i <= a
    BY <1>3, <1>5, <2>1
  <2>2. CASE i > a
    <3>1. i - a \in 0..b /\ ~(i <= a)
      BY <1>3, <2>2
    <3>2. m[i - a] \in 0..d
      BY <1>5, <3>1
    <3> QED BY <1>3, <1>5, <3>1, <3>2
  <2> QED BY <1>3, <2>1, <2>2
<1>9. hl \in [0..(a + b) -> SUBSET Marks] /\ pl \in [0..(a + b) -> {0, 1}] /\ l \in [0..(a + b) -> 0..(c + d)]
  BY <1>8
<1>10. \A i \in 0..a : hl[i] = fl[i] /\ pl[i] = rl[i] /\ l[i] = n[i]
  BY <1>3
<1>11. \A i \in a..(a + b) : hl[i] = gl[i - a] /\ pl[i] = ql[i - a] /\ l[i] = c + m[i - a]
  <2> TAKE i \in a..(a + b)
  <2>1. CASE i = a
    BY <1>3, <1>5, <2>1
  <2>2. CASE i > a
    BY <1>3, <2>2
  <2> QED BY <1>3, <2>1, <2>2
<1> HIDE DEF hl, pl, l
<1>12. ASSUME NEW i \in 1..(a + b)
       PROVE  /\ hl[i] = FlagsAfter(hl[i - 1], pl[i - 1], y[i])
              /\ pl[i] = ReleasedAfter(pl[i - 1], y[i])
              /\ IF Prints(hl[i - 1], pl[i - 1], y[i]) THEN l[i] = l[i - 1] + 1 /\ z[l[i]] = Shape(hl[i - 1])
                 ELSE l[i] = l[i - 1]
  <2>1. CASE i <= a
    <3>1. i \in 1..a /\ i \in 0..a /\ i - 1 \in 0..a
      BY <1>3, <2>1
    <3>2. y[i] = w[i] /\ hl[i] = fl[i] /\ pl[i] = rl[i] /\ l[i] = n[i]
          /\ hl[i - 1] = fl[i - 1] /\ pl[i - 1] = rl[i - 1] /\ l[i - 1] = n[i - 1]
      BY <1>4, <1>10, <3>1
    <3>3. Prints(fl[i - 1], rl[i - 1], w[i]) => n[i] \in 1..c
      BY <1>3, <1>5, <1>6, <3>1
    <3>4. Prints(fl[i - 1], rl[i - 1], w[i]) => z[n[i]] = u[n[i]]
      BY <1>4, <3>3
    <3> QED BY <1>6, <3>1, <3>2, <3>4
  <2>2. CASE i > a
    <3> DEFINE j == i - a
    <3>1. j \in 1..b /\ j \in 0..b /\ j - 1 \in 0..b /\ i \in a..(a + b) /\ i - 1 \in a..(a + b)
          /\ (i - 1) - a = j - 1 /\ i \in (a + 1)..(a + b)
      BY <1>3, <2>2
    <3>2. y[i] = v[j] /\ hl[i] = gl[j] /\ pl[i] = ql[j] /\ l[i] = c + m[j]
      BY <1>4, <1>11, <3>1
    <3>3. hl[i - 1] = gl[j - 1] /\ pl[i - 1] = ql[j - 1] /\ l[i - 1] = c + m[j - 1]
      BY <1>11, <3>1
    <3> HIDE DEF j
    <3>4. m[j] \in Nat /\ m[j - 1] \in Nat /\ m[j] <= d
      BY <1>3, <1>5, <3>1
    <3>5. CASE Prints(gl[j - 1], ql[j - 1], v[j])
      <4>1. m[j] = m[j - 1] + 1 /\ x[m[j]] = Shape(gl[j - 1])
        BY <1>7, <3>1, <3>5
      <4>2. l[i] = l[i - 1] + 1 /\ l[i] \in (c + 1)..(c + d) /\ l[i] - c = m[j]
        <5> DEFINE q == m[j - 1]
        <5>1. q \in Nat /\ m[j] = q + 1 /\ q + 1 <= d /\ l[i - 1] = c + q /\ l[i] = c + (q + 1)
          BY <3>2, <3>3, <3>4, <4>1
        <5> HIDE DEF q
        <5> QED BY <1>3, <5>1
      <4>3. z[l[i]] = x[m[j]]
        BY <1>4, <4>2
      <4> QED BY <1>7, <3>1, <3>2, <3>3, <3>5, <4>1, <4>2, <4>3
    <3>6. CASE ~Prints(gl[j - 1], ql[j - 1], v[j])
      BY <1>7, <3>1, <3>2, <3>3, <3>6
    <3> QED BY <3>5, <3>6
  <2> QED BY <1>3, <2>1, <2>2
<1>13. /\ hl[0] = f0 /\ pl[0] = r0 /\ l[0] = 0
       /\ hl[a + b] = f2 /\ pl[a + b] = r2 /\ l[a + b] = c + d
  <2>1. 0 \in 0..a /\ a + b \in a..(a + b) /\ (a + b) - a = b
    BY <1>3
  <2> QED BY <1>5, <1>10, <1>11, <2>1
<1> QED BY <1>3, <1>9, <1>12, <1>13 DEF Reading

\* A single code.
LEMMA ReadsOne ==
  ASSUME NEW c \in Codes, NEW f \in SUBSET Marks, NEW r \in {0, 1}
  PROVE  Reads(<<c>>, f, r, IF Prints(f, r, c) THEN <<Shape(f)>> ELSE <<>>, FlagsAfter(f, r, c), ReleasedAfter(r, c))
<1> DEFINE g == FlagsAfter(f, r, c)
           q == ReleasedAfter(r, c)
           u == IF Prints(f, r, c) THEN <<Shape(f)>> ELSE <<>>
           fl == [i \in 0..1 |-> IF i = 0 THEN f ELSE g]
           rl == [i \in 0..1 |-> IF i = 0 THEN r ELSE q]
           n  == [i \in 0..1 |-> IF i = 0 THEN 0 ELSE Len(u)]
<1>1. g \in SUBSET Marks
  <2>1. Typing!Modified(c) \subseteq Modifiers
    BY CodeFacts
  <2> QED BY <2>1 DEF FlagsAfter, Marks, Modifiers
<1>2. q \in {0, 1}
  BY DEF ReleasedAfter
<1>3. /\ Prints(f, r, c) => u = <<Shape(f)>> /\ Len(u) = 1 /\ u[1] = Shape(f)
      /\ ~Prints(f, r, c) => u = <<>> /\ Len(u) = 0
  OBVIOUS
<1>4. Len(u) \in {0, 1}
  BY <1>3
<1> HIDE DEF g, q, u
<1>5. Len(<<c>>) = 1 /\ <<c>>[1] = c /\ 1..1 = {1} /\ 0..1 = {0, 1}
  OBVIOUS
<1>6. fl \in [0..1 -> SUBSET Marks] /\ rl \in [0..1 -> {0, 1}] /\ n \in [0..1 -> 0..Len(u)]
  BY <1>1, <1>2, <1>4
<1>7. fl[0] = f /\ fl[1] = g /\ rl[0] = r /\ rl[1] = q /\ n[0] = 0 /\ n[1] = Len(u)
  OBVIOUS
<1> HIDE DEF fl, rl, n
<1>8. Reading(<<c>>, f, r, u, g, q, fl, rl, n)
  <2>1. /\ fl[1] = FlagsAfter(fl[1 - 1], rl[1 - 1], <<c>>[1])
        /\ rl[1] = ReleasedAfter(rl[1 - 1], <<c>>[1])
        /\ IF Prints(fl[1 - 1], rl[1 - 1], <<c>>[1]) THEN n[1] = n[1 - 1] + 1 /\ u[n[1]] = Shape(fl[1 - 1])
           ELSE n[1] = n[1 - 1]
    <3>1. 1 - 1 = 0
      OBVIOUS
    <3> QED BY <1>3, <1>5, <1>7, <3>1 DEF g, q
  <2> QED BY <1>5, <1>6, <1>7, <2>1 DEF Reading
<1> QED BY <1>8 DEF Reads, g, q, u

\* What is read comes off the front.
LEMMA ReadsFirst ==
  ASSUME NEW w \in Seq(Codes), NEW u \in Seq(Shapes), NEW f0, NEW r0, NEW f1, NEW r1,
         Reads(w, f0, r0, u, f1, r1), w # <<>>
  PROVE  /\ Prints(f0, r0, Head(w)) => u # <<>> /\ Head(u) = Shape(f0)
         /\ Reads(Tail(w), FlagsAfter(f0, r0, Head(w)), ReleasedAfter(r0, Head(w)),
                  IF Prints(f0, r0, Head(w)) THEN Tail(u) ELSE u, f1, r1)
<1>1. PICK fl, rl, n : Reading(w, f0, r0, u, f1, r1, fl, rl, n)
  BY DEF Reads
<1> DEFINE a == Len(w)
           c == Len(u)
           y == Tail(w)
           p == Prints(f0, r0, Head(w))
           k == IF p THEN 1 ELSE 0
           z == IF p THEN Tail(u) ELSE u
           hl == [i \in 0..(a - 1) |-> fl[i + 1]]
           pl == [i \in 0..(a - 1) |-> rl[i + 1]]
           l  == [i \in 0..(a - 1) |-> n[i + 1] - k]
<1>2. a \in Nat /\ a >= 1 /\ c \in Nat /\ Head(w) = w[1] /\ Len(y) = a - 1 /\ \A i \in 1..(a - 1) : y[i] = w[i + 1]
  OBVIOUS
<1>3. /\ fl \in [0..a -> SUBSET Marks] /\ rl \in [0..a -> {0, 1}] /\ n \in [0..a -> 0..c]
      /\ fl[0] = f0 /\ rl[0] = r0 /\ n[0] = 0 /\ fl[a] = f1 /\ rl[a] = r1 /\ n[a] = c
  BY <1>1 DEF Reading
<1>4. \A i \in 1..a :
         /\ fl[i] = FlagsAfter(fl[i - 1], rl[i - 1], w[i])
         /\ rl[i] = ReleasedAfter(rl[i - 1], w[i])
         /\ IF Prints(fl[i - 1], rl[i - 1], w[i]) THEN n[i] = n[i - 1] + 1 /\ u[n[i]] = Shape(fl[i - 1])
            ELSE n[i] = n[i - 1]
  BY <1>1 DEF Reading
<1>5. /\ fl[1] = FlagsAfter(f0, r0, Head(w)) /\ rl[1] = ReleasedAfter(r0, Head(w)) /\ n[1] = k
      /\ (p => u[1] = Shape(f0)) /\ k \in {0, 1} /\ (p => k = 1) /\ (~p => k = 0)
  <2>1. 1 \in 1..a /\ 1 - 1 = 0
    BY <1>2
  <2> QED BY <1>2, <1>3, <1>4, <2>1
<1>6. k <= c /\ (p => u # <<>> /\ Head(u) = Shape(f0))
  <2>1. n[1] \in 0..c
    BY <1>2, <1>3
  <2>2. k <= c
    BY <1>2, <1>5, <2>1
  <2>3. p => c >= 1
    BY <1>2, <1>5, <2>2
  <2>4. c >= 1 => u # <<>> /\ Head(u) = u[1]
    OBVIOUS
  <2> HIDE DEF k
  <2> QED BY <1>5, <2>2, <2>3, <2>4
<1>7. Len(z) = c - k /\ \A i \in 1..(c - k) : z[i] = u[i + k]
  BY <1>5, <1>6
<1> HIDE DEF a, c, y, k, z
<1>8. \A i \in 1..a : n[i] >= k
  <2> DEFINE S == {i \in 1..a : ~(n[i] >= k)}
  <2> SUFFICES ASSUME S # {} PROVE FALSE
    OBVIOUS
  <2>1. S \subseteq Nat
    BY <1>2
  <2>2. PICK i \in S : \A j \in S : i <= j
    BY <2>1, LeastNatural
  <2>3. i \in 1..a /\ ~(n[i] >= k) /\ i # 1
    BY <1>2, <1>5, <2>2
  <2>4. i - 1 \in 1..a /\ i - 1 \in 0..a /\ i \in 0..a /\ ~(i <= i - 1)
    BY <1>2, <2>3
  <2>5. n[i - 1] >= k
    BY <2>2, <2>4
  <2>6. n[i] \in Nat /\ n[i - 1] \in Nat
    BY <1>2, <1>3, <2>4
  <2>7. n[i] >= n[i - 1]
    BY <1>4, <2>3, <2>6
  <2> QED BY <1>5, <2>3, <2>5, <2>6, <2>7
<1> SUFFICES Reading(y, FlagsAfter(f0, r0, Head(w)), ReleasedAfter(r0, Head(w)), z, f1, r1, hl, pl, l)
  BY <1>6 DEF Reads, p, y, z
<1> HIDE DEF p
<1>9. \A i \in 0..(a - 1) : i + 1 \in 0..a /\ i + 1 \in 1..a
  BY <1>2
<1>10. hl \in [0..(a - 1) -> SUBSET Marks] /\ pl \in [0..(a - 1) -> {0, 1}]
  BY <1>3, <1>9
<1>11. l \in [0..(a - 1) -> 0..(c - k)]
  <2>1. ASSUME NEW i \in 0..(a - 1) PROVE n[i + 1] - k \in 0..(c - k)
    <3>1. n[i + 1] \in 0..c /\ n[i + 1] >= k
      BY <1>3, <1>8, <1>9
    <3> QED BY <1>2, <1>5, <3>1
  <2> QED BY <2>1
<1>12. \A i \in 0..(a - 1) : hl[i] = fl[i + 1] /\ pl[i] = rl[i + 1] /\ l[i] = n[i + 1] - k
  OBVIOUS
<1> HIDE DEF hl, pl, l
<1>13. ASSUME NEW i \in 1..(a - 1)
       PROVE  /\ hl[i] = FlagsAfter(hl[i - 1], pl[i - 1], y[i])
              /\ pl[i] = ReleasedAfter(pl[i - 1], y[i])
              /\ IF Prints(hl[i - 1], pl[i - 1], y[i]) THEN l[i] = l[i - 1] + 1 /\ z[l[i]] = Shape(hl[i - 1])
                 ELSE l[i] = l[i - 1]
  <2>1. i \in 0..(a - 1) /\ i - 1 \in 0..(a - 1) /\ (i - 1) + 1 = i /\ (i + 1) - 1 = i /\ i + 1 \in 1..a /\ i \in 1..a
        /\ i + 1 \in 0..a /\ i \in 0..a
    BY <1>2
  <2>2. /\ hl[i] = fl[i + 1] /\ pl[i] = rl[i + 1] /\ l[i] = n[i + 1] - k
        /\ hl[i - 1] = fl[i] /\ pl[i - 1] = rl[i] /\ l[i - 1] = n[i] - k /\ y[i] = w[i + 1]
    BY <1>2, <1>12, <2>1
  <2>3. /\ fl[i + 1] = FlagsAfter(fl[i], rl[i], w[i + 1])
        /\ rl[i + 1] = ReleasedAfter(rl[i], w[i + 1])
        /\ IF Prints(fl[i], rl[i], w[i + 1]) THEN n[i + 1] = n[i] + 1 /\ u[n[i + 1]] = Shape(fl[i])
           ELSE n[i + 1] = n[i]
    BY <1>4, <2>1
  <2>4. n[i] \in Nat /\ n[i + 1] \in 0..c /\ n[i] >= k
    BY <1>2, <1>3, <1>8, <2>1
  <2>5. CASE Prints(fl[i], rl[i], w[i + 1])
    <3>1. n[i + 1] = n[i] + 1
      BY <2>3, <2>5
    <3> DEFINE j == n[i + 1] - k
    <3>2. j \in 1..(c - k) /\ j + k = n[i + 1] /\ j = (n[i] - k) + 1
      <4> DEFINE q == n[i]
      <4>1. q \in Nat /\ q >= k /\ q + 1 <= c /\ j = (q + 1) - k /\ n[i + 1] = q + 1 /\ k \in Nat /\ c \in Nat
        BY <1>2, <1>5, <2>4, <3>1
      <4> HIDE DEF q, j
      <4>2. j \in 1..(c - k) /\ j + k = q + 1 /\ j = (q - k) + 1
        BY <4>1
      <4> QED BY <4>1, <4>2 DEF q
    <3>3. z[j] = u[j + k]
      BY <1>7, <3>2
    <3> QED BY <2>2, <2>3, <2>5, <3>2, <3>3
  <2>6. CASE ~Prints(fl[i], rl[i], w[i + 1])
    BY <2>2, <2>3, <2>6
  <2> QED BY <2>5, <2>6
<1>14. /\ hl[0] = FlagsAfter(f0, r0, Head(w)) /\ pl[0] = ReleasedAfter(r0, Head(w)) /\ l[0] = 0
       /\ hl[a - 1] = f1 /\ pl[a - 1] = r1 /\ l[a - 1] = c - k
  <2>1. 0 \in 0..(a - 1) /\ a - 1 \in 0..(a - 1) /\ 0 + 1 = 1 /\ (a - 1) + 1 = a /\ k - k = 0
    BY <1>2, <1>5
  <2> QED BY <1>3, <1>5, <1>12, <2>1
<1>15. Len(y) = a - 1
  BY <1>2
<1> QED BY <1>7, <1>10, <1>11, <1>13, <1>14, <1>15 DEF Reading

\* A reading that prints nothing, and one after it.
LEMMA ReadsMore ==
  ASSUME NEW w \in Seq(Codes), NEW v \in Seq(Codes), NEW x \in Seq(Shapes),
         NEW f0, NEW r0, NEW f1, NEW r1, NEW f2, NEW r2,
         Reads(w, f0, r0, <<>>, f1, r1), Reads(v, f1, r1, x, f2, r2)
  PROVE  Reads(w \o v, f0, r0, x, f2, r2)
<1> DEFINE none == <<>>
<1>1. none \in Seq(Shapes) /\ none \o x = x /\ Reads(w, f0, r0, none, f1, r1)
  OBVIOUS
<1> HIDE DEF none
<1>2. Reads(w \o v, f0, r0, none \o x, f2, r2)
  BY <1>1, ReadsBoth
<1> QED BY <1>1, <1>2

\* The codes of the keys.
LEMMA CodesAre == Codes = {"11", "12", "59", "14", "58", "1c", "75", "e0", "f0", "e1", "77"}
<1>1. DOMAIN Typing!Code = {"left_alt", "right_alt", "left_shift", "right_shift", "left_ctrl", "right_ctrl",
                            "caps", "letter", "arrow"}
  BY DEF Typing!Code
<1>2. /\ Typing!Code["left_alt"] = "11" /\ Typing!Code["right_alt"] = "11" /\ Typing!Code["left_shift"] = "12"
      /\ Typing!Code["right_shift"] = "59" /\ Typing!Code["left_ctrl"] = "14" /\ Typing!Code["right_ctrl"] = "14"
      /\ Typing!Code["caps"] = "58" /\ Typing!Code["letter"] = "1c" /\ Typing!Code["arrow"] = "75"
  BY DEF Typing!Code
<1>3. Codes = {Typing!Code[k] : k \in DOMAIN Typing!Code} \cup {"e0", "f0", "e1", "77"}
  BY DEF Codes, Typing!ScanCodes
<1> QED BY <1>1, <1>2, <1>3

\* Short messages, code by code.
LEMMA ShortSequences ==
  /\ \A a \in Codes : <<a>> \in Seq(Codes)
  /\ \A a, b \in Codes : <<a, b>> \in Seq(Codes) /\ <<a, b>> = <<a>> \o <<b>>
  /\ \A a, b, c \in Codes : <<a, b, c>> \in Seq(Codes) /\ <<a, b, c>> = <<a>> \o <<b, c>>
<1>1. ASSUME NEW a \in Codes PROVE <<a>> \in Seq(Codes) /\ Len(<<a>>) = 1 /\ <<a>>[1] = a
  OBVIOUS
<1>2. ASSUME NEW a \in Codes, NEW b \in Codes PROVE <<a, b>> \in Seq(Codes) /\ <<a, b>> = <<a>> \o <<b>>
  <2> DEFINE s == <<a, b>>
             t == <<a>> \o <<b>>
  <2>1. s \in Seq(Codes) /\ Len(s) = 2 /\ s[1] = a /\ s[2] = b
    OBVIOUS
  <2>2. t \in Seq(Codes) /\ Len(t) = 2 /\ t[1] = a /\ t[2] = b
    OBVIOUS
  <2> HIDE DEF s, t
  <2>3. s = t
    BY <2>1, <2>2, SeqEqual
  <2> QED BY <2>1, <2>3 DEF s, t
<1>3. ASSUME NEW a \in Codes, NEW b \in Codes, NEW c \in Codes
      PROVE  <<a, b, c>> \in Seq(Codes) /\ <<a, b, c>> = <<a>> \o <<b, c>>
  <2> DEFINE s == <<a, b, c>>
             t == <<a>> \o <<b, c>>
  <2>1. s \in Seq(Codes) /\ Len(s) = 3 /\ s[1] = a /\ s[2] = b /\ s[3] = c
    OBVIOUS
  <2>2. t \in Seq(Codes) /\ Len(t) = 3 /\ t[1] = a /\ t[2] = b /\ t[3] = c
    OBVIOUS
  <2> HIDE DEF s, t
  <2>3. s = t
    BY <2>1, <2>2, SeqEqual
  <2> QED BY <2>1, <2>3 DEF s, t
<1> QED BY <1>1, <1>2, <1>3

Extended(f) == f \cup {"Extended"}

\* What single codes do that print nothing.
LEMMA SingleCodes ==
  ASSUME NEW f \in SUBSET Modifiers
  PROVE  /\ \A c \in Codes \ {"e0", "f0", "1c", "58"} :
              Reads(<<c>>, f, 0, <<>>, f \cup Typing!Modified(c), 0)
         /\ Reads(<<"58">>, f, 0, <<>>, (f \ {"CapsLock"}) \cup ({"CapsLock"} \ f), 0)
         /\ Reads(<<"1c">>, f, 0, <<Shape(f)>>, f, 0)
         /\ Reads(<<"e0">>, f, 0, <<>>, Extended(f), 0)
         /\ Reads(<<"f0">>, f, 0, <<>>, f, 1) /\ Reads(<<"f0">>, Extended(f), 0, <<>>, Extended(f), 1)
         /\ \A c \in Codes \ {"e0", "f0"} : Reads(<<c>>, f, 1, <<>>, f \ Typing!Modified(c), 0)
         /\ \A c \in Codes \ {"e0", "f0", "12", "59", "58"} :
              Reads(<<c>>, Extended(f), 0, <<>>, f \cup Typing!Modified(c), 0)
         /\ \A c \in Codes \ {"e0", "f0", "12", "59"} :
              Reads(<<c>>, Extended(f), 1, <<>>, f \ Typing!Modified(c), 0)
         /\ \A c \in {"12", "59"}, r \in {0, 1} : Reads(<<c>>, Extended(f), r, <<>>, f, 0)
<1>1. f \in SUBSET Marks /\ Extended(f) \in SUBSET Marks /\ "Extended" \notin f /\ "Extended" \in Extended(f)
      /\ Extended(f) \ {"Extended"} = f /\ f \ {"Extended"} = f /\ f \cup {"Extended"} = Extended(f)
  BY DEF Marks, Modifiers, Extended
<1>2. {"11", "12", "59", "14", "58", "1c", "75", "e0", "f0", "e1", "77"} \subseteq Codes
  BY CodesAre
<1>3. ASSUME NEW c \in Codes \ {"e0", "f0", "1c", "58"} PROVE Reads(<<c>>, f, 0, <<>>, f \cup Typing!Modified(c), 0)
  <2>1. ~Prints(f, 0, c) /\ FlagsAfter(f, 0, c) = f \cup Typing!Modified(c) /\ ReleasedAfter(0, c) = 0
    BY <1>1 DEF Prints, FlagsAfter, ReleasedAfter
  <2>2. Reads(<<c>>, f, 0, IF Prints(f, 0, c) THEN <<Shape(f)>> ELSE <<>>, FlagsAfter(f, 0, c), ReleasedAfter(0, c))
    BY <1>1, ReadsOne
  <2> QED BY <2>1, <2>2
<1>4. Reads(<<"58">>, f, 0, <<>>, (f \ {"CapsLock"}) \cup ({"CapsLock"} \ f), 0)
  <2>1. ~Prints(f, 0, "58") /\ FlagsAfter(f, 0, "58") = (f \ {"CapsLock"}) \cup ({"CapsLock"} \ f) /\ ReleasedAfter(0, "58") = 0
    BY <1>1 DEF Prints, FlagsAfter, ReleasedAfter
  <2>2. Reads(<<"58">>, f, 0, IF Prints(f, 0, "58") THEN <<Shape(f)>> ELSE <<>>, FlagsAfter(f, 0, "58"), ReleasedAfter(0, "58"))
    BY <1>1, <1>2, ReadsOne
  <2> QED BY <2>1, <2>2
<1>5. Reads(<<"1c">>, f, 0, <<Shape(f)>>, f, 0)
  <2>1. Prints(f, 0, "1c") /\ FlagsAfter(f, 0, "1c") = f /\ ReleasedAfter(0, "1c") = 0
    BY <1>1, CodeFacts DEF Prints, FlagsAfter, ReleasedAfter
  <2>2. Reads(<<"1c">>, f, 0, IF Prints(f, 0, "1c") THEN <<Shape(f)>> ELSE <<>>, FlagsAfter(f, 0, "1c"), ReleasedAfter(0, "1c"))
    BY <1>1, <1>2, ReadsOne
  <2> QED BY <2>1, <2>2
<1>6. Reads(<<"e0">>, f, 0, <<>>, Extended(f), 0)
  <2>1. ~Prints(f, 0, "e0") /\ FlagsAfter(f, 0, "e0") = Extended(f) /\ ReleasedAfter(0, "e0") = 0
    BY <1>1 DEF Prints, FlagsAfter, ReleasedAfter
  <2>2. Reads(<<"e0">>, f, 0, IF Prints(f, 0, "e0") THEN <<Shape(f)>> ELSE <<>>, FlagsAfter(f, 0, "e0"), ReleasedAfter(0, "e0"))
    BY <1>1, <1>2, ReadsOne
  <2> QED BY <2>1, <2>2
<1>7. ASSUME NEW g \in {f, Extended(f)} PROVE Reads(<<"f0">>, g, 0, <<>>, g, 1)
  <2>1. ~Prints(g, 0, "f0") /\ FlagsAfter(g, 0, "f0") = g /\ ReleasedAfter(0, "f0") = 1
    BY <1>1 DEF Prints, FlagsAfter, ReleasedAfter
  <2>2. Reads(<<"f0">>, g, 0, IF Prints(g, 0, "f0") THEN <<Shape(g)>> ELSE <<>>, FlagsAfter(g, 0, "f0"), ReleasedAfter(0, "f0"))
    BY <1>1, <1>2, ReadsOne
  <2> QED BY <2>1, <2>2
<1>8. ASSUME NEW c \in Codes \ {"e0", "f0"} PROVE Reads(<<c>>, f, 1, <<>>, f \ Typing!Modified(c), 0)
  <2>1. ~Prints(f, 1, c) /\ FlagsAfter(f, 1, c) = f \ Typing!Modified(c) /\ ReleasedAfter(1, c) = 0
    BY <1>1 DEF Prints, FlagsAfter, ReleasedAfter
  <2>2. Reads(<<c>>, f, 1, IF Prints(f, 1, c) THEN <<Shape(f)>> ELSE <<>>, FlagsAfter(f, 1, c), ReleasedAfter(1, c))
    BY <1>1, ReadsOne
  <2> QED BY <2>1, <2>2
<1>9. ASSUME NEW c \in Codes \ {"e0", "f0", "12", "59", "58"}
      PROVE  Reads(<<c>>, Extended(f), 0, <<>>, f \cup Typing!Modified(c), 0)
  <2>1. /\ ~Prints(Extended(f), 0, c) /\ FlagsAfter(Extended(f), 0, c) = f \cup Typing!Modified(c)
        /\ ReleasedAfter(0, c) = 0
    BY <1>1 DEF Prints, FlagsAfter, ReleasedAfter
  <2>2. Reads(<<c>>, Extended(f), 0, IF Prints(Extended(f), 0, c) THEN <<Shape(Extended(f))>> ELSE <<>>,
              FlagsAfter(Extended(f), 0, c), ReleasedAfter(0, c))
    BY <1>1, ReadsOne
  <2> QED BY <2>1, <2>2
<1>10. ASSUME NEW c \in Codes \ {"e0", "f0", "12", "59"}
       PROVE  Reads(<<c>>, Extended(f), 1, <<>>, f \ Typing!Modified(c), 0)
  <2>1. /\ ~Prints(Extended(f), 1, c) /\ FlagsAfter(Extended(f), 1, c) = f \ Typing!Modified(c)
        /\ ReleasedAfter(1, c) = 0
    BY <1>1 DEF Prints, FlagsAfter, ReleasedAfter
  <2>2. Reads(<<c>>, Extended(f), 1, IF Prints(Extended(f), 1, c) THEN <<Shape(Extended(f))>> ELSE <<>>,
              FlagsAfter(Extended(f), 1, c), ReleasedAfter(1, c))
    BY <1>1, ReadsOne
  <2> QED BY <2>1, <2>2
<1>11. ASSUME NEW c \in {"12", "59"}, NEW r \in {0, 1} PROVE Reads(<<c>>, Extended(f), r, <<>>, f, 0)
  <2>1. ~Prints(Extended(f), r, c) /\ FlagsAfter(Extended(f), r, c) = f /\ ReleasedAfter(r, c) = 0 /\ c \in Codes
    BY <1>1, <1>2 DEF Prints, FlagsAfter, ReleasedAfter
  <2> DEFINE e == Extended(f)
  <2>2. c \in Codes /\ e \in SUBSET Marks /\ r \in {0, 1}
    BY <1>1, <2>1
  <2> HIDE DEF e
  <2>3. Reads(<<c>>, e, r, IF Prints(e, r, c) THEN <<Shape(e)>> ELSE <<>>, FlagsAfter(e, r, c), ReleasedAfter(r, c))
    BY <2>2, ReadsOne
  <2> QED BY <2>1, <2>3 DEF e
<1> QED BY <1>3, <1>4, <1>5, <1>6, <1>7, <1>8, <1>9, <1>10, <1>11

\* What a key's press and its release make of the modifiers.
Pressed(f, k) ==
    IF k \in DOMAIN Typing!Modifier THEN f \cup {Typing!Modifier[k]}
    ELSE IF k # "caps" THEN f ELSE (f \ {"CapsLock"}) \cup ({"CapsLock"} \ f)
Released(f, k) == IF k \in DOMAIN Typing!Modifier THEN f \ {Typing!Modifier[k]} ELSE f
Typed(f, k)    == IF k = "letter" THEN <<Shape(f)>> ELSE <<>>

\* The codes of the keys, and which of them are modifiers'.
LEMMA KeyFacts ==
  ASSUME NEW k \in DOMAIN Typing!Code
  PROVE  /\ Typing!Code[k] \in Codes \ {"e0", "f0"}
         /\ Typing!Modified(Typing!Code[k]) = IF k \in DOMAIN Typing!Modifier THEN {Typing!Modifier[k]} ELSE {}
         /\ k = "letter" <=> Typing!Code[k] = "1c"
         /\ k = "caps" <=> Typing!Code[k] = "58"
         /\ k \in {"letter", "caps"} => k \notin DOMAIN Typing!Modifier
         /\ k \in Typing!ExtendedKeys => Typing!Code[k] \notin {"12", "59", "58", "1c"}
         /\ k \in DOMAIN Typing!Modifier => Typing!Modifier[k] \in Modifiers
<1>1. DOMAIN Typing!Modifier = {"left_alt", "right_alt", "left_shift", "right_shift", "left_ctrl", "right_ctrl"}
  BY DEF Typing!Modifier
<1>2. /\ Typing!Modifier["left_alt"] = "Alt" /\ Typing!Modifier["right_alt"] = "Alt"
      /\ Typing!Modifier["left_shift"] = "Shift" /\ Typing!Modifier["right_shift"] = "Shift"
      /\ Typing!Modifier["left_ctrl"] = "Ctrl" /\ Typing!Modifier["right_ctrl"] = "Ctrl"
  BY DEF Typing!Modifier
<1>3. /\ Typing!Code["left_alt"] = "11" /\ Typing!Code["right_alt"] = "11" /\ Typing!Code["left_shift"] = "12"
      /\ Typing!Code["right_shift"] = "59" /\ Typing!Code["left_ctrl"] = "14" /\ Typing!Code["right_ctrl"] = "14"
      /\ Typing!Code["caps"] = "58" /\ Typing!Code["letter"] = "1c" /\ Typing!Code["arrow"] = "75"
  BY DEF Typing!Code
<1>4. k \in {"left_alt", "right_alt", "left_shift", "right_shift", "left_ctrl", "right_ctrl", "caps", "letter", "arrow"}
  BY DEF Typing!Code
<1>5. Typing!Modified(Typing!Code[k]) = IF k \in DOMAIN Typing!Modifier THEN {Typing!Modifier[k]} ELSE {}
  BY <1>1, <1>2, <1>3, <1>4, CodeFacts
<1>6. Typing!Code[k] \in Codes \ {"e0", "f0"}
  BY <1>3, <1>4, CodesAre
<1>7. Typing!ExtendedKeys = {"right_alt", "right_ctrl", "arrow"}
  BY DEF Typing!ExtendedKeys
<1> QED BY <1>1, <1>2, <1>3, <1>4, <1>5, <1>6, <1>7 DEF Modifiers

\* A key that is pressed prints what it should and changes the modifiers it should.
LEMMA MakeReads ==
  ASSUME NEW f \in SUBSET Modifiers, NEW k \in DOMAIN Typing!Code
  PROVE  /\ Typing!Make(k) \in Seq(Codes)
         /\ Reads(Typing!Make(k), f, 0, Typed(f, k), Pressed(f, k), 0)
<1> DEFINE c == Typing!Code[k]
           M == Typing!Modified(c)
<1>1. /\ c \in Codes \ {"e0", "f0"} /\ (k = "letter" <=> c = "1c") /\ (k = "caps" <=> c = "58")
      /\ M = IF k \in DOMAIN Typing!Modifier THEN {Typing!Modifier[k]} ELSE {}
      /\ k \in {"letter", "caps"} => k \notin DOMAIN Typing!Modifier
      /\ k \in Typing!ExtendedKeys => c \notin {"12", "59", "58", "1c"}
  BY KeyFacts
<1>2. <<c>> \in Seq(Codes) /\ <<"e0">> \in Seq(Codes)
  <2>1. c \in Codes /\ "e0" \in Codes
    BY <1>1, CodesAre
  <2> HIDE DEF c
  <2> QED BY <2>1, ShortSequences
<1>3. c # "58" => Pressed(f, k) = f \cup M
  BY <1>1 DEF Pressed
<1>4. c = "58" => Pressed(f, k) = (f \ {"CapsLock"}) \cup ({"CapsLock"} \ f)
  BY <1>1 DEF Pressed
<1>5. c = "1c" => Pressed(f, k) = f /\ Typed(f, k) = <<Shape(f)>>
  BY <1>1, <1>3 DEF Typed
<1>6. c # "1c" => Typed(f, k) = <<>>
  BY <1>1 DEF Typed
<1>7. Typing!Make(k) = Typing!Prefix(k) \o <<c>>
  BY DEF Typing!Make
<1> HIDE DEF c, M
<1>8. CASE k \in Typing!ExtendedKeys
  <2>1. Typing!Make(k) = <<"e0">> \o <<c>>
    BY <1>7, <1>8 DEF Typing!Prefix
  <2>2. Reads(<<"e0">>, f, 0, <<>>, Extended(f), 0)
    BY SingleCodes
  <2>3. c \in Codes \ {"e0", "f0", "12", "59", "58"}
    BY <1>1, <1>8
  <2>4. Reads(<<c>>, Extended(f), 0, <<>>, f \cup M, 0)
    BY <2>3, SingleCodes DEF M
  <2> DEFINE none == <<>>
  <2>5. none \in Seq(Shapes) /\ Reads(<<c>>, Extended(f), 0, none, f \cup M, 0)
    BY <2>4
  <2> HIDE DEF none
  <2>6. Reads(<<"e0">> \o <<c>>, f, 0, none, f \cup M, 0)
    BY <1>2, <2>2, <2>5, ReadsMore
  <2>7. <<"e0">> \o <<c>> \in Seq(Codes)
    BY <1>2, ConcatProperties
  <2> QED BY <1>1, <1>3, <1>6, <1>8, <2>1, <2>6, <2>7 DEF none
<1>9. CASE k \notin Typing!ExtendedKeys
  <2>1. Typing!Make(k) = <<>> \o <<c>>
    BY <1>7, <1>9 DEF Typing!Prefix
  <2>2. Typing!Make(k) = <<c>>
    BY <1>2, <2>1
  <2>3. CASE c \in {"58", "1c"}
    BY <1>2, <1>4, <1>5, <1>6, <2>2, <2>3, SingleCodes
  <2>4. CASE c \notin {"58", "1c"}
    <3>1. c \in Codes \ {"e0", "f0", "1c", "58"}
      BY <1>1, <2>4
    <3>2. Reads(<<c>>, f, 0, <<>>, f \cup M, 0)
      BY <3>1, SingleCodes DEF M
    <3> QED BY <1>2, <1>3, <1>6, <2>2, <2>4, <3>2
  <2> QED BY <2>3, <2>4
<1> QED BY <1>8, <1>9

\* A key that is released prints nothing and takes back its modifier.
LEMMA BreakReads ==
  ASSUME NEW f \in SUBSET Modifiers, NEW k \in DOMAIN Typing!Code
  PROVE  /\ Typing!Break(k) \in Seq(Codes)
         /\ Reads(Typing!Break(k), f, 0, <<>>, Released(f, k), 0)
<1> DEFINE c == Typing!Code[k]
           M == Typing!Modified(c)
           none == <<>>
<1>1. /\ c \in Codes \ {"e0", "f0"}
      /\ M = IF k \in DOMAIN Typing!Modifier THEN {Typing!Modifier[k]} ELSE {}
      /\ k \in Typing!ExtendedKeys => c \notin {"12", "59", "58", "1c"}
  BY KeyFacts
<1>2. <<c>> \in Seq(Codes) /\ <<"e0">> \in Seq(Codes) /\ <<"f0">> \in Seq(Codes)
      /\ <<"f0", c>> \in Seq(Codes) /\ <<"f0", c>> = <<"f0">> \o <<c>>
  <2>1. c \in Codes /\ "e0" \in Codes /\ "f0" \in Codes
    BY <1>1, CodesAre
  <2> HIDE DEF c
  <2> QED BY <2>1, ShortSequences
<1>3. Released(f, k) = f \ M
  BY <1>1 DEF Released
<1>4. Typing!Break(k) = Typing!Prefix(k) \o <<"f0", c>>
  BY DEF Typing!Break
<1>5. none \in Seq(Shapes)
  OBVIOUS
<1> HIDE DEF c, M, none
<1>6. CASE k \in Typing!ExtendedKeys
  <2>1. Typing!Break(k) = <<"e0">> \o <<"f0", c>>
    BY <1>4, <1>6 DEF Typing!Prefix
  <2>2. Reads(<<"e0">>, f, 0, <<>>, Extended(f), 0) /\ Reads(<<"f0">>, Extended(f), 0, <<>>, Extended(f), 1)
    BY SingleCodes
  <2>3. c \in Codes \ {"e0", "f0", "12", "59"}
    BY <1>1, <1>6
  <2>4. Reads(<<c>>, Extended(f), 1, none, f \ M, 0)
    BY <2>3, SingleCodes DEF M, none
  <2>5. Reads(<<"f0", c>>, Extended(f), 0, none, f \ M, 0)
    BY <1>2, <1>5, <2>2, <2>4, ReadsMore
  <2>6. Reads(<<"e0">> \o <<"f0", c>>, f, 0, none, f \ M, 0)
    BY <1>2, <1>5, <2>2, <2>5, ReadsMore
  <2>7. <<"e0">> \o <<"f0", c>> \in Seq(Codes)
    BY <1>2, ConcatProperties
  <2> QED BY <1>3, <2>1, <2>6, <2>7 DEF none
<1>7. CASE k \notin Typing!ExtendedKeys
  <2>1. Typing!Break(k) = <<>> \o <<"f0", c>>
    BY <1>4, <1>7 DEF Typing!Prefix
  <2>2. Typing!Break(k) = <<"f0", c>>
    BY <1>2, <2>1
  <2>3. Reads(<<"f0">>, f, 0, <<>>, f, 1)
    BY SingleCodes
  <2>4. Reads(<<c>>, f, 1, none, f \ M, 0)
    BY <1>1, SingleCodes DEF M, none
  <2>5. Reads(<<"f0", c>>, f, 0, none, f \ M, 0)
    BY <1>2, <1>5, <2>3, <2>4, ReadsMore
  <2> QED BY <1>2, <1>3, <2>2, <2>5 DEF none
<1> QED BY <1>6, <1>7

\* Fake shifts change nothing.
LEMMA FakesRead ==
  ASSUME NEW f \in SUBSET Modifiers, NEW c \in {"12", "59"}
  PROVE  /\ <<"e0", c>> \in Seq(Codes) /\ <<"e0", "f0", c>> \in Seq(Codes)
         /\ Reads(<<"e0", c>>, f, 0, <<>>, f, 0)
         /\ Reads(<<"e0", "f0", c>>, f, 0, <<>>, f, 0)
<1> DEFINE none == <<>>
<1>1. c \in Codes /\ "e0" \in Codes /\ "f0" \in Codes
  BY CodesAre
<1>2. /\ <<c>> \in Seq(Codes) /\ <<"e0">> \in Seq(Codes) /\ <<"f0">> \in Seq(Codes)
      /\ <<"f0", c>> \in Seq(Codes) /\ <<"f0", c>> = <<"f0">> \o <<c>>
      /\ <<"e0", c>> \in Seq(Codes) /\ <<"e0", c>> = <<"e0">> \o <<c>>
      /\ <<"e0", "f0", c>> \in Seq(Codes) /\ <<"e0", "f0", c>> = <<"e0">> \o <<"f0", c>>
  BY <1>1, ShortSequences
<1>3. none \in Seq(Shapes)
  OBVIOUS
<1>4. Reads(<<"e0">>, f, 0, <<>>, Extended(f), 0) /\ Reads(<<"f0">>, Extended(f), 0, <<>>, Extended(f), 1)
  BY SingleCodes
<1>5. Reads(<<c>>, Extended(f), 0, none, f, 0) /\ Reads(<<c>>, Extended(f), 1, none, f, 0)
  BY SingleCodes
<1> HIDE DEF none
<1>6. Reads(<<"f0", c>>, Extended(f), 0, none, f, 0)
  BY <1>2, <1>3, <1>4, <1>5, ReadsMore
<1>7. Reads(<<"e0", c>>, f, 0, none, f, 0)
  BY <1>2, <1>3, <1>4, <1>5, ReadsMore
<1>8. Reads(<<"e0", "f0", c>>, f, 0, none, f, 0)
  BY <1>2, <1>3, <1>4, <1>6, ReadsMore
<1> QED BY <1>2, <1>7, <1>8 DEF none

\* Pause, which is what Ctrl and a key without function would send, takes Ctrl back.
LEMMA PauseReads ==
  ASSUME NEW f \in SUBSET Modifiers
  PROVE  /\ Typing!PauseCodes \in Seq(Codes)
         /\ Reads(Typing!PauseCodes, f, 0, <<>>, f \ {"Ctrl"}, 0)
<1> DEFINE none == <<>>
           d == f \cup {"Ctrl"}
           g == f \ {"Ctrl"}
           p == <<"e1", "14", "77">>
           q == <<"e1", "f0", "14">>
           z == <<"f0", "77">>
<1>1. {"e1", "14", "77", "f0"} \subseteq Codes
  BY CodesAre
<1>2. /\ <<"e1">> \in Seq(Codes) /\ <<"14">> \in Seq(Codes) /\ <<"77">> \in Seq(Codes) /\ <<"f0">> \in Seq(Codes)
      /\ <<"14", "77">> \in Seq(Codes) /\ <<"14", "77">> = <<"14">> \o <<"77">>
      /\ <<"f0", "14">> \in Seq(Codes) /\ <<"f0", "14">> = <<"f0">> \o <<"14">>
      /\ z \in Seq(Codes) /\ z = <<"f0">> \o <<"77">>
      /\ p \in Seq(Codes) /\ p = <<"e1">> \o <<"14", "77">>
      /\ q \in Seq(Codes) /\ q = <<"e1">> \o <<"f0", "14">>
  BY <1>1, ShortSequences
<1>3. none \in Seq(Shapes) /\ d \in SUBSET Modifiers /\ g \in SUBSET Modifiers /\ d \ {"Ctrl"} = g
  BY DEF Modifiers
<1>4. Typing!PauseCodes = p \o (q \o z) /\ q \o z \in Seq(Codes) /\ Typing!PauseCodes \in Seq(Codes)
  <2>1. /\ Len(p) = 3 /\ p[1] = "e1" /\ p[2] = "14" /\ p[3] = "77"
        /\ Len(q) = 3 /\ q[1] = "e1" /\ q[2] = "f0" /\ q[3] = "14"
        /\ Len(z) = 2 /\ z[1] = "f0" /\ z[2] = "77"
    OBVIOUS
  <2> HIDE DEF p, q, z
  <2> DEFINE t == q \o z
             s == p \o t
             a == Typing!PauseCodes
  <2>2. t \in Seq(Codes) /\ Len(t) = 5
    BY <1>2, <2>1, ConcatProperties
  <2>3. t[1] = q[1] /\ t[2] = q[2] /\ t[3] = q[3] /\ t[4] = z[1] /\ t[5] = z[2]
    <3>1. \A i \in 1..5 : t[i] = IF i <= 3 THEN q[i] ELSE z[i - 3]
      BY <1>2, <2>1, ConcatProperties
    <3> HIDE DEF t
    <3>2. t[1] = q[1] /\ t[2] = q[2] /\ t[3] = q[3] /\ t[4] = z[4 - 3] /\ t[5] = z[5 - 3]
      BY <3>1
    <3> QED BY <3>2
  <2> HIDE DEF t
  <2>4. /\ s \in Seq(Codes) /\ Len(s) = 8
        /\ \A i \in 1..8 : s[i] = IF i <= 3 THEN p[i] ELSE t[i - 3]
    <3>1. p \in Seq(Codes) /\ Len(p) = 3 /\ t \in Seq(Codes) /\ Len(t) = 5
      BY <1>2, <2>1, <2>2
    <3>2. /\ p \o t \in Seq(Codes) /\ Len(p \o t) = Len(p) + Len(t)
          /\ \A i \in 1..(Len(p) + Len(t)) : (p \o t)[i] = IF i <= Len(p) THEN p[i] ELSE t[i - Len(p)]
      BY <3>1, ConcatProperties
    <3> QED BY <3>1, <3>2
  <2>5. s[1] = p[1] /\ s[2] = p[2] /\ s[3] = p[3]
        /\ s[4] = t[1] /\ s[5] = t[2] /\ s[6] = t[3] /\ s[7] = t[4] /\ s[8] = t[5]
    <3> HIDE DEF s
    <3>1. /\ s[1] = p[1] /\ s[2] = p[2] /\ s[3] = p[3] /\ s[4] = t[4 - 3] /\ s[5] = t[5 - 3]
          /\ s[6] = t[6 - 3] /\ s[7] = t[7 - 3] /\ s[8] = t[8 - 3]
      BY <2>4
    <3> QED BY <3>1
  <2>6. a \in Seq(Codes)
    <3> HIDE DEF s
    <3> QED BY <1>1 DEF Typing!PauseCodes
  <2>7. /\ Len(a) = 8 /\ a[1] = "e1" /\ a[2] = "14" /\ a[3] = "77"
        /\ a[4] = "e1" /\ a[5] = "f0" /\ a[6] = "14" /\ a[7] = "f0" /\ a[8] = "77"
    BY DEF Typing!PauseCodes
  <2> HIDE DEF s, a
  <2>8. \A i \in 1..Len(a) : a[i] = s[i]
    <3>1. 1..8 = {1, 2, 3, 4, 5, 6, 7, 8}
      OBVIOUS
    <3> QED BY <2>1, <2>3, <2>5, <2>7, <3>1
  <2>9. a = s
    BY <2>4, <2>6, <2>7, <2>8, SeqEqual
  <2> QED BY <2>2, <2>6, <2>9 DEF s, t, a
<1>5. Typing!Modified("e1") = {} /\ Typing!Modified("77") = {} /\ Typing!Modified("14") = {"Ctrl"}
  BY CodeFacts
<1> HIDE DEF none, d, g, p, q, z
<1>6. ASSUME NEW e \in SUBSET Modifiers
      PROVE  /\ Reads(<<"e1">>, e, 0, <<>>, e, 0) /\ Reads(<<"77">>, e, 0, <<>>, e, 0)
             /\ Reads(<<"14">>, e, 0, <<>>, e \cup {"Ctrl"}, 0) /\ Reads(<<"f0">>, e, 0, <<>>, e, 1)
             /\ Reads(<<"77">>, e, 1, <<>>, e, 0) /\ Reads(<<"14">>, e, 1, <<>>, e \ {"Ctrl"}, 0)
  <2>1. /\ Reads(<<"e1">>, e, 0, <<>>, e \cup Typing!Modified("e1"), 0)
        /\ Reads(<<"77">>, e, 0, <<>>, e \cup Typing!Modified("77"), 0)
        /\ Reads(<<"14">>, e, 0, <<>>, e \cup Typing!Modified("14"), 0)
    BY <1>1, SingleCodes
  <2>2. /\ Reads(<<"77">>, e, 1, <<>>, e \ Typing!Modified("77"), 0)
        /\ Reads(<<"14">>, e, 1, <<>>, e \ Typing!Modified("14"), 0)
        /\ Reads(<<"f0">>, e, 0, <<>>, e, 1)
    BY <1>1, SingleCodes
  <2>3. e \cup {} = e /\ e \ {} = e
    OBVIOUS
  <2> QED BY <1>5, <2>1, <2>2, <2>3
<1>7. Reads(<<"77">>, d, 0, none, d, 0) /\ Reads(<<"14">>, f, 0, <<>>, d, 0) /\ Reads(<<"e1">>, f, 0, <<>>, f, 0)
  BY <1>3, <1>6 DEF none, d
<1>8. Reads(<<"14", "77">>, f, 0, none, d, 0)
  BY <1>2, <1>3, <1>7, ReadsMore
<1>9. Reads(p, f, 0, <<>>, d, 0)
  <2>1. Reads(p, f, 0, none, d, 0)
    BY <1>2, <1>3, <1>7, <1>8, ReadsMore
  <2> QED BY <2>1 DEF none
<1>10. Reads(<<"14">>, d, 1, none, g, 0) /\ Reads(<<"f0">>, d, 0, <<>>, d, 1) /\ Reads(<<"e1">>, d, 0, <<>>, d, 0)
  BY <1>3, <1>6 DEF none
<1>11. Reads(<<"f0", "14">>, d, 0, none, g, 0)
  <2>1. <<"f0">> \in Seq(Codes) /\ <<"14">> \in Seq(Codes) /\ <<"f0", "14">> = <<"f0">> \o <<"14">>
    BY <1>2
  <2>2. Reads(<<"f0">> \o <<"14">>, d, 0, none, g, 0)
    BY <1>3, <1>10, <2>1, ReadsMore
  <2> QED BY <2>1, <2>2
<1>12. Reads(q, d, 0, <<>>, g, 0)
  <2>1. Reads(q, d, 0, none, g, 0)
    BY <1>2, <1>3, <1>10, <1>11, ReadsMore
  <2> QED BY <2>1 DEF none
<1>13. Reads(<<"77">>, g, 1, none, g, 0) /\ Reads(<<"f0">>, g, 0, <<>>, g, 1)
  BY <1>3, <1>6 DEF none
<1>14. Reads(z, g, 0, none, g, 0)
  BY <1>2, <1>3, <1>13, ReadsMore
<1>15. Reads(q \o z, d, 0, none, g, 0)
  BY <1>2, <1>3, <1>12, <1>14, ReadsMore
<1>16. Reads(p \o (q \o z), f, 0, none, g, 0)
  BY <1>2, <1>3, <1>4, <1>9, <1>15, ReadsMore
<1> QED BY <1>4, <1>16 DEF none, g

\* What is sent will be read after what is already on the way.
LEMMA Sending ==
  ASSUME TypingInv, NEW w \in Seq(Codes), NEW x \in Seq(Shapes), Typing!Send(w),
         Reads(w, meant, 0, x, meant', 0), unseen' = unseen \o x, meant' \subseteq Modifiers,
         "Ctrl" \in meant' => held' \cap {"left_ctrl", "right_ctrl"} # {}
  PROVE  TypingInv'
<1>1. wire' = wire \o w /\ flags' = flags /\ released' = released
  BY DEF Typing!Send
<1>2. wire \in Seq(Codes) /\ unseen \in Seq(Shapes) /\ released \in BOOLEAN
  BY DEF TypingInv
<1> DEFINE r == IF released THEN 1 ELSE 0
<1>3. Reads(wire, flags, r, unseen, meant, 0)
  BY DEF TypingInv
<1>4. (IF released' THEN 1 ELSE 0) = r
  BY <1>1
<1> HIDE DEF r
<1>5. Reads(wire \o w, flags, r, unseen \o x, meant', 0)
  BY <1>2, <1>3, ReadsBoth
<1>6. wire' \in Seq(Codes) /\ unseen' \in Seq(Shapes)
  BY <1>1, <1>2, ConcatProperties
<1>7. Reads(wire', flags', IF released' THEN 1 ELSE 0, unseen', meant', 0)
  BY <1>1, <1>4, <1>5
<1>8. released' \in BOOLEAN
  BY <1>1, <1>2
<1> QED BY <1>6, <1>7, <1>8 DEF TypingInv

\* Pressing a key.
LEMMA TypingPressKeeps ==
  ASSUME TypingInv, NEW k \in Keys \ {"pause"}, Typing!PressKey(k)
  PROVE  TypingInv'
<1> DEFINE x == Typed(meant, k)
<1>1. k \in DOMAIN Typing!Code /\ meant \in SUBSET Modifiers /\ unseen \in Seq(Shapes)
  BY KeysAssumption DEF TypingInv
<1>2. PICK fake \in {<<>>} \cup (IF k = "arrow" THEN Typing!FakeUp ELSE {}) : Typing!Send(fake \o Typing!Make(k))
  BY DEF Typing!PressKey
<1>3. Typing!Make(k) \in Seq(Codes) /\ Reads(Typing!Make(k), meant, 0, x, Pressed(meant, k), 0)
  BY <1>1, MakeReads
<1>4. meant' = Pressed(meant, k)
  BY DEF Typing!PressKey, Pressed
<1>5. x \in Seq(Shapes)
  <2>1. Shape(meant) \in Shapes
    BY DEF Shape, Shapes
  <2> DEFINE s == Shape(meant)
  <2>2. x = <<s>> \/ x = <<>>
    BY DEF Typed
  <2> HIDE DEF x, s
  <2>3. s \in Shapes
    BY <2>1 DEF s
  <2>4. <<s>> \in Seq(Shapes)
    BY <2>3
  <2> DEFINE t == <<s>>
             none == <<>>
  <2>5. t \in Seq(Shapes) /\ none \in Seq(Shapes) /\ (x = t \/ x = none)
    BY <2>2, <2>4
  <2> HIDE DEF t, none
  <2> QED BY <2>5
<1>6. unseen' = unseen \o x
  <2>1. CASE k = "letter"
    <3>1. unseen' = Append(unseen, Shape(meant)) /\ x = <<Shape(meant)>>
      BY <2>1 DEF Typing!PressKey, Typed, Shape
    <3>2. Shape(meant) \in Shapes
      BY DEF Shape, Shapes
    <3> HIDE DEF x
    <3> QED BY <1>1, <3>1, <3>2
  <2>2. CASE k # "letter"
    <3>1. unseen' = unseen /\ x = <<>>
      BY <2>2 DEF Typing!PressKey, Typed
    <3> HIDE DEF x
    <3> QED BY <1>1, <3>1
  <2> QED BY <2>1, <2>2
<1>7. meant' \subseteq Modifiers
  BY <1>1, <1>4, KeyFacts DEF Pressed, Modifiers
<1>8. "Ctrl" \in meant' => held' \cap {"left_ctrl", "right_ctrl"} # {}
  <2>1. held' = held \cup {k}
    BY DEF Typing!PressKey
  <2>2. "Ctrl" \in meant => held \cap {"left_ctrl", "right_ctrl"} # {}
    BY DEF TypingInv
  <2>3. "Ctrl" \in Pressed(meant, k) => "Ctrl" \in meant \/ k \in {"left_ctrl", "right_ctrl"}
    BY DEF Pressed, Typing!Modifier
  <2> QED BY <1>4, <2>1, <2>2, <2>3
<1> HIDE DEF x
<1>9. CASE fake = <<>>
  <2>1. fake \o Typing!Make(k) = Typing!Make(k)
    BY <1>3, <1>9
  <2> QED BY <1>2, <1>3, <1>4, <1>5, <1>6, <1>7, <1>8, <2>1, Sending
<1>10. CASE fake # <<>>
  <2>1. fake \in {<<"e0", "f0", c>> : c \in {"12", "59"}}
    <3>1. fake \in Typing!FakeUp
      BY <1>2, <1>10
    <3>2. Typing!Code["left_shift"] = "12" /\ Typing!Code["right_shift"] = "59"
      BY DEF Typing!Code
    <3> QED BY <3>1, <3>2 DEF Typing!FakeUp
  <2>2. PICK c \in {"12", "59"} : fake = <<"e0", "f0", c>>
    BY <2>1
  <2>3. fake \in Seq(Codes) /\ Reads(fake, meant, 0, <<>>, meant, 0)
    BY <1>1, <2>2, FakesRead
  <2>4. fake \o Typing!Make(k) \in Seq(Codes)
    BY <1>3, <2>3, ConcatProperties
  <2>5. Reads(fake \o Typing!Make(k), meant, 0, x, meant', 0)
    BY <1>3, <1>4, <1>5, <2>3, ReadsMore
  <2> QED BY <1>2, <1>5, <1>6, <1>7, <1>8, <2>4, <2>5, Sending
<1> QED BY <1>9, <1>10

\* Releasing a key.
LEMMA TypingReleaseKeeps ==
  ASSUME TypingInv, NEW k \in Keys \ {"pause"}, Typing!ReleaseKey(k)
  PROVE  TypingInv'
<1> DEFINE none == <<>>
<1>1. k \in DOMAIN Typing!Code /\ meant \in SUBSET Modifiers /\ unseen \in Seq(Shapes)
  BY KeysAssumption DEF TypingInv
<1>2. PICK fake \in {<<>>} \cup (IF k = "arrow" THEN Typing!FakeDown ELSE {}) : Typing!Send(Typing!Break(k) \o fake)
  BY DEF Typing!ReleaseKey
<1>3. Typing!Break(k) \in Seq(Codes) /\ Reads(Typing!Break(k), meant, 0, <<>>, Released(meant, k), 0)
  BY <1>1, BreakReads
<1>4. meant' = Released(meant, k)
  BY DEF Typing!ReleaseKey, Released
<1>5. none \in Seq(Shapes) /\ unseen' = unseen \o none
  <2>1. unseen' = unseen
    BY DEF Typing!ReleaseKey
  <2> QED BY <1>1, <2>1
<1>6. meant' \subseteq Modifiers
  BY <1>1, <1>4 DEF Released
<1>7. "Ctrl" \in meant' => held' \cap {"left_ctrl", "right_ctrl"} # {}
  <2>1. held' = held \ {k}
    BY DEF Typing!ReleaseKey
  <2>2. "Ctrl" \in meant => held \cap {"left_ctrl", "right_ctrl"} # {}
    BY DEF TypingInv
  <2>3. "Ctrl" \in Released(meant, k) => "Ctrl" \in meant /\ k \notin {"left_ctrl", "right_ctrl"}
    BY DEF Released, Typing!Modifier
  <2> QED BY <1>4, <2>1, <2>2, <2>3
<1>8. Reads(Typing!Break(k), meant, 0, none, meant', 0)
  BY <1>3, <1>4
<1>9. CASE fake = <<>>
  <2>1. Typing!Break(k) \o fake = Typing!Break(k)
    BY <1>3, <1>9
  <2> HIDE DEF none
  <2> QED BY <1>2, <1>3, <1>5, <1>6, <1>7, <1>8, <2>1, Sending
<1>10. CASE fake # <<>>
  <2>1. fake \in {<<"e0", c>> : c \in {"12", "59"}}
    <3>1. fake \in Typing!FakeDown
      BY <1>2, <1>10
    <3>2. Typing!Code["left_shift"] = "12" /\ Typing!Code["right_shift"] = "59"
      BY DEF Typing!Code
    <3> QED BY <3>1, <3>2 DEF Typing!FakeDown
  <2>2. PICK c \in {"12", "59"} : fake = <<"e0", c>>
    BY <2>1
  <2>3. meant' \in SUBSET Modifiers
    BY <1>6
  <2>4. fake \in Seq(Codes) /\ Reads(fake, meant', 0, none, meant', 0)
    BY <2>2, <2>3, FakesRead
  <2>5. Typing!Break(k) \o fake \in Seq(Codes)
    BY <1>3, <2>4, ConcatProperties
  <2>6. Reads(Typing!Break(k), meant, 0, <<>>, meant', 0)
    BY <1>3, <1>4
  <2> HIDE DEF none
  <2>7. Reads(Typing!Break(k) \o fake, meant, 0, none, meant', 0)
    BY <1>3, <1>5, <2>4, <2>6, ReadsMore
  <2> QED BY <1>2, <1>5, <1>6, <1>7, <2>5, <2>7, Sending
<1> QED BY <1>9, <1>10

\* Pressing Pause.
LEMMA TypingPauseKeeps ==
  ASSUME TypingInv, Typing!PressPause
  PROVE  TypingInv'
<1> DEFINE none == <<>>
<1>1. meant \in SUBSET Modifiers /\ unseen \in Seq(Shapes)
  BY DEF TypingInv
<1>2. held' = held /\ meant' = meant /\ unseen' = unseen /\ Typing!Send(Typing!PauseCodes)
  BY DEF Typing!PressPause
<1>3. "Ctrl" \notin meant
  BY DEF Typing!PressPause, TypingInv
<1>4. meant \ {"Ctrl"} = meant
  BY <1>3
<1>5. Typing!PauseCodes \in Seq(Codes) /\ Reads(Typing!PauseCodes, meant, 0, none, meant', 0)
  BY <1>1, <1>2, <1>4, PauseReads
<1>6. none \in Seq(Shapes) /\ unseen' = unseen \o none
  BY <1>1, <1>2
<1>7. meant' \subseteq Modifiers /\ "Ctrl" \notin meant'
  BY <1>1, <1>2, <1>3
<1> HIDE DEF none
<1> QED BY <1>2, <1>5, <1>6, <1>7, Sending

\* Reading a code: HandleInput does what Reading says, and OnKey prints accordingly.
LEMMA IsrReads ==
  ASSUME released \in BOOLEAN, NEW code \in Codes, Typing!IsrKeyboard(code)
  PROVE  LET r == IF released THEN 1 ELSE 0
         IN  /\ wire # <<>> /\ code = Head(wire) /\ wire' = Tail(wire) /\ held' = held /\ meant' = meant
             /\ flags' = FlagsAfter(flags, r, code)
             /\ released' \in BOOLEAN /\ (IF released' THEN 1 ELSE 0) = ReleasedAfter(r, code)
             /\ IF Prints(flags, r, code)
                THEN printed' = Shape(flags) /\ (unseen # <<>> => unseen' = Tail(unseen))
                ELSE printed' = "none" /\ unseen' = unseen
<1> DEFINE r == IF released THEN 1 ELSE 0
<1>1. (released => r = 1) /\ (~released => r = 0)
  OBVIOUS
<1> HIDE DEF r
<1> USE DEF Typing!Read, Typing!Silent, Typing!Ordinary, Typing!IsFake, Typing!Extended, Typing!Plain
<1>2. CASE Typing!HandlePrefix(code)
  <2>1. /\ wire # <<>> /\ code = Head(wire) /\ wire' = Tail(wire) /\ held' = held /\ meant' = meant
        /\ printed' = "none" /\ unseen' = unseen /\ code \in {"e0", "f0"}
        /\ flags' = IF code = "e0" THEN flags \cup {"Extended"} ELSE flags
    BY <1>2 DEF Typing!HandlePrefix
  <2>2. released' = (released \/ code = "f0")
    BY <1>2 DEF Typing!HandlePrefix
  <2>3. released' \in BOOLEAN /\ (IF released' THEN 1 ELSE 0) = ReleasedAfter(r, code)
    <3>1. CASE released
      BY <1>1, <2>1, <2>2, <3>1 DEF ReleasedAfter
    <3>2. CASE ~released
      <4>1. CASE code = "f0"
        BY <2>2, <4>1 DEF ReleasedAfter
      <4>2. CASE code # "f0"
        BY <1>1, <2>2, <3>2, <4>2 DEF ReleasedAfter
      <4> QED BY <4>1, <4>2
    <3> QED BY <3>1, <3>2
  <2>4. flags' = FlagsAfter(flags, r, code) /\ ~Prints(flags, r, code)
    BY <2>1 DEF FlagsAfter, Prints
  <2> QED BY <2>1, <2>3, <2>4 DEF r
<1>3. CASE Typing!HandleFakeShift(code)
  <2>1. /\ wire # <<>> /\ code = Head(wire) /\ wire' = Tail(wire) /\ held' = held /\ meant' = meant
        /\ printed' = "none" /\ unseen' = unseen /\ "Extended" \in flags /\ code \in {"12", "59"}
        /\ flags' = flags \ {"Extended"}
    BY <1>3 DEF Typing!HandleFakeShift
  <2>2. released' = FALSE
    BY <1>3 DEF Typing!HandleFakeShift
  <2>3. flags' = FlagsAfter(flags, r, code) /\ ~Prints(flags, r, code) /\ ReleasedAfter(r, code) = 0
    BY <2>1 DEF FlagsAfter, Prints, ReleasedAfter
  <2> QED BY <2>1, <2>2, <2>3 DEF r
<1>4. CASE Typing!HandleRelease(code)
  <2>1. /\ wire # <<>> /\ code = Head(wire) /\ wire' = Tail(wire) /\ held' = held /\ meant' = meant
        /\ printed' = "none" /\ unseen' = unseen /\ code \notin {"e0", "f0"}
        /\ ~("Extended" \in flags /\ code \in {"12", "59"})
        /\ flags' = (flags \ {"Extended"}) \ Typing!Modified(code)
    BY <1>4 DEF Typing!HandleRelease
  <2>2. released' = FALSE /\ r = 1
    BY <1>1, <1>4 DEF Typing!HandleRelease
  <2>3. flags' = FlagsAfter(flags, r, code) /\ ~Prints(flags, r, code) /\ ReleasedAfter(r, code) = 0
    BY <2>1, <2>2 DEF FlagsAfter, Prints, ReleasedAfter
  <2> QED BY <2>1, <2>2, <2>3 DEF r
<1>5. CASE Typing!HandleModifier(code)
  <2>1. /\ wire # <<>> /\ code = Head(wire) /\ wire' = Tail(wire) /\ held' = held /\ meant' = meant
        /\ printed' = "none" /\ unseen' = unseen /\ code \notin {"e0", "f0"}
        /\ ~("Extended" \in flags /\ code \in {"12", "59"}) /\ Typing!Modified(code) # {}
        /\ flags' = (flags \ {"Extended"}) \cup Typing!Modified(code)
    BY <1>5 DEF Typing!HandleModifier
  <2>2. released' = released /\ ~released /\ r = 0
    BY <1>1, <1>5 DEF Typing!HandleModifier
  <2>3. code \in {"11", "12", "59", "14"}
    BY <2>1, CodeFacts
  <2>4. flags' = FlagsAfter(flags, r, code) /\ ~Prints(flags, r, code) /\ ReleasedAfter(r, code) = 0
    BY <2>1, <2>2, <2>3 DEF FlagsAfter, Prints, ReleasedAfter
  <2> QED BY <2>1, <2>2, <2>4 DEF r
<1>6. CASE Typing!HandleCapsLock(code)
  <2>1. /\ wire # <<>> /\ code = Head(wire) /\ wire' = Tail(wire) /\ held' = held /\ meant' = meant
        /\ printed' = "none" /\ unseen' = unseen /\ code = "58"
        /\ flags' = ((flags \ {"Extended"}) \ {"CapsLock"}) \cup ({"CapsLock"} \ (flags \ {"Extended"}))
    BY <1>6 DEF Typing!HandleCapsLock
  <2>2. released' = released /\ ~released /\ r = 0
    BY <1>1, <1>6 DEF Typing!HandleCapsLock
  <2>3. flags' = FlagsAfter(flags, r, code) /\ ~Prints(flags, r, code) /\ ReleasedAfter(r, code) = 0
    BY <2>1, <2>2 DEF FlagsAfter, Prints, ReleasedAfter
  <2> QED BY <2>1, <2>2, <2>3 DEF r
<1>7. CASE Typing!OnKey(code)
  <2>1. /\ wire # <<>> /\ code = Head(wire) /\ wire' = Tail(wire) /\ held' = held /\ meant' = meant
        /\ code \notin {"e0", "f0", "58"} /\ Typing!Modified(code) = {}
        /\ ~("Extended" \in flags /\ code \in {"12", "59"})
        /\ flags' = flags \ {"Extended"}
    BY <1>7 DEF Typing!OnKey
  <2>2. released' = released /\ ~released /\ r = 0
    BY <1>1, <1>7 DEF Typing!OnKey
  <2>3. flags' = FlagsAfter(flags, r, code) /\ ReleasedAfter(r, code) = 0
    BY <2>1, <2>2 DEF FlagsAfter, ReleasedAfter
  <2>4. CASE Prints(flags, r, code)
    <3>1. printed' = Shape(flags)
      BY <1>7, <2>4 DEF Typing!OnKey, Prints, Shape
    <3>2. printed' # "none"
      BY <3>1 DEF Shape
    <3>3. unseen # <<>> => unseen' = Tail(unseen)
      BY <1>7, <3>2 DEF Typing!OnKey
    <3> QED BY <2>1, <2>2, <2>3, <2>4, <3>1, <3>3 DEF r
  <2>5. CASE ~Prints(flags, r, code)
    <3>1. printed' = "none"
      BY <1>7, <2>2, <2>5 DEF Typing!OnKey, Prints
    <3>2. unseen' = unseen
      BY <1>7, <3>1 DEF Typing!OnKey
    <3> QED BY <2>1, <2>2, <2>3, <2>5, <3>1, <3>2 DEF r
  <2> QED BY <2>4, <2>5
<1> QED BY <1>2, <1>3, <1>4, <1>5, <1>6, <1>7 DEF Typing!IsrKeyboard

\* An interrupt of the keyboard prints what was typed and leaves the rest to be read.
LEMMA TypingIsrKeeps ==
  ASSUME TypingInv, NEW code \in Codes, Typing!IsrKeyboard(code)
  PROVE  /\ TypingInv'
         /\ printed' # "none" => unseen # <<>> /\ printed' = Head(unseen)
<1> DEFINE r == IF released THEN 1 ELSE 0
           q == IF released' THEN 1 ELSE 0
           p == Prints(flags, r, code)
<1>1. wire \in Seq(Codes) /\ unseen \in Seq(Shapes) /\ released \in BOOLEAN /\ Reads(wire, flags, r, unseen, meant, 0)
      /\ meant \subseteq Modifiers /\ ("Ctrl" \in meant => held \cap {"left_ctrl", "right_ctrl"} # {})
  BY DEF TypingInv
<1>2. /\ wire # <<>> /\ code = Head(wire) /\ wire' = Tail(wire) /\ held' = held /\ meant' = meant
      /\ flags' = FlagsAfter(flags, r, code)
      /\ released' \in BOOLEAN /\ q = ReleasedAfter(r, code)
      /\ IF p THEN printed' = Shape(flags) /\ (unseen # <<>> => unseen' = Tail(unseen))
              ELSE printed' = "none" /\ unseen' = unseen
  BY <1>1, IsrReads
<1> HIDE DEF r, q
<1>3. /\ p => unseen # <<>> /\ Head(unseen) = Shape(flags)
      /\ Reads(Tail(wire), FlagsAfter(flags, r, code), ReleasedAfter(r, code), IF p THEN Tail(unseen) ELSE unseen, meant, 0)
  BY <1>1, <1>2, ReadsFirst
<1> HIDE DEF p
<1>4. unseen' = IF p THEN Tail(unseen) ELSE unseen
  BY <1>2, <1>3
<1>5. Reads(wire', flags', q, unseen', meant', 0)
  BY <1>2, <1>3, <1>4
<1>6. wire' \in Seq(Codes)
  BY <1>1, <1>2
<1>7. unseen' \in Seq(Shapes)
  BY <1>1, <1>3, <1>4
<1>8. meant' \subseteq Modifiers /\ ("Ctrl" \in meant' => held' \cap {"left_ctrl", "right_ctrl"} # {})
  BY <1>1, <1>2
<1> QED BY <1>2, <1>3, <1>5, <1>6, <1>7, <1>8 DEF TypingInv, q

\* Before the first key, nothing is on the way.
LEMMA TypingStarts == Typing!Init => TypingInv
<1> SUFFICES ASSUME Typing!Init PROVE TypingInv
  OBVIOUS
<1> DEFINE none == <<>>
<1>1. wire = none /\ unseen = none /\ meant = {} /\ flags = {} /\ released = FALSE
  BY DEF Typing!Init
<1>2. none \in Seq(Codes) /\ none \in Seq(Shapes) /\ Len(none) = 0
  OBVIOUS
<1> HIDE DEF none
<1>3. Reads(none, {}, 0, none, {}, 0)
  <2> DEFINE fl == [i \in 0..Len(none) |-> {}]
             rl == [i \in 0..Len(none) |-> 0]
  <2>1. fl \in [0..Len(none) -> SUBSET Marks] /\ rl \in [0..Len(none) -> {0, 1}] /\ rl \in [0..Len(none) -> 0..Len(none)]
    BY <1>2
  <2>2. fl[0] = {} /\ rl[0] = 0
    BY <1>2
  <2> HIDE DEF fl, rl
  <2>3. Reading(none, {}, 0, none, {}, 0, fl, rl, rl)
    BY <1>2, <2>1, <2>2 DEF Reading
  <2> QED BY <2>3 DEF Reads
<1>4. Reads(wire, flags, IF released THEN 1 ELSE 0, unseen, meant, 0)
  BY <1>1, <1>3
<1> QED BY <1>1, <1>2, <1>4 DEF TypingInv

\* What a step of Devices is to the keyboard.
LEMMA TypingStep ==
  ASSUME TypingInv, [NextDevices]_<<vars, typing, serial>>
  PROVE  /\ TypingInv'
         /\ [printed' # "none" => unseen # <<>> /\ printed' = Head(unseen)]_(Typing!vars)
<1>1. CASE UNCHANGED Typing!vars
  BY <1>1 DEF Typing!vars, TypingInv
<1>2. ASSUME NEW k \in Keys \ {"pause"}, Typing!PressKey(k) \/ Typing!ReleaseKey(k)
      PROVE  printed' = "none"
  BY <1>2 DEF Typing!PressKey, Typing!ReleaseKey, Typing!Send
<1>3. ASSUME Typing!PressPause PROVE printed' = "none"
  BY <1>3 DEF Typing!PressPause, Typing!Send
<1>4. CASE Typing!Next
  <2>1. ASSUME NEW code \in Typing!ScanCodes, Typing!IsrKeyboard(code)
        PROVE  /\ TypingInv'
               /\ printed' # "none" => unseen # <<>> /\ printed' = Head(unseen)
    BY <2>1, TypingIsrKeeps DEF Codes
  <2> QED BY <1>2, <1>3, <1>4, <2>1, TypingPressKeeps, TypingReleaseKeeps, TypingPauseKeeps DEF Typing!Next
<1>5. UNCHANGED Typing!vars \/ Typing!Next
  BY DEF NextDevices, SerialPorts, KeyboardRuns, NextPs2Keyboard, Starting, Running, typing, Typing!vars
<1> QED BY <1>1, <1>4, <1>5

\* IsrKeyboard, HandleInput and OnKey: for any keys and however many scan codes are
\* held back, what is printed is what was typed, in order and shifted as it was meant.
THEOREM TypingIsAlwaysPrinted == SpecDevices => PrintsWhatIsTyped
<1>1. InitDevices => TypingInv
  BY TypingStarts DEF InitDevices, InitPs2Keyboard
<1>2. TypingInv /\ [NextDevices]_<<vars, typing, serial>> => TypingInv'
  BY TypingStep
<1>3. TypingInv /\ [NextDevices]_<<vars, typing, serial>>
        => [printed' # "none" => unseen # <<>> /\ printed' = Head(unseen)]_(Typing!vars)
  BY TypingStep
<1> QED BY <1>1, <1>2, <1>3, PTL DEF SpecDevices, PrintsWhatIsTyped, Typing!PrintsWhatIsTyped
=============================================================================
