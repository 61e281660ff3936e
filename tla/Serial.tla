------------------------------- MODULE Serial -------------------------------
(****************************************************************************)
(* The serial ports, hw/serial/serial.cc: Initialize tries COM1 and COM2 in *)
(* loopback mode, and what Write is given goes to the one that is chosen.   *)
(* A port's first two registers are the divisor's while DLAB is set.  No    *)
(* interrupt is connected (SERIAL_STDIO is 0).                              *)
(****************************************************************************)
EXTENDS Integers, Sequences

CONSTANTS Texts,    \* what Write may be given
          MaxSent   \* bound: characters written

Ports == {"com1", "com2"}

VARIABLES kind,    \* port -> "fine", "absent" or "faulty"
          uart,    \* port -> its registers
          wire,    \* port -> what has been sent from it
          port, line,   \* the port InitializePort is at, and the line of it
          has,     \* has_com1, has_com2
          output_port,
          given    \* history: what Write was given since there is an output port
vars == <<kind, uart, wire, port, line, has, output_port, given>>
-----------------------------------------------------------------------------
(* The hardware.                                                            *)

\* The registers, and the bits of theirs that are written; the divisor is the
\* firmware's.
Uart == [dlab : BOOLEAN, loopback : BOOLEAN, divisor : {<<1, 0>>}, interrupts : {0, 1},
         format : {"firmware's"}, received : {0}]

Received(u, reg, value) ==
    CASE reg = "data" /\ u.dlab            -> [u EXCEPT !.divisor = <<value, @[2]>>]
      [] reg = "data" /\ ~u.dlab           -> [u EXCEPT !.received = value]
      [] reg = "int_enabled" /\ u.dlab     -> [u EXCEPT !.divisor = <<@[1], value>>]
      [] reg = "int_enabled" /\ ~u.dlab    -> [u EXCEPT !.interrupts = value]
      [] reg = "line_ctrl"                 -> [u EXCEPT !.dlab = (value = "dlab"), !.format = value]
      [] reg = "fifo_ctrl"                 -> [u EXCEPT !.received = 0]
      [] reg = "modem_ctrl"                -> [u EXCEPT !.loopback = (value = "loopback")]

\* In loopback mode a port hears itself; otherwise it sends.
WriteReg(p, reg, value) ==
    LET u == uart[p]
        sends == reg = "data" /\ ~u.dlab /\ ~u.loopback
    IN  /\ uart' = IF kind[p] = "absent" \/ sends THEN uart ELSE [uart EXCEPT ![p] = Received(u, reg, value)]
        /\ wire' = IF kind[p] # "absent" /\ sends THEN [wire EXCEPT ![p] = Append(@, value)] ELSE wire
-----------------------------------------------------------------------------
(* The driver.                                                              *)

TestByte == 174

\* What InitializePort writes before the test; mutant: DLAB stays as it is.
SetupWithDlab ==
    <<<<"int_enabled", 0>>, <<"line_ctrl", "dlab">>, <<"data", 2>>, <<"int_enabled", 0>>,
      <<"fifo_ctrl", "clear">>, <<"modem_ctrl", "loopback">>, <<"data", TestByte>>>>

Setup ==
    <<<<"int_enabled", 0>>, <<"line_ctrl", "dlab">>, <<"data", 2>>, <<"int_enabled", 0>>,
      <<"line_ctrl", "8N1">>, <<"fifo_ctrl", "clear">>, <<"modem_ctrl", "loopback">>,
      <<"data", TestByte>>>>

InitializePort ==
    /\ port \in Ports /\ line <= Len(Setup)
    /\ WriteReg(port, Setup[line][1], Setup[line][2])
    /\ line' = line + 1
    /\ UNCHANGED <<kind, port, has, output_port, given>>

After(p) == IF p = "com1" THEN "com2" ELSE "chosen"

\* A port that fails stays in loopback mode.
TestPort ==
    /\ port \in Ports /\ line > Len(Setup)
    /\ IF kind[port] = "fine" /\ uart[port].received = TestByte
       THEN WriteReg(port, "modem_ctrl", "ready") /\ has' = has \cup {port}
       ELSE UNCHANGED <<uart, wire, has>>
    /\ port' = After(port) /\ line' = 1
    /\ UNCHANGED <<kind, output_port, given>>

\* SetPort(com1), and SetPort(com2) if there is no COM1.
SetPort ==
    /\ port = "chosen" /\ port' = "done"
    /\ output_port' = IF "com1" \in has THEN "com1" ELSE IF "com2" \in has THEN "com2" ELSE "none"
    /\ UNCHANGED <<kind, uart, wire, line, has, given>>

\* Called in debug builds, before Initialize as well.
Write(c) ==
    /\ port = "done" \/ (port = "com1" /\ line = 1)
    /\ Len(given) < MaxSent
    /\ IF output_port = "none" THEN UNCHANGED <<uart, wire, given>>
       ELSE WriteReg(output_port, "data", c) /\ given' = Append(given, c)
    /\ UNCHANGED <<kind, port, line, has, output_port>>

\* The firmware may have used the ports.
Init ==
    /\ kind \in [Ports -> {"fine", "absent", "faulty"}]
    /\ uart \in [Ports -> Uart]
    /\ wire = [p \in Ports |-> <<>>] /\ given = <<>>
    /\ port = "com1" /\ line = 1 /\ has = {} /\ output_port = "none"

Next == InitializePort \/ TestPort \/ SetPort \/ (\E c \in Texts : Write(c))

Spec == Init /\ [][Next]_vars
-----------------------------------------------------------------------------
(* Properties.                                                              *)

\* Whatever state the firmware has left the ports in and whichever are there: what
\* Write is given since Initialize goes out of one port that works, at the rate and
\* in the format Initialize sets, and nothing else goes out, the test included.
SendsText ==
    /\ port = "done" /\ (\E p \in Ports : kind[p] = "fine") => output_port # "none"
    /\ output_port # "none" =>
         /\ kind[output_port] = "fine"
         /\ uart[output_port].divisor = <<2, 0>> /\ uart[output_port].format = "8N1"
    /\ \A p \in Ports : wire[p] = IF p = output_port THEN given ELSE <<>>
=============================================================================
