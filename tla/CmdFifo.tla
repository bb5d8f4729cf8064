------------------------------ MODULE CmdFifo ------------------------------
(***************************************************************************)
(* What the command list of ble/bluetooth_logic.c promises to its callers: *)
(* commands accepted for the BLE module are written to the serial port     *)
(* once each, in the order in which they were accepted.                    *)
(*                                                                         *)
(* The promise is made for as long as ok holds.  The list has two ways to  *)
(* break it (two tasks enqueueing at the same time, and more commands than *)
(* the list has slots); afterwards this specification says nothing.        *)
(***************************************************************************)
EXTENDS Integers, Sequences

CONSTANT Cmd        \* the commands

VARIABLES
    queue,          \* commands accepted and not yet written, oldest first
    port,           \* the last command written to the serial port
    ok              \* the promise still holds

vars == <<queue, port, ok>>

Init == /\ queue = << >>
        /\ port \notin Cmd
        /\ ok = TRUE

Accept == /\ ok /\ ok'
          /\ queue' \in Seq(Cmd) \ {<< >>}
          /\ queue = SubSeq(queue', 1, Len(queue') - 1)
          /\ UNCHANGED port

Deliver == /\ ok /\ ok'
           /\ queue # << >>
           /\ port' = Head(queue)
           /\ queue' = Tail(queue)

\* Once broken, always broken, and nothing else is promised.
Break == ~ok'

Next == Accept \/ Deliver \/ Break

Spec == Init /\ [][Next]_vars
=============================================================================
