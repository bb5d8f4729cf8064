----------------------------- MODULE MCBleStore -----------------------------
(* Instances of BleStore for TLC. *)
EXTENDS BleStore

\* Two numbers compare equal.
MCText == [k \in 0 .. TopId |-> IF k = 2 THEN 1 ELSE k]

\* Repetitions are followed as long as nothing has gone astray.
FewRepeats == astray => timer = "sleep"
=============================================================================
