------------------------------ MODULE KeyStore ------------------------------
(***************************************************************************)
(* What the stored list of temporary keys (flash/storage_ble_logic.c)      *)
(* promises to its caller, main_ble_callback_proc: it is a set of keys;    *)
(* an answer of the lock about a key puts that key in or takes one out     *)
(* that compares equal to it; a power cut in the middle of a write empties *)
(* the set, and a restart forgets a key only if there were more than Limit *)
(* of them.  In no other way is a key gained or lost.                      *)
(***************************************************************************)
EXTENDS Integers, FiniteSets

CONSTANTS
    Keys,           \* the keys
    Last,           \* the greatest key that is put in
    Limit,          \* as many keys survive a restart
    Text            \* keys with the same text compare equal

VARIABLES
    keys,           \* the keys stored
    about           \* the key the answer being handled is about, or -1

vars == <<keys, about>>

Init == keys = {} /\ about = -1

Put == /\ about \in Keys /\ about <= Last
       /\ keys' = keys \cup {about}
       /\ UNCHANGED about

Take == /\ about \in Keys
        /\ \E k \in keys : Text[k] = Text[about] /\ keys' = keys \ {k}
        /\ UNCHANGED about

\* The next answer, or the end of one.
Turn == about' \in Keys \cup {-1} /\ UNCHANGED keys

\* A power cut.
Empty == keys' = {} /\ about' = -1
Forget == /\ \E k \in keys : Cardinality(keys) > Limit /\ keys' = keys \ {k}
          /\ about' = -1

Next == Put \/ Take \/ Turn \/ Empty \/ Forget

Spec == Init /\ [][Next]_vars
=============================================================================
