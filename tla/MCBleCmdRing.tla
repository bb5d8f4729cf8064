--------------------------- MODULE MCBleCmdRing ---------------------------
(* Instances of BleCmdRing for TLC. *)
EXTENDS BleCmdRing, TLC

\* Bound: the properties promise nothing once clean is lost, so TLC stops at
\* the states in which it is.  (No symmetry of Tasks: Delivered is temporal.)
WhileClean == clean
=============================================================================
