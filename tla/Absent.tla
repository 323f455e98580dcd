------------------------------- MODULE Absent -------------------------------
(* The one value every module uses where the code has None, no row, no key. *)
CONSTANT NULL

Opt(S) == S \cup {NULL}
=============================================================================
