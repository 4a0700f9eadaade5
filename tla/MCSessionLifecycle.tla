------------------------ MODULE MCSessionLifecycle --------------------------
(* Small instances of SessionLifecycle for TLC. *)
EXTENDS SessionLifecycle, TLC

\* The commands are interchangeable.
CommandSymmetry == Permutations(Commands)
=============================================================================
