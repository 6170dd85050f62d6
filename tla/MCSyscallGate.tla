--------------------------- MODULE MCSyscallGate ---------------------------
(* Small instances of SyscallGate.  The lines of a run are interchangeable. *)
EXTENDS SyscallGate, TLC

LineSymmetry == Permutations(Calls)
OnceOrForever == {-1, 1}
=============================================================================
