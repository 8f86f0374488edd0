--------------------------- MODULE KernelCallers ---------------------------
(***************************************************************************)
(* The tasks that make system calls at the same time.  The kernel's tables *)
(* are static atomics, shared by all of them and guarded by no lock.       *)
(***************************************************************************)
CONSTANT Callers
=============================================================================
