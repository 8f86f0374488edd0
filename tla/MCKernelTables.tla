--------------------------- MODULE MCKernelTables ---------------------------
(***************************************************************************)
(* KernelTables with two callers, three pages, two user descriptors and    *)
(* two handles, and, in MCFrameWrap.cfg, a length that wraps.              *)
(***************************************************************************)
EXTENDS KernelTables
=============================================================================
