---------------------------- MODULE KernelTables ----------------------------
(***************************************************************************)
(* The tables behind the system calls, used at the same time by the same   *)
(* callers: sys_mmap (FrameAlloc), open, close, read and write on          *)
(* descriptors (FdTable), sys_fork (ChildHandles).  A caller is inside one *)
(* call at a time.                                                         *)
(***************************************************************************)
EXTENDS FrameAlloc, FdTable, ChildHandles

vars == <<frameVars, fdVars, childVars>>

Init == FrameInit /\ FdInit /\ ChildInit

Idle(c) == ~ Allocating(c) /\ FdIdle(c) /\ c \notin refused

FrameNext ==
  /\ \E c \in Callers : AllocStep(c) \/ (Idle(c) /\ \E len \in Lens : AllocCall(c, len))
  /\ UNCHANGED <<fdVars, childVars>>

FdNext ==
  /\ \E c \in Callers : FdStep(c) \/ (Idle(c) /\ FdCall(c))
  /\ UNCHANGED <<frameVars, childVars>>

ChildNext ==
  /\ \E c \in Callers : SpawnRollBack(c) \/ (Idle(c) /\ SpawnChild(c))
  /\ UNCHANGED <<frameVars, fdVars>>

Next == FrameNext \/ FdNext \/ ChildNext

Spec == Init /\ [][Next]_vars

\* A caller inside a call is running, and waits for nobody.
FairSpec ==
  Spec /\ \A c \in Callers :
    /\ WF_vars(AllocStep(c) /\ UNCHANGED <<fdVars, childVars>>)
    /\ WF_vars(FdStep(c) /\ UNCHANGED <<frameVars, childVars>>)
    /\ WF_vars(SpawnRollBack(c) /\ UNCHANGED <<frameVars, fdVars>>)

TypeOK == FrameTypeOK /\ FdTypeOK /\ ChildTypeOK
=============================================================================
