------------------------------ MODULE FdTable ------------------------------
(***************************************************************************)
(* kernel/core/src/vfs/mod.rs: the descriptor table, whose slots are       *)
(* claimed by compare-exchange in a scan from the lowest one and freed by  *)
(* a swap, and the reads and writes that load a slot's binding before they *)
(* act on it.  The reserved descriptors 0, 1 and 2 are answered without    *)
(* the table and are left out, as are calls with invalid arguments: they   *)
(* change nothing.  The open mode is checked and then forgotten.           *)
(***************************************************************************)
EXTENDS Integers, KernelCallers

CONSTANTS
  FdTableSize,        \* FD_TABLE_SIZE
  Bindings            \* the bindings of the paths that callers open

\* binding_kind_for_path.
AllBindings == {"Unbacked", "DevNull", "BusEnvelope"}

ASSUME FdConstants ==
  /\ FdTableSize \in Nat /\ FdTableSize >= 3
  /\ Bindings \subseteq AllBindings

VARIABLES
  fd_state,           \* FD_STATE
  open,               \* for each caller inside vfs_open: the slot it tries next, the binding
  io,                 \* for each caller about to use the bus: its descriptor and operation
  bus,                \* the bus holds an envelope
  disturbed,          \* history: callers during whose open or I/O something was closed
  live                \* history: successful opens minus successful closes, per slot

fdVars == <<fd_state, open, io, bus, disturbed, live>>

Fds == 3 .. FdTableSize - 1
NoOpen == [fd |-> 0, kind |-> "none"]
NoIo == [fd |-> 0, op |-> "none"]

FdInit ==
  /\ fd_state = [fd \in Fds |-> "Free"]
  /\ open = [c \in Callers |-> NoOpen]
  /\ io = [c \in Callers |-> NoIo]
  /\ bus = FALSE
  /\ disturbed = {}
  /\ live = [fd \in Fds |-> 0]

FdIdle(c) == open[c] = NoOpen /\ io[c] = NoIo

OpenCall(c, k) ==
  /\ FdIdle(c)
  /\ open' = [open EXCEPT ![c] = [fd |-> 3, kind |-> k]]
  /\ UNCHANGED <<fd_state, io, bus, disturbed, live>>

\* Mutant: only FD_STATE_OPEN counts as taken.
SlotLooksFree(fd) == fd_state[fd] # "Unbacked"

SlotFree(fd) == fd_state[fd] = "Free"

\* compare_exchange(Free, kind) succeeds.
OpenClaim(c) ==
  /\ open[c].fd \in Fds
  /\ SlotFree(open[c].fd)
  /\ fd_state' = [fd_state EXCEPT ![open[c].fd] = open[c].kind]
  /\ live' = [live EXCEPT ![open[c].fd] = @ + 1]
  /\ open' = [open EXCEPT ![c] = NoOpen]
  /\ disturbed' = disturbed \ {c}
  /\ UNCHANGED <<io, bus>>

\* Mutant: the scan goes straight to the end of the table.
OpenSkip(c) ==
  /\ open[c].fd \in Fds
  /\ ~ SlotFree(open[c].fd)
  /\ open' = [open EXCEPT ![c].fd = FdTableSize]
  /\ UNCHANGED <<fd_state, io, bus, disturbed, live>>

\* Mutant: ..= in place of .. in the range of the scan.
OpenNextInclusive(c) ==
  /\ open[c].fd \in 3 .. FdTableSize
  /\ open[c].fd \in Fds => ~ SlotFree(open[c].fd)
  /\ open' = [open EXCEPT ![c].fd = @ + 1]
  /\ UNCHANGED <<fd_state, io, bus, disturbed, live>>

\* It fails: advance.
OpenNext(c) ==
  /\ open[c].fd \in Fds
  /\ ~ SlotFree(open[c].fd)
  /\ open' = [open EXCEPT ![c].fd = @ + 1]
  /\ UNCHANGED <<fd_state, io, bus, disturbed, live>>

\* TableFull.
OpenFull(c) ==
  /\ open[c].fd >= FdTableSize
  /\ open' = [open EXCEPT ![c] = NoOpen]
  /\ disturbed' = disturbed \ {c}
  /\ UNCHANGED <<fd_state, io, bus, live>>

\* vfs_close: one swap.  Any caller may close any descriptor; closing a free
\* one changes nothing and is an error.
Close(c, fd) ==
  /\ FdIdle(c)
  /\ fd_state[fd] # "Free"
  /\ fd_state' = [fd_state EXCEPT ![fd] = "Free"]
  /\ live' = [live EXCEPT ![fd] = @ - 1]
  /\ disturbed' = disturbed \cup {d \in Callers : ~ FdIdle(d)}
  /\ UNCHANGED <<open, io, bus>>

\* Mutant: any open descriptor leads to the bus.
IoLoadAny(c, fd, op) ==
  /\ FdIdle(c)
  /\ fd_state[fd] # "Free"
  /\ io' = [io EXCEPT ![c] = [fd |-> fd, op |-> op]]
  /\ UNCHANGED <<fd_state, open, bus, disturbed, live>>

\* The load of the binding in vfs_read and vfs_write.  Only the bus does
\* something further: /dev/null and unbacked descriptors return at once.
IoLoad(c, fd, op) ==
  /\ FdIdle(c)
  /\ fd_state[fd] = "BusEnvelope"
  /\ io' = [io EXCEPT ![c] = [fd |-> fd, op |-> op]]
  /\ UNCHANGED <<fd_state, open, bus, disturbed, live>>

\* The enqueue or dequeue on the mailbox.  A call that fails leaves the slot as it
\* is: WouldBlock, or PayloadOversize for a buffer or a slot that is too small.
IoBus(c) ==
  /\ io[c] # NoIo
  /\ bus' \in {bus, io[c].op = "write"}
  /\ io' = [io EXCEPT ![c] = NoIo]
  /\ disturbed' = disturbed \ {c}
  /\ UNCHANGED <<fd_state, open, live>>

FdStep(c) == OpenClaim(c) \/ OpenNext(c) \/ OpenFull(c) \/ IoBus(c)

\* What a caller may start: vfs_open, vfs_close, vfs_read or vfs_write.
FdCall(c) ==
  \/ \E k \in Bindings : OpenCall(c, k)
  \/ \E fd \in Fds : Close(c, fd) \/ \E op \in {"read", "write"} : IoLoad(c, fd, op)

FdTypeOK ==
  /\ fd_state \in [Fds -> AllBindings \cup {"Free"}]
  /\ open \in [Callers -> [fd : 3 .. FdTableSize, kind : AllBindings] \cup {NoOpen}]
  /\ io \in [Callers -> [fd : Fds, op : {"read", "write"}] \cup {NoIo}]
  /\ bus \in BOOLEAN
  /\ disturbed \subseteq Callers
  /\ live \in [Fds -> Int]

-----------------------------------------------------------------------------
\* Between two successful opens of a descriptor there is a successful close and
\* the other way round: two callers never hold the same slot, and of two that
\* close one slot only one is told so.
DescriptorsUnique ==
  \A fd \in Fds : live[fd] = IF fd_state[fd] = "Free" THEN 0 ELSE 1

\* What is left of "the lowest free slot" with other callers about: a scan has
\* passed a free slot, to a higher descriptor or to TableFull, only if
\* something was closed while it ran.
LowestFreeUnlessClosed ==
  \A c \in Callers :
    open[c] # NoOpen /\ c \notin disturbed =>
      \A fd \in 3 .. open[c].fd - 1 : fd_state[fd] # "Free"

\* A read or write reaches the bus through a descriptor that is still bound to
\* it, or that was closed (and perhaps reopened) after the binding was loaded.
BusThroughBoundFd ==
  \A c \in Callers :
    io[c] # NoIo /\ c \notin disturbed => fd_state[io[c].fd] = "BusEnvelope"
=============================================================================
