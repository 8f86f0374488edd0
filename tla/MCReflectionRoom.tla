-------------------------- MODULE MCReflectionRoom --------------------------
(***************************************************************************)
(* ReflectionRoom with a window of two events, two rooms and a u64::MAX    *)
(* that is reached.                                                        *)
(***************************************************************************)
EXTENDS ReflectionRoom, TLC

PublicForm == [complete |-> TRUE, access |-> "Public", pii |-> "None", owner |-> FALSE]
IncompleteForm == [PublicForm EXCEPT !.complete = FALSE]
LeakingForm == [PublicForm EXCEPT !.pii = "Unknown"]
OwnerlessForm == [PublicForm EXCEPT !.access = "OwnerPrivate"]

MCForms == {PublicForm, IncompleteForm, LeakingForm, OwnerlessForm}
MCFormsPublic == {PublicForm}

Symmetry == Permutations(Rooms) \cup Permutations(Keys)
=============================================================================
