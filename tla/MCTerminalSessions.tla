------------------------- MODULE MCTerminalSessions -------------------------
(* TerminalSessions for TLC: three connections, one session, a child that    *)
(* writes two bytes to its stdout and one to its stderr.                     *)
EXTENDS TerminalSessions

MCEmits == [s \in Sources |-> IF s = "out" THEN <<195, 169>> ELSE <<7>>]

\* the first id= pair decides; one that does not parse is 0
MCQueries ==
    {<<[key |-> "x", val |-> 5], [key |-> "id", val |-> 1], [key |-> "id", val |-> 9]>>,
     <<[key |-> "id", val |-> NotANumber], [key |-> "id", val |-> 1]>>}

\* a blank variable, so that the seat's file names it, and with it the port
MCEnvs ==
    {[seat |-> Blank, home |-> "/h", file |-> "liris-1", host |-> NotSet,
      lirisNames |-> {"liris-1"}]}

MCProbes ==
    {[kernel |-> "headers", recall |-> "headers", bus |-> "body", fabric |-> "refused"]}
=============================================================================
