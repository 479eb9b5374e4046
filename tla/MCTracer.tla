------------------------------ MODULE MCTracer ------------------------------
EXTENDS Tracer

Sudo == [suid |-> TRUE, sgid |-> FALSE, uid |-> 0, gid |-> 0]

(* setuid(1), and setreuid(-1, 0), which a root that gave its ids up must  *)
(* not get them back by.                                                   *)
MCCalls ==
  {[name |-> "set", k |-> "u", args |-> <<1, NoId, NoId>>],
   [name |-> "setre", k |-> "u", args |-> <<NoId, 0, NoId>>],
   [name |-> "fork"], [name |-> "clone"],
   [name |-> "exec", exe |-> Sudo],
   [name |-> "exit", code |-> 1]}

(* Processes that fork and end.                                            *)
ForkCalls == {[name |-> "fork"], [name |-> "exit", code |-> 0], [name |-> "exit", code |-> 1]}
=============================================================================
