-------------------------- MODULE MCVirtualSockets --------------------------
EXTENDS VirtualSockets, TLC

Symmetry == Permutations(Descs)

Processes == AllNames \ {"clone"}
(* The calls with which a thread meets a route socket of another.          *)
Threads == {"socket", "close", "open", "message", "clone"}
=============================================================================
