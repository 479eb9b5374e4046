----------------------------- MODULE MCTcpProxy -----------------------------
EXTENDS TcpProxy, TLC

CONSTANTS c1, c2

(* One connection that carries data, one that is there for the listener.   *)
TwoClients == {c1, c2}
Chunks == [k \in TwoClients \X {"client", "server"} |-> IF k[1] = c1 THEN 2 ELSE 0]
=============================================================================
