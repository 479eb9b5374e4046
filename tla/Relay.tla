------------------------------- MODULE Relay -------------------------------
(***************************************************************************)
(* What the TCP proxy of the virtual network promises its connections:     *)
(* each is a pair of streams between a client and a server.  What arrives  *)
(* is the beginning of what was sent, and something is lost only where     *)
(* MayLose says so.                                                        *)
(***************************************************************************)
EXTENDS Naturals

CONSTANT Conns

Ends == {"client", "server"}
Keys == Conns \X Ends         \* <<c, e>>: the end e of c, and what it sends
Peer(k) == <<k[1], IF k[2] = "client" THEN "server" ELSE "client">>

VARIABLES
  sent,      \* chunks each end has sent
  due,       \* of those, the ones that arrive if nothing more goes wrong
  got,       \* and the ones that have arrived
  ended,     \* ends that have finished sending, or left
  refused    \* connections that were not put through

vars == <<sent, due, got, ended, refused>>

Init ==
  /\ sent = [k \in Keys |-> 0] /\ due = [k \in Keys |-> 0] /\ got = [k \in Keys |-> 0]
  /\ ended = {} /\ refused = {}

(* What k sends may be lost when the connection is refused, when its peer  *)
(* finishes or leaves, and when k does so itself while its peer sends.  A  *)
(* peer that has sent nothing hears k to the end.                          *)
MayLose(k) ==
  \/ k[1] \in refused
  \/ Peer(k) \in ended
  \/ k \in ended /\ sent[Peer(k)] > 0

Keeps(k) == due'[k] = due[k] \/ (MayLose(k)' /\ due'[k] \in got[k]..due[k])

Losses == due' \in [Keys -> Nat] /\ \A k \in Keys : Keeps(k)

Send(k) ==
  /\ sent' = [sent EXCEPT ![k] = @ + 1]
  /\ \/ due[k] = sent[k] /\ due' = [due EXCEPT ![k] = @ + 1]
     \/ MayLose(k) /\ Losses
  /\ UNCHANGED <<got, ended, refused>>

Arrive(k) ==
  /\ got' \in [Keys -> Nat] /\ got'[k] \in (got[k] + 1)..due[k]
  /\ \A j \in Keys \ {k} : got'[j] = got[j]
  /\ UNCHANGED <<sent, due, ended, refused>>

End(k) ==
  /\ ended' = ended \cup {k}
  /\ Losses
  /\ UNCHANGED <<sent, got, refused>>

(* Only before anything has arrived.                                       *)
Refuse(cs) ==
  /\ \A k \in Keys : k[1] \in cs => got[k] = 0
  /\ refused' = refused \cup cs
  /\ Losses
  /\ UNCHANGED <<sent, got, ended>>

Lose ==
  /\ Losses
  /\ UNCHANGED <<sent, got, ended, refused>>

Next ==
  \/ \E k \in Keys : Send(k) \/ Arrive(k) \/ End(k)
  \/ \E cs \in SUBSET Conns : Refuse(cs)
  \/ Lose

Spec == Init /\ [][Next]_vars
=============================================================================
