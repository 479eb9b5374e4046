----------------------------- MODULE VirtualIds -----------------------------
(***************************************************************************)
(* The virtual credentials of virtual_ids.py: what each call of the setuid *)
(* and setgid families does to them, as operators on one credential.       *)
(*                                                                         *)
(* The code has every method twice, for uids and for gids; here it takes   *)
(* the kind k, "u" or "g".  A method returns the new credential and the    *)
(* result the tracee sees.  Which process has which credential is up to    *)
(* the tracer (Tracer).                                                    *)
(***************************************************************************)
EXTENDS Naturals

CONSTANTS
  Ids,      \* uids and gids, root's 0 among them
  NoId      \* NO_ID: the argument -1, "leave it"

ASSUME IdsAssumption == 0 \in Ids /\ NoId \notin Ids

Quad == [r : Ids, e : Ids, s : Ids, f : Ids]    \* real, effective, saved, fs
Credentials == [u : Quad, g : Quad, groups : SUBSET Ids]

(* from_ids and register_pid.                                              *)
FromIds(uid, gid) ==
  [u |-> [r |-> uid, e |-> uid, s |-> uid, f |-> uid],
   g |-> [r |-> gid, e |-> gid, s |-> gid, f |-> gid],
   groups |-> {gid}]

Privileged(c) == c.u.e = 0
Held(q) == {q.r, q.e, q.s}

Done(c, result) == [cred |-> c, result |-> result]

(* id_can_change *)
CanChange(c, k, id) ==
  /\ id # NoId
  /\ Privileged(c) \/ id \in Held(c[k])

CanChangeOrKeep(c, k, id) == id = NoId \/ CanChange(c, k, id)

(* Mutant: -1 is taken for an id.                                          *)
OrMinusOne(id, old) == id

(* An argument of -1 leaves the id as it is.                               *)
Or(id, old) == IF id = NoId THEN old ELSE id

(* apply_setuid, apply_setgid *)
SetId(c, k, id) ==
  CASE id = NoId -> Done(c, "EINVAL")
    [] id # NoId /\ Privileged(c) ->
         Done([c EXCEPT ![k] = [r |-> id, e |-> id, s |-> id, f |-> id]], 0)
    [] id # NoId /\ ~Privileged(c) /\ id \in Held(c[k]) ->
         Done([c EXCEPT ![k].e = id, ![k].f = id], 0)
    [] OTHER -> Done(c, "EPERM")

(* apply_setreuid, apply_setregid *)
SetReId(c, k, r, e) ==
  LET saves == Privileged(c) \/ r # NoId \/ (e # NoId /\ e # c[k].r)
      effective == Or(e, c[k].e)
  IN IF \A id \in {r, e} : CanChangeOrKeep(c, k, id)
     THEN Done([c EXCEPT ![k] =
                  [r |-> Or(r, @.r), e |-> effective, f |-> Or(e, @.f),
                   s |-> IF saves THEN effective ELSE @.s]], 0)
     ELSE Done(c, "EPERM")

(* apply_setresuid, apply_setresgid *)
SetResId(c, k, r, e, s) ==
  IF \A id \in {r, e, s} : CanChangeOrKeep(c, k, id)
  THEN Done([c EXCEPT ![k] =
               [r |-> Or(r, @.r), e |-> Or(e, @.e), f |-> Or(e, @.f),
                s |-> Or(s, @.s)]], 0)
  ELSE Done(c, "EPERM")

(* setfsuid, setfsgid: the result is the id before, whatever happens.      *)
SetFsId(c, k, id) ==
  Done(IF CanChange(c, k, id) THEN [c EXCEPT ![k].f = id] ELSE c, c[k].f)

(* apply_setgroups, of a list the tracer could read *)
SetGroups(c, groups) ==
  IF Privileged(c) THEN Done([c EXCEPT !.groups = groups], 0)
                   ELSE Done(c, "EPERM")

(* handle_chown: the file is left alone, root is told it worked.           *)
Chown(c) == Done(c, IF Privileged(c) THEN 0 ELSE "EPERM")

(* handle_exec: of a file with the owner and the set-id bits of exe.       *)
ExecIds(c, exe) ==
  LET taken(q, id) == [q EXCEPT !.e = id, !.s = id, !.f = id] IN
  [c EXCEPT !.u = IF exe.suid THEN taken(@, exe.uid) ELSE @,
            !.g = IF exe.sgid THEN taken(@, exe.gid) ELSE @]

(* handle_uid_setter, handle_gid_setter, the getters and handle_chown: by  *)
(* the name of the call; k tells setuid from setgid, args are the ids.     *)
IdCalls ==
  [name : {"set", "setfs"}, k : {"u", "g"}, args : (Ids \cup {NoId}) \X {NoId} \X {NoId}]
  \cup [name : {"setre"}, k : {"u", "g"}, args : (Ids \cup {NoId}) \X (Ids \cup {NoId}) \X {NoId}]
  \cup [name : {"setres"}, k : {"u", "g"},
        args : (Ids \cup {NoId}) \X (Ids \cup {NoId}) \X (Ids \cup {NoId})]
  \cup [name : {"setgroups"}, groups : SUBSET Ids]
  \cup [name : {"get", "getres"}, k : {"u", "g"}]
  \cup [name : {"getgroups", "chown"}]

ApplyIds(c, call) ==
  CASE call.name = "set"       -> SetId(c, call.k, call.args[1])
    [] call.name = "setre"     -> SetReId(c, call.k, call.args[1], call.args[2])
    [] call.name = "setres"    -> SetResId(c, call.k, call.args[1], call.args[2], call.args[3])
    [] call.name = "setfs"     -> SetFsId(c, call.k, call.args[1])
    [] call.name = "setgroups" -> SetGroups(c, call.groups)
    [] call.name = "get"       -> Done(c, <<c[call.k].r, c[call.k].e>>)
    [] call.name = "getres"    -> Done(c, <<c[call.k].r, c[call.k].e, c[call.k].s>>)
    [] call.name = "getgroups" -> Done(c, c.groups)
    [] call.name = "chown"     -> Chown(c)
=============================================================================
