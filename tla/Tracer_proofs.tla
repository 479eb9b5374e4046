---------------------------- MODULE Tracer_proofs ----------------------------
(***************************************************************************)
(* TLAPS proofs about trace(): it pairs the entry and the exit of every    *)
(* call of a task it follows, and gives the task the credentials its own   *)
(* calls made, for any tasks, calls, and any number of kills; and what the *)
(* calls of VirtualIds can do to a credential, for any set of ids.         *)
(***************************************************************************)
EXTENDS Tracer, TLAPS

(* The credentials of a process stay credentials, whatever it calls: no    *)
(* call stores NO_ID.                                                      *)
THEOREM IdsTyped ==
  ASSUME NEW c \in Credentials, NEW call \in IdCalls
  PROVE  ApplyIds(c, call).cred \in Credentials
<1> USE IdsAssumption DEF Credentials, Quad, Done
<1>1. CASE call \in [name : {"set", "setfs"}, k : {"u", "g"},
                     args : (Ids \cup {NoId}) \X {NoId} \X {NoId}]
  <2>1. SetId(c, call.k, call.args[1]).cred \in Credentials
    BY <1>1 DEF SetId
  <2>2. SetFsId(c, call.k, call.args[1]).cred \in Credentials
    BY <1>1 DEF SetFsId, CanChange
  <2>. QED BY <1>1, <2>1, <2>2 DEF ApplyIds
<1>2. CASE call \in [name : {"setre"}, k : {"u", "g"},
                     args : (Ids \cup {NoId}) \X (Ids \cup {NoId}) \X {NoId}]
  <2>1. SetReId(c, call.k, call.args[1], call.args[2]).cred \in Credentials
    BY <1>2 DEF SetReId, Or
  <2>. QED BY <1>2, <2>1 DEF ApplyIds
<1>3. CASE call \in [name : {"setres"}, k : {"u", "g"},
                     args : (Ids \cup {NoId}) \X (Ids \cup {NoId}) \X (Ids \cup {NoId})]
  <2>1. SetResId(c, call.k, call.args[1], call.args[2], call.args[3]).cred \in Credentials
    BY <1>3 DEF SetResId, Or
  <2>. QED BY <1>3, <2>1 DEF ApplyIds
<1>4. CASE call \in [name : {"setgroups"}, groups : SUBSET Ids]
  BY <1>4 DEF ApplyIds, SetGroups
<1>5. CASE call \in [name : {"get", "getres"}, k : {"u", "g"}]
  BY <1>5 DEF ApplyIds
<1>6. CASE call \in [name : {"getgroups", "chown"}]
  BY <1>6 DEF ApplyIds, Chown
<1>. QED BY <1>1, <1>2, <1>3, <1>4, <1>5, <1>6 DEF IdCalls

(* A process that has given up all of root's ids gets none of them back,   *)
(* neither as a real, effective or saved id nor for its file accesses, by  *)
(* any of the calls: only a set-uid file does that (ExecIds).              *)
THEOREM GivenUpForGood ==
  ASSUME NEW c \in Credentials, NEW call \in IdCalls,
         0 \notin Held(c.u), c.u.f # 0
  PROVE  /\ 0 \notin Held(ApplyIds(c, call).cred.u)
         /\ ApplyIds(c, call).cred.u.f # 0
<1> USE IdsAssumption DEF Credentials, Quad, Done, Held, Privileged
<1>1. CASE call \in [name : {"set", "setfs"}, k : {"u", "g"},
                     args : (Ids \cup {NoId}) \X {NoId} \X {NoId}]
  <2>1. CASE call.name = "set"
    BY <1>1, <2>1 DEF ApplyIds, SetId
  <2>2. CASE call.name = "setfs"
    BY <1>1, <2>2 DEF ApplyIds, SetFsId, CanChange
  <2>. QED BY <1>1, <2>1, <2>2
<1>2. CASE call \in [name : {"setre"}, k : {"u", "g"},
                     args : (Ids \cup {NoId}) \X (Ids \cup {NoId}) \X {NoId}]
  BY <1>2, ZenonT(60) DEF ApplyIds, SetReId, Or, CanChangeOrKeep, CanChange
<1>3. CASE call \in [name : {"setres"}, k : {"u", "g"},
                     args : (Ids \cup {NoId}) \X (Ids \cup {NoId}) \X (Ids \cup {NoId})]
  BY <1>3, ZenonT(60) DEF ApplyIds, SetResId, Or, CanChangeOrKeep, CanChange
<1>4. CASE call \in [name : {"setgroups"}, groups : SUBSET Ids]
  BY <1>4 DEF ApplyIds, SetGroups
<1>5. CASE call \in [name : {"get", "getres"}, k : {"u", "g"}]
  BY <1>5 DEF ApplyIds
<1>6. CASE call \in [name : {"getgroups", "chown"}]
  BY <1>6 DEF ApplyIds, Chown
<1>. QED BY <1>1, <1>2, <1>3, <1>4, <1>5, <1>6 DEF IdCalls

(* A task that is in a call has one; only these calls fail, the others     *)
(* always return.                                                          *)
InCall == {"entry", "insys", "execing", "fork", "exec", "exit"}

CallKnown(p) ==
  /\ At(p, InCall) => task[p].call # NoCall
  /\ task[p].ok
     \/ (task[p].call # NoCall /\ task[p].call.name \in {"fork", "clone", "exec"})

CallsKnown == \A p \in Pids : CallKnown(p)

(* A thread belongs to a process that there is, or was.                    *)
Families ==
  \A p \in Pids :
    IF At(p, {"unborn"}) THEN group[p] = p
    ELSE ~At(group[p], {"unborn"}) /\ group[group[p]] = group[p]

(* The child of a fork event is nobody else's, is not followed yet, and    *)
(* has, until it runs, the ids its parent has.                             *)
ChildOf(p, child) ==
  /\ child \in Pids /\ ~At(child, {"unborn"}) /\ child \notin followed
  /\ At(child, {"starting"}) => ideal[child] = ideal[p]
  /\ \A q \in Pids \ {p} : At(q, {"fork"}) => task[q].msg # child

Children == \A p \in Pids : At(p, {"fork"}) => ChildOf(p, task[p].msg)

FollowedAreBorn == \A p \in followed : ~At(p, {"unborn"})

(* What the tracer's tables say of a followed task is so.                  *)
InTables(p) ==
  /\ p \in alive
  /\ InStep(p)
  /\ inSyscall[p] => active[p] = task[p].call
  /\ cred[p] = ideal[p]

FollowedInTables == \A p \in followed : Present(p) => InTables(p)

TracerInv ==
  /\ TypeOK
  /\ CallsKnown /\ Families /\ Children
  /\ FollowedAreBorn /\ FollowedInTables

-----------------------------------------------------------------------------
(* Types.                                                                  *)

Ats == {"unborn", "running", "insys", "execing", "zombie", "reaped", "starting",
        "entry", "exit", "fork", "exec", "exiting"}

LEMMA TaskFields ==
  ASSUME TypeOK, NEW p \in Pids
  PROVE  /\ task \in [Pids -> Task]
         /\ task[p] \in Task /\ task[p].at \in Ats /\ task[p].call \in Call \cup {NoCall}
         /\ task[p].ok \in BOOLEAN /\ task[p].msg \in Pids \cup {NoPid}
         /\ task[p].status \in Status
BY DEF TypeOK, Task, Stops, EventStops, Ats

(* Every other new state of a task is made from that of an unborn one.     *)
LEMMA FreshTask ==
  ASSUME NEW at \in Ats, NEW status \in Status
  PROVE  [Unborn EXCEPT !.at = at, !.status = status] \in Task
BY DEF Unborn, Task, Stops, EventStops, Ats, Status

LEMMA BareTask ==
  ASSUME NEW at \in Ats
  PROVE  [Unborn EXCEPT !.at = at] \in Task
BY DEF Unborn, Task, Stops, EventStops, Ats, Status

LEMMA EndingEffect ==
  ASSUME TypeOK, NEW T \in SUBSET Pids, NEW status \in Status, Ending(T, status)
  PROVE  /\ task' \in [Pids -> Task]
         /\ \A t \in Pids : t \notin T \/ ~Live(t) => task'[t] = task[t]
         /\ \A t \in T : Live(t) =>
              task'[t].at \in {"zombie", "exiting"} /\ task'[t].ok /\ task'[t].call = NoCall
<1>1. PICK silent \in SUBSET {t \in T : status = 137} :
        task' = [t \in Pids |->
                   IF t \in T /\ Live(t)
                   THEN [Unborn EXCEPT !.at = IF t \in silent THEN "zombie" ELSE "exiting",
                                       !.status = status]
                   ELSE task[t]]
  BY DEF Ending
<1> DEFINE dead(at) == [Unborn EXCEPT !.at = at, !.status = status]
<1>2. ASSUME NEW at \in {"zombie", "exiting"}
      PROVE  /\ dead(at) \in Task /\ dead(at).at = at
             /\ dead(at).ok = TRUE /\ dead(at).call = NoCall
  <2>1. dead(at) \in Task
    BY FreshTask DEF Ats
  <2> QED  BY <2>1 DEF Unborn
<1>3. \A t \in Pids : task'[t] = IF t \in T /\ Live(t)
                                 THEN dead(IF t \in silent THEN "zombie" ELSE "exiting")
                                 ELSE task[t]
  BY <1>1
<1> HIDE DEF dead
<1>4. \A t \in Pids : task'[t] \in Task
  BY <1>2, <1>3, TaskFields
<1>5. task' \in [Pids -> Task]
  BY <1>1, <1>4
<1> QED  BY <1>2, <1>3, <1>5

LEMMA ResumeEffect ==
  ASSUME TypeOK, NEW p \in Pids, At(p, Stops), Resume(p)
  PROVE  /\ task' \in [Pids -> Task]
         /\ \A q \in Pids \ {p} : task'[q] = task[q] /\ ideal'[q] = ideal[q]
         /\ At(p, {"exit"}) =>
              /\ task'[p].at = "running" /\ task'[p].ok
              /\ ideal'[p] = AfterCall(ideal[p], task[p])
         /\ ~At(p, {"exit"}) =>
              /\ task'[p].at = ResumedAt(task[p]) /\ task'[p].call = task[p].call
              /\ task'[p].ok = task[p].ok /\ ideal'[p] = ideal[p]
         /\ ideal' = ideal \/ ideal' = [ideal EXCEPT ![p] = AfterCall(ideal[p], task[p])]
<1> USE TaskFields
<1>1. ideal \in [Pids -> Credentials]
  BY DEF TypeOK
<1>2. CASE At(p, {"exit"})
  <2>1. [Unborn EXCEPT !.at = "running"] \in Task
    BY BareTask DEF Ats
  <2>2. [Unborn EXCEPT !.at = "running"].at = "running" /\ [Unborn EXCEPT !.at = "running"].ok
    BY DEF Unborn
  <2>3. /\ task' = [task EXCEPT ![p] = [Unborn EXCEPT !.at = "running"]]
        /\ ideal' = [ideal EXCEPT ![p] = AfterCall(ideal[p], task[p])]
    BY <1>2 DEF Resume, At
  <2> QED  BY <1>1, <1>2, <2>1, <2>2, <2>3
<1>3. CASE ~At(p, {"exit"})
  <2>1. task[p].at \in {"starting", "entry", "fork", "exec", "exiting"}
    BY <1>3 DEF At, Stops, EventStops
  <2>2. ResumedAt(task[p]) \in {"insys", "running", "exit", "zombie"}
    BY <2>1 DEF ResumedAt
  <2>3. PICK at : at = ResumedAt(task[p])
    OBVIOUS
  <2>4. task' = [task EXCEPT ![p] = [@ EXCEPT !.at = at]] /\ ideal' = ideal
    BY <1>3, <2>3 DEF Resume, At
  <2>5. [task[p] EXCEPT !.at = at] \in Task
    BY <2>2, <2>3 DEF Task, Stops
  <2>6. /\ [task[p] EXCEPT !.at = at].at = at /\ [task[p] EXCEPT !.at = at].call = task[p].call
        /\ [task[p] EXCEPT !.at = at].ok = task[p].ok
    BY DEF Task
  <2> QED  BY <1>1, <1>3, <2>3, <2>4, <2>5, <2>6
<1> QED  BY <1>2, <1>3

LEMMA ExecTyped ==
  ASSUME NEW c \in Credentials, NEW exe \in Executables
  PROVE  ExecIds(c, exe) \in Credentials
BY DEF ExecIds, Credentials, Quad, Executables

(* The calls that are not the tracer's own are known by their names.       *)
LEMMA CallNames ==
  ASSUME NEW call \in Call
  PROVE  /\ call \in IdCalls <=> call.name \notin {"fork", "clone", "exec", "exit"}
         /\ call.name = "exec" => call.exe \in Executables
<1>1. CASE call \in IdCalls
  BY <1>1 DEF IdCalls
<1>2. CASE call \in [name : {"fork", "clone"}]
  BY <1>2 DEF IdCalls
<1>3. CASE call \in [name : {"exec"}, exe : Executables]
  BY <1>3 DEF IdCalls
<1>4. CASE call \in [name : {"exit"}, code : {0, 1}]
  BY <1>4 DEF IdCalls
<1> QED  BY <1>1, <1>2, <1>3, <1>4 DEF Call

LEMMA AfterCallTyped ==
  ASSUME TypeOK, NEW p \in Pids, NEW c \in Credentials
  PROVE  AfterCall(c, task[p]) \in Credentials
<1>1. task[p].call \in Call \cup {NoCall}
  BY TaskFields
<1>2. CASE task[p].call = NoCall \/ ~task[p].ok
  BY <1>2 DEF AfterCall
<1>3. CASE task[p].call # NoCall /\ task[p].ok
  <2>1. CASE task[p].call.name = "exec"
    BY <1>1, <1>3, <2>1, CallNames, ExecTyped DEF AfterCall
  <2>2. CASE task[p].call.name \in {"fork", "clone", "exit"}
    BY <1>3, <2>2 DEF AfterCall
  <2>3. CASE task[p].call.name \notin {"fork", "clone", "exec", "exit"}
    BY <1>1, <1>3, <2>3, CallNames, IdsTyped DEF AfterCall
  <2> QED  BY <2>1, <2>2, <2>3
<1> QED  BY <1>2, <1>3

LEMMA InitialTyped == Initial \in Credentials
BY TracerAssumption DEF Initial, FromIds, Credentials, Quad

LEMMA CredentialsOfTyped ==
  ASSUME TypeOK, NEW p \in Pids
  PROVE  CredentialsOf(p) \in Credentials
BY InitialTyped DEF CredentialsOf, TypeOK

LEMMA HandledTyped ==
  ASSUME TypeOK, NEW p \in Pids, NEW call \in Call
  PROVE  HandledIds(p, call) \in [Pids -> Credentials \cup {NoCred}]
<1>1. cred \in [Pids -> Credentials \cup {NoCred}] /\ CredentialsOf(p) \in Credentials
  BY CredentialsOfTyped DEF TypeOK
<1>2. call.name = "exec" => ExecIds(CredentialsOf(p), call.exe) \in Credentials
  BY <1>1, CallNames, ExecTyped
<1>3. call \in IdCalls => ApplyIds(CredentialsOf(p), call).cred \in Credentials
  BY <1>1, IdsTyped
<1> QED  BY <1>1, <1>2, <1>3 DEF HandledIds

(* The tables and the kernel's view keep their types.                      *)
LEMMA TypeStep ==
  ASSUME TypeOK, CallsKnown, Children, Next
  PROVE  TypeOK'
<1> USE TaskFields
<1>0. /\ group \in [Pids -> Pids] /\ ideal \in [Pids -> Credentials]
      /\ budget \in [calls : 0..MaxCalls, kills : 0..MaxKills]
      /\ alive \subseteq Pids /\ inSyscall \in [Pids -> BOOLEAN]
      /\ active \in [Pids -> Call \cup {NoCall}]
      /\ cred \in [Pids -> Credentials \cup {NoCred}]
      /\ exitCode \in Status /\ result \in Status \cup {Running} /\ followed \subseteq Pids
  BY DEF TypeOK
<1>1. ASSUME NEW p \in Pids, NEW call \in Calls, Enter(p, call)
      PROVE  TypeOK'
  <2>1. call \in Call
    BY TracerAssumption
  <2>2. [task[p] EXCEPT !.at = "entry", !.call = call, !.ok = TRUE] \in Task
    BY <2>1 DEF Task, Stops
  <2>3. task' \in [Pids -> Task]
    BY <1>1, <2>2 DEF Enter
  <2>4. budget' \in [calls : 0..MaxCalls, kills : 0..MaxKills]
    BY <1>0, <1>1, TracerAssumption DEF Enter
  <2> QED  BY <1>0, <1>1, <2>3, <2>4 DEF Enter, tracerVars, TypeOK
<1>2. ASSUME NEW p \in Pids, Return(p) \/ Fail(p)
      PROVE  TypeOK'
  <2>1. /\ [task[p] EXCEPT !.at = "exit"] \in Task
        /\ [task[p] EXCEPT !.at = "exit", !.ok = FALSE] \in Task
    BY DEF Task, Stops
  <2>2. task' \in [Pids -> Task]
    BY <1>2, <2>1 DEF Return, Fail
  <2> QED  BY <1>0, <1>2, <2>2 DEF Return, Fail, tracerVars, TypeOK
<1>3. ASSUME NEW p \in Pids, NEW child \in Pids, Fork(p, child)
      PROVE  TypeOK'
  <2>1. [task[p] EXCEPT !.at = "fork", !.msg = child] \in Task
    BY DEF Task, Stops, EventStops
  <2>9. [Unborn EXCEPT !.at = "starting"] \in Task
    BY BareTask DEF Ats
  <2>2. task' \in [Pids -> Task]
    BY <2>9, <1>3, <2>1 DEF Fork
  <2>3. group' \in [Pids -> Pids] /\ ideal' \in [Pids -> Credentials]
    BY <1>0, <1>3 DEF Fork
  <2> QED  BY <1>0, <1>3, <2>2, <2>3 DEF Fork, tracerVars, TypeOK
<1>4. ASSUME NEW p \in Pids, ExecBegin(p)
      PROVE  TypeOK'
  <2>1. [task[p] EXCEPT !.at = "execing"] \in Task
    BY DEF Task, Stops, EventStops
  <2>9. [Unborn EXCEPT !.at = "exiting"] \in Task
    BY BareTask DEF Ats
  <2>2. task' \in [Pids -> Task]
    BY <2>9, <1>4, <2>1 DEF ExecBegin
  <2> QED  BY <1>0, <1>4, <2>2 DEF ExecBegin, tracerVars, TypeOK
<1>5. ASSUME NEW p \in Pids, ExecEnd(p)
      PROVE  TypeOK'
  <2>1. [task[p] EXCEPT !.at = "exec"] \in Task
    BY DEF Task, Stops, EventStops
  <2>9. [Unborn EXCEPT !.at = "reaped"] \in Task
    BY BareTask DEF Ats
  <2>2. task' \in [Pids -> Task]
    BY <2>9, <1>5, <2>1 DEF ExecEnd
  <2>3. ideal' \in [Pids -> Credentials] /\ followed' \subseteq Pids
    BY <1>0, <1>5 DEF ExecEnd
  <2> QED  BY <1>0, <1>5, <2>2, <2>3 DEF ExecEnd, tracerVars, TypeOK
<1>6. ASSUME NEW p \in Pids, Exit(p)
      PROVE  TypeOK'
  <2>1. task[p].call \in Call /\ task[p].call.name = "exit"
    BY <1>6 DEF Exit, CallsKnown, CallKnown, At, InCall
  <2>2. task[p].call.code \in Status
    BY <2>1 DEF Call, IdCalls, Status
  <2>3. task' \in [Pids -> Task]
    BY <1>6, <2>2, EndingEffect DEF Exit, Threads
  <2> QED  BY <1>0, <1>6, <2>3 DEF Exit, tracerVars, TypeOK
<1>7. ASSUME NEW p \in Pids, Kill(p)
      PROVE  TypeOK'
  <2>1. task' \in [Pids -> Task]
    BY <1>7, EndingEffect DEF Kill, Threads, Status
  <2>2. budget' \in [calls : 0..MaxCalls, kills : 0..MaxKills]
    BY <1>0, <1>7, TracerAssumption DEF Kill
  <2> QED  BY <1>0, <1>7, <2>1, <2>2 DEF Kill, tracerVars, TypeOK
<1>8. ASSUME NEW p \in Pids, SyscallEntry(p) \/ SyscallExit(p) \/ ForkEvent(p) \/ OtherStop(p)
      PROVE  TypeOK'
  <2>1. At(p, Stops) /\ Resume(p)
    BY <1>8 DEF SyscallEntry, SyscallExit, ForkEvent, OtherStop, At, Stops, EventStops
  <2>2. task' \in [Pids -> Task]
    BY <2>1, ResumeEffect
  <2>3. ideal' \in [Pids -> Credentials]
    <3>1. AfterCall(ideal[p], task[p]) \in Credentials
      BY <1>0, AfterCallTyped
    <3>2. ideal' = ideal \/ ideal' = [ideal EXCEPT ![p] = AfterCall(ideal[p], task[p])]
      BY <2>1, ResumeEffect
    <3> QED  BY <1>0, <3>1, <3>2
  <2>4. /\ cred' \in [Pids -> Credentials \cup {NoCred}] /\ alive' \subseteq Pids
        /\ inSyscall' \in [Pids -> BOOLEAN] /\ followed' \subseteq Pids
    <3>1. CASE SyscallEntry(p)
      <4>1. /\ cred' = cred /\ alive' = alive \cup {p} /\ followed' = followed
            /\ inSyscall' = [inSyscall EXCEPT ![p] = TRUE]
        BY <3>1 DEF SyscallEntry
      <4> QED  BY <1>0, <4>1
    <3>4. CASE OtherStop(p)
      BY <1>0, <3>4 DEF OtherStop
    <3>2. CASE SyscallExit(p)
      <4>1. cred' = cred \/ (active[p] \in Call /\ cred' = HandledIds(p, active[p]))
        BY <1>0, <3>2 DEF SyscallExit
      <4>2. cred' \in [Pids -> Credentials \cup {NoCred}]
        BY <1>0, <4>1, HandledTyped
      <4> QED  BY <1>0, <3>2, <4>2 DEF SyscallExit
    <3>3. CASE ForkEvent(p)
      <4>1. PICK child : child = task[p].msg
        OBVIOUS
      <4>2. child \in Pids /\ CredentialsOf(p) \in Credentials
        BY <3>3, <4>1, CredentialsOfTyped DEF ForkEvent, Children, ChildOf
      <4>3. /\ cred' = [cred EXCEPT ![child] = CredentialsOf(p)]
            /\ alive' = alive \cup {p, child}
            /\ inSyscall' = [inSyscall EXCEPT ![child] = FALSE]
            /\ followed' \in {followed, followed \cup {child}}
        BY <3>3, <4>1 DEF ForkEvent, Inherits
      <4> QED  BY <1>0, <4>2, <4>3
    <3> QED  BY <1>8, <3>1, <3>2, <3>3, <3>4
  <2>8. active' \in [Pids -> Call \cup {NoCall}]
    <3>1. task[p].call \in Call \cup {NoCall}
      OBVIOUS
    <3>2. \/ active' = active \/ active' = [active EXCEPT ![p] = task[p].call]
          \/ active' = [active EXCEPT ![p] = NoCall]
      BY <1>8 DEF SyscallEntry, SyscallExit, ForkEvent, OtherStop
    <3> QED  BY <1>0, <3>1, <3>2
  <2>7. UNCHANGED <<group, budget, exitCode, result>>
    BY <1>8 DEF SyscallEntry, SyscallExit, ForkEvent, OtherStop
  <2> QED  BY <1>0, <2>2, <2>3, <2>4, <2>7, <2>8 DEF TypeOK
<1>9. ASSUME NEW p \in Pids, Disappeared(p)
      PROVE  TypeOK'
  <2>1. task' \in [Pids -> Task]
    BY <1>9, EndingEffect DEF Disappeared, Threads, Status
  <2>2. budget' \in [calls : 0..MaxCalls, kills : 0..MaxKills]
    BY <1>0, <1>9, TracerAssumption DEF Disappeared
  <2>3. At(p, {"fork"}) => task[p].msg \in Pids
    BY DEF Children, ChildOf
  <2>4. cred' \in [Pids -> Credentials \cup {NoCred}]
    BY <1>0, <1>9, <2>3, CredentialsOfTyped DEF Disappeared
  <2>5. /\ alive' \subseteq Pids /\ inSyscall' \in [Pids -> BOOLEAN]
        /\ active' \in [Pids -> Call \cup {NoCall}] /\ followed' \subseteq Pids
    BY <1>0, <1>9, <2>3 DEF Disappeared, Forget
  <2>6. UNCHANGED <<group, ideal, exitCode, result>>
    BY <1>9 DEF Disappeared
  <2> QED  BY <1>0, <2>1, <2>2, <2>4, <2>5, <2>6 DEF TypeOK
<1>10. \A p \in Pids : Gone(p) \in Task
  BY DEF Gone, Unborn, Task, Status
<1>11. ASSUME NEW p \in Pids, Reap(p)
       PROVE  TypeOK'
  <2>1. task' \in [Pids -> Task]
    BY <1>10, <1>11 DEF Reap
  <2>2. /\ alive' \subseteq Pids /\ inSyscall' \in [Pids -> BOOLEAN]
        /\ active' \in [Pids -> Call \cup {NoCall}]
        /\ cred' \in [Pids -> Credentials \cup {NoCred}] /\ exitCode' \in Status
    BY <1>0, <1>11 DEF Reap, Forget
  <2> QED  BY <1>0, <1>11, <2>1, <2>2 DEF Reap, TypeOK
<1>12. CASE TraceReturns
  <2>1. task' \in [Pids -> Task]
    BY <1>10, <1>12 DEF TraceReturns
  <2> QED  BY <1>0, <1>12, <2>1 DEF TraceReturns, TypeOK
<1> QED
  BY <1>1, <1>2, <1>3, <1>4, <1>5, <1>6, <1>7, <1>8, <1>9, <1>11, <1>12
     DEF Next, TaskStep, TracerStep

-----------------------------------------------------------------------------
(* Steps that bear no task.                                                *)

NoBirth ==
  /\ \A q \in Pids : \/ task'[q] = task[q]
                     \/ /\ ~At(q, {"unborn"})
                        /\ ~At(q, {"unborn", "starting", "fork"})'
  /\ group' = group
  /\ \A q \in Pids : At(q, {"starting", "fork"}) /\ task'[q] = task[q] => ideal'[q] = ideal[q]
  /\ \A c \in followed' \ followed :
       \E p \in Pids : At(p, {"fork"}) /\ task[p].msg = c /\ ~At(p, {"fork"})'

LEMMA NoBirthKeeps ==
  ASSUME TypeOK, Families, Children, FollowedAreBorn, NoBirth
  PROVE  Families' /\ Children' /\ FollowedAreBorn'
<1>1. group \in [Pids -> Pids] /\ followed \subseteq Pids
  BY DEF TypeOK
<1>2. \A q \in Pids : At(q, {"unborn"})' <=> At(q, {"unborn"})
  BY DEF NoBirth, At
<1>3. Families'
  BY <1>1, <1>2 DEF Families, NoBirth
<1>4. FollowedAreBorn'
  BY <1>1, <1>2 DEF FollowedAreBorn, NoBirth, Children, ChildOf
<1>5. Children'
  <2> SUFFICES ASSUME NEW p \in Pids, At(p, {"fork"})'
               PROVE  ChildOf(p, task[p].msg)'
    BY DEF Children
  <2>1. PICK c : c = task[p].msg
    OBVIOUS
  <2>2. task'[p] = task[p] /\ At(p, {"fork"}) /\ ideal'[p] = ideal[p]
    BY DEF NoBirth, At
  <2>3. ChildOf(p, c)
    BY <2>1, <2>2 DEF Children
  <2>4. ~At(c, {"unborn"})'
    BY <1>2, <2>3 DEF ChildOf
  <2>5. At(c, {"starting"})' => ideal'[c] = ideal'[p]
    BY <2>2, <2>3 DEF ChildOf, NoBirth, At
  <2>6. \A q \in Pids \ {p} : At(q, {"fork"})' => task'[q].msg # c
    BY <2>3 DEF ChildOf, NoBirth, At
  <2>7. c \notin followed'
    <3> SUFFICES ASSUME NEW q \in Pids, At(q, {"fork"}), task[q].msg = c, ~At(q, {"fork"})'
                 PROVE  FALSE
      BY <2>3 DEF ChildOf, NoBirth
    <3> QED  BY <2>2, <2>3 DEF ChildOf
  <2>8. ChildOf(p, c)'
    BY <2>3, <2>4, <2>5, <2>6, <2>7 DEF ChildOf
  <2> QED  BY <2>1, <2>2, <2>8
<1> QED  BY <1>3, <1>4, <1>5

(* What a resumed task was stopped at, and is at then.                     *)
LEMMA ResumeQuiet ==
  ASSUME TypeOK, NEW p \in Pids, At(p, Stops), Resume(p)
  PROVE  /\ ~At(p, {"unborn"}) /\ ~At(p, {"unborn", "starting", "fork"})'
         /\ At(p, {"entry"}) => task'[p].at = "insys"
         /\ At(p, {"starting", "exit"}) => task'[p].at = "running"
         /\ At(p, {"fork", "exec"}) => task'[p].at = "exit"
         /\ At(p, {"exiting"}) => task'[p].at = "zombie"
<1>1. task[p].at \in Stops /\ task \in [Pids -> Task]
  BY TaskFields DEF At
<1>2. task[p].at # "exit" => task'[p].at = ResumedAt(task[p])
  BY ResumeEffect DEF At
<1>3. task[p].at = "exit" => task'[p].at = "running"
  BY ResumeEffect DEF At
<1> QED  BY <1>1, <1>2, <1>3 DEF At, Stops, EventStops, ResumedAt

LEMMA EndingQuiet ==
  ASSUME TypeOK, NEW T \in SUBSET Pids, NEW status \in Status, Ending(T, status)
  PROVE  \A q \in Pids : \/ task'[q] = task[q]
                         \/ /\ ~At(q, {"unborn"})
                            /\ ~At(q, {"unborn", "starting", "fork"})'
<1> SUFFICES ASSUME NEW q \in Pids, task'[q] # task[q]
             PROVE  ~At(q, {"unborn"}) /\ ~At(q, {"unborn", "starting", "fork"})'
  OBVIOUS
<1>1. q \in T /\ Live(q)
  BY EndingEffect
<1>2. task'[q].at \in {"zombie", "exiting"}
  BY <1>1, EndingEffect
<1> QED  BY <1>1, <1>2 DEF Live, At

LEMMA TaskNoBirth ==
  ASSUME TypeOK, CallsKnown, Families, NEW p \in Pids, TaskStep(p), ~ \E c \in Pids : Fork(p, c)
  PROVE  NoBirth
<1> USE TaskFields
<1>0. task \in [Pids -> Task] /\ ideal \in [Pids -> Credentials] /\ group \in [Pids -> Pids]
      /\ followed \subseteq Pids
  BY DEF TypeOK
<1>1. ASSUME NEW call \in Calls, Enter(p, call)
      PROVE  NoBirth
  <2>1. task' = [task EXCEPT ![p] = [@ EXCEPT !.at = "entry", !.call = call, !.ok = TRUE]]
    BY <1>1 DEF Enter
  <2>2. task'[p].at = "entry" /\ task[p].at = "running" /\ \A q \in Pids \ {p} : task'[q] = task[q]
    BY <1>0, <1>1, <2>1 DEF Enter, At, Task
  <2> QED  BY <1>0, <1>1, <2>2 DEF Enter, NoBirth, At
<1>2. CASE Return(p) \/ Fail(p)
  <2>1. task[p].at = "insys"
    BY <1>2 DEF Return, Fail, At
  <2>2. task'[p].at = "exit" /\ \A q \in Pids \ {p} : task'[q] = task[q]
    <3>1. CASE task' = [task EXCEPT ![p] = [@ EXCEPT !.at = "exit"]]
      BY <1>0, <3>1 DEF Task
    <3>2. CASE task' = [task EXCEPT ![p] = [@ EXCEPT !.at = "exit", !.ok = FALSE]]
      BY <1>0, <3>2 DEF Task
    <3> QED  BY <1>2, <3>1, <3>2 DEF Return, Fail
  <2> QED  BY <1>0, <1>2, <2>1, <2>2 DEF Return, Fail, NoBirth, At
<1>3. CASE ExecBegin(p)
  <2>1. task'[p].at = "execing" /\ task[p].at = "insys"
    BY <1>0, <1>3 DEF ExecBegin, At, Task
  <2>2. [Unborn EXCEPT !.at = "exiting"].at = "exiting"
    BY DEF Unborn
  <2>3. \A q \in Pids \ {p} : task'[q] = task[q] \/ (Live(q) /\ task'[q].at = "exiting")
    BY <1>0, <1>3, <2>2 DEF ExecBegin
  <2> QED  BY <1>0, <1>3, <2>1, <2>3 DEF ExecBegin, NoBirth, At, Live
<1>4. CASE ExecEnd(p)
  <2>1. PICK leader \in Pids : leader = group[p]
    BY <1>0
  <2>2. /\ task[p].at = "execing"
        /\ \A t \in Threads(p) \ {p} : t = leader /\ At(t, {"zombie"})
        /\ task' = [t \in Pids |-> CASE t = leader -> [task[p] EXCEPT !.at = "exec"]
                                     [] t = p /\ p # leader -> [Unborn EXCEPT !.at = "reaped"]
                                     [] OTHER -> task[t]]
        /\ ideal' = [ideal EXCEPT ![leader] = ideal[p]]
        /\ group' = group /\ followed' \subseteq followed
    BY <1>4, <2>1 DEF ExecEnd, At
  <2>3. [Unborn EXCEPT !.at = "reaped"].at = "reaped" /\ [task[p] EXCEPT !.at = "exec"].at = "exec"
    BY <1>0 DEF Unborn, Task
  <2>4. /\ task'[leader].at = "exec"
        /\ p # leader => task'[p].at = "reaped"
        /\ \A t \in Pids \ {p, leader} : task'[t] = task[t]
        /\ \A t \in Pids \ {leader} : ideal'[t] = ideal[t]
    BY <1>0, <2>2, <2>3
  <2>5. ~At(leader, {"unborn", "starting", "fork"})
    <3>1. ~At(leader, {"unborn"}) /\ group[leader] = leader
      BY <2>1, <2>2 DEF Families, At
    <3>2. CASE leader = p
      BY <2>2, <3>2 DEF At
    <3>3. CASE leader # p
      BY <2>1, <2>2, <3>1, <3>3 DEF Threads, At
    <3> QED  BY <3>2, <3>3
  <2> QED  BY <2>2, <2>4, <2>5 DEF NoBirth, At
<1>5. CASE Exit(p)
  <2>1. task[p].call \in Call /\ task[p].call.name = "exit"
    BY <1>5 DEF Exit, CallsKnown, CallKnown, At, InCall
  <2>2. task[p].call.code \in Status
    BY <2>1 DEF Call, IdCalls, Status
  <2>3. \A q \in Pids : \/ task'[q] = task[q]
                        \/ ~At(q, {"unborn"}) /\ ~At(q, {"unborn", "starting", "fork"})'
    BY <1>5, <2>2, EndingQuiet DEF Exit, Threads
  <2> QED  BY <1>5, <2>3 DEF Exit, NoBirth
<1> QED  BY <1>1, <1>2, <1>3, <1>4, <1>5 DEF TaskStep

LEMMA TracerNoBirth ==
  ASSUME TypeOK, NEW p \in Pids,
         \/ SyscallEntry(p) \/ SyscallExit(p) \/ ForkEvent(p) \/ OtherStop(p) \/ Reap(p)
         \/ Kill(p) \/ Disappeared(p)
  PROVE  NoBirth
<1> USE TaskFields
<1>0. task \in [Pids -> Task] /\ ideal \in [Pids -> Credentials]
  BY DEF TypeOK
<1>1. CASE SyscallEntry(p) \/ SyscallExit(p) \/ ForkEvent(p) \/ OtherStop(p)
  <2>1. At(p, Stops) /\ Resume(p) /\ group' = group
    BY <1>1 DEF SyscallEntry, SyscallExit, ForkEvent, OtherStop, At, Stops, EventStops
  <2>2. ~At(p, {"unborn"}) /\ ~At(p, {"unborn", "starting", "fork"})'
    BY <2>1, ResumeQuiet
  <2>3. \A q \in Pids \ {p} : task'[q] = task[q] /\ ideal'[q] = ideal[q]
    BY <2>1, ResumeEffect
  <2>4. followed' = followed \/ (At(p, {"fork"}) /\ followed' = followed \cup {task[p].msg})
    BY <1>1 DEF SyscallEntry, SyscallExit, ForkEvent, OtherStop, Inherits
  <2>5. \A c \in followed' \ followed : At(p, {"fork"}) /\ task[p].msg = c /\ ~At(p, {"fork"})'
    BY <2>2, <2>4 DEF At
  <2>6. \A q \in Pids : At(q, {"starting", "fork"}) /\ task'[q] = task[q] => ideal'[q] = ideal[q]
    BY <2>2, <2>3 DEF At
  <2> QED  BY <2>1, <2>2, <2>3, <2>5, <2>6 DEF NoBirth
<1>2. CASE Reap(p)
  <2>1. task'[p].at = "reaped" /\ task[p].at = "zombie" /\ \A q \in Pids \ {p} : task'[q] = task[q]
    BY <1>0, <1>2 DEF Reap, At, Gone, Unborn
  <2> QED  BY <1>2, <2>1 DEF Reap, NoBirth, At
<1>3. CASE Kill(p) \/ Disappeared(p)
  <2>1. Ending(Threads(p), 137) /\ Threads(p) \in SUBSET Pids /\ 137 \in Status
    BY <1>3 DEF Kill, Disappeared, Threads, Status
  <2>2. \A q \in Pids : \/ task'[q] = task[q]
                        \/ ~At(q, {"unborn"}) /\ ~At(q, {"unborn", "starting", "fork"})'
    BY <2>1, EndingQuiet
  <2>3. group' = group /\ ideal' = ideal
    BY <1>3 DEF Kill, Disappeared
  <2>4. \A c \in followed' \ followed : Disappeared(p) /\ At(p, {"fork"}) /\ task[p].msg = c
    BY <1>3 DEF Kill, Disappeared
  <2>5. Disappeared(p) /\ At(p, {"fork"}) => ~At(p, {"fork"})'
    <3> SUFFICES ASSUME At(p, {"fork"}) PROVE ~At(p, {"fork"})'
      OBVIOUS
    <3>1. p \in Threads(p) /\ Live(p)
      BY DEF Threads, Live, At
    <3>2. task'[p].at \in {"zombie", "exiting"}
      BY <2>1, <3>1, EndingEffect
    <3> QED  BY <3>2 DEF At
  <2> QED  BY <2>2, <2>3, <2>4, <2>5 DEF NoBirth
<1> QED  BY <1>1, <1>2, <1>3

-----------------------------------------------------------------------------
(* The calls.                                                              *)

LEMMA KnownEnded ==
  ASSUME NEW q \in Pids, task'[q].ok, ~At(q, InCall)'
  PROVE  CallKnown(q)'
BY DEF CallKnown

LEMMA KnownSame ==
  ASSUME NEW q \in Pids, CallKnown(q), task'[q] = task[q]
  PROVE  CallKnown(q)'
BY DEF CallKnown, At

LEMMA EndingKnown ==
  ASSUME TypeOK, CallsKnown, NEW T \in SUBSET Pids, NEW status \in Status, Ending(T, status)
  PROVE  CallsKnown'
<1> SUFFICES ASSUME NEW q \in Pids PROVE CallKnown(q)'
  BY DEF CallsKnown
<1>1. CASE task'[q] = task[q]
  BY <1>1, KnownSame DEF CallsKnown
<1>2. CASE task'[q] # task[q]
  <2>1. task'[q].at \in {"zombie", "exiting"} /\ task'[q].ok
    BY <1>2, EndingEffect
  <2> QED  BY <2>1, KnownEnded DEF At, InCall
<1> QED  BY <1>1, <1>2

LEMMA ResumeKnown ==
  ASSUME TypeOK, CallsKnown, NEW p \in Pids, At(p, Stops), Resume(p)
  PROVE  CallsKnown'
<1> SUFFICES ASSUME NEW q \in Pids PROVE CallKnown(q)'
  BY DEF CallsKnown
<1>1. CASE q # p
  BY <1>1, ResumeEffect, KnownSame DEF CallsKnown
<1>2. CASE q = p /\ At(p, {"exit"})
  <2>1. task'[p].at = "running" /\ task'[p].ok
    BY <1>2, ResumeEffect
  <2> QED  BY <1>2, <2>1, KnownEnded DEF At, InCall
<1>3. CASE q = p /\ ~At(p, {"exit"})
  <2>1. task'[p].call = task[p].call /\ task'[p].ok = task[p].ok
    BY <1>3, ResumeEffect
  <2>2. At(p, InCall)' => At(p, InCall)
    BY ResumeQuiet DEF At, InCall, Stops, EventStops
  <2> QED  BY <1>3, <2>1, <2>2 DEF CallsKnown, CallKnown
<1> QED  BY <1>1, <1>2, <1>3

LEMMA CallsStep ==
  ASSUME TypeOK, CallsKnown, Next
  PROVE  CallsKnown'
<1> USE TaskFields
<1>0. task \in [Pids -> Task]
  BY DEF TypeOK
<1>1. ASSUME NEW p \in Pids, NEW call \in Calls, Enter(p, call)
      PROVE  CallsKnown'
  <2>1. call # NoCall
    BY TracerAssumption
  <2>2. task' = [task EXCEPT ![p] = [@ EXCEPT !.at = "entry", !.call = call, !.ok = TRUE]]
    BY <1>1 DEF Enter
  <2>3. /\ task'[p].call = call /\ task'[p].ok = TRUE
        /\ \A q \in Pids \ {p} : task'[q] = task[q]
    BY <1>0, <2>2 DEF Task
  <2>4. CallKnown(p)'
    BY <2>1, <2>3 DEF CallKnown
  <2> QED  BY <2>3, <2>4, KnownSame DEF CallsKnown
<1>2. ASSUME NEW p \in Pids, Return(p)
      PROVE  CallsKnown'
  <2>1. task' = [task EXCEPT ![p] = [@ EXCEPT !.at = "exit"]] /\ At(p, {"insys"})
    BY <1>2 DEF Return
  <2>2. /\ task'[p].call = task[p].call /\ task'[p].ok = task[p].ok
        /\ \A q \in Pids \ {p} : task'[q] = task[q]
    BY <1>0, <2>1 DEF Task
  <2>3. CallKnown(p)'
    BY <2>1, <2>2 DEF CallsKnown, CallKnown, At, InCall
  <2> QED  BY <2>2, <2>3, KnownSame DEF CallsKnown
<1>3. ASSUME NEW p \in Pids, Fail(p)
      PROVE  CallsKnown'
  <2>1. /\ task' = [task EXCEPT ![p] = [@ EXCEPT !.at = "exit", !.ok = FALSE]]
        /\ At(p, {"insys"}) /\ task[p].call.name \in {"fork", "clone", "exec"}
    BY <1>3 DEF Fail
  <2>2. task'[p].call = task[p].call /\ \A q \in Pids \ {p} : task'[q] = task[q]
    BY <1>0, <2>1 DEF Task
  <2>3. CallKnown(p)'
    BY <2>1, <2>2 DEF CallsKnown, CallKnown, At, InCall
  <2> QED  BY <2>2, <2>3, KnownSame DEF CallsKnown
<1>4. ASSUME NEW p \in Pids, NEW child \in Pids, Fork(p, child)
      PROVE  CallsKnown'
  <2>1. /\ task' = [task EXCEPT ![p] = [@ EXCEPT !.at = "fork", !.msg = child],
                                ![child] = [Unborn EXCEPT !.at = "starting"]]
        /\ At(p, {"insys"}) /\ At(child, {"unborn"})
    BY <1>4 DEF Fork
  <2>2. p # child
    BY <2>1 DEF At
  <2>3. [Unborn EXCEPT !.at = "starting"].ok /\ [Unborn EXCEPT !.at = "starting"].at = "starting"
    BY DEF Unborn
  <2>4. /\ task'[p].call = task[p].call /\ task'[p].ok = task[p].ok
        /\ task'[child].ok /\ task'[child].at = "starting"
        /\ \A q \in Pids \ {p, child} : task'[q] = task[q]
    BY <1>0, <2>1, <2>2, <2>3 DEF Task
  <2>5. CallKnown(p)'
    BY <2>1, <2>4 DEF CallsKnown, CallKnown, At, InCall
  <2>6. CallKnown(child)'
    BY <2>4, KnownEnded DEF At, InCall
  <2> QED  BY <2>4, <2>5, <2>6, KnownSame DEF CallsKnown
<1>5. ASSUME NEW p \in Pids, ExecBegin(p)
      PROVE  CallsKnown'
  <2>1. [Unborn EXCEPT !.at = "exiting"].at = "exiting" /\ [Unborn EXCEPT !.at = "exiting"].ok
    BY DEF Unborn
  <2>2. /\ task'[p].call = task[p].call /\ task'[p].ok = task[p].ok /\ At(p, {"insys"})
        /\ \A q \in Pids \ {p} : task'[q] = task[q]
                                 \/ (task'[q].at = "exiting" /\ task'[q].ok)
    BY <1>0, <1>5, <2>1 DEF ExecBegin, Task
  <2>3. CallKnown(p)'
    BY <2>2 DEF CallsKnown, CallKnown, At, InCall
  <2>4. ASSUME NEW q \in Pids \ {p}
        PROVE  CallKnown(q)'
    BY <2>2, KnownSame, KnownEnded DEF CallsKnown, At, InCall
  <2> QED  BY <2>3, <2>4 DEF CallsKnown
<1>6. ASSUME NEW p \in Pids, ExecEnd(p)
      PROVE  CallsKnown'
  <2>1. PICK leader \in Pids : leader = group[p]
    BY DEF TypeOK
  <2>2. /\ task[p].at = "execing"
        /\ task' = [t \in Pids |-> CASE t = leader -> [task[p] EXCEPT !.at = "exec"]
                                     [] t = p /\ p # leader -> [Unborn EXCEPT !.at = "reaped"]
                                     [] OTHER -> task[t]]
    BY <1>6, <2>1 DEF ExecEnd, At
  <2>3. /\ [Unborn EXCEPT !.at = "reaped"].at = "reaped" /\ [Unborn EXCEPT !.at = "reaped"].ok
        /\ [task[p] EXCEPT !.at = "exec"].call = task[p].call
        /\ [task[p] EXCEPT !.at = "exec"].ok = task[p].ok
    BY <1>0 DEF Unborn, Task
  <2>4. /\ task'[leader].call = task[p].call /\ task'[leader].ok = task[p].ok
        /\ p # leader => task'[p].at = "reaped" /\ task'[p].ok
        /\ \A t \in Pids \ {p, leader} : task'[t] = task[t]
    BY <1>0, <2>2, <2>3
  <2>5. CallKnown(leader)'
    BY <2>2, <2>4 DEF CallsKnown, CallKnown, At, InCall
  <2>6. p # leader => CallKnown(p)'
    BY <2>4, KnownEnded DEF At, InCall
  <2> QED  BY <2>4, <2>5, <2>6, KnownSame DEF CallsKnown
<1>7. ASSUME NEW p \in Pids, Exit(p)
      PROVE  CallsKnown'
  <2>1. task[p].call \in Call /\ task[p].call.name = "exit"
    BY <1>7 DEF Exit, CallsKnown, CallKnown, At, InCall
  <2>2. task[p].call.code \in Status
    BY <2>1 DEF Call, IdCalls, Status
  <2> QED  BY <1>7, <2>2, EndingKnown DEF Exit, Threads
<1>8. ASSUME NEW p \in Pids, Kill(p) \/ Disappeared(p)
      PROVE  CallsKnown'
  BY <1>8, EndingKnown DEF Kill, Disappeared, Threads, Status
<1>9. ASSUME NEW p \in Pids, SyscallEntry(p) \/ SyscallExit(p) \/ ForkEvent(p) \/ OtherStop(p)
      PROVE  CallsKnown'
  <2>1. At(p, Stops) /\ Resume(p)
    BY <1>9 DEF SyscallEntry, SyscallExit, ForkEvent, OtherStop, At, Stops, EventStops
  <2> QED  BY <2>1, ResumeKnown
<1>10. \A p \in Pids : Gone(p).ok /\ Gone(p).at = "reaped"
  BY DEF Gone, Unborn
<1>11. CASE TraceReturns \/ \E p \in Pids : Reap(p)
  <2>1. \A q \in Pids : task'[q] = task[q] \/ (task'[q].at = "reaped" /\ task'[q].ok)
    BY <1>0, <1>10, <1>11 DEF TraceReturns, Reap
  <2>2. ASSUME NEW q \in Pids
        PROVE  CallKnown(q)'
    BY <2>1, KnownSame, KnownEnded DEF CallsKnown, At, InCall
  <2> QED  BY <2>2 DEF CallsKnown
<1> QED
  BY <1>1, <1>2, <1>3, <1>4, <1>5, <1>6, <1>7, <1>8, <1>9, <1>11 DEF Next, TaskStep, TracerStep

-----------------------------------------------------------------------------
(* Families and children, through every step.                              *)

LEMMA ForkKeeps ==
  ASSUME TypeOK, Families, Children, FollowedAreBorn,
         NEW p \in Pids, NEW child \in Pids, Fork(p, child)
  PROVE  Families' /\ Children' /\ FollowedAreBorn'
<1> USE TaskFields
<1>0. task \in [Pids -> Task] /\ group \in [Pids -> Pids] /\ ideal \in [Pids -> Credentials]
      /\ followed \subseteq Pids
  BY DEF TypeOK
<1>1. /\ task' = [task EXCEPT ![p] = [@ EXCEPT !.at = "fork", !.msg = child],
                              ![child] = [Unborn EXCEPT !.at = "starting"]]
      /\ task[p].at = "insys" /\ task[child].at = "unborn"
      /\ group' = [group EXCEPT ![child] = IF task[p].call.name = "clone" THEN group[p] ELSE child]
      /\ ideal' = [ideal EXCEPT ![child] = ideal[p]] /\ followed' = followed
  BY DEF Fork, At
<1>2. p # child
  BY <1>1
<1>3. [Unborn EXCEPT !.at = "starting"].at = "starting"
  BY DEF Unborn
<1>4. /\ task'[p].at = "fork" /\ task'[p].msg = child /\ task'[child].at = "starting"
      /\ \A q \in Pids \ {p, child} : task'[q] = task[q]
  BY <1>0, <1>1, <1>2, <1>3 DEF Task
<1>5. \A q \in Pids : task'[q].at = "unborn" <=> task[q].at = "unborn" /\ q # child
  BY <1>1, <1>4
<1>6. FollowedAreBorn'
  BY <1>0, <1>1, <1>5 DEF FollowedAreBorn, At
<1>7. Families'
  <2> SUFFICES ASSUME NEW q \in Pids
               PROVE  IF task'[q].at = "unborn" THEN group'[q] = q
                      ELSE task'[group'[q]].at # "unborn" /\ group'[group'[q]] = group'[q]
    BY DEF Families, At
  <2>1. /\ task[p].at # "unborn" /\ task[group[p]].at # "unborn" /\ group[group[p]] = group[p]
        /\ group[child] = child
    BY <1>1 DEF Families, At
  <2>2. group[p] # child
    BY <1>1, <2>1
  <2>3. CASE q = child
    <3>1. CASE group'[child] = child
      BY <1>4, <2>3, <3>1
    <3>2. CASE group'[child] = group[p]
      <4>1. group[p] \in Pids /\ group'[group[p]] = group[p] /\ task'[group[p]].at # "unborn"
        BY <1>0, <1>1, <1>5, <2>1, <2>2
      <4> QED  BY <1>4, <2>3, <3>2, <4>1
    <3> QED  BY <1>0, <1>1, <3>1, <3>2
  <2>4. CASE q # child
    <3>1. group'[q] = group[q]
      BY <1>0, <1>1, <2>4
    <3>2. CASE task[q].at = "unborn"
      BY <1>5, <2>4, <3>1, <3>2 DEF Families, At
    <3>3. CASE task[q].at # "unborn"
      <4>1. task[group[q]].at # "unborn" /\ group[group[q]] = group[q] /\ group[q] # child
        BY <1>1, <3>3 DEF Families, At
      <4>2. group[q] \in Pids /\ group'[group[q]] = group[q] /\ task'[group[q]].at # "unborn"
        BY <1>0, <1>1, <1>5, <4>1
      <4> QED  BY <1>5, <2>4, <3>1, <3>3, <4>2
    <3> QED  BY <3>2, <3>3
  <2> QED  BY <2>3, <2>4
<1>8. Children'
  <2> SUFFICES ASSUME NEW q \in Pids, At(q, {"fork"})'
               PROVE  ChildOf(q, task[q].msg)'
    BY DEF Children
  <2>1. q # child
    BY <1>4 DEF At
  <2>2. CASE q = p
    <3>1. /\ ~At(child, {"unborn"})' /\ child \notin followed'
          /\ ideal'[child] = ideal'[p]
      BY <1>0, <1>1, <1>2, <1>4 DEF At, FollowedAreBorn
    <3>2. \A r \in Pids \ {p} : At(r, {"fork"})' => task'[r].msg # child
      BY <1>1, <1>4 DEF Children, ChildOf, At
    <3>3. ChildOf(p, child)'
      BY <3>1, <3>2 DEF ChildOf
    <3> QED  BY <1>4, <2>2, <3>3
  <2>3. CASE q # p
    <3>1. PICK c : c = task[q].msg
      OBVIOUS
    <3>2. task'[q] = task[q] /\ At(q, {"fork"})
      BY <1>4, <2>1, <2>3 DEF At
    <3>3. ChildOf(q, c)
      BY <3>1, <3>2 DEF Children
    <3>4. c # child
      BY <1>1, <3>3 DEF ChildOf, At
    <3>5. ~At(c, {"unborn"})' /\ c \notin followed'
      BY <1>1, <1>5, <3>3 DEF ChildOf, At
    <3>6. At(c, {"starting"})' => ideal'[c] = ideal'[q]
      BY <1>0, <1>1, <1>4, <2>1, <3>3, <3>4 DEF ChildOf, At
    <3>7. \A r \in Pids \ {q} : At(r, {"fork"})' => task'[r].msg # c
      BY <1>4, <3>3, <3>4 DEF ChildOf, At
    <3>8. ChildOf(q, c)'
      BY <3>3, <3>5, <3>6, <3>7 DEF ChildOf
    <3> QED  BY <3>1, <3>2, <3>8
  <2> QED  BY <2>2, <2>3
<1> QED  BY <1>6, <1>7, <1>8

LEMMA FamilyStep ==
  ASSUME TypeOK, CallsKnown, Families, Children, FollowedAreBorn, Next
  PROVE  Families' /\ Children' /\ FollowedAreBorn'
<1>1. ASSUME NEW p \in Pids, TaskStep(p)
      PROVE  Families' /\ Children' /\ FollowedAreBorn'
  BY <1>1, TaskNoBirth, NoBirthKeeps, ForkKeeps
<1>2. ASSUME NEW p \in Pids,
             \/ SyscallEntry(p) \/ SyscallExit(p) \/ ForkEvent(p) \/ OtherStop(p) \/ Reap(p)
             \/ Kill(p) \/ Disappeared(p)
      PROVE  Families' /\ Children' /\ FollowedAreBorn'
  BY <1>2, TracerNoBirth, NoBirthKeeps
<1>3. CASE TraceReturns
  <2>1. \A p \in Pids : Gone(p).at = "reaped"
    BY DEF Gone, Unborn
  <2>2. NoBirth
    BY <1>3, <2>1 DEF TraceReturns, NoBirth, At
  <2> QED  BY <2>2, NoBirthKeeps
<1> QED  BY <1>1, <1>2, <1>3 DEF Next, TracerStep

-----------------------------------------------------------------------------
(* The tables of the followed tasks.                                       *)

SameTables(q) ==
  /\ q \in alive => q \in alive'
  /\ inSyscall'[q] = inSyscall[q] /\ active'[q] = active[q] /\ cred'[q] = cred[q]

LEMMA TablesStay ==
  ASSUME FollowedInTables, NEW q \in followed, task'[q] = task[q], ideal'[q] = ideal[q],
         SameTables(q)
  PROVE  Present(q)' => InTables(q)'
BY DEF FollowedInTables, Present, InTables, InStep, At, SameTables

(* A task that moves on within a call, or between two calls.               *)
LEMMA TablesMove ==
  ASSUME FollowedInTables, NEW q \in followed, Present(q), SameTables(q), ideal'[q] = ideal[q],
         task'[q].call = task[q].call \/ ~inSyscall[q],
         At(q, {"insys", "execing", "fork", "exec", "exit"})
           <=> At(q, {"insys", "execing", "fork", "exec", "exit"})'
  PROVE  InTables(q)'
BY DEF FollowedInTables, InTables, InStep, SameTables

LEMMA EndingTables ==
  ASSUME TypeOK, FollowedInTables, NEW T \in SUBSET Pids, NEW status \in Status,
         Ending(T, status), NEW q \in followed, ideal'[q] = ideal[q],
         SameTables(q) \/ (q \in T /\ Live(q))
  PROVE  Present(q)' => InTables(q)'
<1>1. q \in Pids
  BY DEF TypeOK
<1>2. CASE q \in T /\ Live(q)
  <2>1. task'[q].at \in {"zombie", "exiting"}
    BY <1>1, <1>2, EndingEffect
  <2> QED  BY <2>1 DEF Present, At
<1>3. CASE ~(q \in T /\ Live(q))
  <2>1. task'[q] = task[q]
    BY <1>1, <1>3, EndingEffect
  <2> QED  BY <1>3, <2>1, TablesStay
<1> QED  BY <1>2, <1>3

LEMMA TaskTables ==
  ASSUME TracerInv, NEW p \in Pids, TaskStep(p)
  PROVE  FollowedInTables'
<1> USE TaskFields DEF TracerInv
<1>0. task \in [Pids -> Task] /\ ideal \in [Pids -> Credentials] /\ followed \subseteq Pids
      /\ group \in [Pids -> Pids]
  BY DEF TypeOK
<1>1. \A q \in Pids : SameTables(q)
  BY DEF TaskStep, Enter, Fork, Return, Fail, ExecBegin, ExecEnd, Exit, tracerVars, SameTables
<1>2. ASSUME NEW call \in Calls, Enter(p, call)
      PROVE  FollowedInTables'
  <2>1. task' = [task EXCEPT ![p] = [@ EXCEPT !.at = "entry", !.call = call, !.ok = TRUE]]
        /\ task[p].at = "running" /\ followed' = followed /\ ideal' = ideal
    BY <1>2 DEF Enter, At
  <2>2. task'[p].at = "entry" /\ \A q \in Pids \ {p} : task'[q] = task[q]
    BY <1>0, <2>1 DEF Task
  <2>3. p \in followed => InTables(p)'
    <3>1. p \in followed => Present(p) /\ ~inSyscall[p]
      BY <2>1 DEF Present, At, FollowedInTables, InTables, InStep
    <3> QED  BY <1>1, <2>1, <2>2, <3>1, TablesMove DEF At
  <2> QED  BY <1>0, <1>1, <2>1, <2>2, <2>3, TablesStay DEF FollowedInTables
<1>3. CASE Return(p) \/ Fail(p)
  <2>1. task[p].at = "insys" /\ followed' = followed /\ ideal' = ideal
    BY <1>3 DEF Return, Fail, At
  <2>2. /\ task'[p].at = "exit" /\ task'[p].call = task[p].call
        /\ \A q \in Pids \ {p} : task'[q] = task[q]
    <3>1. CASE task' = [task EXCEPT ![p] = [@ EXCEPT !.at = "exit"]]
      BY <1>0, <3>1 DEF Task
    <3>2. CASE task' = [task EXCEPT ![p] = [@ EXCEPT !.at = "exit", !.ok = FALSE]]
      BY <1>0, <3>2 DEF Task
    <3> QED  BY <1>3, <3>1, <3>2 DEF Return, Fail
  <2>3. p \in followed => InTables(p)'
    BY <1>1, <2>1, <2>2, TablesMove DEF Present, At
  <2> QED  BY <1>0, <1>1, <2>1, <2>2, <2>3, TablesStay DEF FollowedInTables
<1>4. ASSUME NEW child \in Pids, Fork(p, child)
      PROVE  FollowedInTables'
  <2>1. /\ task' = [task EXCEPT ![p] = [@ EXCEPT !.at = "fork", !.msg = child],
                                ![child] = [Unborn EXCEPT !.at = "starting"]]
        /\ task[p].at = "insys" /\ task[child].at = "unborn"
        /\ ideal' = [ideal EXCEPT ![child] = ideal[p]] /\ followed' = followed
    BY <1>4 DEF Fork, At
  <2>2. p # child /\ child \notin followed
    BY <2>1 DEF FollowedAreBorn, At
  <2>3. /\ task'[p].at = "fork" /\ task'[p].call = task[p].call
        /\ \A q \in Pids \ {p, child} : task'[q] = task[q]
        /\ \A q \in Pids \ {child} : ideal'[q] = ideal[q]
    BY <1>0, <2>1, <2>2 DEF Task
  <2>4. p \in followed => InTables(p)'
    BY <1>1, <2>1, <2>2, <2>3, TablesMove DEF Present, At
  <2> QED  BY <1>0, <1>1, <2>1, <2>2, <2>3, <2>4, TablesStay DEF FollowedInTables
<1>5. CASE ExecBegin(p)
  <2>1. [Unborn EXCEPT !.at = "exiting"].at = "exiting"
    BY DEF Unborn
  <2>2. /\ task[p].at = "insys" /\ followed' = followed /\ ideal' = ideal
        /\ task'[p].at = "execing" /\ task'[p].call = task[p].call
        /\ \A q \in Pids \ {p} : task'[q] = task[q] \/ task'[q].at = "exiting"
    BY <1>0, <1>5, <2>1 DEF ExecBegin, Task, At
  <2>3. p \in followed => InTables(p)'
    BY <1>1, <2>2, TablesMove DEF Present, At
  <2>4. ASSUME NEW q \in followed, q # p
        PROVE  Present(q)' => InTables(q)'
    BY <1>0, <1>1, <2>2, <2>4, TablesStay DEF Present, At
  <2> QED  BY <2>2, <2>3, <2>4 DEF FollowedInTables
<1>6. CASE ExecEnd(p)
  <2>1. PICK leader \in Pids : leader = group[p]
    BY <1>0
  <2>2. /\ task[p].at = "execing"
        /\ task' = [t \in Pids |-> CASE t = leader -> [task[p] EXCEPT !.at = "exec"]
                                     [] t = p /\ p # leader -> [Unborn EXCEPT !.at = "reaped"]
                                     [] OTHER -> task[t]]
        /\ ideal' = [ideal EXCEPT ![leader] = ideal[p]]
        /\ followed' = IF p = leader THEN followed ELSE followed \ {p, leader}
    BY <1>6, <2>1 DEF ExecEnd, At
  <2>3. [task[p] EXCEPT !.at = "exec"].at = "exec"
        /\ [task[p] EXCEPT !.at = "exec"].call = task[p].call
    BY DEF Task
  <2>4. /\ task'[leader].at = "exec" /\ task'[leader].call = task[p].call
        /\ \A t \in Pids \ {p, leader} : task'[t] = task[t] /\ ideal'[t] = ideal[t]
        /\ ideal'[leader] = ideal[p]
    BY <1>0, <2>2, <2>3
  <2>5. p = leader /\ p \in followed => InTables(p)'
    BY <1>1, <2>2, <2>4, TablesMove DEF Present, At
  <2>6. followed' \subseteq followed /\ (p # leader => followed' = followed \ {p, leader})
    BY <2>2
  <2>7. ASSUME NEW q \in followed'
        PROVE  Present(q)' => InTables(q)'
    <3>1. CASE q \in {p, leader}
      <4>1. q = p /\ p = leader /\ p \in followed
        BY <2>6, <2>7, <3>1
      <4> QED  BY <2>5, <4>1
    <3>2. CASE q \notin {p, leader}
      <4>1. q \in followed /\ q \in Pids /\ SameTables(q)
        BY <1>0, <1>1, <2>6, <2>7
      <4>2. task'[q] = task[q] /\ ideal'[q] = ideal[q]
        BY <2>4, <3>2, <4>1
      <4> QED  BY <4>1, <4>2, TablesStay
    <3> QED  BY <3>1, <3>2
  <2> QED  BY <2>7 DEF FollowedInTables
<1>7. CASE Exit(p)
  <2>1. task[p].call \in Call /\ task[p].call.name = "exit"
    BY <1>7 DEF Exit, CallsKnown, CallKnown, At, InCall
  <2>2. task[p].call.code \in Status
    BY <2>1 DEF Call, IdCalls, Status
  <2>3. followed' = followed /\ ideal' = ideal
    BY <1>7 DEF Exit
  <2>4. \E T \in SUBSET Pids : Ending(T, task[p].call.code)
    BY <1>7 DEF Exit, Threads
  <2> QED  BY <1>0, <1>1, <2>2, <2>3, <2>4, EndingTables DEF FollowedInTables
<1> QED  BY <1>2, <1>3, <1>4, <1>5, <1>6, <1>7 DEF TaskStep

(* What the tracer makes of the ids at the exit of a call is what the call *)
(* made of them.                                                           *)
LEMMA HandledIsAfter ==
  ASSUME TypeOK, CallsKnown, NEW p \in Pids, At(p, {"exit"}), cred[p] = ideal[p]
  PROVE  HandledIds(p, task[p].call)[p] = AfterCall(ideal[p], task[p])
<1>1. task[p].call \in Call /\ task[p].at = "exit"
  BY TaskFields DEF CallsKnown, CallKnown, At, InCall
<1>2. /\ ideal[p] \in Credentials /\ cred \in [Pids -> Credentials \cup {NoCred}]
      /\ task[p].call # NoCall
  BY <1>1, TracerAssumption DEF TypeOK
<1>3. CredentialsOf(p) = ideal[p]
  BY <1>2, TracerAssumption DEF CredentialsOf
<1>4. CASE task[p].call.name = "exec"
  <2>1. task[p].call \notin IdCalls
    BY <1>1, <1>4, CallNames
  <2> QED  BY <1>1, <1>2, <1>3, <1>4, <2>1 DEF HandledIds, AfterCall, At
<1>5. CASE task[p].call.name \in {"fork", "clone", "exit"}
  <2>1. task[p].call \notin IdCalls
    BY <1>1, <1>5, CallNames
  <2> QED  BY <1>1, <1>2, <1>3, <1>5, <2>1 DEF HandledIds, AfterCall, At
<1>6. CASE task[p].call.name \notin {"fork", "clone", "exec", "exit"}
  <2>1. task[p].call \in IdCalls /\ task[p].ok
    BY <1>1, <1>6, CallNames DEF CallsKnown, CallKnown
  <2> QED  BY <1>1, <1>2, <1>3, <1>6, <2>1 DEF HandledIds, AfterCall, At
<1> QED  BY <1>4, <1>5, <1>6

LEMMA TracerTables ==
  ASSUME TracerInv, NEW p \in Pids,
         \/ SyscallEntry(p) \/ SyscallExit(p) \/ ForkEvent(p) \/ OtherStop(p)
  PROVE  FollowedInTables'
<1> USE TaskFields DEF TracerInv
<1>0. /\ task \in [Pids -> Task] /\ ideal \in [Pids -> Credentials] /\ followed \subseteq Pids
      /\ inSyscall \in [Pids -> BOOLEAN] /\ active \in [Pids -> Call \cup {NoCall}]
      /\ cred \in [Pids -> Credentials \cup {NoCred}]
  BY DEF TypeOK
<1>1. At(p, Stops) /\ Resume(p)
  BY DEF SyscallEntry, SyscallExit, ForkEvent, OtherStop, At, Stops, EventStops
<1>2. \A q \in Pids \ {p} : task'[q] = task[q] /\ ideal'[q] = ideal[q]
  BY <1>1, ResumeEffect
<1>3. ASSUME NEW q \in followed, q # p, SameTables(q)
      PROVE  Present(q)' => InTables(q)'
  BY <1>0, <1>2, <1>3, TablesStay
<1>4. ~At(p, {"exit"}) => task'[p].call = task[p].call /\ ideal'[p] = ideal[p]
  BY <1>1, ResumeEffect
<1>5. CASE SyscallEntry(p)
  <2>1. /\ alive' = alive \cup {p} /\ followed' = followed /\ cred' = cred
        /\ active' = [active EXCEPT ![p] = task[p].call]
        /\ inSyscall' = [inSyscall EXCEPT ![p] = TRUE]
        /\ At(p, {"entry", "exit"}) /\ ~inSyscall[p]
    BY <1>5 DEF SyscallEntry
  <2>2. \A q \in Pids \ {p} : SameTables(q)
    BY <1>0, <2>1 DEF SameTables
  <2>3. p \in followed => InTables(p)'
    <3>1. p \in followed => At(p, {"entry"}) /\ ~At(p, {"exit"}) /\ cred[p] = ideal[p]
      BY <2>1 DEF FollowedInTables, InTables, InStep, Present, At
    <3>2. p \in followed => task'[p].at = "insys"
      BY <1>1, <3>1, ResumeQuiet
    <3> QED  BY <1>0, <1>4, <2>1, <3>1, <3>2 DEF InTables, InStep, At
  <2> QED  BY <1>0, <1>3, <2>1, <2>2, <2>3 DEF FollowedInTables
<1>6. CASE SyscallExit(p)
  <2>1. /\ alive' = alive /\ followed' = followed
        /\ cred' = IF active[p] = NoCall THEN cred ELSE HandledIds(p, active[p])
        /\ active' = [active EXCEPT ![p] = NoCall]
        /\ inSyscall' = [inSyscall EXCEPT ![p] = FALSE]
        /\ At(p, {"entry", "exit"}) /\ inSyscall[p]
    BY <1>6 DEF SyscallExit
  <2>2. \A q \in Pids \ {p} : SameTables(q)
    BY <1>0, <2>1 DEF SameTables, HandledIds
  <2>3. p \in followed => InTables(p)'
    <3> SUFFICES ASSUME p \in followed PROVE InTables(p)'
      OBVIOUS
    <3>1. /\ At(p, {"exit"}) /\ cred[p] = ideal[p] /\ active[p] = task[p].call /\ p \in alive
      BY <2>1 DEF FollowedInTables, InTables, InStep, Present, At
    <3>2. task[p].call # NoCall
      BY <3>1 DEF CallsKnown, CallKnown, At, InCall
    <3>3. cred'[p] = AfterCall(ideal[p], task[p])
      BY <2>1, <3>1, <3>2, HandledIsAfter
    <3>4. task'[p].at = "running" /\ ideal'[p] = AfterCall(ideal[p], task[p])
      BY <1>1, <3>1, ResumeEffect
    <3> QED  BY <1>0, <2>1, <3>1, <3>3, <3>4 DEF InTables, InStep, At
  <2> QED  BY <1>0, <1>3, <2>1, <2>2, <2>3 DEF FollowedInTables
<1>7. CASE ForkEvent(p)
  <2>1. PICK child : child = task[p].msg
    OBVIOUS
  <2>2. /\ At(p, {"fork"}) /\ alive' = alive \cup {p, child} /\ active' = active
        /\ inSyscall' = [inSyscall EXCEPT ![child] = FALSE]
        /\ cred' = [cred EXCEPT ![child] = CredentialsOf(p)]
        /\ followed' = IF p \in followed /\ At(child, {"starting"})
                       THEN followed \cup {child} ELSE followed
    BY <1>7, <2>1 DEF ForkEvent, Inherits
  <2>3. ChildOf(p, child)
    BY <2>1, <2>2 DEF Children
  <2>4. child \in Pids /\ child \notin followed
    BY <2>3 DEF ChildOf
  <2>5. \A q \in Pids \ {child} : SameTables(q)
    BY <1>0, <2>2 DEF SameTables
  <2>6. p \in followed => InTables(p)'
    <3> SUFFICES ASSUME p \in followed PROVE InTables(p)'
      OBVIOUS
    <3>1. p # child /\ task'[p].at = "exit" /\ ~At(p, {"exit"}) /\ Present(p)
      BY <1>1, <2>2, <2>4, ResumeQuiet DEF At, Present
    <3> QED  BY <1>4, <2>2, <2>5, <3>1, TablesMove DEF At
  <2>7. p \in followed /\ At(child, {"starting"}) => InTables(child)'
    <3> SUFFICES ASSUME p \in followed, At(child, {"starting"}) PROVE InTables(child)'
      OBVIOUS
    <3>1. p # child /\ cred[p] = ideal[p] /\ ideal[child] = ideal[p]
      BY <2>2, <2>3, <2>4 DEF ChildOf, FollowedInTables, InTables, Present, At
    <3>2. CredentialsOf(p) = ideal[p]
      BY <1>0, <3>1, TracerAssumption DEF CredentialsOf
    <3>3. task'[child] = task[child] /\ ideal'[child] = ideal[child]
      BY <1>2, <2>4, <3>1
    <3> QED  BY <1>0, <2>2, <2>4, <3>1, <3>2, <3>3 DEF InTables, InStep, At
  <2>8. ASSUME NEW q \in followed'
        PROVE  Present(q)' => InTables(q)'
    <3>1. CASE q = p /\ p \in followed
      BY <2>6, <3>1
    <3>2. CASE q = child /\ p \in followed /\ At(child, {"starting"})
      BY <2>7, <3>2
    <3>3. CASE q \in followed /\ q # p
      BY <1>0, <1>3, <2>4, <2>5, <3>3
    <3> QED  BY <2>2, <2>8, <3>1, <3>2, <3>3
  <2> QED  BY <2>8 DEF FollowedInTables
<1>8. CASE OtherStop(p)
  <2>1. /\ At(p, {"starting", "exec", "exiting"}) /\ alive' = alive \cup {p} /\ followed' = followed
        /\ cred' = cred /\ active' = active /\ inSyscall' = inSyscall
    BY <1>8 DEF OtherStop
  <2>2. \A q \in Pids : SameTables(q)
    BY <2>1 DEF SameTables
  <2>3. p \in followed /\ Present(p)' => InTables(p)'
    <3>1. CASE At(p, {"exiting"})
      <4>1. task'[p].at = "zombie"
        BY <1>1, <3>1, ResumeQuiet
      <4> QED  BY <4>1 DEF Present, At
    <3>2. CASE At(p, {"starting"})
      BY <1>1, <1>4, <2>2, <3>2, ResumeQuiet, TablesMove DEF Present, At
    <3>3. CASE At(p, {"exec"})
      BY <1>1, <1>4, <2>2, <3>3, ResumeQuiet, TablesMove DEF Present, At
    <3> QED  BY <2>1, <3>1, <3>2, <3>3 DEF At
  <2> QED  BY <1>0, <1>3, <2>1, <2>2, <2>3 DEF FollowedInTables
<1> QED  BY <1>5, <1>6, <1>7, <1>8

LEMMA EndTables ==
  ASSUME TracerInv, NEW p \in Pids, Reap(p) \/ Kill(p) \/ Disappeared(p)
  PROVE  FollowedInTables'
<1> USE TaskFields DEF TracerInv
<1>0. /\ task \in [Pids -> Task] /\ ideal \in [Pids -> Credentials] /\ followed \subseteq Pids
      /\ inSyscall \in [Pids -> BOOLEAN] /\ active \in [Pids -> Call \cup {NoCall}]
      /\ cred \in [Pids -> Credentials \cup {NoCred}]
  BY DEF TypeOK
<1>1. CASE Reap(p)
  <2>1. /\ task' = [task EXCEPT ![p] = Gone(p)] /\ followed' = followed /\ ideal' = ideal
        /\ alive' = alive \ {p} /\ active' = [active EXCEPT ![p] = NoCall]
        /\ inSyscall' = [inSyscall EXCEPT ![p] = FALSE] /\ cred' = [cred EXCEPT ![p] = NoCred]
    BY <1>1 DEF Reap, Forget
  <2>2. task'[p].at = "reaped" /\ \A q \in Pids \ {p} : task'[q] = task[q] /\ SameTables(q)
    BY <1>0, <2>1 DEF SameTables, Gone, Unborn
  <2> QED  BY <1>0, <2>1, <2>2, TablesStay DEF FollowedInTables, Present, At
<1>2. CASE Kill(p)
  <2>1. /\ Ending(Threads(p), 137) /\ Threads(p) \in SUBSET Pids /\ 137 \in Status
        /\ followed' = followed /\ ideal' = ideal /\ \A q \in Pids : SameTables(q)
    BY <1>2 DEF Kill, Threads, Status, SameTables, tracerVars
  <2> QED  BY <1>0, <2>1, EndingTables DEF FollowedInTables
<1>3. CASE Disappeared(p)
  <2>1. /\ Ending(Threads(p), 137) /\ Threads(p) \in SUBSET Pids /\ 137 \in Status
        /\ ideal' = ideal /\ At(p, Stops)
    BY <1>3 DEF Disappeared, Threads, Status
  <2>2. Present(p)' => FALSE
    <3>1. CASE At(p, {"exiting"})
      <4>1. task'[p] = task[p]
        BY <2>1, <3>1, EndingEffect DEF Live, At
      <4> QED  BY <3>1, <4>1 DEF Present, At
    <3>2. CASE ~At(p, {"exiting"})
      <4>1. p \in Threads(p) /\ Live(p)
        BY <2>1, <3>2 DEF Threads, Live, At, Stops, EventStops
      <4>2. task'[p].at \in {"zombie", "exiting"}
        BY <2>1, <4>1, EndingEffect
      <4> QED  BY <4>2 DEF Present, At
    <3> QED  BY <3>1, <3>2
  <2>3. CASE /\ Forget(p, alive) /\ followed' = followed
             /\ inSyscall' = [inSyscall EXCEPT ![p] = FALSE]
             /\ cred' = [cred EXCEPT ![p] = NoCred]
    <3>1. \A q \in Pids \ {p} : SameTables(q)
      BY <1>0, <2>3 DEF Forget, SameTables
    <3>2. ASSUME NEW q \in followed, q # p
          PROVE  Present(q)' => InTables(q)'
      BY <1>0, <2>1, <3>1, <3>2, EndingTables
    <3> QED  BY <2>2, <2>3, <3>2 DEF FollowedInTables
  <2>4. CASE /\ At(p, {"fork"})
             /\ Forget(p, alive \cup {task[p].msg})
             /\ inSyscall' = [inSyscall EXCEPT ![p] = FALSE, ![task[p].msg] = FALSE]
             /\ cred' = [cred EXCEPT ![p] = NoCred, ![task[p].msg] = CredentialsOf(p)]
             /\ followed' = IF p \in followed /\ At(task[p].msg, {"starting"})
                            THEN followed \cup {task[p].msg} ELSE followed
    <3>1. PICK child : child = task[p].msg
      OBVIOUS
    <3>2. ChildOf(p, child)
      BY <2>4, <3>1 DEF Children
    <3>3. child \in Pids /\ child \notin followed
      BY <3>2 DEF ChildOf
    <3>4. \A q \in Pids \ {p, child} : SameTables(q)
      BY <1>0, <2>4, <3>1, <3>3 DEF Forget, SameTables
    <3>5. ASSUME NEW q \in followed, q # p
          PROVE  Present(q)' => InTables(q)'
      BY <1>0, <2>1, <3>3, <3>4, <3>5, EndingTables
    <3>6. p \in followed /\ At(child, {"starting"}) => (Present(child)' => InTables(child)')
      <4> SUFFICES ASSUME p \in followed, At(child, {"starting"}), Present(child)'
                   PROVE  InTables(child)'
        OBVIOUS
      <4>1. p # child /\ cred[p] = ideal[p] /\ ideal[child] = ideal[p]
        BY <2>4, <3>2, <3>3 DEF ChildOf, FollowedInTables, InTables, Present, At
      <4>2. CredentialsOf(p) = ideal[p]
        BY <1>0, <4>1, TracerAssumption DEF CredentialsOf
      <4>3. task'[child] = task[child]
        <5>1. task'[child] # task[child] => task'[child].at \in {"zombie", "exiting"}
          BY <2>1, <3>3, EndingEffect
        <5> QED  BY <5>1 DEF Present, At
      <4>4. child \in alive' /\ ~inSyscall'[child] /\ cred'[child] = ideal[p]
        BY <1>0, <2>4, <3>1, <3>3, <4>1, <4>2 DEF Forget
      <4> QED  BY <2>1, <4>1, <4>3, <4>4 DEF InTables, InStep, At
    <3>7. ASSUME NEW q \in followed'
          PROVE  Present(q)' => InTables(q)'
      BY <2>2, <2>4, <3>1, <3>5, <3>6, <3>7
    <3> QED  BY <3>7 DEF FollowedInTables
  <2> QED  BY <1>3, <2>3, <2>4 DEF Disappeared
<1> QED  BY <1>1, <1>2, <1>3

-----------------------------------------------------------------------------
(* The invariant, and what follows.                                        *)

LEMMA TracerInit == Init => TracerInv
<1> SUFFICES ASSUME Init PROVE TracerInv
  OBVIOUS
<1>1. Unborn \in Task /\ [Unborn EXCEPT !.at = "starting"] \in Task
  <2>1. [Unborn EXCEPT !.at = "starting"] \in Task
    BY BareTask DEF Ats
  <2> QED  BY <2>1 DEF Unborn, Task, Status
<1>2. /\ Unborn.at = "unborn" /\ Unborn.ok = TRUE
      /\ [Unborn EXCEPT !.at = "starting"].at = "starting"
      /\ [Unborn EXCEPT !.at = "starting"].ok = TRUE
  BY DEF Unborn
<1>3. TypeOK
  <2>1. task \in [Pids -> Task]
    BY <1>1 DEF Init
  <2>2. budget \in [calls : 0..MaxCalls, kills : 0..MaxKills]
    BY TracerAssumption DEF Init
  <2> QED  BY <2>1, <2>2, InitialTyped, TracerAssumption DEF Init, TypeOK, Status
<1>4. \A p \in Pids : task[p].ok /\ task[p].at = IF p = First THEN "starting" ELSE "unborn"
  BY <1>2 DEF Init
<1>5. CallsKnown
  BY <1>4 DEF CallsKnown, CallKnown, At, InCall
<1>6. Families /\ Children /\ FollowedAreBorn
  BY <1>4, TracerAssumption DEF Init, Families, Children, FollowedAreBorn, At
<1>7. FollowedInTables
  BY <1>4, TracerAssumption DEF Init, FollowedInTables, InTables, InStep, At
<1> QED  BY <1>3, <1>5, <1>6, <1>7 DEF TracerInv

LEMMA TracerStepInv == TracerInv /\ [Next]_vars => TracerInv'
<1> SUFFICES ASSUME TracerInv, [Next]_vars PROVE TracerInv'
  OBVIOUS
<1>1. CASE Next
  <2>1. TypeOK' /\ CallsKnown' /\ Families' /\ Children' /\ FollowedAreBorn'
    BY <1>1, TypeStep, CallsStep, FamilyStep DEF TracerInv
  <2>2. CASE TraceReturns
    <3>1. \A p \in Pids : Gone(p).at = "reaped"
      BY DEF Gone, Unborn
    <3>2. \A p \in Pids : ~Present(p)'
      BY <2>2, <3>1 DEF TraceReturns, Present, At
    <3>3. followed' \subseteq Pids
      BY <2>1 DEF TypeOK
    <3> QED  BY <2>1, <3>2, <3>3 DEF FollowedInTables, TracerInv
  <2>3. CASE ~TraceReturns
    <3>1. FollowedInTables'
      BY <1>1, <2>3, TaskTables, TracerTables, EndTables DEF Next, TracerStep
    <3> QED  BY <2>1, <3>1 DEF TracerInv
  <2> QED  BY <2>2, <2>3
<1>2. CASE UNCHANGED vars
  BY <1>2 DEF vars, kernelVars, tracerVars, TracerInv, TypeOK, CallsKnown, CallKnown, Families,
     Children, ChildOf, FollowedAreBorn, FollowedInTables, InTables, InStep, Present, At
<1> QED  BY <1>1, <1>2

LEMMA TracerInvariant == Spec => []TracerInv
<1> QED  BY TracerInit, TracerStepInv, PTL DEF Spec

(* The kernel's tasks, and the tables by pid of the tracer, keep their     *)
(* types.                                                                  *)
THEOREM TracerTypeCorrect == Spec => []TypeOK
<1>1. TracerInv => TypeOK
  BY DEF TracerInv
<1> QED  BY <1>1, TracerInvariant, PTL

(* trace() never takes the exit of a call of a followed task for the entry *)
(* of its next one, and holds the record of the call the task is in, as    *)
(* long as the task runs: however forks, threads, execs, kills and reports *)
(* follow one another.                                                     *)
THEOREM CallsArePaired == Spec => []PairsCalls
<1>1. TracerInv => PairsCalls
  BY DEF TracerInv, PairsCalls, FollowedInTables, InTables
<1> QED  BY <1>1, TracerInvariant, PTL

(* And a followed task has the ids that its calls, and those of its parent *)
(* before the fork, made.                                                  *)
THEOREM IdsFollowCalls == Spec => []IdsAreThePrograms
<1>1. TracerInv => IdsAreThePrograms
  BY DEF TracerInv, IdsAreThePrograms, FollowedInTables, InTables
<1> QED  BY <1>1, TracerInvariant, PTL
=============================================================================
