--------------------------- MODULE OperationsProofs -------------------------
(***************************************************************************)
(* Machine-checked proofs about Operations, for any number of clients,     *)
(* revisions, operations and faults.                                       *)
(***************************************************************************)
EXTENDS Operations, TLAPS

USE OperationsAssumption, QueueAssumption DEF OperationsAssumption, QueueAssumption, Revisions

-----------------------------------------------------------------------------
(* The inductive invariant *)

States == {"pending", "claimed", "expired"}

\* The rows of operations that were admitted.
OpRows ==
  [agent : Agents, kind : Kinds[target], rev : Revisions, stamp : 1..stamp, state : States]

RowsOK == open \subseteq OpRows /\ \A a \in Agents : at[a] # "idle" => held[a] \in OpRows

\* One request at a time holds the target, and one that has looked for an active
\* operation has found none that overlaps its own.
AdmissionOK ==
  /\ \A c \in Clients : request[c].stage # "none" => request[c].kind \in Kinds[target]
  /\ \A c, d \in Clients :
       request[c].stage \in {"locked", "clear"} /\ request[d].stage \in {"locked", "clear"} => c = d
  /\ \A c \in Clients :
       request[c].stage = "clear" => \A r \in open : ~Overlap(r.kind, request[c].kind)

\* What the agent has to report is what it has left on the host.
WorkOK(a) ==
  /\ at[a] \in {"idle", "asked", "holding"} => ~ok[a] /\ made = "none"
  /\ target = "deployment" /\ at[a] = "reporting" /\ ok[a] /\ held[a].kind # "stop" =>
       host = [file |-> held[a].rev, running |-> held[a].rev]
  /\ made = "restored" => target = "deployment" /\ ~ok[a] /\ host.running = Prior(a)

\* The agent has nothing to do: no run is open, and it deals with none that was.
Quiet == open = {} /\ \A a \in Agents : at[a] = "idle"

\* What a deployment shows is final only when nobody works on it any more, and
\* the prior revision of the open run is the current one.
DepOK ==
  /\ target # "deployment" => dep.status = "pending"
  /\ dep.status \in {"deploying", "stopping"} => open # {}
  /\ dep.status = "active" => Quiet /\ host = [file |-> dep.current, running |-> dep.current]
  /\ verdict = "restored" /\ open = {} => Quiet /\ host.running = dep.current
  /\ target = "deployment" => \A r \in open : prior[r.stamp] = dep.current

IInv == TypeOK /\ RowsOK /\ AdmissionOK /\ NoOverlap /\ (\A a \in Agents : WorkOK(a)) /\ DepOK

-----------------------------------------------------------------------------
(* Facts about kinds and rows *)

Requests ==
  [stage : {"none", "asked", "locked", "clear"}, kind : Kinds[target] \cup {"none"}, rev : Revisions]

LEMMA KindsOf ==
  /\ DOMAIN Kinds = {"stack", "runtime", "deployment"}
  /\ Kinds["stack"] = {"backup", "restore"}
  /\ Kinds["runtime"] = {"project", "web", "database"}
  /\ Kinds["deployment"] = {"deploy", "rollback", "stop"}
  BY DEF Kinds

\* An operation overlaps itself, and overlapping is mutual.
LEMMA OverlapMutual ==
  ASSUME NEW k, NEW l
  PROVE  Overlap(k, k) /\ (Overlap(k, l) <=> Overlap(l, k))
  BY DEF Overlap

\* A deployment has one open run at most.
LEMMA OneRun ==
  ASSUME NoOverlap, target = "deployment", NEW r \in open, NEW s \in open
  PROVE  r = s
  BY DEF NoOverlap, Overlap

LEMMA RowTypes ==
  /\ OpRows \subseteq Rows(Kinds[target])
  /\ \A r \in OpRows, s \in States :
       /\ [r EXCEPT !.state = s] \in OpRows /\ [r EXCEPT !.state = s].kind = r.kind
       /\ [r EXCEPT !.state = s].stamp = r.stamp
<1>1. OpRows \subseteq Rows(Kinds[target])
  <2>1. 1..stamp \subseteq Nat /\ Revisions \subseteq Nat
    OBVIOUS
  <2> QED
    BY <2>1 DEF OpRows, Rows, States
<1>2. ASSUME NEW r \in OpRows, NEW s \in States
      PROVE  /\ [r EXCEPT !.state = s] \in OpRows /\ [r EXCEPT !.state = s].kind = r.kind
             /\ [r EXCEPT !.state = s].stamp = r.stamp
  BY DEF OpRows
<1> QED
  BY <1>1, <1>2

LEMMA InitInvariant == Init => IInv
<1> SUFFICES ASSUME Init PROVE IInv
  OBVIOUS
<1>1. SyncTypeOK(Kinds[target])
  BY DEF Init, SyncInit, SyncTypeOK, NoOrder, Orders
<1>2. TypeOK
  <2>1. request \in [Clients -> Requests]
    BY DEF Init, Idle, Requests
  <2>2. dep \in Deployments
    BY DEF Init, NewDeployment, Deployments
  <2>3. prior \in Runs
    BY DEF Init, Runs
  <2>4. host \in [file : Revisions, running : Revisions]
    BY DEF Init
  <2>5. /\ target \in DOMAIN Kinds /\ stamp \in 0..MaxOperations /\ restorable \in BOOLEAN
        /\ made \in {"none", "restored"} /\ verdict \in {"none", "succeeded", "restored", "failed"}
    <3>1. 0 \in 0..MaxOperations
      OBVIOUS
    <3> QED
      BY <3>1 DEF Init
  <2> QED
    BY <1>1, <2>1, <2>2, <2>3, <2>4, <2>5 DEF TypeOK, Requests
<1>3. RowsOK /\ AdmissionOK /\ NoOverlap
  BY DEF Init, SyncInit, RowsOK, AdmissionOK, NoOverlap, Idle
<1>4. (\A a \in Agents : WorkOK(a)) /\ DepOK
  BY DEF Init, SyncInit, NewDeployment, WorkOK, DepOK
<1> QED
  BY <1>2, <1>3, <1>4 DEF IInv

-----------------------------------------------------------------------------
(* Admission *)

\* A step that leaves the queue, the agent and the deployment alone.
LEMMA RequestStep ==
  ASSUME IInv, NEW c \in Clients, NEW q \in Requests, request' = [request EXCEPT ![c] = q],
         UNCHANGED <<syncVars, target, stamp, restorable, depVars>>,
         q.stage # "none" => q.kind \in Kinds[target],
         q.stage \in {"locked", "clear"} =>
           \A d \in Clients : d # c => request[d].stage \notin {"locked", "clear"},
         q.stage = "clear" => \A r \in open : ~Overlap(r.kind, q.kind)
  PROVE  IInv'
<1> USE DEF IInv
<1>1. /\ UNCHANGED <<open, at, held, order, ok, interrupted, faults, target, stamp, restorable,
                     dep, prior, host, made, verdict>>
      /\ request \in [Clients -> Requests]
  BY DEF syncVars, loopVars, depVars, TypeOK, Requests
<1>2. request'[c] = q /\ \A d \in Clients : d # c => request'[d] = request[d]
  BY <1>1
<1>3. TypeOK'
  <2>1. request' \in [Clients -> Requests]
    BY <1>1
  <2> QED
    BY <1>1, <2>1 DEF TypeOK, SyncTypeOK, Requests
<1>4. AdmissionOK'
  BY <1>1, <1>2 DEF AdmissionOK, Overlap
<1>5. RowsOK' /\ NoOverlap' /\ (\A a \in Agents : WorkOK(a)') /\ DepOK'
  BY <1>1 DEF RowsOK, OpRows, NoOverlap, Overlap, WorkOK, Prior, DepOK, Quiet
<1> QED
  BY <1>3, <1>4, <1>5

LEMMA AskStep ==
  ASSUME IInv, NEW c \in Clients,
         (\E k, rev : Ask(c, k, rev)) \/ Lock(c) \/ Check(c)
  PROVE  IInv'
<1> USE DEF IInv
<1>1. /\ request \in [Clients -> Requests] /\ Idle \in Requests /\ Idle.stage = "none"
      /\ dep \in Deployments /\ target \in {"stack", "runtime", "deployment"}
  BY KindsOf DEF TypeOK, Requests, Idle
<1>2. ASSUME NEW k, NEW rev, Ask(c, k, rev) PROVE IInv'
  <2> DEFINE q == [stage |-> "asked", kind |-> k, rev |-> rev]
  <2>1. rev \in Revisions
    BY <1>1, <1>2 DEF Ask, Requestable, Deployments
  <2>2. q \in Requests /\ q.stage = "asked" /\ q.kind \in Kinds[target]
    BY <1>2, <2>1 DEF Ask, Requests
  <2>3. request' = [request EXCEPT ![c] = q]
    BY <1>2 DEF Ask
  <2> HIDE DEF q
  <2> QED
    BY <1>2, <2>2, <2>3, RequestStep DEF Ask
<1>3. ASSUME NEW s \in {"locked", "clear"}, request'= [request EXCEPT ![c] = [@ EXCEPT !.stage = s]],
             request[c].stage # "none",
             UNCHANGED <<syncVars, target, stamp, restorable, depVars>>,
             \A d \in Clients : d # c => request[d].stage \notin {"locked", "clear"},
             s = "clear" => \A r \in open : ~Overlap(r.kind, request[c].kind)
      PROVE  IInv'
  <2> DEFINE q == [request[c] EXCEPT !.stage = s]
  <2>1. q \in Requests /\ q.stage = s /\ q.kind = request[c].kind
    BY <1>1 DEF Requests
  <2>2. request[c].kind \in Kinds[target]
    BY <1>3 DEF AdmissionOK
  <2>3. request' = [request EXCEPT ![c] = q]
    BY <1>1, <1>3
  <2> HIDE DEF q
  <2> QED
    BY <1>3, <2>1, <2>2, <2>3, RequestStep
<1>4. ASSUME request' = [request EXCEPT ![c] = Idle],
             UNCHANGED <<syncVars, target, stamp, restorable, depVars>>
      PROVE  IInv'
  BY <1>1, <1>4, RequestStep
<1>5. CASE Lock(c)
  BY <1>3, <1>4, <1>5 DEF Lock, LockFree
<1>6. CASE Check(c)
  BY <1>3, <1>4, <1>6 DEF Check, AdmissionOK
<1> QED
  BY <1>2, <1>5, <1>6

\* The operation inserted overlaps none that is open; a run is inserted with the
\* revision it would be compensated to.
LEMMA InsertStep ==
  ASSUME IInv, NEW c \in Clients, Insert(c)
  PROVE  IInv'
<1> USE DEF IInv
<1>1. /\ request \in [Clients -> Requests] /\ Idle \in Requests /\ Idle.stage = "none"
      /\ dep \in Deployments /\ prior \in Runs /\ target \in {"stack", "runtime", "deployment"}
      /\ stamp \in 0..MaxOperations /\ open \subseteq OpRows
  BY KindsOf DEF TypeOK, Requests, Idle, RowsOK
<1>2. /\ request' = [request EXCEPT ![c] = Idle] /\ request[c].stage = "clear" /\ stamp < MaxOperations
      /\ UNCHANGED <<at, held, order, ok, interrupted, faults, target, restorable, host, made, verdict>>
  BY DEF Insert, loopVars
<1>3. request'[c] = Idle /\ \A d \in Clients : d # c => request'[d] = request[d]
  BY <1>1, <1>2
<1>4. request' \in [Clients -> Requests]
  BY <1>1, <1>2
<1>5. CASE UNCHANGED <<open, stamp, prior, dep>>
  <2>1. UNCHANGED <<syncVars, target, stamp, restorable, depVars>>
    BY <1>2, <1>5 DEF syncVars, loopVars, depVars
  <2> QED
    BY <1>1, <1>2, <2>1, RequestStep
<1>6. CASE ~UNCHANGED <<open, stamp, prior, dep>>
  <2>1. PICK a \in Agents :
          /\ open' = open \cup {NewRow(a, request[c].kind, request[c].rev, stamp + 1)}
          /\ stamp' = stamp + 1
          /\ prior' = [prior EXCEPT ![stamp + 1] = dep.current]
          /\ dep' = IF target = "deployment"
                    THEN [dep EXCEPT !.status = IF request[c].kind = "stop" THEN "stopping" ELSE "deploying"]
                    ELSE dep
    BY <1>6 DEF Insert
  <2> DEFINE new == NewRow(a, request[c].kind, request[c].rev, stamp + 1)
  <2>2. stamp + 1 \in 1..MaxOperations /\ stamp' \in 0..MaxOperations /\ stamp' = stamp + 1
    BY <1>1, <1>2, <2>1
  <2>3. request[c].kind \in Kinds[target] /\ request[c].rev \in Revisions
    BY <1>1, <1>2 DEF AdmissionOK, Requests
  <2>4. OpRows \subseteq OpRows'
    BY <1>1, <1>2, <2>2 DEF OpRows
  <2>5. new \in OpRows' /\ new.kind = request[c].kind /\ new.stamp = stamp + 1
    BY <1>2, <2>2, <2>3 DEF NewRow, OpRows, States
  <2> HIDE DEF new
  <2>6. open' = open \cup {new}
    BY <2>1 DEF new
  <2>7. RowsOK'
    BY <1>2, <2>4, <2>5, <2>6 DEF RowsOK
  <2>8. dep' \in Deployments /\ dep'.current = dep.current
        /\ (target = "deployment" => dep'.status \in {"stopping", "deploying"})
        /\ (target # "deployment" => dep' = dep)
    <3>1. CASE target = "deployment"
      <4>1. PICK s \in {"stopping", "deploying"} : dep' = [dep EXCEPT !.status = s]
        BY <2>1, <3>1
      <4> QED
        BY <1>1, <3>1, <4>1 DEF Deployments
    <3>2. CASE target # "deployment"
      BY <1>1, <2>1, <3>2
    <3> QED
      BY <3>1, <3>2
  <2>9. /\ prior' \in Runs /\ prior'[stamp + 1] = dep.current
        /\ \A n \in 1..stamp : prior'[n] = prior[n]
    <3>1. dep.current \in Revisions
      BY <1>1 DEF Deployments
    <3> QED
      BY <1>1, <2>1, <2>2, <3>1 DEF Runs
  <2>10. TypeOK'
    <3>1. open' \in SUBSET Rows(Kinds[target]) /\ target' = target
      <4>1. OpRows' \subseteq Rows(Kinds[target])
        <5>1. 1..stamp' \subseteq Nat /\ Revisions \subseteq Nat
          BY <2>2
        <5> QED
          BY <1>2, <5>1 DEF OpRows, Rows, States
      <4> QED
        BY <1>2, <2>7, <4>1 DEF RowsOK
    <3>2. SyncTypeOK(Kinds[target])'
      BY <1>2, <3>1 DEF TypeOK, SyncTypeOK
    <3> QED
      BY <1>2, <1>4, <2>2, <2>8, <2>9, <3>2 DEF TypeOK, Requests
  <2>11. AdmissionOK'
    <3>1. \A d \in Clients : d # c => request'[d] = request[d] /\ request[d].stage # "clear"
      BY <1>2, <1>3 DEF AdmissionOK
    <3>2. target' = target
      BY <1>2
    <3> QED
      BY <1>1, <1>3, <3>1, <3>2 DEF AdmissionOK
  <2>12. NoOverlap'
    <3>1. \A r \in open : ~Overlap(r.kind, new.kind) /\ ~Overlap(new.kind, r.kind)
      BY <1>2, <2>5, OverlapMutual DEF AdmissionOK
    <3>2. target' = target
      BY <1>2
    <3> QED
      BY <2>6, <3>1, <3>2 DEF NoOverlap, Overlap
  <2>13. \A b \in Agents : WorkOK(b)'
    <3>1. ASSUME NEW b \in Agents PROVE WorkOK(b)'
      <4>1. made = "restored" => Prior(b)' = Prior(b)
        <5>1. at[b] \in {"idle", "asked", "holding", "reporting"}
          BY DEF TypeOK, SyncTypeOK
        <5>2. made = "restored" => held[b] \in OpRows
          BY <5>1 DEF WorkOK, RowsOK
        <5> QED
          BY <1>2, <2>9, <5>2 DEF Prior, OpRows
      <4> QED
        BY <1>2, <4>1 DEF WorkOK
    <3> QED
      BY <3>1
  <2>14. DepOK'
    <3>1. target = "deployment" => open = {}
      BY <1>2 DEF AdmissionOK, Overlap
    <3> QED
      BY <1>2, <2>5, <2>6, <2>8, <2>9, <3>1 DEF DepOK
  <2> QED
    BY <2>7, <2>10, <2>11, <2>12, <2>13, <2>14
<1> QED
  BY <1>5, <1>6

\* A revision that is added is not the current one of anything.
LEMMA RevisionStep ==
  ASSUME IInv, AddRevision
  PROVE  IInv'
<1> USE DEF IInv
<1>1. /\ UNCHANGED <<open, at, held, order, ok, interrupted, faults, target, request, stamp, restorable,
                     prior, host, made, verdict>>
      /\ dep' = [dep EXCEPT !.revisions = dep.revisions + 1] /\ dep.revisions < MaxRevision
      /\ dep \in Deployments
  BY DEF AddRevision, Revised, syncVars, loopVars, admissionVars, TypeOK
<1>2. dep' \in Deployments /\ dep'.status = dep.status /\ dep'.current = dep.current
  <2>1. dep.revisions + 1 \in Revisions
    BY <1>1 DEF Deployments
  <2> QED
    BY <1>1, <2>1 DEF Deployments
<1>3. TypeOK'
  BY <1>1, <1>2 DEF TypeOK, SyncTypeOK
<1>4. RowsOK' /\ AdmissionOK' /\ NoOverlap' /\ (\A a \in Agents : WorkOK(a)') /\ DepOK'
  BY <1>1, <1>2 DEF RowsOK, OpRows, AdmissionOK, NoOverlap, Overlap, WorkOK, Prior, DepOK, Quiet
<1> QED
  BY <1>3, <1>4

-----------------------------------------------------------------------------
(* The queue and the agent *)

\* There is one agent, so what is said of it is said of all.
LEMMA OneAgent ==
  ASSUME NEW a \in Agents, NEW b \in Agents
  PROVE  b = a
  OBVIOUS

\* A row that is claimed, or whose lease ends, is the same operation.
LEMMA RestateStep ==
  ASSUME IInv, NEW r \in open, NEW s \in States,
         open' = (open \ {r}) \cup {[r EXCEPT !.state = s]},
         UNCHANGED <<order, ok, interrupted, faults, target, admissionVars, restorable, depVars>>,
         \/ UNCHANGED <<at, held>>
         \/ \E a \in Agents : /\ at[a] = "idle" /\ at' = [at EXCEPT ![a] = "asked"]
                              /\ held' = [held EXCEPT ![a] = [r EXCEPT !.state = s]]
  PROVE  IInv'
<1> USE DEF IInv
<1> DEFINE q == [r EXCEPT !.state = s]
<1>1. q \in OpRows /\ q.kind = r.kind /\ q.stamp = r.stamp
  BY RowTypes DEF RowsOK
<1>2. OpRows' = OpRows /\ Kinds[target]' = Kinds[target]
  BY DEF OpRows, admissionVars
<1>3. open' = (open \ {r}) \cup {q}
  OBVIOUS
<1>4. \/ UNCHANGED <<at, held>>
      \/ \E a \in Agents : /\ at[a] = "idle" /\ at' = [at EXCEPT ![a] = "asked"]
                           /\ held' = [held EXCEPT ![a] = q]
  OBVIOUS
<1> HIDE DEF q
<1>5. /\ at \in [Agents -> {"idle", "asked", "holding", "reporting"}]
      /\ held \in [Agents -> Rows(Kinds[target]) \cup {NoRow}]
      /\ q \in Rows(Kinds[target]) /\ open \subseteq Rows(Kinds[target])
  BY <1>1, RowTypes DEF TypeOK, SyncTypeOK
<1>6. TypeOK'
  <2>1. open' \in SUBSET Rows(Kinds[target]) /\ at' \in [Agents -> {"idle", "asked", "holding", "reporting"}]
        /\ held' \in [Agents -> Rows(Kinds[target]) \cup {NoRow}]
    BY <1>3, <1>4, <1>5
  <2>2. SyncTypeOK(Kinds[target])'
    BY <1>2, <2>1 DEF TypeOK, SyncTypeOK
  <2> QED
    BY <2>2 DEF TypeOK, admissionVars, depVars
<1>7. RowsOK'
  BY <1>1, <1>2, <1>3, <1>4, <1>5 DEF RowsOK
<1>8. AdmissionOK' /\ NoOverlap'
  <2>1. \A x \in open' : \E y \in open : y.kind = x.kind /\ (x # q => y = x) /\ (x = q => y = r)
    BY <1>1, <1>3
  <2>2. request' = request /\ target' = target
    BY DEF admissionVars
  <2>3. AdmissionOK'
    BY <2>1, <2>2 DEF AdmissionOK, Overlap
  <2>4. ASSUME NEW x \in open', NEW y \in open', x # y PROVE ~Overlap(x.kind, y.kind)
    BY <1>1, <1>3, <2>4, OverlapMutual DEF NoOverlap
  <2> QED
    BY <2>2, <2>3, <2>4 DEF NoOverlap, Overlap
<1>9. ASSUME NEW b \in Agents PROVE WorkOK(b)'
  <2>1. CASE UNCHANGED <<at, held>>
    BY <2>1 DEF WorkOK, Prior, depVars
  <2>2. ASSUME NEW a \in Agents, at[a] = "idle", at' = [at EXCEPT ![a] = "asked"]
        PROVE  WorkOK(b)'
    <3>1. a = b /\ at'[b] = "asked" /\ ~ok[b] /\ made = "none"
      BY <1>5, <2>2, OneAgent DEF WorkOK
    <3> QED
      BY <3>1 DEF WorkOK, depVars
  <2> QED
    BY <1>4, <2>1, <2>2
<1>10. DepOK'
  BY <1>1, <1>3 DEF DepOK, Quiet, depVars
<1> QED
  BY <1>6, <1>7, <1>8, <1>9, <1>10

LEMMA QueueStep ==
  ASSUME IInv, (\E a \in Agents, r \in open : Claim(a, r)) \/ (\E r \in open : Expire(r))
  PROVE  IInv'
<1>1. ASSUME NEW a \in Agents, NEW r \in open, Claim(a, r) PROVE IInv'
  BY <1>1, RestateStep DEF Claim, ClaimRow, Unrelated, States
<1>2. ASSUME NEW r \in open, Expire(r) PROVE IInv'
  BY <1>2, RestateStep DEF Expire, LeaseExpires, loopVars, Unrelated, States
<1> QED
  BY <1>1, <1>2

\* What the agent does with the row it deals with changes the host, and ends no
\* operation.
LEMMA ActStep ==
  ASSUME IInv, NEW a \in Agents, at[a] # "idle",
         UNCHANGED <<open, target, admissionVars, restorable, dep, prior, verdict>>,
         at' \in [Agents -> {"idle", "asked", "holding", "reporting"}],
         at'[a] # "idle" => held'[a] = held[a],
         held' \in [Agents -> Rows(Kinds[target]) \cup {NoRow}],
         order' \in [Agents -> Orders], ok' \in [Agents -> BOOLEAN], interrupted' \in SUBSET Nat,
         faults' \in 0..MaxFaults, host' \in [file : Revisions, running : Revisions],
         made' \in {"none", "restored"}, WorkOK(a)'
  PROVE  IInv'
<1> USE DEF IInv
<1>1. TypeOK'
  <2>1. SyncTypeOK(Kinds[target])'
    BY DEF TypeOK, SyncTypeOK
  <2> QED
    BY <2>1 DEF TypeOK, admissionVars
<1>2. RowsOK'
  BY OneAgent DEF RowsOK, OpRows, admissionVars
<1>3. AdmissionOK' /\ NoOverlap'
  BY DEF AdmissionOK, NoOverlap, Overlap, admissionVars
<1>4. \A b \in Agents : WorkOK(b)'
  BY OneAgent
<1>5. DepOK'
  BY DEF DepOK, Quiet
<1> QED
  BY <1>1, <1>2, <1>3, <1>4, <1>5

LEMMA AgentStep ==
  ASSUME IInv, NEW a \in Agents,
         Answer(a) \/ Lost(a) \/ Interrupted(a) \/ Perform(a) \/ Compensate(a) \/ Fail(a) \/ Crash(a)
  PROVE  IInv'
<1> USE DEF IInv
<1>1. /\ at[a] \in {"asked", "holding"} /\ held[a] \in OpRows /\ ~ok[a] /\ made = "none"
      /\ UNCHANGED <<open, target, admissionVars, restorable, dep, prior, verdict>>
  BY DEF Answer, AnswerWith, Lost, AnswerLost, Interrupted, ReportInterrupted, Perform, Compensate, Fail,
         ExecuteHeld, Crash, CrashExecuting, Unrelated, depVars, RowsOK, WorkOK
<1>2. /\ at \in [Agents -> {"idle", "asked", "holding", "reporting"}]
      /\ held \in [Agents -> Rows(Kinds[target]) \cup {NoRow}]
      /\ order \in [Agents -> Orders] /\ ok \in [Agents -> BOOLEAN] /\ interrupted \in SUBSET Nat
      /\ faults \in 0..MaxFaults /\ host \in [file : Revisions, running : Revisions]
      /\ prior \in Runs /\ stamp \in 0..MaxOperations
  BY DEF TypeOK, SyncTypeOK
<1>3. /\ held[a].rev \in Revisions /\ held[a].stamp \in Nat /\ Prior(a) \in Revisions /\ 0 \in Revisions
  BY <1>1, <1>2 DEF OpRows, Runs, Prior
<1>4. /\ Applied(a) \in [file : Revisions, running : Revisions]
      /\ Compensated(a) \in [file : Revisions, running : Revisions]
      /\ Disturbed(a) \subseteq [file : Revisions, running : Revisions]
  BY <1>2, <1>3 DEF Applied, Compensated, Disturbed
<1>5. CASE Answer(a)
  <2>1. order' \in [Agents -> Orders] /\ UNCHANGED <<held, ok, interrupted, faults, host, made>>
        /\ at' = [at EXCEPT ![a] = "holding"]
    <3>1. held[a].rev \in Nat
      BY <1>3
    <3> QED
      BY <1>2, <1>5, <3>1 DEF Answer, AnswerWith, Unrelated, depVars, Orders
  <2>2. WorkOK(a)'
    BY <1>1, <1>2, <2>1 DEF WorkOK
  <2> QED
    BY <1>1, <1>2, <2>1, <2>2, ActStep
<1>6. CASE Lost(a) \/ Crash(a)
  <2>1. /\ at' = [at EXCEPT ![a] = "idle"] /\ held' = [held EXCEPT ![a] = NoRow]
        /\ order' = [order EXCEPT ![a] = NoOrder] /\ ok' = [ok EXCEPT ![a] = FALSE]
        /\ made' = "none" /\ faults' \in 0..MaxFaults
    BY <1>1, <1>2, <1>6 DEF Lost, AnswerLost, Crash, CrashExecuting, Release, Fault, Unrelated, depVars
  <2>2. interrupted' \in SUBSET Nat
    BY <1>2, <1>3, <1>6 DEF Lost, AnswerLost, Crash, CrashExecuting
  <2>3. host' \in [file : Revisions, running : Revisions]
    BY <1>2, <1>4, <1>6 DEF Lost, Crash, Unrelated, depVars
  <2>4. NoOrder \in Orders
    BY DEF NoOrder, Orders
  <2>5. order' \in [Agents -> Orders]
    BY <1>2, <2>1, <2>4
  <2>6. WorkOK(a)'
    BY <1>2, <2>1 DEF WorkOK
  <2> QED
    BY <1>1, <1>2, <2>1, <2>2, <2>3, <2>5, <2>6, ActStep
<1>7. CASE Interrupted(a)
  <2>1. UNCHANGED <<held, order, ok, interrupted, faults, host, made>> /\ at' = [at EXCEPT ![a] = "reporting"]
    BY <1>7 DEF Interrupted, ReportInterrupted, Unrelated, depVars
  <2>2. WorkOK(a)'
    BY <1>1, <1>2, <2>1 DEF WorkOK
  <2> QED
    BY <1>1, <1>2, <2>1, <2>2, ActStep
<1>8. ASSUME NEW success \in BOOLEAN, ExecuteHeld(a, success), host' \in [file : Revisions, running : Revisions],
             made' \in {"none", "restored"}, WorkOK(a)'
      PROVE  IInv'
  BY <1>1, <1>2, <1>8, ActStep DEF ExecuteHeld
<1>9. ASSUME NEW success \in BOOLEAN, ExecuteHeld(a, success)
      PROVE  at'[a] = "reporting" /\ ok'[a] = success /\ held' = held
  BY <1>2, <1>9 DEF ExecuteHeld
<1>10. CASE Perform(a)
  <2>1. /\ ExecuteHeld(a, TRUE) /\ made' = "none"
        /\ host' = IF target = "deployment" THEN Applied(a) ELSE host
    BY <1>10 DEF Perform
  <2>2. WorkOK(a)'
    BY <1>1, <1>9, <2>1 DEF WorkOK, Applied
  <2> QED
    BY <1>2, <1>4, <1>8, <2>1, <2>2
<1>11. CASE Compensate(a)
  <2>1. /\ ExecuteHeld(a, FALSE) /\ made' = "restored" /\ host' = Compensated(a) /\ target = "deployment"
    BY <1>11 DEF Compensate
  <2>2. Prior(a)' = Prior(a) /\ host'.running = Prior(a)
    BY <1>1, <1>2, <1>9, <2>1 DEF Prior, Compensated
  <2>3. WorkOK(a)'
    BY <1>1, <1>9, <2>1, <2>2 DEF WorkOK
  <2> QED
    BY <1>4, <1>8, <2>1, <2>3
<1>12. CASE Fail(a)
  <2>1. /\ ExecuteHeld(a, FALSE) /\ made' = "none"
        /\ IF target = "deployment" THEN host' \in Disturbed(a) ELSE host' = host
    BY <1>12 DEF Fail
  <2>2. WorkOK(a)'
    BY <1>1, <1>9, <2>1 DEF WorkOK
  <2> QED
    BY <1>2, <1>4, <1>8, <2>1, <2>2
<1> QED
  BY <1>5, <1>6, <1>7, <1>10, <1>11, <1>12

-----------------------------------------------------------------------------
(* Ends of an operation *)

\* The agent is done with its row.
Released(a) ==
  /\ at' = [at EXCEPT ![a] = "idle"] /\ held' = [held EXCEPT ![a] = NoRow]
  /\ order' = [order EXCEPT ![a] = NoOrder] /\ ok' = [ok EXCEPT ![a] = FALSE]
  /\ made' = "none" /\ UNCHANGED <<interrupted, faults>>

LEMMA ReleasedTypes ==
  ASSUME IInv, NEW a \in Agents, Released(a), UNCHANGED <<host, target, prior>>
  PROVE  /\ at' \in [Agents -> {"idle", "asked", "holding", "reporting"}] /\ at'[a] = "idle"
         /\ held' \in [Agents -> Rows(Kinds[target]) \cup {NoRow}]
         /\ order' \in [Agents -> Orders] /\ ok' \in [Agents -> BOOLEAN]
         /\ WorkOK(a)'
<1>1. /\ at \in [Agents -> {"idle", "asked", "holding", "reporting"}]
      /\ held \in [Agents -> Rows(Kinds[target]) \cup {NoRow}]
      /\ order \in [Agents -> Orders] /\ ok \in [Agents -> BOOLEAN]
  BY DEF IInv, TypeOK, SyncTypeOK
<1>2. NoOrder \in Orders
  BY DEF NoOrder, Orders
<1>3. at'[a] = "idle" /\ ok'[a] = FALSE /\ made' = "none"
  BY <1>1 DEF Released
<1> QED
  BY <1>1, <1>2, <1>3 DEF Released, WorkOK

\* An open operation ends.  Its success, and its word that it was compensated,
\* come from an agent that is done then.
LEMMA EndStep ==
  ASSUME IInv, NEW r \in open, NEW success \in BOOLEAN, open' = open \ {r}, EndRun(r, success),
         UNCHANGED <<target, admissionVars, prior, host>>, restorable' \in BOOLEAN,
         verdict' \in {"none", "succeeded", "restored", "failed"},
         \/ UNCHANGED <<loopVars, interrupted, faults, made>> /\ ~success /\ verdict' # "restored"
         \/ \E a \in Agents : Released(a),
         target = "deployment" /\ success /\ r.kind # "stop" => host = [file |-> r.rev, running |-> r.rev],
         verdict' = "restored" => target = "deployment" /\ ~success /\ host.running = prior[r.stamp]
  PROVE  IInv'
<1> USE DEF IInv
<1>1. /\ target' = target /\ request' = request /\ stamp' = stamp /\ prior' = prior /\ host' = host
      /\ OpRows' = OpRows /\ r \in OpRows /\ dep \in Deployments
  BY DEF admissionVars, RowsOK, OpRows, TypeOK
<1>2. /\ at' \in [Agents -> {"idle", "asked", "holding", "reporting"}]
      /\ held' \in [Agents -> Rows(Kinds[target]) \cup {NoRow}]
      /\ order' \in [Agents -> Orders] /\ ok' \in [Agents -> BOOLEAN] /\ made' \in {"none", "restored"}
      /\ interrupted' \in SUBSET Nat /\ faults' \in 0..MaxFaults
      /\ \A b \in Agents : WorkOK(b)' /\ (at'[b] # "idle" => held'[b] \in OpRows)
  <2>1. CASE UNCHANGED <<loopVars, interrupted, faults, made>>
    BY <1>1, <2>1 DEF TypeOK, SyncTypeOK, loopVars, WorkOK, Prior, RowsOK
  <2>2. CASE \E a \in Agents : Released(a)
    <3>1. PICK a \in Agents : Released(a)
      BY <2>2
    <3>2. made' = "none" /\ interrupted' = interrupted /\ faults' = faults
      BY <3>1 DEF Released
    <3>3. interrupted \in SUBSET Nat /\ faults \in 0..MaxFaults
      BY DEF TypeOK, SyncTypeOK
    <3>4. \A b \in Agents : WorkOK(b)' /\ at'[b] = "idle"
      BY <1>1, <3>1, ReleasedTypes, OneAgent
    <3> QED
      BY <1>1, <3>1, <3>2, <3>3, <3>4, ReleasedTypes
  <2> QED
    BY <2>1, <2>2
<1>3. /\ dep' \in Deployments
      /\ target # "deployment" => dep' = dep
      /\ target = "deployment" =>
           /\ dep'.status = IF ~success THEN "failed" ELSE IF r.kind = "stop" THEN "stopped" ELSE "active"
           /\ dep'.current = NewCurrent(r, success)
  <2>1. CASE target = "deployment"
    <3>1. NewCurrent(r, success) \in Revisions
      BY <1>1 DEF NewCurrent, OpRows, Deployments
    <3>2. PICK s \in {"failed", "stopped", "active"} :
            /\ s = IF ~success THEN "failed" ELSE IF r.kind = "stop" THEN "stopped" ELSE "active"
            /\ dep' = [dep EXCEPT !.status = s, !.current = NewCurrent(r, success)]
      BY <2>1 DEF EndRun
    <3> QED
      BY <1>1, <2>1, <3>1, <3>2 DEF Deployments
  <2>2. CASE target # "deployment"
    BY <1>1, <2>2 DEF EndRun
  <2> QED
    BY <2>1, <2>2
<1>4. TypeOK'
  <2>1. open' \in SUBSET Rows(Kinds[target])
    BY DEF TypeOK, SyncTypeOK
  <2>2. SyncTypeOK(Kinds[target])'
    BY <1>1, <1>2, <2>1 DEF SyncTypeOK
  <2> QED
    BY <1>1, <1>2, <1>3, <2>2 DEF TypeOK
<1>5. RowsOK' /\ AdmissionOK' /\ NoOverlap'
  BY <1>1, <1>2 DEF RowsOK, AdmissionOK, NoOverlap, Overlap
<1>6. DepOK'
  <2>1. success \/ verdict' = "restored" => \A b \in Agents : at'[b] = "idle"
    BY ReleasedTypes, OneAgent
  <2>2. CASE target = "deployment"
    <3>1. open' = {}
      BY <2>2, OneRun
    <3>2. dep'.status = "active" =>
            success /\ host = [file |-> dep'.current, running |-> dep'.current]
      BY <1>3, <2>2 DEF NewCurrent
    <3>3. verdict' = "restored" => host.running = dep'.current
      BY <1>3, <2>2 DEF NewCurrent, DepOK
    <3>4. dep'.status \notin {"deploying", "stopping"}
      BY <1>3, <2>2
    <3> QED
      BY <1>1, <2>1, <2>2, <3>1, <3>2, <3>3, <3>4 DEF DepOK, Quiet
  <2>3. CASE target # "deployment"
    BY <1>1, <1>3, <2>3 DEF DepOK
  <2> QED
    BY <2>2, <2>3
<1> QED
  BY <1>2, <1>4, <1>5, <1>6

LEMMA ReportStep ==
  ASSUME IInv, NEW a \in Agents, Report(a) \/ RefuseRun(a)
  PROVE  IInv'
<1> USE DEF IInv
<1>1. /\ at[a] \in {"asked", "reporting"} /\ held[a] \in OpRows /\ open' = open \ {held[a]}
      /\ UNCHANGED <<target, admissionVars, prior, host>>
  BY DEF Report, ReportHeld, RefuseRun, Refuse, CompleteHeld, RowsOK
<1>2. Released(a)
  BY DEF Report, ReportHeld, RefuseRun, Refuse, CompleteHeld, Release, Released, WorkOK
<1>3. verdict' \in {"none", "succeeded", "restored", "failed"} /\ restorable' \in BOOLEAN
  BY DEF Report, RefuseRun, TypeOK
<1>4. CASE held[a] \notin open
  <2>1. UNCHANGED <<open, restorable, dep, verdict>>
    BY <1>1, <1>4 DEF Report, RefuseRun, Completes, TypeOK
  <2>2. UNCHANGED <<interrupted, faults>> /\ made' = "none"
    BY <1>2 DEF Released
  <2> QED
    BY <1>1, <1>2, <2>1, <2>2, ReleasedTypes, ActStep DEF TypeOK, SyncTypeOK
<1>5. CASE held[a] \in open
  <2>1. CASE Report(a)
    <3>1. ok[a] \in BOOLEAN /\ at[a] = "reporting"
      BY <2>1 DEF Report, ReportHeld, TypeOK, SyncTypeOK
    <3>2. EndRun(held[a], ok[a]) /\ (verdict' = "restored" => ~ok[a] /\ made = "restored")
      BY <1>5, <2>1 DEF Report, Completes
    <3>3. verdict' = "restored" => target = "deployment" /\ ~ok[a] /\ host.running = prior[held[a].stamp]
      BY <3>2 DEF WorkOK, Prior
    <3>4. target = "deployment" /\ ok[a] /\ held[a].kind # "stop" =>
            host = [file |-> held[a].rev, running |-> held[a].rev]
      BY <3>1 DEF WorkOK
    <3> QED
      BY <1>1, <1>2, <1>3, <1>5, <3>1, <3>2, <3>3, <3>4, EndStep
  <2>2. CASE RefuseRun(a)
    <3>1. EndRun(held[a], FALSE) /\ verdict' = "failed"
      BY <1>5, <2>2 DEF RefuseRun, Completes
    <3> QED
      BY <1>1, <1>2, <1>3, <1>5, <3>1, EndStep
  <2> QED
    BY <2>1, <2>2
<1> QED
  BY <1>4, <1>5

LEMMA StaleStep ==
  ASSUME IInv, NEW r \in open, FailStale(r)
  PROVE  IInv'
<1>1. /\ open' = open \ {r} /\ EndRun(r, FALSE) /\ verdict' = "failed"
      /\ UNCHANGED <<loopVars, interrupted, faults, target, admissionVars, restorable, prior, host, made>>
  BY DEF FailStale, FailStaleRow, StaleRun
<1>2. restorable' \in BOOLEAN
  BY <1>1 DEF IInv, TypeOK
<1> QED
  BY <1>1, <1>2, EndStep

LEMMA StepInvariant == IInv /\ [Next]_vars => IInv'
<1> SUFFICES ASSUME IInv, [Next]_vars PROVE IInv'
  OBVIOUS
<1>1. CASE UNCHANGED vars
  BY <1>1 DEF vars, syncVars, loopVars, admissionVars, depVars, IInv, TypeOK, SyncTypeOK, RowsOK, OpRows,
              AdmissionOK, NoOverlap, Overlap, WorkOK, Prior, DepOK, Quiet
<1>2. ASSUME NEW c \in Clients, NEW k, NEW rev, Ask(c, k, rev) PROVE IInv'
  BY <1>2, AskStep
<1>3. ASSUME NEW c \in Clients, Lock(c) \/ Check(c) \/ Insert(c) PROVE IInv'
  BY <1>3, AskStep, InsertStep
<1>4. CASE AddRevision
  BY <1>4, RevisionStep
<1>5. ASSUME NEW r \in open, Expire(r) \/ FailStale(r) \/ \E a \in Agents : Claim(a, r) PROVE IInv'
  BY <1>5, QueueStep, StaleStep
<1>6. ASSUME NEW a \in Agents,
             \/ Answer(a) \/ Lost(a) \/ Interrupted(a) \/ Perform(a) \/ Compensate(a) \/ Fail(a) \/ Crash(a)
             \/ Report(a) \/ RefuseRun(a)
      PROVE  IInv'
  BY <1>6, AgentStep, ReportStep
<1> QED
  BY <1>1, <1>2, <1>3, <1>4, <1>5, <1>6 DEF Next

-----------------------------------------------------------------------------
(* What holds of every behaviour *)

\* The invariant holds in every state of every behaviour.
THEOREM Invariance == Spec => []IInv
  BY InitInvariant, StepInvariant, PTL DEF Spec

\* Every variable keeps its type: the deployment row, the requests being
\* handled and what runs on the host.
THEOREM OperationTypes == Spec => []TypeOK
<1>1. IInv => TypeOK
  BY DEF IInv
<1> QED
  BY <1>1, Invariance, PTL

\* createBackup, createRestore, createRuntimeOperation and createDeploymentRun
\* never leave two overlapping operations active, however many requests are
\* handled at a time: the lock they take is held from before the look for an
\* active operation to the insert.
THEOREM OverlapExcluded == Spec => []NoOverlap
<1>1. IInv => NoOverlap
  BY DEF IInv
<1> QED
  BY <1>1, Invariance, PTL

\* A deployment shown as active runs its current revision: completeCommand makes
\* it active only with the result of a run that is still open, from an agent
\* that has left that revision on the host and takes up nothing else.
THEOREM ActiveIsCurrent == Spec => []ActiveRunsCurrent
<1>1. IInv => ActiveRunsCurrent
  BY DEF IInv, DepOK, ActiveRunsCurrent
<1> QED
  BY <1>1, Invariance, PTL

\* A compensation that is reported as done has left the current revision
\* running: the prior revision createDeploymentRun recorded is the current one
\* as long as the run is open.
THEOREM CompensationIsCurrent == Spec => []CompensationRestoresCurrent
<1>1. IInv => CompensationRestoresCurrent
  BY DEF IInv, DepOK, CompensationRestoresCurrent
<1> QED
  BY <1>1, Invariance, PTL

\* A deployment that is being changed has an open run: completeCommand, a
\* refusal and failStaleCommands end both in one transaction.
THEOREM ChangeHasRun == Spec => []ChangingHasRun
<1>1. IInv => ChangingHasRun
  BY DEF IInv, DepOK, ChangingHasRun
<1> QED
  BY <1>1, Invariance, PTL
=============================================================================
