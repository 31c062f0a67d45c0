------------------------ MODULE GuidedOperationsProofs ----------------------
(***************************************************************************)
(* Machine-checked proofs about GuidedOperations, for any requests and any *)
(* number of faults.                                                       *)
(***************************************************************************)
EXTENDS GuidedOperations, TLAPS

USE GuidedAssumption DEF GuidedAssumption, Things

-----------------------------------------------------------------------------
(* The inductive invariant *)

Tasks == [at : {"idle", "make", "create", "record", "continue", "reconcile", "finish", "catch"},
          n : 1..3, seen : SUBSET Things, past : BOOLEAN]

\* What an operation has recorded before its last step ends.
AllRecorded ==
  /\ op.kind = "bootstrap" => {"account", "tunnel", "connector"} \subseteq op.recorded
  /\ op.kind = "publish" => {"route", "access"} \subseteq op.recorded

\* The requests of a bootstrap exclude each other.
LockOK ==
  op.kind = "bootstrap" =>
    \A p, q \in Requests : task[p].at # "idle" /\ task[q].at # "idle" => p = q

\* The steps before a request's are recorded, and what it has read still is.
ProgressOK(q) ==
  /\ task[q].seen \subseteq op.recorded
  /\ task[q].at = "idle" => task[q].n = 1
  /\ op.kind = "bootstrap" /\ task[q].n > 1 => "account" \in op.recorded
  /\ op.kind = "bootstrap" /\ task[q].n > 2 => "tunnel" \in op.recorded
  /\ op.kind = "publish" => task[q].n < 3
  /\ op.kind = "publish" /\ task[q].n > 1 => "route" \in op.recorded
  /\ task[q].at = "finish" => op.kind = "bootstrap" /\ AllRecorded
  /\ task[q].at = "continue" => op.kind = "publish" /\ "route" \in op.recorded
  /\ task[q].at = "reconcile" => op.kind = "publish" /\ AllRecorded

\* A tunnel is made where none was found, and what is recorded is there; a
\* request that may write to a succeeded row was under way when it succeeded.
TaskOK(q) ==
  /\ ProgressOK(q)
  /\ task[q].at = "create" /\ Thing(q) = "tunnel" => made["tunnel"] = 0
  /\ task[q].at = "record" /\ Thing(q) # "account" => made[Thing(q)] > 0
  /\ op.status = "succeeded" /\ task[q].at \notin {"idle", "continue"} => task[q].past

\* The row refers to what is there, an account included, which is kept from
\* being deleted by the reference; a bootstrap makes no route.
RecordedOK ==
  /\ \A t \in op.recorded : made[t] > 0
  /\ "route" \in op.recorded => op.kind = "publish"

\* Only what has everything recorded waits for its verification or succeeds.
EndOK ==
  /\ op.status = "succeeded" => AllRecorded
  /\ op.stage = "pending_https_verification" => op.kind = "publish" /\ AllRecorded

\* Resumable, while requests are at work.
FoundOK ==
  \A t \in Things : made[t] > 0 =>
    \/ t \in op.recorded \cup {"tunnel", "route"} \cup cut
    \/ \E q \in Requests : task[q].at = "record" /\ Thing(q) = t

IInv ==
  /\ TypeOK /\ LockOK
  /\ \A q \in Requests : TaskOK(q)
  /\ RecordedOK /\ EndOK /\ FoundOK /\ MadeOnce

LEMMA InitInvariant == Init => IInv
<1> SUFFICES ASSUME Init PROVE IInv
  OBVIOUS
<1>1. TypeOK
  <2>1. op \in Rows
    BY DEF Init, Rows
  <2> QED
    BY <2>1 DEF Init, Idle, TypeOK
<1>2. LockOK /\ \A q \in Requests : TaskOK(q)
  BY DEF Init, Idle, LockOK, TaskOK, ProgressOK
<1>3. RecordedOK /\ EndOK /\ FoundOK /\ MadeOnce
  BY DEF Init, RecordedOK, EndOK, FoundOK, MadeOnce
<1> QED
  BY <1>1, <1>2, <1>3 DEF IInv

-----------------------------------------------------------------------------
(* Facts about the steps of an operation *)

\* The thing of each step.
LEMMA ThingOf ==
  ASSUME TypeOK, NEW q \in Requests, ProgressOK(q)
  PROVE  /\ op.kind = "bootstrap" => Thing(q) = CASE task[q].n = 1 -> "account"
                                                  [] task[q].n = 2 -> "tunnel"
                                                  [] task[q].n = 3 -> "connector"
         /\ op.kind = "publish" => Thing(q) = IF task[q].n = 1 THEN "route" ELSE "access"
         /\ Thing(q) \in Things
<1>1. task[q].n \in 1..3 /\ op.kind \in {"bootstrap", "publish"}
  BY DEF TypeOK, Rows
<1>2. CASE op.kind = "bootstrap"
  <2>1. Thing(q) = <<"account", "tunnel", "connector">>[task[q].n]
    BY <1>2 DEF Thing, Steps, StepsOf
  <2>2. CASE task[q].n = 1
    BY <1>2, <2>1, <2>2
  <2>3. CASE task[q].n = 2
    BY <1>2, <2>1, <2>3
  <2>4. CASE task[q].n = 3
    BY <1>2, <2>1, <2>4
  <2> QED
    BY <1>1, <2>2, <2>3, <2>4
<1>3. CASE op.kind = "publish"
  <2>1. Thing(q) = <<"route", "access">>[task[q].n] /\ task[q].n \in {1, 2}
    BY <1>1, <1>3 DEF Thing, Steps, StepsOf, ProgressOK
  <2>2. CASE task[q].n = 1
    BY <1>3, <2>1, <2>2
  <2>3. CASE task[q].n = 2
    BY <1>3, <2>1, <2>3
  <2> QED
    BY <2>1, <2>2, <2>3
<1> QED
  BY <1>1, <1>2, <1>3

\* A request is at the same thing while its step and the kind stay.
LEMMA ThingKept ==
  ASSUME NEW q, op'.kind = op.kind, task'[q].n = task[q].n
  PROVE  Thing(q)' = Thing(q)
  BY DEF Thing, Steps

\* The kind never changes and records are never taken back, so what was all
\* recorded stays so.
LEMMA AllRecordedKept ==
  ASSUME AllRecorded, op'.kind = op.kind, op.recorded \subseteq op'.recorded
  PROVE  AllRecorded'
  BY DEF AllRecorded

-----------------------------------------------------------------------------
(* The steps of one request *)

\* What a request's step may do: it moves that request, records what is there,
\* makes at most the one thing it is at, and neither takes the row to
\* "succeeded" nor has it wait before everything is recorded.
RequestFrame(q) ==
  /\ op' \in Rows /\ op'.kind = op.kind /\ op.recorded \subseteq op'.recorded
  /\ \A t \in op'.recorded : t \in op.recorded \/ (t = Thing(q) /\ made'[t] > 0)
  /\ op'.status = "succeeded" => op.status = "succeeded"
  /\ op'.stage = "pending_https_verification" =>
       op.stage = op'.stage \/ (op.kind = "publish" /\ AllRecorded)
  /\ task'[q] \in Tasks /\ task' = [task EXCEPT ![q] = task'[q]]
  /\ task[q].at = "idle" /\ op.kind = "bootstrap" => \A p \in Requests : task[p].at = "idle"
  /\ UNCHANGED <<taken, route>> /\ faults' \in 0..MaxFaults

\* Nothing made is left without a trace by it: it is recorded, about to be, or in
\* "cut".
MadeFrame(q) ==
  /\ \/ made' = made
     \/ /\ task[q].at = "create" /\ made[Thing(q)] = 0
        /\ made' = [made EXCEPT ![Thing(q)] = @ + 1]
  /\ cut' \in {cut, cut \cup {Thing(q)}, cut \ {Thing(q)}}
  /\ \/ made' = made /\ cut' = cut /\ task[q].at # "record"
     \/ Thing(q) \in op'.recorded \cup cut'
     \/ made'[Thing(q)] = 0
     \/ task'[q].at = "record" /\ task'[q].n = task[q].n

LEMMA RequestStep ==
  ASSUME IInv, NEW q \in Requests, RequestFrame(q), MadeFrame(q), TaskOK(q)'
  PROVE  IInv'
<1> USE DEF IInv
<1>1. /\ Thing(q) \in Things /\ made \in [Things -> Nat] /\ cut \subseteq Things /\ op \in Rows
      /\ task \in [Requests -> Tasks]
  BY ThingOf DEF TaskOK, TypeOK, Tasks
<1>2. \A t \in Things : made'[t] \in Nat /\ made'[t] >= made[t] /\ made'[t] <= 1
  BY <1>1 DEF MadeFrame, MadeOnce
<1>3. \A p \in Requests : p # q => task'[p] = task[p] /\ Thing(p)' = Thing(p)
  <2> SUFFICES ASSUME NEW p \in Requests, p # q PROVE task'[p] = task[p] /\ Thing(p)' = Thing(p)
    OBVIOUS
  <2>1. task'[p] = task[p]
    BY <1>1 DEF RequestFrame
  <2> QED
    BY <2>1, ThingKept DEF RequestFrame
<1>4. TypeOK'
  <2>1. made' \in [Things -> Nat]
    BY <1>1 DEF MadeFrame
  <2>3. cut' \subseteq Things
    BY <1>1 DEF MadeFrame
  <2>2. task' \in [Requests -> Tasks]
    BY <1>1 DEF RequestFrame
  <2> QED
    BY <2>1, <2>2, <2>3 DEF RequestFrame, TypeOK, Tasks
<1>5. LockOK'
  BY <1>3 DEF RequestFrame, LockOK
<1>6. ASSUME NEW p \in Requests, p # q PROVE TaskOK(p)'
  <2>1. TaskOK(p) /\ task'[p] = task[p] /\ Thing(p)' = Thing(p) /\ Thing(p) \in Things
    BY <1>3, <1>6, ThingOf DEF TaskOK
  <2>2. ProgressOK(p)'
    BY <2>1, AllRecordedKept DEF RequestFrame, TaskOK, ProgressOK
  <2>3. task[p].at = "create" /\ Thing(p) = "tunnel" => made'["tunnel"] = 0
    <3>1. CASE op.kind = "publish"
      BY <2>1, <3>1, ThingOf DEF TaskOK
    <3>2. CASE op.kind = "bootstrap"
      BY <1>1, <1>6, <2>1, <3>2 DEF MadeFrame, LockOK, TaskOK
    <3> QED
      BY <1>1, <3>1, <3>2 DEF Rows
  <2>4. task[p].at = "record" /\ Thing(p) # "account" => made'[Thing(p)] > 0
    BY <1>1, <1>2, <2>1 DEF TaskOK
  <2> QED
    BY <2>1, <2>2, <2>3, <2>4 DEF RequestFrame, TaskOK
<1>7. RecordedOK'
  <2>1. op'.recorded \subseteq Things /\ op.recorded \subseteq Things
    BY DEF RequestFrame, Rows, TypeOK
  <2>2. Thing(q) = "route" => op.kind = "publish"
    <3>1. op.kind = "bootstrap" => task[q].n \in {1, 2, 3} /\ Thing(q) # "route"
      BY <1>1, ThingOf DEF TaskOK, Tasks
    <3> QED
      BY <1>1, <3>1 DEF Rows
  <2> QED
    BY <1>1, <1>2, <2>1, <2>2 DEF RequestFrame, RecordedOK
<1>8. EndOK'
  BY AllRecordedKept DEF RequestFrame, EndOK
<1>9. FoundOK'
  <2> SUFFICES ASSUME NEW t \in Things, made'[t] > 0, t \notin op'.recorded \cup {"tunnel", "route"} \cup cut'
               PROVE  \E p \in Requests : task'[p].at = "record" /\ Thing(p)' = t
    BY DEF FoundOK
  <2>1. CASE t = Thing(q) /\ task'[q].at = "record" /\ task'[q].n = task[q].n
    BY <2>1, ThingKept DEF RequestFrame
  <2>2. CASE ~(t = Thing(q) /\ task'[q].at = "record" /\ task'[q].n = task[q].n)
    <3>1. /\ made'[t] = made[t] /\ t \notin cut /\ t \notin op.recorded
          /\ t = Thing(q) => task[q].at # "record"
      <4>1. CASE t = Thing(q)
        BY <2>2, <4>1 DEF MadeFrame, RequestFrame
      <4>2. CASE t # Thing(q)
        BY <1>1, <4>2 DEF MadeFrame, RequestFrame
      <4> QED
        BY <4>1, <4>2
    <3>2. PICK p \in Requests : task[p].at = "record" /\ Thing(p) = t
      BY <3>1 DEF FoundOK
    <3>3. p # q
      BY <3>1, <3>2
    <3> QED
      BY <1>3, <3>2, <3>3
  <2> QED
    BY <2>1, <2>2
<1>10. MadeOnce'
  BY <1>2 DEF MadeOnce
<1> QED
  BY <1>4, <1>5, <1>6, <1>7, <1>8, <1>9, <1>10

\* The fields of the row and of a request's task.
LEMMA RowFields ==
  ASSUME TypeOK
  PROVE  /\ op \in Rows
         /\ \A s \in {"none", "pending", "waiting", "succeeded", "failed"} : [op EXCEPT !.status = s] \in Rows
         /\ task \in [Requests -> Tasks]
  BY DEF TypeOK, Rows, Tasks

\* A request that stops is as it was before it began.
LEMMA LeaveStep ==
  ASSUME IInv, NEW q \in Requests, Leave(q)
  PROVE  task'[q] = Idle /\ task'[q] \in Tasks /\ task' = [task EXCEPT ![q] = task'[q]] /\ TaskOK(q)'
<1>1. task'[q] = Idle /\ task' = [task EXCEPT ![q] = task'[q]]
  BY DEF IInv, Leave, TypeOK
<1>2. Idle \in Tasks
  BY DEF Idle, Tasks
<1>3. ProgressOK(q)'
  BY <1>1 DEF Idle, ProgressOK
<1> QED
  BY <1>1, <1>2, <1>3 DEF TaskOK, Idle

\* A request that gives up, or goes to where what was thrown is caught.
LEMMA ThrownStep ==
  ASSUME IInv, NEW q \in Requests, Leave(q) \/ Goto(q, "catch"),
         Leave(q) \/ task[q].at \notin {"idle", "continue"},
         op'.kind = op.kind, op.recorded \subseteq op'.recorded,
         op'.status = "succeeded" => op.status = "succeeded"
  PROVE  /\ task'[q] \in Tasks /\ task' = [task EXCEPT ![q] = task'[q]] /\ TaskOK(q)'
         /\ task'[q].at # "record"
<1>1. CASE Leave(q)
  BY <1>1, LeaveStep DEF Idle
<1>2. CASE Goto(q, "catch") /\ task[q].at \notin {"idle", "continue"}
  <2>1. task \in [Requests -> Tasks] /\ TaskOK(q)
    BY RowFields DEF IInv
  <2>2. /\ task'[q] \in Tasks /\ task' = [task EXCEPT ![q] = task'[q]] /\ task'[q].at = "catch"
        /\ task'[q].n = task[q].n /\ task'[q].seen = task[q].seen /\ task'[q].past = task[q].past
    BY <1>2, <2>1 DEF Goto, Tasks
  <2>3. ProgressOK(q)'
    BY <2>1, <2>2 DEF TaskOK, ProgressOK
  <2> QED
    BY <1>2, <2>1, <2>2, <2>3 DEF TaskOK
<1> QED
  BY <1>1, <1>2

\* A request starts from nothing it has read, or from the route of a publish.
LEMMA BeginStep ==
  ASSUME IInv, NEW q \in Requests, Begin(q) \/ Resume(q)
  PROVE  IInv'
<1> USE DEF IInv
<1>1. /\ UNCHANGED <<made, taken, route, cut, faults>> /\ task[q].at = "idle" /\ task[q].n = 1
      /\ op \in Rows /\ op' \in Rows
      /\ op'.kind = op.kind /\ op'.recorded = op.recorded /\ op'.stage = op.stage
      /\ op'.status = "succeeded" => op.status = "succeeded"
  BY DEF Begin, Persisted, Resume, Rows, TypeOK, TaskOK, ProgressOK
<1>2. op.kind = "bootstrap" => \A p \in Requests : task[p].at = "idle"
  BY DEF Begin, LockFree, Resume
<1>3. /\ task \in [Requests -> Tasks] /\ task'[q].n = 1 /\ task' = [task EXCEPT ![q] = task'[q]]
      /\ task'[q] \in Tasks
      /\ task'[q].seen = op.recorded \/ task'[q].seen = task[q].seen
      /\ \/ task'[q].at = "make" /\ op.status # "succeeded" /\ Begin(q)
         \/ task'[q].at = "continue" /\ "route" \in op.recorded
  <2>1. task[q] \in Tasks /\ task \in [Requests -> Tasks] /\ op.recorded \subseteq Things
    BY <1>1 DEF TypeOK, Tasks, Rows
  <2>2. CASE Begin(q)
    BY <1>1, <2>1, <2>2 DEF Begin, Tasks
  <2>3. CASE Resume(q)
    BY <1>1, <2>1, <2>3 DEF Resume, Goto, Tasks
  <2> QED
    BY <2>1, <2>2, <2>3
<1>4. "route" \in op.recorded => op.kind = "publish"
  BY DEF RecordedOK
<1>5. RequestFrame(q)
  BY <1>1, <1>2, <1>3 DEF RequestFrame, TypeOK
<1>6. MadeFrame(q)
  BY <1>1 DEF MadeFrame
<1>7. TaskOK(q)'
  BY <1>1, <1>3, <1>4 DEF TaskOK, ProgressOK
<1> QED
  BY <1>5, <1>6, <1>7, RequestStep

\* A publish goes on only with its route recorded, and not at all once it has
\* succeeded.
LEMMA ContinueStep ==
  ASSUME IInv, NEW q \in Requests, Continue(q)
  PROVE  IInv'
<1> USE DEF IInv
<1>1. /\ UNCHANGED <<made, taken, route, cut, faults>> /\ task[q].at = "continue"
      /\ op.kind = "publish" /\ "route" \in op.recorded
      /\ op \in Rows /\ task \in [Requests -> Tasks] /\ op.recorded \subseteq Things
  BY DEF Continue, TaskOK, ProgressOK, TypeOK, Rows, Tasks
<1>2. /\ op' \in Rows /\ op'.kind = op.kind /\ op'.recorded = op.recorded
      /\ op'.status = "succeeded" => op.status = "succeeded"
      /\ op'.stage = "pending_https_verification" => op.stage = op'.stage
  <2>1. \/ op' = op
        \/ op' = [op EXCEPT !.status = "waiting", !.stage = "waiting_for_route"]
        \/ op' = [op EXCEPT !.status = "failed", !.stage = "route_failed"]
    BY DEF Continue, SetOp, TypeOK
  <2> QED
    BY <1>1, <2>1 DEF Rows
<1>3. MadeFrame(q)
  BY <1>1 DEF MadeFrame
<1>4. CASE Leave(q)
  <2>1. RequestFrame(q) /\ TaskOK(q)'
    BY <1>1, <1>2, <1>4, LeaveStep DEF RequestFrame, TypeOK
  <2> QED
    BY <1>3, <2>1, RequestStep
<1>5. CASE ~Leave(q)
  <2>1. /\ op.status # "succeeded" /\ op' = op
        /\ task' = [task EXCEPT ![q] = [@ EXCEPT !.at = "make", !.n = 2, !.seen = op.recorded, !.past = FALSE]]
    BY <1>5 DEF Continue, Answered, TypeOK
  <2>2. /\ task'[q].at = "make" /\ task'[q].n = 2 /\ task'[q].seen = op.recorded
        /\ task'[q] \in Tasks /\ task' = [task EXCEPT ![q] = task'[q]]
    <3>1. task'[q] = [task[q] EXCEPT !.at = "make", !.n = 2, !.seen = op.recorded, !.past = FALSE]
          /\ task' = [task EXCEPT ![q] = task'[q]]
      BY <1>1, <2>1
    <3>2. task[q] \in Tasks /\ 2 \in 1..3
      BY <1>1
    <3> QED
      BY <1>1, <3>1, <3>2 DEF Tasks
  <2>3. RequestFrame(q)
    BY <1>1, <1>2, <2>2 DEF RequestFrame, TypeOK
  <2>4. TaskOK(q)'
    BY <1>1, <2>1, <2>2 DEF TaskOK, ProgressOK
  <2> QED
    BY <1>3, <2>3, <2>4, RequestStep
<1> QED
  BY <1>4, <1>5

\* A request goes on from a step whose thing is recorded.
LEMMA AfterStep ==
  ASSUME IInv, NEW q \in Requests, After(q, Thing(q)), Thing(q) \in op'.recorded,
         op'.kind = op.kind, op.recorded \subseteq op'.recorded, task[q].at # "idle",
         task[q].past \/ op'.status # "succeeded"
  PROVE  task'[q] \in Tasks /\ task' = [task EXCEPT ![q] = task'[q]] /\ TaskOK(q)'
<1> USE DEF IInv
<1>1. /\ task \in [Requests -> Tasks] /\ task[q] \in Tasks /\ op.kind \in {"bootstrap", "publish"}
      /\ ProgressOK(q) /\ Thing(q) \in Things
  BY ThingOf DEF TypeOK, Tasks, Rows, TaskOK
<1>2. CASE Thing(q) \in {"account", "tunnel"}
  <2>1. op.kind = "bootstrap" /\ task[q].n < 3 /\ task[q].n \in 1..3
        /\ (task[q].n > 1 => Thing(q) = "tunnel")
    BY <1>1, <1>2, ThingOf DEF Tasks
  <2>2. task' = [task EXCEPT ![q].at = "make", ![q].n = task[q].n + 1]
    BY <1>1, <1>2 DEF After
  <2>3. /\ task'[q] = [task[q] EXCEPT !.at = "make", !.n = task[q].n + 1]
        /\ task' = [task EXCEPT ![q] = task'[q]]
    BY <1>1, <2>2
  <2>4. /\ task'[q] \in Tasks /\ task'[q].at = "make" /\ task'[q].n = task[q].n + 1
        /\ task'[q].seen = task[q].seen /\ task'[q].past = task[q].past
    <3>1. task[q].n + 1 \in 1..3
      BY <2>1
    <3> QED
      BY <1>1, <2>3, <3>1 DEF Tasks
  <2>5. ProgressOK(q)'
    BY <1>1, <2>1, <2>4, ThingOf DEF ProgressOK
  <2> QED
    BY <2>3, <2>4, <2>5 DEF TaskOK
<1>3. CASE Thing(q) \in {"connector", "route", "access"}
  <2> DEFINE at == CASE Thing(q) = "route" -> "continue" [] Thing(q) = "access" -> "reconcile"
                     [] Thing(q) = "connector" -> "finish"
  <2>1. task' = [task EXCEPT ![q].at = at, ![q].n = task[q].n] /\ at \in {"continue", "reconcile", "finish"}
    BY <1>1, <1>3 DEF After
  <2> HIDE DEF at
  <2>2. /\ task'[q] = [task[q] EXCEPT !.at = at, !.n = task[q].n]
        /\ task' = [task EXCEPT ![q] = task'[q]]
    BY <1>1, <2>1
  <2>3. /\ task'[q] \in Tasks /\ task'[q].at = at /\ task'[q].n = task[q].n
        /\ task'[q].seen = task[q].seen /\ task'[q].past = task[q].past
    BY <1>1, <2>1, <2>2 DEF Tasks
  <2> USE DEF at
  <2>4. CASE Thing(q) = "connector"
    <3>1. op.kind = "bootstrap" /\ task[q].n > 2 /\ task[q].n > 1
      BY <1>1, <2>4, ThingOf DEF Tasks
    <3>2. AllRecorded'
      BY <1>1, <2>4, <3>1 DEF AllRecorded, ProgressOK
    <3> QED
      BY <1>1, <2>2, <2>3, <2>4, <3>1, <3>2 DEF TaskOK, ProgressOK
  <2>5. CASE Thing(q) = "access"
    <3>1. op.kind = "publish" /\ task[q].n > 1
      BY <1>1, <2>5, ThingOf DEF Tasks
    <3>2. AllRecorded'
      BY <1>1, <2>5, <3>1 DEF AllRecorded, ProgressOK
    <3> QED
      BY <1>1, <2>2, <2>3, <2>5, <3>1, <3>2 DEF TaskOK, ProgressOK
  <2>6. CASE Thing(q) = "route"
    <3>1. op.kind = "publish"
      BY <1>1, <2>6, ThingOf DEF Tasks
    <3> QED
      BY <1>1, <2>2, <2>3, <2>6, <3>1 DEF TaskOK, ProgressOK
  <2> QED
    BY <1>3, <2>4, <2>5, <2>6
<1> QED
  BY <1>1, <1>2, <1>3

\* The thing is on the row already, or is found, or has to be made.
LEMMA LookStep ==
  ASSUME IInv, NEW q \in Requests, Look(q)
  PROVE  IInv'
<1> USE DEF IInv
<1>1. /\ UNCHANGED <<op, made, taken, route, cut, faults>> /\ task[q].at = "make"
      /\ op \in Rows /\ task \in [Requests -> Tasks] /\ TaskOK(q)
      /\ made \in [Things -> Nat] /\ Thing(q) \in Things
  BY ThingOf DEF Look, TypeOK, Tasks, TaskOK
<1>2. MadeFrame(q)
  BY <1>1 DEF MadeFrame
<1>3. task'[q] \in Tasks /\ task' = [task EXCEPT ![q] = task'[q]] /\ TaskOK(q)'
  <2>1. CASE Thing(q) \in task[q].seen
    <3>1. After(q, Thing(q)) /\ Thing(q) \in op'.recorded
      BY <1>1, <2>1 DEF Look, TaskOK, ProgressOK
    <3>2. task[q].past \/ op'.status # "succeeded"
      BY <1>1 DEF TaskOK
    <3> QED
      BY <1>1, <3>1, <3>2, AfterStep
  <2>2. CASE Thing(q) \notin task[q].seen
    <3>1. PICK at \in {"record", "create"} :
            /\ task' = [task EXCEPT ![q].at = at]
            /\ at = IF Found(Thing(q)) THEN "record" ELSE "create"
      BY <2>2 DEF Look, Goto
    <3>2. /\ task'[q] \in Tasks /\ task' = [task EXCEPT ![q] = task'[q]] /\ task'[q].at = at
          /\ task'[q].n = task[q].n /\ task'[q].seen = task[q].seen /\ task'[q].past = task[q].past
      BY <1>1, <3>1 DEF Tasks
    <3>3. Thing(q)' = Thing(q)
      BY <1>1, <3>2, ThingKept
    <3>4. ProgressOK(q)'
      BY <1>1, <3>1, <3>2 DEF TaskOK, ProgressOK
    <3>5. /\ at = "create" /\ Thing(q) = "tunnel" => made["tunnel"] = 0
          /\ at = "record" => made[Thing(q)] > 0
      BY <1>1, <3>1 DEF Found
    <3> QED
      BY <1>1, <3>1, <3>2, <3>3, <3>4, <3>5 DEF TaskOK
  <2> QED
    BY <2>1, <2>2
<1>4. RequestFrame(q)
  BY <1>1, <1>3 DEF RequestFrame, TypeOK
<1> QED
  BY <1>2, <1>3, <1>4, RequestStep

\* A thing is made only where there was none: a tunnel because none was found
\* under the lock, any other because the store refuses a second one.
LEMMA MakeStep ==
  ASSUME IInv, NEW q \in Requests, Make(q)
  PROVE  IInv'
<1> USE DEF IInv
<1>1. /\ UNCHANGED <<op, taken, route, faults>> /\ task[q].at = "create"
      /\ op \in Rows /\ task \in [Requests -> Tasks] /\ TaskOK(q)
      /\ made \in [Things -> Nat] /\ Thing(q) \in Things
      /\ made' = [made EXCEPT ![Thing(q)] = @ + 1] /\ cut' = cut \ {Thing(q)}
      /\ task' = [task EXCEPT ![q].at = "record"]
  BY ThingOf DEF Make, Goto, TypeOK, Tasks, TaskOK
<1>2. /\ task'[q] \in Tasks /\ task' = [task EXCEPT ![q] = task'[q]] /\ task'[q].at = "record"
      /\ task'[q].n = task[q].n /\ task'[q].seen = task[q].seen /\ task'[q].past = task[q].past
  BY <1>1 DEF Tasks
<1>3. made[Thing(q)] = 0 /\ made'[Thing(q)] > 0
  <2>1. made[Thing(q)] = 0
    BY <1>1 DEF Make, Refused, TaskOK
  <2> QED
    BY <1>1, <2>1
<1>4. MadeFrame(q)
  BY <1>1, <1>2, <1>3 DEF MadeFrame
<1>5. RequestFrame(q)
  BY <1>1, <1>2 DEF RequestFrame, TypeOK
<1>6. TaskOK(q)'
  <2>1. Thing(q)' = Thing(q)
    BY <1>1, <1>2, ThingKept
  <2>2. ProgressOK(q)'
    BY <1>1, <1>2 DEF TaskOK, ProgressOK
  <2> QED
    BY <1>1, <1>2, <1>3, <2>1, <2>2 DEF TaskOK
<1> QED
  BY <1>4, <1>5, <1>6, RequestStep

\* What a request that gives up, or has come to its end, writes.
LEMMA EndsStep ==
  ASSUME IInv, NEW q \in Requests,
         \/ MakeRefused(q) \/ MakeFails(q) \/ ContinueFails(q) \/ Reconciled(q) \/ ReconcileFails(q)
         \/ (FinishFails(q) /\ Goto(q, "catch") /\ op' = op) \/ Catch(q) \/ CatchFails(q)
  PROVE  IInv'
<1> USE DEF IInv
<1>1. /\ op \in Rows /\ op.recorded \subseteq Things /\ Thing(q) \in Things /\ made \in [Things -> Nat]
      /\ cut \subseteq Things /\ faults \in 0..MaxFaults /\ TaskOK(q)
  BY ThingOf DEF TypeOK, TaskOK, Rows
<1>2. /\ UNCHANGED <<taken, route>> /\ faults' \in 0..MaxFaults
      /\ \/ Leave(q) /\ task[q].at # "idle"
         \/ Goto(q, "catch") /\ task[q].at \notin {"idle", "continue"}
      /\ task[q].at \notin {"idle", "record"}
  <2>1. UNCHANGED <<taken, route>> /\ (UNCHANGED faults \/ Fault)
    BY DEF MakeRefused, MakeFails, ContinueFails, Reconciled, ReconcileFails, FinishFails, Catch, CatchFails
  <2>2. CASE MakeRefused(q) \/ MakeFails(q) \/ ContinueFails(q) \/ Reconciled(q) \/ ReconcileFails(q)
    BY <1>1, <2>1, <2>2 DEF MakeRefused, MakeFails, Thrown, ContinueFails, Reconciled, ReconcileFails, Fault
  <2>3. CASE Catch(q) \/ CatchFails(q)
    BY <1>1, <2>1, <2>3 DEF Catch, CatchFails, Fault
  <2>4. CASE FinishFails(q) /\ Goto(q, "catch")
    BY <1>1, <2>1, <2>4 DEF FinishFails, Fault
  <2> QED
    BY <2>2, <2>3, <2>4
<1>3. /\ op' \in Rows /\ op'.kind = op.kind /\ op'.recorded = op.recorded
      /\ op'.status = "succeeded" => op.status = "succeeded"
      /\ op'.stage = "pending_https_verification" =>
           op.stage = op'.stage \/ (op.kind = "publish" /\ AllRecorded)
  <2>1. CASE op' = op
    BY <1>1, <2>1
  <2>2. CASE SetOp("waiting", "pending_https_verification") /\ task[q].at = "reconcile"
    <3>1. op' = [op EXCEPT !.status = "waiting", !.stage = "pending_https_verification"]
          /\ op.kind = "publish" /\ AllRecorded
      BY <1>1, <2>2 DEF SetOp, TaskOK, ProgressOK
    <3>2. op' \in Rows /\ op'.kind = op.kind /\ op'.recorded = op.recorded /\ op'.status = "waiting"
      BY <1>1, <3>1 DEF Rows
    <3> QED
      BY <3>1, <3>2
  <2>3. CASE Catch(q)
    <3>1. PICK stage \in {"created", op.stage} : op' = [op EXCEPT !.status = "failed", !.stage = stage]
      BY <2>3 DEF Catch, SetOp
    <3>2. stage \in {"created", "waiting_for_route", "route_failed", "domain_access_created",
                     "pending_https_verification", "https_verification_failed", "complete"}
      BY <1>1, <3>1 DEF Rows
    <3>3. /\ op' \in Rows /\ op'.kind = op.kind /\ op'.recorded = op.recorded /\ op'.status = "failed"
          /\ op'.stage = stage
      BY <1>1, <3>1, <3>2 DEF Rows
    <3> QED
      BY <3>1, <3>3
  <2> QED
    BY <2>1, <2>2, <2>3 DEF MakeRefused, MakeFails, ContinueFails, Reconciled, ReconcileFails, CatchFails
<1>4. MadeFrame(q)
  <2>1. CASE made' = made /\ cut' = cut
    BY <1>2, <2>1 DEF MadeFrame
  <2>2. CASE ~(made' = made /\ cut' = cut)
    <3>1. /\ task[q].at = "create" /\ ~Refused(Thing(q))
          /\ made' = [made EXCEPT ![Thing(q)] = @ + 1] /\ cut' = cut \cup {Thing(q)}
      BY <2>2 DEF MakeRefused, MakeFails, ContinueFails, Reconciled, ReconcileFails, FinishFails, Catch, CatchFails
    <3>2. made[Thing(q)] = 0
      BY <1>1, <3>1 DEF Refused, TaskOK
    <3> QED
      BY <3>1, <3>2 DEF MadeFrame
  <2> QED
    BY <2>1, <2>2
<1>5. task'[q] \in Tasks /\ task' = [task EXCEPT ![q] = task'[q]] /\ TaskOK(q)'
  BY <1>2, <1>3, ThrownStep
<1>6. RequestFrame(q)
  BY <1>2, <1>3, <1>5 DEF RequestFrame
<1> QED
  BY <1>4, <1>5, <1>6, RequestStep

\* What was made or found is recorded, or is in "cut", except an account that is
\* gone.
LEMMA RecordStep ==
  ASSUME IInv, NEW q \in Requests, Record(q) \/ RecordFails(q)
  PROVE  IInv'
<1> USE DEF IInv
<1>1. /\ UNCHANGED <<made, taken, route>> /\ task[q].at = "record" /\ faults' \in 0..MaxFaults
      /\ op \in Rows /\ op.recorded \subseteq Things /\ task \in [Requests -> Tasks] /\ TaskOK(q)
      /\ made \in [Things -> Nat] /\ Thing(q) \in Things /\ cut \subseteq Things
  BY ThingOf DEF Record, RecordFails, Fault, TypeOK, Tasks, TaskOK, Rows
<1>2. CASE op' = op /\ Thrown(q) /\ (made[Thing(q)] = 0 \/ Thing(q) \in op.recorded \cup cut')
           /\ cut' \in {cut, cut \cup {Thing(q)}}
  <2>1. task'[q] \in Tasks /\ task' = [task EXCEPT ![q] = task'[q]] /\ TaskOK(q)'
    BY <1>1, <1>2, ThrownStep DEF Thrown
  <2>2. RequestFrame(q) /\ MadeFrame(q)
    BY <1>1, <1>2, <2>1 DEF RequestFrame, MadeFrame
  <2> QED
    BY <2>1, <2>2, RequestStep
<1>3. CASE /\ op' = WithRecorded(Thing(q)) /\ cut' = cut \ {Thing(q)} /\ ~Gone(Thing(q))
           /\ After(q, Thing(q)) \/ Thrown(q)
  <2>1. made[Thing(q)] > 0
    BY <1>1, <1>3 DEF Gone, TaskOK
  <2>2. PICK status \in {"waiting", "pending", op.status},
             stage \in {"waiting_for_route", "domain_access_created", op.stage} :
          op' = [op EXCEPT !.recorded = op.recorded \cup {Thing(q)}, !.status = status, !.stage = stage]
    BY <1>3 DEF WithRecorded, Noted
  <2>3. /\ op' \in Rows /\ op'.kind = op.kind /\ op'.recorded = op.recorded \cup {Thing(q)}
        /\ op'.status = status /\ op'.stage = stage
    <3>1. status \in {"none", "pending", "waiting", "succeeded", "failed"}
      BY <1>1, <2>2 DEF Rows
    <3>2. stage \in {"created", "waiting_for_route", "route_failed", "domain_access_created",
                     "pending_https_verification", "https_verification_failed", "complete"}
      BY <1>1, <2>2 DEF Rows
    <3>3. op.recorded \cup {Thing(q)} \in SUBSET Things
      BY <1>1
    <3> QED
      BY <1>1, <2>2, <3>1, <3>2, <3>3 DEF Rows
  <2>4. task[q].past \/ op'.status # "succeeded"
    BY <1>1, <2>2, <2>3 DEF TaskOK
  <2>5. task'[q] \in Tasks /\ task' = [task EXCEPT ![q] = task'[q]] /\ TaskOK(q)'
    <3>1. CASE After(q, Thing(q))
      BY <1>1, <2>3, <2>4, <3>1, AfterStep
    <3>2. CASE Thrown(q)
      BY <1>1, <2>2, <2>3, <3>2, ThrownStep DEF Thrown
    <3> QED
      BY <1>3, <3>1, <3>2
  <2>6. RequestFrame(q)
    BY <1>1, <2>1, <2>2, <2>3, <2>5 DEF RequestFrame, TypeOK
  <2>7. MadeFrame(q)
    BY <1>1, <1>3, <2>3 DEF MadeFrame
  <2> QED
    BY <2>5, <2>6, <2>7, RequestStep
<1> QED
  BY <1>2, <1>3 DEF Record, RecordFails, Gone

-----------------------------------------------------------------------------
(* The other steps *)

\* The last update takes effect, and its answer is lost.
SucceedsUnheard(q) == FinishFails(q) /\ Succeed([task EXCEPT ![q].at = "catch"])

\* A row that succeeds leaves every request that is under way marked, and
\* whatever else it was it has everything recorded.
LEMMA SucceedStep ==
  ASSUME IInv, Verified \/ \E q \in Requests : Finish(q) \/ SucceedsUnheard(q)
  PROVE  IInv'
<1> USE DEF IInv
<1> DEFINE Marked(tasks) ==
             /\ task' = [q \in Requests |-> [tasks[q] EXCEPT !.past = @ \/ tasks[q].at # "idle"]]
             /\ \A p \in Requests :
                  \/ tasks[p] = task[p]
                  \/ tasks[p] \in {Idle, [task[p] EXCEPT !.at = "catch"]} /\ task[p].at = "finish"
<1>1. /\ UNCHANGED <<made, taken, route, cut>> /\ faults' \in 0..MaxFaults /\ AllRecorded /\ op \in Rows
      /\ op' = [op EXCEPT !.status = "succeeded", !.stage = "complete", !.request = FALSE]
  <2>1. op \in Rows /\ faults \in 0..MaxFaults
    BY DEF TypeOK
  <2>2. CASE Verified
    BY <2>1, <2>2 DEF Verified, Awaited, Succeed, EndOK
  <2>3. ASSUME NEW q \in Requests, Finish(q) \/ SucceedsUnheard(q)
        PROVE  /\ UNCHANGED <<made, taken, route, cut>> /\ (UNCHANGED faults \/ Fault) /\ AllRecorded
               /\ op' = [op EXCEPT !.status = "succeeded", !.stage = "complete", !.request = FALSE]
    BY <2>3 DEF Finish, FinishFails, SucceedsUnheard, Succeed, TaskOK, ProgressOK
  <2> QED
    BY <2>1, <2>2, <2>3 DEF Fault
<1>2. PICK tasks \in [Requests -> Tasks] : Marked(tasks)
  <2>1. CASE Verified
    <3>1. task \in [Requests -> Tasks]
      BY RowFields
    <3> QED
      BY <2>1, <3>1 DEF Verified, Succeed
  <2>2. ASSUME NEW q \in Requests, Finish(q) \/ SucceedsUnheard(q)
        PROVE  \E tasks \in [Requests -> Tasks] : Marked(tasks)
    <3>1. /\ Idle \in Tasks /\ task \in [Requests -> Tasks]
          /\ [task[q] EXCEPT !.at = "catch"] \in Tasks
      BY RowFields DEF Idle, Tasks
    <3>2. PICK x \in {Idle, [task[q] EXCEPT !.at = "catch"]} : Succeed([task EXCEPT ![q] = x])
      BY <2>2 DEF Finish, SucceedsUnheard
    <3> DEFINE left == [task EXCEPT ![q] = x]
    <3>3. left \in [Requests -> Tasks] /\ task[q].at = "finish"
          /\ \A p \in Requests : left[p] = task[p] \/ (p = q /\ left[p] = x)
      BY <2>2, <3>1 DEF Finish, FinishFails, SucceedsUnheard
    <3>4. task' = [p \in Requests |-> [left[p] EXCEPT !.past = @ \/ left[p].at # "idle"]]
      BY <3>2 DEF Succeed
    <3>5. Marked(left)
      BY <3>3, <3>4
    <3> QED
      BY <3>3, <3>5
  <2> QED
    BY <2>1, <2>2
<1>3. /\ op' \in Rows /\ op'.kind = op.kind /\ op'.recorded = op.recorded /\ op'.status = "succeeded"
      /\ op'.stage = "complete"
  BY <1>1 DEF Rows
<1>4. ASSUME NEW p \in Requests
      PROVE  /\ task'[p] \in Tasks
             /\ task'[p].at # "idle" =>
                  /\ task'[p].past /\ task'[p].at \in {task[p].at, "catch"} /\ task'[p].n = task[p].n
                  /\ task[p].at # "idle"
                  /\ task'[p].seen = task[p].seen /\ Thing(p)' = Thing(p)
             /\ task'[p].at = "idle" => task'[p].n = 1 /\ task'[p].seen \subseteq op.recorded
             /\ task[p].at = "record" => task'[p].at = "record"
  <2>1. task'[p] = [tasks[p] EXCEPT !.past = @ \/ tasks[p].at # "idle"] /\ tasks[p] \in Tasks
    BY <1>2
  <2>2. /\ task'[p] \in Tasks /\ task'[p].at = tasks[p].at /\ task'[p].n = tasks[p].n
        /\ task'[p].seen = tasks[p].seen /\ (tasks[p].at # "idle" => task'[p].past)
    BY <2>1 DEF Tasks
  <2>3. CASE tasks[p] = task[p]
    BY <1>3, <2>2, <2>3, ThingKept DEF TaskOK, ProgressOK
  <2>4. CASE tasks[p] = Idle /\ task[p].at = "finish"
    BY <2>2, <2>4 DEF Idle
  <2>5. CASE tasks[p] = [task[p] EXCEPT !.at = "catch"] /\ task[p].at = "finish"
    <3>1. tasks[p].at = "catch" /\ tasks[p].n = task[p].n /\ tasks[p].seen = task[p].seen
      BY <2>5, RowFields DEF Tasks
    <3> QED
      BY <1>3, <2>2, <2>5, <3>1, ThingKept
  <2> QED
    BY <1>2, <2>3, <2>4, <2>5
<1>5. TypeOK'
  <2>1. task' \in [Requests -> Tasks]
    BY <1>2, <1>4
  <2> QED
    BY <1>1, <1>3, <2>1 DEF TypeOK, Tasks
<1>6. LockOK'
  BY <1>3, <1>4 DEF LockOK
<1>7. ASSUME NEW p \in Requests PROVE TaskOK(p)'
  BY <1>1, <1>3, <1>4, AllRecordedKept DEF TaskOK, ProgressOK
<1>8. RecordedOK' /\ EndOK' /\ MadeOnce'
  BY <1>1, <1>3, AllRecordedKept DEF RecordedOK, EndOK, MadeOnce
<1>9. FoundOK'
  BY <1>1, <1>3, <1>4 DEF FoundOK
<1> QED
  BY <1>5, <1>6, <1>7, <1>8, <1>9

\* What happens around an operation ends its wait, deletes an account nothing
\* refers to, or settles what others have.
LEMMA AroundStep ==
  ASSUME IInv,
         \/ DeadlinePasses \/ DeleteAccount
         \/ \E s \in {"active", "failed"} : RouteSettles(s)
         \/ \E t \in Things : Elsewhere(t)
  PROVE  IInv'
<1> USE DEF IInv
<1>1. /\ task' = task /\ op \in Rows /\ made \in [Things -> Nat] /\ cut \subseteq Things /\ faults' = faults
      /\ \A p \in Requests : Thing(p) \in Things
  BY ThingOf DEF DeadlinePasses, DeleteAccount, RouteSettles, Elsewhere, TypeOK, TaskOK
<1>2. /\ op' \in Rows /\ op'.kind = op.kind /\ op'.recorded = op.recorded
      /\ op'.status = "succeeded" => op.status = "succeeded"
      /\ op'.stage = "pending_https_verification" => op.stage = op'.stage
  <2>1. CASE DeadlinePasses
    <3>1. op' = [op EXCEPT !.status = "failed", !.stage = "https_verification_failed"]
      BY <2>1 DEF DeadlinePasses, SetOp
    <3> QED
      BY <1>1, <3>1 DEF Rows
  <2>2. CASE ~DeadlinePasses
    BY <1>1, <2>2 DEF DeleteAccount, RouteSettles, Elsewhere
  <2> QED
    BY <2>1, <2>2
<1>3. /\ made' \in [Things -> Nat] /\ \A t \in Things : t # "account" => made'[t] = made[t]
      /\ \A t \in Things : made'[t] <= made[t]
      /\ \A t \in op.recorded : made'[t] = made[t]
      /\ \A t \in Things : made'[t] > 0 => made'[t] = made[t] /\ (t \in cut => t \in cut')
      /\ cut' \subseteq Things
  <2>1. CASE DeleteAccount
    <3>1. made' = [made EXCEPT !["account"] = 0] /\ cut' = cut \ {"account"} /\ "account" \notin op.recorded
      BY <2>1 DEF DeleteAccount, Unreferenced
    <3>2. op.recorded \subseteq Things
      BY <1>1 DEF Rows
    <3> QED
      BY <1>1, <3>1, <3>2
  <2>2. CASE ~DeleteAccount
    <3>1. made' = made /\ cut' = cut
      BY <2>2 DEF DeadlinePasses, RouteSettles, Elsewhere
    <3> QED
      BY <1>1, <3>1
  <2> QED
    BY <2>1, <2>2
<1>4. TypeOK'
  <2>1. taken' \in SUBSET {"account", "route", "access"} /\ route' \in {"pending", "active", "failed"}
    BY DEF DeadlinePasses, DeleteAccount, RouteSettles, Elsewhere, TypeOK
  <2> QED
    BY <1>1, <1>2, <1>3, <2>1 DEF TypeOK
<1>5. LockOK'
  BY <1>1, <1>2 DEF LockOK
<1>6. ASSUME NEW p \in Requests PROVE TaskOK(p)'
  <2>1. Thing(p)' = Thing(p) /\ Thing(p) \in Things /\ TaskOK(p)
    BY <1>1, <1>2, ThingKept
  <2>2. ProgressOK(p)'
    BY <1>1, <1>2, <2>1, AllRecordedKept DEF TaskOK, ProgressOK
  <2> QED
    BY <1>1, <1>2, <1>3, <2>1, <2>2 DEF TaskOK
<1>7. RecordedOK' /\ EndOK' /\ MadeOnce'
  <2>1. RecordedOK'
    BY <1>2, <1>3 DEF RecordedOK
  <2>2. EndOK'
    BY <1>2, AllRecordedKept DEF EndOK
  <2>3. MadeOnce'
    BY <1>1, <1>3 DEF MadeOnce
  <2> QED
    BY <2>1, <2>2, <2>3
<1>8. FoundOK'
  <2>1. \A p \in Requests : Thing(p)' = Thing(p)
    BY <1>1, <1>2, ThingKept
  <2> QED
    BY <1>1, <1>2, <1>3, <2>1 DEF FoundOK
<1> QED
  BY <1>4, <1>5, <1>6, <1>7, <1>8

\* A crash leaves what it cut off in "cut".
LEMMA CrashStep ==
  ASSUME IInv, Crash
  PROVE  IInv'
<1> USE DEF IInv
<1>1. /\ UNCHANGED <<op, made, taken, route>> /\ faults' \in 0..MaxFaults
      /\ task' = [q \in Requests |-> Idle]
      /\ cut' = cut \cup {Thing(q) : q \in {p \in Requests : task[p].at = "record" /\ Thing(p) \notin op.recorded}}
      /\ \A p \in Requests : Thing(p) \in Things
  BY ThingOf DEF Crash, Fault, TypeOK, TaskOK
<1>2. TypeOK'
  <2>1. Idle \in Tasks
    BY DEF Idle, Tasks
  <2>2. task' \in [Requests -> Tasks] /\ cut' \subseteq Things
    BY <1>1, <2>1 DEF TypeOK
  <2> QED
    BY <1>1, <2>2 DEF TypeOK, Tasks
<1>3. LockOK' /\ \A p \in Requests : TaskOK(p)'
  BY <1>1 DEF Idle, LockOK, TaskOK, ProgressOK
<1>4. RecordedOK' /\ EndOK' /\ MadeOnce'
  BY <1>1 DEF RecordedOK, EndOK, AllRecorded, MadeOnce
<1>5. FoundOK'
  BY <1>1 DEF FoundOK
<1> QED
  BY <1>2, <1>3, <1>4, <1>5

LEMMA StepInvariant == IInv /\ [Next]_vars => IInv'
<1> SUFFICES ASSUME IInv, [Next]_vars PROVE IInv'
  OBVIOUS
<1>1. CASE UNCHANGED vars
  <2>1. UNCHANGED <<op, made, taken, route, cut, task, faults>>
    BY <1>1 DEF vars
  <2>2. \A p \in Requests : Thing(p)' = Thing(p)
    BY <2>1, ThingKept
  <2>3. TypeOK' /\ LockOK' /\ RecordedOK' /\ EndOK' /\ MadeOnce'
    BY <2>1 DEF IInv, TypeOK, LockOK, RecordedOK, EndOK, AllRecorded, MadeOnce
  <2>4. FoundOK' /\ \A p \in Requests : TaskOK(p)'
    BY <2>1, <2>2 DEF IInv, FoundOK, TaskOK, ProgressOK, AllRecorded
  <2> QED
    BY <2>3, <2>4 DEF IInv
<1>2. CASE Next
  BY <1>2, BeginStep, ContinueStep, LookStep, MakeStep, EndsStep, RecordStep, SucceedStep, AroundStep,
     CrashStep DEF Next, FinishFails, SucceedsUnheard
<1> QED
  BY <1>1, <1>2

THEOREM Invariance == Spec => []IInv
  BY InitInvariant, StepInvariant, PTL DEF Spec

-----------------------------------------------------------------------------
(* The properties *)

\* The model is well typed: no request is at a step its operation does not have.
THEOREM GuidedTypes == Spec => []TypeOK
<1>1. IInv => TypeOK
  BY DEF IInv
<1> QED
  BY <1>1, Invariance, PTL

\* Whatever is retried, cut short or asked for at the same time, an operation
\* makes nothing twice.
THEOREM NothingTwice == Spec => []MadeOnce
<1>1. IInv => MadeOnce
  BY DEF IInv
<1> QED
  BY <1>1, Invariance, PTL

\* Everything a succeeded operation has made is there.
THEOREM SuccessIsWhole == Spec => []SucceededHasAll
<1>1. IInv => SucceededHasAll
  <2> SUFFICES ASSUME IInv, op.status = "succeeded", NEW n \in 1..Len(Steps) PROVE made[Steps[n]] > 0
    BY DEF SucceededHasAll
  <2>1. AllRecorded /\ RecordedOK /\ op.kind \in {"bootstrap", "publish"}
    BY DEF IInv, EndOK, TypeOK, Rows
  <2>2. CASE op.kind = "bootstrap"
    <3>1. Steps = <<"account", "tunnel", "connector">>
      BY <2>2 DEF Steps, StepsOf
    <3>2. n \in 1..3
      BY <3>1
    <3>3. Steps[n] \in {"account", "tunnel", "connector"}
      BY <3>1, <3>2
    <3> QED
      BY <2>1, <2>2, <3>3 DEF AllRecorded, RecordedOK
  <2>3. CASE op.kind = "publish"
    <3>1. Steps = <<"route", "access">>
      BY <2>3 DEF Steps, StepsOf
    <3>2. n \in 1..2
      BY <3>1
    <3>3. Steps[n] \in {"route", "access"}
      BY <3>1, <3>2
    <3> QED
      BY <2>1, <2>3, <3>3 DEF AllRecorded, RecordedOK
  <2> QED
    BY <2>1, <2>2, <2>3
<1> QED
  BY <1>1, Invariance, PTL

\* A retry finds what was made, but for what a crash or a failed statement cut
\* off from its record.
THEOREM RetryFinds == Spec => []Resumable
<1>1. IInv => Resumable
  BY DEF IInv, FoundOK, Resumable
<1> QED
  BY <1>1, Invariance, PTL

\* Only a request that was under way when the operation succeeded takes that
\* back: one that begins later is answered, or finds nothing to continue.
THEOREM SuccessIsKept == Spec => SucceededIsKept
<1>1. IInv /\ [Next]_vars =>
        [op.status = "succeeded" /\ op'.status # "succeeded" => \E q \in Requests : task[q].past]_vars
  <2> SUFFICES ASSUME IInv, Next, op.status = "succeeded", op'.status # "succeeded"
               PROVE  \E q \in Requests : task[q].past
    BY DEF vars
  <2>1. op' # op /\ op.kind \in {"bootstrap", "publish"}
    BY DEF IInv, TypeOK, Rows
  <2>2. ~(Verified \/ DeadlinePasses \/ DeleteAccount \/ Crash)
    BY <2>1 DEF Verified, DeadlinePasses, Awaited, DeleteAccount, Crash
  <2>3. ~(\E s \in {"active", "failed"} : RouteSettles(s)) /\ ~(\E t \in Things : Elsewhere(t))
    BY <2>1 DEF RouteSettles, Elsewhere
  <2>4. PICK q \in Requests :
          \/ Begin(q) \/ Resume(q) \/ Continue(q) \/ ContinueFails(q) \/ Look(q) \/ Make(q)
          \/ MakeRefused(q) \/ MakeFails(q) \/ Record(q) \/ RecordFails(q)
          \/ Reconciled(q) \/ ReconcileFails(q) \/ Finish(q) \/ FinishFails(q) \/ Catch(q) \/ CatchFails(q)
    BY <2>2, <2>3 DEF Next
  <2>5. ~(\/ Begin(q) \/ Resume(q) \/ Continue(q) \/ ContinueFails(q) \/ Look(q) \/ Make(q)
          \/ MakeRefused(q) \/ MakeFails(q) \/ CatchFails(q))
    BY <2>1 DEF Begin, Resume, Continue, ContinueFails, Answered, Look, Make, MakeRefused, MakeFails, CatchFails
  <2>6. task[q].at \in {"record", "reconcile", "finish", "catch"}
    BY <2>4, <2>5 DEF Record, RecordFails, Reconciled, ReconcileFails, Finish, FinishFails, Catch
  <2> QED
    BY <2>6 DEF IInv, TaskOK
<1> QED
  BY <1>1, Invariance, PTL DEF Spec, SucceededIsKept
=============================================================================
