--------------------------- MODULE GuidedOperations --------------------------
(***************************************************************************)
(* A guided operation: one row, found again by its idempotency key, that   *)
(* several requests carry forward.  A bootstrap makes an account, a tunnel *)
(* at Cloudflare and a connector; a publish makes a route and, once an     *)
(* agent serves it, a domain access, and then waits for its verification.  *)
(* Whatever is made is made by one statement and recorded on the row by    *)
(* another, and a request may end between the two.                         *)
(*                                                                         *)
(* Requests of one bootstrap exclude each other; those of one publish do   *)
(* not.  Neither the row's status nor its stage is fenced.                 *)
(***************************************************************************)
EXTENDS Naturals, FiniteSets, Sequences

CONSTANTS Requests, MaxFaults

ASSUME GuidedAssumption == MaxFaults \in Nat

VARIABLES
  op,     \* the guided_operations row
  made,   \* how many of each thing the operation has made
  taken,  \* the things someone else has made in its place
  route,  \* the status of the route of a publish
  cut,    \* history: what was made and not recorded, as the request died, or the
          \* statement that made or recorded it failed
  task,   \* what each request is doing
  faults  \* the faults so far

vars == <<op, made, taken, route, cut, task, faults>>

Things == {"account", "tunnel", "connector", "route", "access"}
StepsOf(kind) == IF kind = "bootstrap" THEN <<"account", "tunnel", "connector">> ELSE <<"route", "access">>
Steps == StepsOf(op.kind)

\* seen is what of the row the request has read; n the step it is at; past tells
\* that the row has succeeded since.
Idle == [at |-> "idle", n |-> 1, seen |-> {}, past |-> FALSE]

\* The rows.  The references to what was made and the remote tunnel's name are
\* what is recorded; request tells that the encrypted request is still kept.
Rows ==
  [kind : {"bootstrap", "publish"}, status : {"none", "pending", "waiting", "succeeded", "failed"},
   stage : {"created", "waiting_for_route", "route_failed", "domain_access_created",
            "pending_https_verification", "https_verification_failed", "complete"},
   recorded : SUBSET Things, request : BOOLEAN]

TypeOK ==
  /\ op \in Rows
  /\ made \in [Things -> Nat]
  /\ taken \in SUBSET {"account", "route", "access"}
  /\ route \in {"pending", "active", "failed"}
  /\ cut \in SUBSET Things
  /\ task \in [Requests -> [at : {"idle", "make", "create", "record", "continue", "reconcile", "finish", "catch"},
                            n : 1..3, seen : SUBSET Things, past : BOOLEAN]]
  /\ faults \in 0..MaxFaults

Fault == faults < MaxFaults /\ faults' = faults + 1

Init ==
  /\ \E k \in {"bootstrap", "publish"} :
       op = [kind |-> k, status |-> "none", stage |-> "created", recorded |-> {}, request |-> TRUE]
  /\ made = [t \in Things |-> 0]
  /\ taken = {}
  /\ route = "pending"
  /\ cut = {}
  /\ task = [q \in Requests |-> Idle]
  /\ faults = 0

Thing(q) == Steps[task[q].n]
Goto(q, at) == task' = [task EXCEPT ![q].at = at]
Leave(q) == task' = [task EXCEPT ![q] = Idle]

\* updateGuidedOperation, without any fence.
SetOp(status, stage) == op' = [op EXCEPT !.status = status, !.stage = stage]

-----------------------------------------------------------------------------
(* The requests *)

\* Mutant of LockFree: requests with one key do not exclude each other.
LockFreeAlways == TRUE

\* withGuidedOperationLock
LockFree == op.kind = "bootstrap" => \A p \in Requests : task[p].at = "idle"

\* createOrGetGuidedOperation
Persisted == IF op.status = "none" THEN [op EXCEPT !.status = "pending"] ELSE op

\* The request, first or again.  One that has succeeded is answered at once.
Begin(q) ==
  /\ task[q].at = "idle"
  /\ LockFree
  /\ op.status # "succeeded"
  /\ op' = Persisted
  /\ task' = [task EXCEPT ![q].seen = op.recorded,
                          ![q].at = IF "route" \in op.recorded THEN "continue" ELSE "make"]
  /\ UNCHANGED <<made, taken, route, cut, faults>>

\* The request to reconcile a publish.
Resume(q) ==
  /\ task[q].at = "idle"
  /\ op.kind = "publish"
  /\ "route" \in op.recorded
  /\ Goto(q, "continue")
  /\ UNCHANGED <<op, made, taken, route, cut, faults>>

\* Mutant of Answered: a publish that is past it is carried on with.
AnsweredNever == FALSE

\* continueGuidedPublish has nothing to do.
Answered == op.status = "succeeded" \/ op.stage = "pending_https_verification" \/ ~op.request

\* continueGuidedPublish, up to what it does for a route that is active.
Continue(q) ==
  /\ task[q].at = "continue"
  /\ IF Answered THEN Leave(q) /\ UNCHANGED op
     ELSE CASE route = "pending" -> Leave(q) /\ SetOp("waiting", "waiting_for_route")
            [] route = "failed" -> Leave(q) /\ SetOp("failed", "route_failed")
            [] route = "active" ->
                 /\ task' = [task EXCEPT ![q] = [@ EXCEPT !.at = "make", !.n = 2, !.seen = op.recorded,
                                                          !.past = FALSE]]
                 /\ UNCHANGED op
  /\ UNCHANGED <<made, taken, route, cut, faults>>

\* A statement of it fails, and nothing catches that.
ContinueFails(q) ==
  /\ task[q].at = "continue"
  /\ Leave(q)
  /\ Fault
  /\ UNCHANGED <<op, made, taken, route, cut>>

\* Where a request goes on once the thing of its step is there and recorded.
After(q, t) ==
  task' = [task EXCEPT ![q].at = CASE t = "route" -> "continue"
                                   [] t = "access" -> "reconcile"
                                   [] t = "connector" -> "finish"
                                   [] OTHER -> "make",
                       ![q].n = IF t \in {"account", "tunnel"} THEN @ + 1 ELSE @]

\* A tunnel is looked for by the name the operation gives it, and a route too.
Found(t) == t \in {"tunnel", "route"} /\ made[t] > 0

\* Unique indexes keep the store from having it twice; Cloudflare would.
Refused(t) == t # "tunnel" /\ (made[t] > 0 \/ t \in taken)

\* The thing of the step is on the row, or looked for.
Look(q) ==
  LET t == Thing(q) IN
  /\ task[q].at = "make"
  /\ IF t \in task[q].seen THEN After(q, t)
     ELSE Goto(q, IF Found(t) THEN "record" ELSE "create")
  /\ UNCHANGED <<op, made, taken, route, cut, faults>>

Make(q) ==
  LET t == Thing(q) IN
  /\ task[q].at = "create"
  /\ ~Refused(t)
  /\ made' = [made EXCEPT ![t] = @ + 1]
  /\ cut' = cut \ {t}
  /\ Goto(q, "record")
  /\ UNCHANGED <<op, taken, route, faults>>

\* What goes wrong with the route of a publish leaves the operation as it is:
\* nothing catches it.
Thrown(q) == IF Thing(q) = "route" THEN Leave(q) ELSE Goto(q, "catch")

MakeRefused(q) ==
  /\ task[q].at = "create"
  /\ Refused(Thing(q))
  /\ Thrown(q)
  /\ UNCHANGED <<op, made, taken, route, cut, faults>>

\* A token that is refused, an identity that is not verified, a statement that
\* fails, or an answer that is lost after the thing was made.
MakeFails(q) ==
  LET t == Thing(q) IN
  /\ task[q].at \in {"make", "create"}
  /\ \/ UNCHANGED <<made, cut>>
     \/ /\ task[q].at = "create"
        /\ ~Refused(t)
        /\ made' = [made EXCEPT ![t] = @ + 1]
        /\ cut' = cut \cup {t}
  /\ Thrown(q)
  /\ Fault
  /\ UNCHANGED <<op, taken, route>>

\* Mutant of Noted: a connector is not recorded.
NotedButConnector(t) == {t} \ {"connector"}

\* What the update records.
Noted(t) == {t}

\* The row as the update leaves it that records what was made or found.
WithRecorded(t) ==
  [op EXCEPT !.recorded = @ \cup Noted(t),
             !.status = CASE t = "route" -> "waiting" [] t = "access" -> "pending" [] OTHER -> @,
             !.stage = CASE t = "route" -> "waiting_for_route"
                         [] t = "access" -> "domain_access_created" [] OTHER -> @]

\* An account that is gone by now cannot be referred to.
Gone(t) == t = "account" /\ made[t] = 0

Record(q) ==
  LET t == Thing(q) IN
  /\ task[q].at = "record"
  /\ IF Gone(t) THEN Thrown(q) /\ UNCHANGED <<op, cut>>
     ELSE After(q, t) /\ op' = WithRecorded(t) /\ cut' = cut \ {t}
  /\ UNCHANGED <<made, taken, route, faults>>

\* The update fails, or its answer is lost.
RecordFails(q) ==
  LET t == Thing(q) IN
  /\ task[q].at = "record"
  /\ ~Gone(t)
  /\ \/ op' = WithRecorded(t) /\ cut' = cut \ {t}
     \/ op' = op /\ cut' = cut \cup ({t} \ op.recorded)
  /\ Thrown(q)
  /\ Fault
  /\ UNCHANGED <<made, taken, route>>

\* reconcileDomainAccess ends well, and the publish waits for its verification.
Reconciled(q) ==
  /\ task[q].at = "reconcile"
  /\ Leave(q)
  /\ SetOp("waiting", "pending_https_verification")
  /\ UNCHANGED <<made, taken, route, cut, faults>>

\* It fails, or the update after it does.
ReconcileFails(q) ==
  /\ task[q].at = "reconcile"
  /\ Goto(q, "catch")
  /\ UNCHANGED op \/ SetOp("waiting", "pending_https_verification")
  /\ Fault
  /\ UNCHANGED <<made, taken, route, cut>>

\* Every update of the row that makes it succeed.
Succeed(tasks) ==
  /\ op' = [op EXCEPT !.status = "succeeded", !.stage = "complete", !.request = FALSE]
  /\ task' = [q \in Requests |-> [tasks[q] EXCEPT !.past = @ \/ tasks[q].at # "idle"]]

Finish(q) ==
  /\ task[q].at = "finish"
  /\ Succeed([task EXCEPT ![q] = Idle])
  /\ UNCHANGED <<made, taken, route, cut, faults>>

\* The update fails, or its answer is lost.
FinishFails(q) ==
  /\ task[q].at = "finish"
  /\ \/ Goto(q, "catch") /\ UNCHANGED op
     \/ Succeed([task EXCEPT ![q].at = "catch"])
  /\ Fault
  /\ UNCHANGED <<made, taken, route, cut>>

\* What was caught is written on the row.
Catch(q) ==
  /\ task[q].at = "catch"
  /\ Leave(q)
  /\ SetOp("failed", IF op.kind = "bootstrap" THEN "created" ELSE op.stage)
  /\ UNCHANGED <<made, taken, route, cut, faults>>

\* That update fails too.
CatchFails(q) ==
  /\ task[q].at = "catch"
  /\ Leave(q)
  /\ Fault
  /\ UNCHANGED <<op, made, taken, route, cut>>

-----------------------------------------------------------------------------
(* The surroundings *)

\* reconcileGuidedVerifications
Awaited == op.status = "waiting" /\ op.stage = "pending_https_verification"

Verified ==
  /\ Awaited
  /\ Succeed(task)
  /\ UNCHANGED <<made, taken, route, cut, faults>>

DeadlinePasses ==
  /\ Awaited
  /\ SetOp("failed", "https_verification_failed")
  /\ UNCHANGED <<made, taken, route, cut, task, faults>>

\* Mutant of Unreferenced: what refers to the account through an operation is
\* not counted.
UnreferencedByConnector == made["connector"] = 0

\* What keeps an account from being deleted.
Unreferenced == made["connector"] = 0 /\ "account" \notin op.recorded

\* deleteCloudflareAccount
DeleteAccount ==
  /\ made["account"] > 0
  /\ Unreferenced
  /\ made' = [made EXCEPT !["account"] = 0]
  /\ cut' = cut \ {"account"}
  /\ UNCHANGED <<op, taken, route, task, faults>>

\* The agent's result for the route's sync.
RouteSettles(status) ==
  /\ made["route"] > 0
  /\ route' = status
  /\ UNCHANGED <<op, made, taken, cut, task, faults>>

\* A user makes an account, a route or an access of its own in the same place.
Elsewhere(t) ==
  /\ t \in {"account", "route", "access"}
  /\ made[t] = 0
  /\ t = "access" => made["route"] > 0
  /\ taken' = taken \cup {t}
  /\ UNCHANGED <<op, made, route, cut, task, faults>>

Crash ==
  /\ cut' = cut \cup {Thing(q) : q \in {p \in Requests : task[p].at = "record" /\ Thing(p) \notin op.recorded}}
  /\ task' = [q \in Requests |-> Idle]
  /\ Fault
  /\ UNCHANGED <<op, made, taken, route>>

Next ==
  \/ \E q \in Requests : \/ Begin(q) \/ Resume(q) \/ Continue(q) \/ ContinueFails(q)
                         \/ Look(q) \/ Make(q) \/ MakeRefused(q) \/ MakeFails(q)
                         \/ Record(q) \/ RecordFails(q)
                         \/ Reconciled(q) \/ ReconcileFails(q)
                         \/ Finish(q) \/ FinishFails(q)
                         \/ Catch(q) \/ CatchFails(q)
  \/ Verified \/ DeadlinePasses
  \/ DeleteAccount
  \/ \E s \in {"active", "failed"} : RouteSettles(s)
  \/ \E t \in Things : Elsewhere(t)
  \/ Crash

Spec == Init /\ [][Next]_vars

-----------------------------------------------------------------------------
(* Properties *)

\* However often an operation is tried, retried, cut short and asked for twice at
\* a time, it makes no second tunnel, account, connector, route or access.
MadeOnce == \A t \in Things : made[t] <= 1

\* What a succeeded operation has made is there and stays there: nothing of it
\* was deleted while the rest was made.
SucceededHasAll ==
  op.status = "succeeded" =>
    \A n \in 1..Len(Steps) : made[Steps[n]] > 0

\* A retry finds what the operation has made: it is on the row, or has a name it
\* is found by.  The exception is what a crash or a failed statement cut off from
\* its record: a retry is then refused what the operation itself has made.
Resumable ==
  (\A q \in Requests : task[q].at = "idle") =>
    \A t \in Things : made[t] > 0 => t \in op.recorded \cup {"tunnel", "route"} \cup cut

\* A succeeded operation is taken back only by a request that was under way when
\* it succeeded.
SucceededIsKept ==
  [][op.status = "succeeded" /\ op'.status # "succeeded" => \E q \in Requests : task[q].past]_vars
=============================================================================
