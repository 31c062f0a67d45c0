----------------------------- MODULE Operations -----------------------------
(***************************************************************************)
(* Operations users ask for and an agent performs: backups and restores of *)
(* a stack, actions on a runtime project or one of its services, and the   *)
(* runs of a deployment, whose effect on the host is modelled too.         *)
(*                                                                         *)
(* Admission is a transaction that locks the target, looks for an active   *)
(* operation and inserts one with its command.  An operation is active     *)
(* exactly while its command is open (CommandDelivery), so an open row     *)
(* stands for both here.  A behaviour is about one target.                 *)
(***************************************************************************)
EXTENDS SyncQueue

CONSTANTS
  Clients,       \* requests being handled at a time
  MaxOperations  \* bound on the operations admitted

\* A stack, a project and a deployment each belong to one agent.
ASSUME OperationsAssumption ==
  MaxOperations \in Nat /\ \E a \in Agents : Agents = {a}

VARIABLES
  target,     \* what the operations are on
  request,    \* where the handling of each request is
  stamp,      \* the operations admitted so far
  restorable, \* a backup of the stack has succeeded
  dep,        \* the deployments row, and its number of revisions
  prior,      \* the prior revision each run was created with
  host,       \* the deployment's Compose file and what runs, 0 if none
  made,       \* what the agent has to say of its compensation
  verdict     \* how the deployment's last run ended

depVars == <<dep, prior, host, made, verdict>>
admissionVars == <<request, stamp>>
vars == <<syncVars, target, admissionVars, restorable, depVars>>

Kinds ==
  [stack |-> {"backup", "restore"}, runtime |-> {"project", "web", "database"},
   deployment |-> {"deploy", "rollback", "stop"}]
Idle == [stage |-> "none", kind |-> "none", rev |-> 0]

Deployments == [status : {"pending", "deploying", "active", "stopping", "stopped", "failed"},
                current : Revisions, revisions : Revisions]

\* Of a run that has ended only the prior revision still matters.
Runs == [1..MaxOperations -> Revisions]

TypeOK ==
  /\ SyncTypeOK(Kinds[target])
  /\ target \in DOMAIN Kinds
  /\ request \in [Clients -> [stage : {"none", "asked", "locked", "clear"},
                              kind : Kinds[target] \cup {"none"}, rev : Revisions]]
  /\ stamp \in 0..MaxOperations
  /\ restorable \in BOOLEAN
  /\ dep \in Deployments
  /\ prior \in Runs
  /\ host \in [file : Revisions, running : Revisions]
  /\ made \in {"none", "restored"}
  /\ verdict \in {"none", "succeeded", "restored", "failed"}

\* createDeployment: the row and its first revision.
NewDeployment == [status |-> "pending", current |-> 0, revisions |-> 1]

Init ==
  /\ SyncInit({})
  /\ target \in DOMAIN Kinds
  /\ request = [c \in Clients |-> Idle]
  /\ stamp = 0
  /\ restorable = FALSE
  /\ dep = NewDeployment
  /\ prior = [i \in 1..MaxOperations |-> 0]
  /\ host = [file |-> 0, running |-> 0]
  /\ made = "none"
  /\ verdict = "none"

-----------------------------------------------------------------------------
(* Admission *)

\* Two operations that may not be active together.
Overlap(k, l) == target = "runtime" => k = l \/ "project" \in {k, l}

\* The ones a unique index keeps apart.
SameSlot(k, l) == target = "deployment" \/ k = l

\* queueDeploymentRun, from the deployment as it reads it: the revision a run is
\* asked for.
Requestable(kind) ==
  CASE target # "deployment" -> {0}
    [] kind = "stop" -> {dep.current} \ {0}
    [] kind = "rollback" -> (1..dep.revisions) \ {dep.current}
    [] OTHER -> 1..dep.revisions

\* The handler checks the request.
Ask(c, kind, rev) ==
  /\ request[c].stage = "none"
  /\ kind \in Kinds[target]
  /\ rev \in Requestable(kind)
  /\ request' = [request EXCEPT ![c] = [stage |-> "asked", kind |-> kind, rev |-> rev]]
  /\ UNCHANGED <<syncVars, target, stamp, restorable, depVars>>

\* Mutant of LockFree: the target is not locked.
LockFreeAlways == TRUE

LockFree == \A c \in Clients : request[c].stage \notin {"locked", "clear"}

\* createBackup and createRestore lock the stack, createRuntimeOperation takes
\* the advisory lock of the project, createDeploymentRun locks the deployment.
\* Only a backup that succeeded is restored.
Lock(c) ==
  /\ request[c].stage = "asked"
  /\ LockFree
  /\ request' = [request EXCEPT ![c] =
       IF request[c].kind = "restore" /\ ~restorable THEN Idle ELSE [@ EXCEPT !.stage = "locked"]]
  /\ UNCHANGED <<syncVars, target, stamp, restorable, depVars>>

\* It looks for an active operation, and reports a conflict if there is one.
Check(c) ==
  /\ request[c].stage = "locked"
  /\ request' = [request EXCEPT ![c] =
       IF \E r \in open : Overlap(r.kind, request[c].kind) THEN Idle ELSE [@ EXCEPT !.stage = "clear"]]
  /\ UNCHANGED <<syncVars, target, stamp, restorable, depVars>>

\* It inserts the operation and its command and commits, unless a unique index
\* objects.
Insert(c) ==
  LET q == request[c] IN
  /\ q.stage = "clear"
  /\ stamp < MaxOperations
  /\ request' = [request EXCEPT ![c] = Idle]
  /\ IF \E r \in open : SameSlot(r.kind, q.kind)
     THEN UNCHANGED <<open, stamp, prior, dep>>
     ELSE \E a \in Agents :
          /\ open' = open \cup {NewRow(a, q.kind, q.rev, stamp + 1)}
          /\ stamp' = stamp + 1
          /\ prior' = [prior EXCEPT ![stamp + 1] = dep.current]
          /\ dep' = IF target = "deployment"
                    THEN [dep EXCEPT !.status = IF q.kind = "stop" THEN "stopping" ELSE "deploying"]
                    ELSE dep
  /\ UNCHANGED <<loopVars, interrupted, faults, target, restorable, host, made, verdict>>

\* createDeploymentRevision
Revised == [dep EXCEPT !.revisions = @ + 1]

\* A candidate from the same repository that the policy accepts.
AddRevision ==
  /\ target = "deployment"
  /\ LockFree
  /\ dep.revisions < MaxRevision
  /\ dep' = Revised
  /\ UNCHANGED <<syncVars, target, admissionVars, restorable, prior, host, made, verdict>>

-----------------------------------------------------------------------------
(* The agent *)

Unrelated == UNCHANGED <<target, admissionVars, restorable, depVars>>

Claim(a, r) == ClaimRow(a, r) /\ Unrelated
Expire(r) == LeaseExpires(r) /\ Unrelated
Lost(a) == AnswerLost(a) /\ Unrelated
Interrupted(a) == ReportInterrupted(a) /\ Unrelated

\* The poll handler sends the operation: of a run, the revision and its prior.
Answer(a) ==
  /\ AnswerWith(a, [enabled |-> held[a].kind # "stop", rev |-> held[a].rev])
  /\ Unrelated

Prior(a) == prior[held[a].stamp]

\* executeDeploymentComposeApply: what it leaves on the host when it succeeds,
\* when it refuses the candidate before it touches anything, when Compose fails
\* and the compensation restores the prior revision or removes an initial one,
\* and when the compensation fails as well or it is cut short.
Applied(a) ==
  IF held[a].kind = "stop" THEN [host EXCEPT !.running = 0]
  ELSE [file |-> held[a].rev, running |-> held[a].rev]

\* Mutant of Compensated: what ran before the deployment is not stopped.
CompensatedFileOnly(a) ==
  IF Prior(a) # 0 THEN [file |-> Prior(a), running |-> Prior(a)] ELSE host

Compensated(a) ==
  IF Prior(a) # 0 THEN [file |-> Prior(a), running |-> Prior(a)] ELSE [host EXCEPT !.running = 0]

Disturbed(a) ==
  IF held[a].kind = "stop" THEN {host, [host EXCEPT !.running = 0]}
  ELSE [file : {host.file, held[a].rev, Prior(a)}, running : {host.running, 0, held[a].rev, Prior(a)}]

\* A deployed file is needed to stop it.
CanApply(a) == held[a].kind = "stop" => host.file # 0

Perform(a) ==
  /\ ExecuteHeld(a, TRUE)
  /\ target = "deployment" => CanApply(a)
  /\ host' = IF target = "deployment" THEN Applied(a) ELSE host
  /\ made' = "none"
  /\ UNCHANGED <<target, admissionVars, restorable, dep, prior, verdict>>

Compensate(a) ==
  /\ target = "deployment"
  /\ held[a].kind # "stop"
  /\ ExecuteHeld(a, FALSE)
  /\ host' = Compensated(a)
  /\ made' = "restored"
  /\ UNCHANGED <<target, admissionVars, restorable, dep, prior, verdict>>

Fail(a) ==
  /\ ExecuteHeld(a, FALSE)
  /\ IF target = "deployment" THEN host' \in Disturbed(a) ELSE host' = host
  /\ made' = "none"
  /\ UNCHANGED <<target, admissionVars, restorable, dep, prior, verdict>>

Crash(a) ==
  /\ CrashExecuting(a)
  /\ IF target = "deployment" THEN host' \in Disturbed(a) ELSE host' = host
  /\ made' = "none"
  /\ UNCHANGED <<target, admissionVars, restorable, dep, prior, verdict>>

-----------------------------------------------------------------------------
(* Ends of an operation *)

\* Mutant of NewCurrent: a rollback leaves the current revision as it is.
NewCurrentOnDeploy(r, success) == IF success /\ r.kind = "deploy" THEN r.rev ELSE dep.current

\* Only a run that deployed something changes the current revision.
NewCurrent(r, success) == IF success /\ r.kind # "stop" THEN r.rev ELSE dep.current

\* completeCommand, for a run.
EndRun(r, success) ==
  IF target = "deployment"
  THEN dep' = [dep EXCEPT !.status = IF ~success THEN "failed" ELSE IF r.kind = "stop" THEN "stopped" ELSE "active",
                          !.current = NewCurrent(r, success)]
  ELSE UNCHANGED dep

Report(a) ==
  LET r == held[a]
      counts == Completes(a)  \* the row is still open
  IN
  /\ ReportHeld(a)
  /\ IF counts THEN EndRun(r, ok[a]) ELSE UNCHANGED dep
  /\ verdict' = IF ~counts THEN verdict ELSE IF ok[a] THEN "succeeded"
                ELSE IF made = "restored" THEN "restored" ELSE "failed"
  /\ restorable' = (restorable \/ (counts /\ ok[a] /\ r.kind = "backup"))
  /\ made' = "none"
  /\ UNCHANGED <<target, admissionVars, prior, host>>

\* The poll handler cannot authenticate the source of the run.
RefuseRun(a) ==
  LET counts == Completes(a) IN
  /\ target = "deployment"
  /\ Refuse(a)
  /\ IF counts THEN EndRun(held[a], FALSE) ELSE UNCHANGED dep
  /\ verdict' = IF counts THEN "failed" ELSE verdict
  /\ UNCHANGED <<target, admissionVars, restorable, prior, host, made>>

\* Mutant of StaleRun: the sweep ends the run but not the deployment's wait.
StaleRunOnly(r) == UNCHANGED dep

\* The sweep ends the run and fails the deployment.
StaleRun(r) == EndRun(r, FALSE)

FailStale(r) ==
  /\ FailStaleRow(r)
  /\ StaleRun(r)
  /\ verdict' = "failed"
  /\ UNCHANGED <<target, admissionVars, restorable, prior, host, made>>

Next ==
  \/ \E c \in Clients :
       \/ \E k \in UNION {Kinds[t] : t \in DOMAIN Kinds}, r \in Revisions : Ask(c, k, r)
       \/ Lock(c)
       \/ Check(c)
       \/ Insert(c)
  \/ AddRevision
  \/ \E a \in Agents :
       \/ \E r \in open : Claim(a, r)
       \/ Answer(a)
       \/ Lost(a)
       \/ Perform(a)
       \/ Compensate(a)
       \/ Fail(a)
       \/ Crash(a)
       \/ Interrupted(a)
       \/ Report(a)
       \/ RefuseRun(a)
  \/ \E r \in open : Expire(r) \/ FailStale(r)

Spec == Init /\ [][Next]_vars

-----------------------------------------------------------------------------
(* Properties *)

\* No two operations that would disturb each other are active on a target: not a
\* backup with a restore, an action on a project with one on its service, or two
\* runs.  The unique indexes alone do not see that these overlap.
NoOverlap ==
  \A r, s \in open : r # s => ~Overlap(r.kind, s.kind)

\* A deployment shown as active runs its current revision, from the file that
\* says so: after runs that failed, were compensated, cut short or swept while
\* the agent still worked on them.
ActiveRunsCurrent ==
  dep.status = "active" => host = [file |-> dep.current, running |-> dep.current]

\* A failed run that reports its compensation as done has left the current
\* revision running, or nothing if there is none: the prior revision recorded
\* when the run was created is still the current one.
CompensationRestoresCurrent ==
  verdict = "restored" /\ open = {} /\ (\A a \in Agents : at[a] = "idle")
    => host.running = dep.current

\* A deployment that is being changed has a run that will end the change: an
\* agent's result, a refusal or the sweep.
ChangingHasRun ==
  dep.status \in {"deploying", "stopping"} => open # {}
=============================================================================
