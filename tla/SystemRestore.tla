--------------------------- MODULE SystemRestore ---------------------------
(***************************************************************************)
(* System recovery: restores are staged by the control plane as files      *)
(* (stageRestore, several calls at a time), requested through a spool      *)
(* (requestApply), claimed by the supervisor on the host, and applied by   *)
(* recover.sh, which stops the control plane (the "writer"), runs the      *)
(* one-shot applyStagedSystemRestore and starts the writer again.          *)
(*                                                                         *)
(* Each process may die between any two of its steps, and each fallible    *)
(* step may fail; MaxFaults bounds how often.  The files survive; the rows *)
(* are replaced by those of the backup, which knows nothing of the restore.*)
(***************************************************************************)
EXTENDS Naturals

CONSTANTS
  Attempts,   \* calls of stageRestore, each with a token of its own
  None,       \* no attempt
  MaxFaults

ASSUME RestoreAssumption == None \notin Attempts /\ MaxFaults \in Nat

MarkerNames == {"pending", "applying", "applied"}

VARIABLES
  at,        \* the place of each stageRestore call
  row,       \* its row in system_restores
  lock,      \* restore.lock: the attempt whose token it holds
  marker,    \* the marker files restore.pending, .applying and .applied
  dumps,     \* the attempts whose database dump is in the staging directory
  writer,    \* whether the control plane runs
  asked,     \* the active row of system_recovery_requests
  linking,   \* requestApply has its row and not yet its file
  pending,   \* request.pending in the spool
  claimed,   \* request.claimed
  sup,       \* the supervisor's place
  report,    \* what the supervisor reported of each restore
  rec,       \* the place of recover.sh and the restore it runs
  job,       \* the attempt whose marker it read
  effect,    \* what became of each dump: restored into the database, finalized,
             \* then served by a running writer
  faults

stageVars   == <<at, row, lock, marker, dumps>>
requestVars == <<asked, linking, pending>>
hostVars    == <<claimed, sup, report>>
recVars     == <<rec, job, effect, writer>>
vars == <<stageVars, requestVars, hostVars, recVars, faults>>

StagePlaces == {"new", "locked", "refuse", "copied", "recorded", "published",
                "undoMarker", "undoDump", "undoRow", "undoLock", "ended"}
RestorePlaces == {"check", "begin", "restore", "finalize", "conclude", "unlock", "unmark", "undump"}
RecoverPlaces == {"idle", "stop", "start", "ok", "failed"} \cup RestorePlaces
Maybe == Attempts \cup {None}

TypeOK ==
  /\ at \in [Attempts -> StagePlaces]
  /\ row \in [Attempts -> {"none", "staging", "staged", "failed"}]
  /\ lock \in Maybe
  /\ marker \in [MarkerNames -> Maybe]
  /\ dumps \subseteq Attempts
  /\ writer \in BOOLEAN
  /\ asked \in Maybe /\ pending \in Maybe /\ claimed \in Maybe
  /\ linking \in BOOLEAN
  /\ linking => asked # None /\ writer
  /\ sup \in {"loop", "run", "report"}
  /\ sup # "loop" => claimed # None
  /\ report \in [Attempts -> {"none", "succeeded", "failed"}]
  /\ rec \in RecoverPlaces
  /\ job \in Maybe
  /\ rec \in RestorePlaces \ {"check"} => job # None
  /\ sup = "run" => rec # "idle"
  /\ effect \in [Attempts -> {"none", "restored", "finalized", "served"}]
  /\ faults \in 0..MaxFaults

NoMarker == [n \in MarkerNames |-> None]
Only(name, a) == [n \in MarkerNames |-> IF n = name THEN a ELSE None]

Init ==
  /\ at = [a \in Attempts |-> "new"]
  /\ row = [a \in Attempts |-> "none"]
  /\ lock = None /\ marker = NoMarker /\ dumps = {}
  /\ writer = TRUE
  /\ asked = None /\ linking = FALSE /\ pending = None
  /\ claimed = None /\ sup = "loop" /\ report = [a \in Attempts |-> "none"]
  /\ rec = "idle" /\ job = None /\ effect = [a \in Attempts |-> "none"]
  /\ faults = 0

Fault == faults < MaxFaults /\ faults' = faults + 1

-----------------------------------------------------------------------------
(* stageRestore and prepareStage *)

Move(a, from, to) ==
  /\ writer
  /\ at[a] = from
  /\ at' = [at EXCEPT ![a] = to]
  /\ UNCHANGED <<requestVars, hostVars, recVars>>

Stage(a, from, to) == Move(a, from, to) /\ UNCHANGED faults

TakeLock(a) ==
  /\ Stage(a, "new", "locked")
  /\ lock = None
  /\ lock' = a
  /\ UNCHANGED <<row, marker, dumps>>

\* The file exists already: refused, with a failed row.
LockTaken(a) ==
  /\ Stage(a, "new", "ended")
  /\ lock # None
  /\ row' = [row EXCEPT ![a] = "failed"]
  /\ UNCHANGED <<lock, marker, dumps>>

CopyDump(a) ==
  /\ Stage(a, "locked", "copied")
  /\ marker = NoMarker
  /\ dumps' = dumps \cup {a}
  /\ UNCHANGED <<row, lock, marker>>

MarkerSeen(a) ==
  /\ Stage(a, "locked", "refuse")
  /\ marker # NoMarker
  /\ UNCHANGED <<row, lock, marker, dumps>>

OwnLockRemoved(a) == lock' = IF lock = a THEN None ELSE lock

Refuse(a) ==
  /\ Stage(a, "refuse", "ended")
  /\ OwnLockRemoved(a)
  /\ row' = [row EXCEPT ![a] = "failed"]
  /\ UNCHANGED <<marker, dumps>>

Record(a) ==
  /\ Stage(a, "copied", "recorded")
  /\ row' = [row EXCEPT ![a] = "staging"]
  /\ UNCHANGED <<lock, marker, dumps>>

Publish(a) ==
  /\ Stage(a, "recorded", "published")
  /\ marker' = [marker EXCEPT !["pending"] = a]
  /\ UNCHANGED <<row, lock, dumps>>

MarkStaged(a) ==
  /\ Stage(a, "published", "ended")
  /\ row' = [row EXCEPT ![a] = "staged"]
  /\ UNCHANGED <<lock, marker, dumps>>

\* A step failed.  Before the copy is complete, prepareStage cleans up itself.
\* The row may say "staged" although the update reported an error.
StagingFails(a) ==
  /\ \/ Move(a, "locked", "refuse") /\ UNCHANGED row
     \/ \E p \in {"copied", "recorded"} : Move(a, p, "undoMarker") /\ UNCHANGED row
     \/ Move(a, "published", "undoMarker") /\ row' \in {row, [row EXCEPT ![a] = "staged"]}
  /\ Fault
  /\ UNCHANGED <<lock, marker, dumps>>

UndoMarker(a) ==
  /\ Stage(a, "undoMarker", "undoDump")
  /\ marker' = [marker EXCEPT !["pending"] = IF @ = a THEN None ELSE @]
  /\ UNCHANGED <<row, lock, dumps>>

UndoDump(a) ==
  /\ Stage(a, "undoDump", "undoRow")
  /\ dumps' = dumps \ {a}
  /\ UNCHANGED <<row, lock, marker>>

\* Only a row that is still "staging" becomes "failed".
UndoRow(a) ==
  /\ Stage(a, "undoRow", "undoLock")
  /\ row' = [row EXCEPT ![a] = IF @ = "staging" THEN "failed" ELSE @]
  /\ UNCHANGED <<lock, marker, dumps>>

UndoLock(a) ==
  /\ Stage(a, "undoLock", "ended")
  /\ OwnLockRemoved(a)
  /\ UNCHANGED <<row, marker, dumps>>

Staging(a) ==
  \/ TakeLock(a) \/ LockTaken(a) \/ CopyDump(a) \/ MarkerSeen(a) \/ Refuse(a)
  \/ Record(a) \/ Publish(a) \/ MarkStaged(a)
  \/ UndoMarker(a) \/ UndoDump(a) \/ UndoRow(a) \/ UndoLock(a)

-----------------------------------------------------------------------------
(* requestApply *)

\* createSystemRecoveryRequest: one active row at a time
\* (system_recovery_requests_one_active_idx).
NoneActive == asked = None

RequestApply(a) ==
  /\ writer
  /\ row[a] = "staged"
  /\ NoneActive
  /\ asked' = a
  /\ linking' = TRUE
  /\ UNCHANGED <<pending, stageVars, hostVars, recVars, faults>>

\* The file is linked under its final name.  The row stays active.
LinkRequest ==
  /\ linking
  /\ pending = None
  /\ pending' = asked
  /\ linking' = FALSE
  /\ UNCHANGED <<asked, stageVars, hostVars, recVars, faults>>

\* finishSystemRecoveryRequest, for a request that was not published.
RequestFails == asked' = None

\* The name is taken: the row fails.
LinkRefused ==
  /\ linking
  /\ pending # None
  /\ linking' = FALSE
  /\ RequestFails
  /\ UNCHANGED <<pending, stageVars, hostVars, recVars, faults>>

\* An error before the link or after it fails the row; that may fail, too.
LinkFails ==
  /\ linking
  /\ linking' = FALSE
  /\ RequestFails \/ UNCHANGED asked
  /\ pending' \in IF pending = None THEN {None, asked} ELSE {pending}
  /\ Fault
  /\ UNCHANGED <<stageVars, hostVars, recVars>>

-----------------------------------------------------------------------------
(* recover.sh and applyStagedSystemRestore *)

Recover(from, to) == rec = from /\ rec' = to

\* The control plane's process ends: its calls go no further.
Killed ==
  /\ at' = [a \in Attempts |-> IF at[a] = "new" THEN "new" ELSE "ended"]
  /\ linking' = FALSE

StopWriter ==
  /\ Recover("stop", "check")
  /\ Killed
  /\ writer' = FALSE
  /\ UNCHANGED <<row, lock, marker, dumps, asked, pending, hostVars, job, effect, faults>>

\* The checks: one marker, its lock (which an applied restore may have lost)
\* and its dump.
Accepts(n, a) ==
  /\ a # None
  /\ marker = Only(n, a)
  /\ lock = a \/ (n = "applied" /\ lock = None)
  /\ a \in dumps

FirstStep(n) == CASE n = "pending" -> "begin" [] n = "applying" -> "restore" [] n = "applied" -> "unlock"

CheckMarker(n) ==
  /\ Recover("check", FirstStep(n))
  /\ Accepts(n, marker[n])
  /\ job' = marker[n]
  /\ UNCHANGED <<stageVars, requestVars, hostVars, effect, writer, faults>>

CheckRefused ==
  /\ Recover("check", "failed")
  /\ \A n \in MarkerNames : ~Accepts(n, marker[n])
  /\ UNCHANGED <<stageVars, requestVars, hostVars, job, effect, writer, faults>>

BeginRestore ==
  /\ Recover("begin", "restore")
  /\ marker' = [marker EXCEPT !["pending"] = None, !["applying"] = job]
  /\ UNCHANGED <<at, row, lock, dumps, requestVars, hostVars, job, effect, writer, faults>>

\* pg_restore, in one transaction.  The rows of the restores and requests made
\* since the backup are gone.
RestoreDatabase ==
  /\ Recover("restore", "finalize")
  /\ effect' = [effect EXCEPT ![job] = "restored"]
  /\ row' = [a \in Attempts |-> "none"]
  /\ asked' = None
  /\ UNCHANGED <<at, lock, marker, dumps, linking, pending, hostVars, job, writer, faults>>

\* The backup's own row, running in the dump, is completed.
FinalizeBackup ==
  /\ Recover("finalize", "conclude")
  /\ effect' = [effect EXCEPT ![job] = "finalized"]
  /\ UNCHANGED <<stageVars, requestVars, hostVars, job, writer, faults>>

\* Mutant of ConcludeRestore: the lock is removed, the marker not renamed.
ConcludeRestoreEarly ==
  /\ Recover("conclude", "unmark")
  /\ lock' = None
  /\ UNCHANGED <<at, row, marker, dumps, requestVars, hostVars, job, effect, writer, faults>>

ConcludeRestore ==
  /\ Recover("conclude", "unlock")
  /\ marker' = [marker EXCEPT !["applying"] = None, !["applied"] = job]
  /\ UNCHANGED <<at, row, lock, dumps, requestVars, hostVars, job, effect, writer, faults>>

RemoveLock ==
  /\ Recover("unlock", "unmark")
  /\ lock' = None
  /\ UNCHANGED <<at, row, marker, dumps, requestVars, hostVars, job, effect, writer, faults>>

RemoveMarker ==
  /\ Recover("unmark", "undump")
  /\ marker' = [marker EXCEPT !["applied"] = None]
  /\ UNCHANGED <<at, row, lock, dumps, requestVars, hostVars, job, effect, writer, faults>>

RemoveDump ==
  /\ Recover("undump", "start")
  /\ dumps' = dumps \ {job}
  /\ UNCHANGED <<at, row, lock, marker, requestVars, hostVars, job, effect, writer, faults>>

\* The writer runs on what is in the database.
Serve ==
  /\ writer' = TRUE
  /\ effect' = [a \in Attempts |-> IF effect[a] = "finalized" THEN "served" ELSE effect[a]]

StartWriter ==
  /\ Recover("start", "ok")
  /\ Serve
  /\ UNCHANGED <<stageVars, requestVars, hostVars, job, faults>>

\* Started, but not ready in time: recover.sh fails.
NotReady ==
  /\ Recover("start", "failed")
  /\ Serve
  /\ Fault
  /\ UNCHANGED <<stageVars, requestVars, hostVars, job>>

\* Mutant of RecoverFails: recover.sh goes on when the restore failed.
RecoverFailsIgnored ==
  /\ rec \in {"stop", "start"} \cup RestorePlaces
  /\ rec' = IF rec \in RestorePlaces THEN "start" ELSE "failed"
  /\ Fault
  /\ UNCHANGED <<stageVars, requestVars, hostVars, job, effect, writer>>

\* Any command of recover.sh or of the restore fails, or its container dies.
RecoverFails ==
  /\ rec \in {"stop", "start"} \cup RestorePlaces
  /\ rec' = "failed"
  /\ Fault
  /\ UNCHANGED <<stageVars, requestVars, hostVars, job, effect, writer>>

-----------------------------------------------------------------------------
(* The supervisor, and the operator *)

\* An operator runs recover.sh for what is staged, when nothing else does.
ManualRecovery ==
  /\ Recover("idle", "stop")
  /\ pending = None /\ claimed = None
  /\ marker # NoMarker
  /\ UNCHANGED <<stageVars, requestVars, hostVars, job, effect, writer, faults>>

ManualEnd ==
  /\ sup # "run"
  /\ rec \in {"ok", "failed"}
  /\ rec' = "idle"
  /\ job' = None
  /\ UNCHANGED <<stageVars, requestVars, hostVars, effect, writer, faults>>

\* The operator starts the control plane, but never on a restore that is half
\* done ("do not start the writer").
OperatorStart ==
  /\ rec = "idle"
  /\ ~writer
  /\ marker["applying"] = None
  /\ Serve
  /\ UNCHANGED <<stageVars, requestVars, hostVars, rec, job, faults>>

Claim ==
  /\ sup = "loop"
  /\ claimed = None /\ pending # None
  /\ claimed' = pending
  /\ pending' = None
  /\ UNCHANGED <<asked, linking, sup, report, stageVars, recVars, faults>>

BeginRecovery ==
  /\ sup = "loop" /\ sup' = "run"
  /\ claimed # None
  /\ Recover("idle", "stop")
  /\ UNCHANGED <<claimed, report, stageVars, requestVars, job, effect, writer, faults>>

\* Mutant of EndRecovery: a failure of recover.sh is not handled.
EndRecoverySuccess ==
  /\ sup = "run" /\ sup' = "report"
  /\ rec = "ok"
  /\ report' = [report EXCEPT ![claimed] = "succeeded"]
  /\ rec' = "idle"
  /\ job' = None
  /\ UNCHANGED <<claimed, stageVars, requestVars, effect, writer, faults>>

EndRecovery ==
  /\ sup = "run" /\ sup' = "report"
  /\ rec \in {"ok", "failed"}
  /\ report' = [report EXCEPT ![claimed] = IF rec = "ok" THEN "succeeded" ELSE "failed"]
  /\ rec' = "idle"
  /\ job' = None
  /\ UNCHANGED <<claimed, stageVars, requestVars, effect, writer, faults>>

Archive ==
  /\ sup = "report" /\ sup' = "loop"
  /\ claimed' = None
  /\ UNCHANGED <<report, stageVars, requestVars, recVars, faults>>

\* The supervisor dies, with the recover.sh it runs, and is started again.
SupervisorDies ==
  /\ sup' = "loop"
  /\ IF sup = "run" THEN rec' = "idle" /\ job' = None ELSE UNCHANGED <<rec, job>>
  /\ Fault
  /\ UNCHANGED <<claimed, report, stageVars, requestVars, effect, writer>>

\* The control plane dies and is started again.
ServerDies ==
  /\ writer
  /\ Killed
  /\ Fault
  /\ UNCHANGED <<row, lock, marker, dumps, asked, pending, hostVars, recVars>>

-----------------------------------------------------------------------------

Requests == LinkRequest \/ LinkRefused \/ \E a \in Attempts : RequestApply(a)

Recovery ==
  \/ StopWriter \/ CheckRefused \/ \E n \in MarkerNames : CheckMarker(n)
  \/ BeginRestore \/ RestoreDatabase \/ FinalizeBackup \/ ConcludeRestore
  \/ RemoveLock \/ RemoveMarker \/ RemoveDump \/ StartWriter
  \/ ManualEnd

Supervisor == Claim \/ BeginRecovery \/ EndRecovery \/ Archive

Operator == ManualRecovery \/ OperatorStart

Failures ==
  \/ \E a \in Attempts : StagingFails(a)
  \/ LinkFails \/ NotReady \/ RecoverFails \/ SupervisorDies \/ ServerDies

Next == (\E a \in Attempts : Staging(a)) \/ Requests \/ Recovery \/ Supervisor \/ Operator \/ Failures

Spec == Init /\ [][Next]_vars

\* The supervisor loops every two seconds and recover.sh and what it runs go
\* on; nothing is assumed of owners, operators or the control plane.
FairSpec == Spec /\ WF_vars(Recovery) /\ WF_vars(Supervisor)

-----------------------------------------------------------------------------
(* Properties *)

\* A marker in the staging directory always passes the checks of the restore:
\* no crash of staging, of its rollback or of the restore itself leaves a
\* state that recover.sh refuses to resume (README.md, "retains its durable
\* recovery state").  The exception is a call of stageRestore that holds the
\* lock, or was stopped with it, while it found a restore applied but not
\* cleaned up.
ForeignLock == \E a \in dumps : marker = Only("applied", a) /\ lock \notin {None, a}

AlwaysApplicable ==
  marker # NoMarker => ForeignLock \/ \E n \in MarkerNames : Accepts(n, marker[n])

\* The control plane never runs on a database that was replaced and not
\* finalized (recover.sh starts it "only after successful recovery").
WholeRestoreOnly ==
  writer => \A a \in Attempts : effect[a] \notin {"restored", "finalized"}

\* Once the control plane runs on a restored database, that restore is never
\* run again over what was written since, whatever dies and is started again
\* ("never replayed").
NeverReplayed == [][
  \A a \in Attempts : effect[a] = "served" => effect'[a] = "served"]_vars

\* Every published request is recovered and reported by the supervisor,
\* through its crashes (test "resumes an interrupted claimed request").
RequestIsAnswered == \A a \in Attempts :
  (pending = a \/ claimed = a) ~> (claimed = None /\ report[a] # "none")

-----------------------------------------------------------------------------
(* The inductive invariant behind the safety properties *)

\* A call of stageRestore in progress holds the lock, and nothing else is
\* published until it is over.
StageOK == \A a \in Attempts : at[a] \notin {"new", "ended"} =>
  /\ writer
  /\ lock = a
  /\ at[a] \in {"copied", "recorded", "published", "undoMarker"} => a \in dumps
  /\ at[a] \in {"copied", "recorded", "undoDump", "undoRow", "undoLock"} => marker = NoMarker
  /\ at[a] = "published" => marker = Only("pending", a)
  /\ at[a] = "undoMarker" => marker \in {NoMarker, Only("pending", a)}

\* One marker, its dump, and its lock until it is applied.
MarkerOK ==
  \/ marker = NoMarker
  \/ \E a \in dumps : \/ marker \in {Only("pending", a), Only("applying", a)} /\ lock = a
                      \/ marker = Only("applied", a)

\* What recover.sh knows at each of its places.
RecOK ==
  /\ rec \in RestorePlaces \cup {"start"} => ~writer
  /\ rec = "begin" => marker = Only("pending", job)
  /\ rec \in {"restore", "finalize", "conclude"} => marker = Only("applying", job)
  /\ rec \in {"unlock", "unmark"} => marker = Only("applied", job)
  /\ rec \in {"undump", "start"} => marker = NoMarker
  /\ rec = "conclude" => effect[job] = "finalized"

\* The marker's name tells how far its restore got; a half-done one keeps the
\* writer stopped, and a served one is never to be applied.
EffectOK ==
  /\ writer => \A a \in Attempts : effect[a] # "finalized"
  /\ marker["applying"] # None => ~writer
  /\ \A a \in Attempts :
       /\ marker["pending"] = a => effect[a] = "none"
       /\ marker["applying"] = a => effect[a] # "served"
       /\ marker["applied"] = a => effect[a] \in {"finalized", "served"}
       /\ effect[a] = "restored" => marker["applying"] = a
       /\ effect[a] # "none" => at[a] = "ended"
       /\ (\E n \in MarkerNames : marker[n] = a) => at[a] \notin {"new", "locked", "refuse"}

IInv == TypeOK /\ StageOK /\ MarkerOK /\ RecOK /\ EffectOK
=============================================================================
