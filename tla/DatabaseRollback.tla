-------------------------- MODULE DatabaseRollback --------------------------
(***************************************************************************)
(* The command system with system recovery: an owner backs the control     *)
(* plane's database up and later puts the snapshot back, "discarding every *)
(* post-snapshot write", while the agents keep their journals.  Commands   *)
(* that ended since the snapshot are handed out again, and commands created*)
(* since are gone although the agent may have executed them.  Staging and  *)
(* applying a restore are one step here; the writer is stopped meanwhile.  *)
(***************************************************************************)
EXTENDS CommandDelivery

CONSTANT MaxRollbacks

ASSUME RollbackAssumption == MaxRollbacks \in Nat

VARIABLES
  snapshot,   \* the queue's rows in the latest backup
  lost,       \* commands whose rows a rollback discarded: their ids never return
  rollbacks   \* how many rollbacks there were

recoveryVars == <<snapshot, lost, rollbacks>>
rvars == <<vars, recoveryVars>>

QueueRows == [kind |-> kind, status |-> status, result |-> result,
              leased |-> leased, operation |-> operation, events |-> events]

\* The command system as it would be with the snapshot's rows.
Snap == INSTANCE CommandDelivery WITH
  kind <- snapshot.kind, status <- snapshot.status, result <- snapshot.result,
  leased <- snapshot.leased, operation <- snapshot.operation, events <- snapshot.events

RInit ==
  /\ Init
  /\ snapshot = QueueRows
  /\ lost = {}
  /\ rollbacks = 0

\* pg_dump takes one consistent snapshot.
TakeBackup ==
  /\ snapshot' = QueueRows
  /\ UNCHANGED <<vars, lost, rollbacks>>

\* pg_restore --clean --single-transaction.  The control plane is stopped, so
\* a poll it was about to answer fails on the agent.
Rollback ==
  /\ rollbacks < MaxRollbacks
  /\ rollbacks' = rollbacks + 1
  /\ kind' = snapshot.kind /\ status' = snapshot.status /\ result' = snapshot.result
  /\ leased' = snapshot.leased /\ operation' = snapshot.operation /\ events' = snapshot.events
  /\ lost' = lost \cup {c \in Commands : status[c] # "absent" /\ snapshot.status[c] = "absent"}
  /\ IF pc = "answer" THEN BackToTop ELSE UNCHANGED <<pc, cur>>
  /\ UNCHANGED <<snapshot, storeVars, History, faults>>

\* A new command has a new id.
Step ==
  /\ Next
  /\ \A c \in lost : status'[c] = "absent"
  /\ UNCHANGED recoveryVars

\* A command that ended before the rollback is received again.
Redeliver == HandleRecorded /\ UNCHANGED recoveryVars

RNext == Step \/ Redeliver \/ TakeBackup \/ Rollback

RSpec == RInit /\ [][RNext]_rvars

RFairSpec ==
  /\ RSpec
  /\ WF_rvars((Loop \/ HandleRecorded) /\ UNCHANGED recoveryVars)
  /\ \A c \in Commands : WF_rvars(Expire(c) /\ UNCHANGED recoveryVars)

-----------------------------------------------------------------------------
(* Properties *)

\* AtMostOnceExecution and SuccessIsReal of CommandDelivery still hold, unlike
\* DeliveredIsRecorded and VerdictIsFinal: what a rollback takes back, the
\* journal remembers (store.go keeps tombstones).

\* The agent owes a result that the control plane refuses: the command is gone
\* (404), or it is back to pending and cannot be completed (409).
OwedAndRefused == \E d \in PendingResults :
  CompletionOutcome(d, mem.rec[d]) \in {"missing", "conflict"}

\* A command that is offered again is decided again, from the journal.  The one
\* thing in its way is a result that was owed when the database went back, and
\* is now refused again and again (commandLoop, completeCommand).
DecidedAgain == \A c \in Commands :
  status[c] \in {"pending", "claimed"} ~>
    (status[c] \in Terminal \/ c \in lost \/ OwedAndRefused)

\* What the snapshot holds is a past state of the queue, which the present
\* journal is ahead of.
SnapshotOK ==
  /\ Snap!QueueTypeOK
  /\ Snap!QueueOK
  /\ Snap!SuccessesOK

\* The inductive invariant: that of CommandDelivery without DeliveryOK and
\* ReceivedOK, as a rollback takes back what was delivered, and the same of the
\* snapshot.
RInv ==
  /\ TypeOK /\ PlaceOK /\ JournalOK /\ SuccessesOK /\ QueueOK
  /\ SnapshotOK
=============================================================================
