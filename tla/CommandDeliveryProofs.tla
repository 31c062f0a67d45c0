----------------------- MODULE CommandDeliveryProofs ------------------------
(***************************************************************************)
(* Machine-checked proofs about CommandDelivery, for any set of commands,  *)
(* any kinds and any number of faults and stale commands, and about        *)
(* DatabaseRollback, for any number of rollbacks to any snapshots.         *)
(***************************************************************************)
EXTENDS DatabaseRollback, TLAPS

-----------------------------------------------------------------------------
(* Facts about the operators *)

\* Every report ends the command it completes, one way or the other.
LEMMA StatusOfTerminal == \A r : StatusOf(r) \in Terminal
  BY DEF StatusOf, Terminal

\* What completeCommand stores for a report is a stored result.
LEMMA StoredResultType == \A c, r : r \in Results => StoredResult(c, r) \in Stored
  BY DEF StoredResult, Stored

\* Every step of the whole system is a step of the queue or leaves it alone:
\* the loop only reaches agent_commands through claimCommands and completeCommand.
LEMMA QueueSteps == TypeOK /\ PlaceOK /\ [Next]_vars => [QueueNext]_queueVars
<1> SUFFICES ASSUME TypeOK, PlaceOK, [Next]_vars PROVE [QueueNext]_queueVars
  OBVIOUS
<1> USE DEF TypeOK, PlaceOK, History
<1>1. ASSUME NEW c \in Commands, DeliverPending(c) \/ PollClaim(c) PROVE [QueueNext]_queueVars
  BY <1>1 DEF DeliverPending, PollClaim, QueueNext
<1>2. CASE NothingPending \/ PollEmpty \/ AnswerCommand \/ ExecuteBegin \/ SubmitRefused
  BY <1>2 DEF NothingPending, PollEmpty, AnswerCommand, ExecuteBegin, SubmitRefused
<1>3. CASE AnswerRejected
  <2>1. cur \in Commands
    BY <1>3 DEF AnswerRejected
  <2> QED
    BY <1>3, <2>1 DEF AnswerRejected, QueueNext, Results
<1>4. CASE SubmitAccepted \/ SubmitReplyLost
  <2>1. cur \in Commands /\ mem.rec[cur] \in Results /\ CompleteCommand(cur, mem.rec[cur])
    BY <1>4 DEF SubmitAccepted, SubmitReplyLost, Move, Results
  <2> QED
    BY <2>1 DEF QueueNext
<1>5. CASE \E w \in WriteOutcomes : HandleInterrupted(w) \/ HandleNew(w) \/ SaveOutcome(w) \/ RecordDelivery(w)
  BY <1>5 DEF HandleInterrupted, HandleNew, SaveOutcome, RecordDelivery
<1>6. CASE \E o \in {"ok", "failed"} : ExecuteEnd(o)
  BY <1>6 DEF ExecuteEnd
<1>7. CASE PollLost \/ SubmitLost \/ CrashRestart
  BY <1>7 DEF PollLost, SubmitLost, CrashRestart
<1>8. ASSUME NEW c \in Commands, Expire(c) \/ \E k \in Kinds : Create(c, k) PROVE [QueueNext]_queueVars
  BY <1>8 DEF Expire, Create, QueueNext
<1>9. ASSUME NEW S \in SUBSET Commands, Sweep(S) PROVE [QueueNext]_queueVars
  BY <1>9 DEF Sweep, QueueNext
<1>10. CASE UNCHANGED vars
  BY <1>10 DEF vars
<1> QED
  BY <1>1, <1>2, <1>3, <1>4, <1>5, <1>6, <1>7, <1>8, <1>9, <1>10 DEF Next, Loop, Failures, ControlPlane

-----------------------------------------------------------------------------
(* Type correctness *)

\* The queue's operations keep the types of its columns.
LEMMA QueueTypeStep == QueueTypeOK /\ [QueueNext]_queueVars => QueueTypeOK'
<1> SUFFICES ASSUME QueueTypeOK, [QueueNext]_queueVars PROVE QueueTypeOK'
  OBVIOUS
<1> USE DEF QueueTypeOK
<1>1. ASSUME NEW c \in Commands, NEW k \in Kinds, CreateCommand(c, k) PROVE QueueTypeOK'
  <2>1. k \in AllKinds
    BY QueueAssumption
  <2> QED
    BY <1>1, <2>1 DEF CreateCommand, Statuses, RowStatuses
<1>2. ASSUME NEW c \in Commands, ClaimCommand(c) PROVE QueueTypeOK'
  BY <1>2 DEF ClaimCommand, Statuses, RowStatuses
<1>3. ASSUME NEW c \in Commands, LeaseExpires(c) PROVE QueueTypeOK'
  BY <1>3 DEF LeaseExpires
<1>4. ASSUME NEW c \in Commands, NEW r \in Results, CompleteCommand(c, r) PROVE QueueTypeOK'
  <2>1. CASE CompletionOutcome(c, r) = "updated"
    <3>1. /\ StatusOf(r) \in Statuses
          /\ StatusOf(r) \in RowStatuses
          /\ StoredResult(c, r) \in Stored
      BY StatusOfTerminal, StoredResultType DEF Terminal, Statuses, RowStatuses
    <3>2. /\ status' = [status EXCEPT ![c] = StatusOf(r)]
          /\ result' = [result EXCEPT ![c] = StoredResult(c, r)]
          /\ leased' = leased \ {c}
          /\ operation' = [operation EXCEPT ![c] = IF CompletionReachesOperation(c) THEN StatusOf(r) ELSE @]
          /\ events' = [events EXCEPT ![c] = IF CompletionAnnounced(c, StatusOf(r)) THEN @ + 1 ELSE @]
          /\ kind' = kind
      BY <1>4, <2>1 DEF CompleteCommand
    <3> QED
      BY <3>1, <3>2
  <2>2. CASE CompletionOutcome(c, r) # "updated"
    BY <1>4, <2>2 DEF CompleteCommand, queueVars
  <2> QED
    BY <2>1, <2>2
<1>5. ASSUME NEW S \in SUBSET Commands, FailStaleCommands(S) PROVE QueueTypeOK'
  BY <1>5 DEF FailStaleCommands, Statuses, RowStatuses, Stored
<1>6. CASE UNCHANGED queueVars
  BY <1>6 DEF queueVars
<1> QED
  BY <1>1, <1>2, <1>3, <1>4, <1>5, <1>6 DEF QueueNext

\* A journal write keeps memory and file well formed.
LEMMA PersistType ==
  ASSUME StoreTypeOK, NEW image \in Images, NEW w, Persist(image, w)
  PROVE  StoreTypeOK'
  BY DEF StoreTypeOK, Persist

\* The images the journal's mutators write are well formed.
LEMMA ImageTypes ==
  ASSUME StoreTypeOK, NEW c \in Commands
  PROVE  /\ [mem EXCEPT !.rec[c] = "running"] \in Images
         /\ \A r \in AgentResults : [rec |-> [mem.rec EXCEPT ![c] = r], sent |-> mem.sent \ {c}] \in Images
         /\ [mem EXCEPT !.sent = @ \cup {c}] \in Images
  BY DEF StoreTypeOK, Images, Records

\* The journal stays well formed in every step.
LEMMA StoreTypeStep == TypeOK /\ PlaceOK /\ [Next]_vars => StoreTypeOK'
<1> SUFFICES ASSUME TypeOK, PlaceOK, [Next]_vars PROVE StoreTypeOK'
  OBVIOUS
<1>1. CASE UNCHANGED storeVars
  BY <1>1 DEF storeVars, TypeOK, StoreTypeOK
<1>2. CASE CrashRestart
  BY <1>2 DEF CrashRestart, Reopen, TypeOK, StoreTypeOK
<1>3. ASSUME NEW w \in WriteOutcomes, HandleInterrupted(w) \/ HandleNew(w) \/ SaveOutcome(w) \/ RecordDelivery(w)
      PROVE  StoreTypeOK'
  <2>1. cur \in Commands
    BY <1>3 DEF HandleInterrupted, HandleNew, SaveOutcome, RecordDelivery, TypeOK
  <2>2. StoreTypeOK
    BY DEF TypeOK
  <2>3. CASE HandleInterrupted(w)
    BY <2>1, <2>2, <2>3, ImageTypes, PersistType DEF HandleInterrupted, SaveResult, AgentResults
  <2>4. CASE HandleNew(w)
    BY <2>1, <2>2, <2>4, ImageTypes, PersistType DEF HandleNew, MarkRunning
  <2>5. CASE SaveOutcome(w)
    <3>1. outcome[cur] \in AgentResults
      BY <2>1, <2>5 DEF SaveOutcome, TypeOK, PlaceOK, AgentResults
    <3> QED
      BY <2>1, <2>2, <2>5, <3>1, ImageTypes, PersistType DEF SaveOutcome, SaveResult
  <2>6. CASE RecordDelivery(w)
    BY <2>1, <2>2, <2>6, ImageTypes, PersistType DEF RecordDelivery, MarkDelivered
  <2> QED
    BY <1>3, <2>3, <2>4, <2>5, <2>6
<1>4. CASE Loop /\ ~\E w \in WriteOutcomes : HandleInterrupted(w) \/ HandleNew(w) \/ SaveOutcome(w) \/ RecordDelivery(w)
  <2>1. UNCHANGED storeVars
    BY <1>4 DEF Loop, DeliverPending, PollClaim, NothingPending, PollEmpty, AnswerCommand, AnswerRejected,
                ExecuteBegin, ExecuteEnd, SubmitAccepted, SubmitRefused
  <2> QED
    BY <2>1, <1>1
<1>5. CASE PollLost \/ SubmitLost \/ SubmitReplyLost \/ ControlPlane
  <2>1. UNCHANGED storeVars
    BY <1>5 DEF PollLost, SubmitLost, SubmitReplyLost, ControlPlane, Expire, Create, Sweep
  <2> QED
    BY <2>1, <1>1
<1>6. CASE UNCHANGED vars
  BY <1>6, <1>1 DEF vars
<1> QED
  BY <1>2, <1>3, <1>4, <1>5, <1>6 DEF Next, Failures

\* The loop's own variables keep their types.
LEMMA AgentTypeStep ==
  TypeOK /\ PlaceOK /\ [Next]_vars =>
    (/\ pc \in Places
     /\ cur \in Commands \cup {NoCommand}
     /\ cur = NoCommand <=> pc \in {"deliver", "poll"}
     /\ runs \in [Commands -> Nat]
     /\ outcome \in [Commands -> {"none", "ok", "failed"}]
     /\ faults \in 0..MaxFaults)'
<1> DEFINE AgentTypeOK ==
      /\ pc \in Places
      /\ cur \in Commands \cup {NoCommand}
      /\ cur = NoCommand <=> pc \in {"deliver", "poll"}
      /\ runs \in [Commands -> Nat]
      /\ outcome \in [Commands -> {"none", "ok", "failed"}]
      /\ faults \in 0..MaxFaults
<1> SUFFICES ASSUME TypeOK, PlaceOK, [Next]_vars PROVE AgentTypeOK'
  OBVIOUS
<1> USE QueueAssumption, DeliveryAssumption DEF TypeOK, History, Places, NoCommand, Move, BackToTop, Fault, NoFault, AfterWrite
<1>1. ASSUME NEW c \in Commands, DeliverPending(c) \/ PollClaim(c) PROVE AgentTypeOK'
  BY <1>1 DEF DeliverPending, PollClaim
<1>2. CASE NothingPending \/ PollEmpty \/ AnswerCommand \/ AnswerRejected
  BY <1>2 DEF NothingPending, PollEmpty, AnswerCommand, AnswerRejected
<1>3. CASE ExecuteBegin
  BY <1>3 DEF ExecuteBegin
<1>4. ASSUME NEW o \in {"ok", "failed"}, ExecuteEnd(o) PROVE AgentTypeOK'
  BY <1>4 DEF ExecuteEnd
<1>5. CASE SubmitAccepted \/ SubmitRefused \/ SubmitLost \/ SubmitReplyLost \/ PollLost \/ CrashRestart
  BY <1>5 DEF SubmitAccepted, SubmitRefused, SubmitLost, SubmitReplyLost, PollLost, CrashRestart
<1>6. ASSUME NEW w \in WriteOutcomes, HandleInterrupted(w) \/ HandleNew(w) \/ SaveOutcome(w) \/ RecordDelivery(w)
      PROVE  AgentTypeOK'
  BY <1>6 DEF HandleInterrupted, HandleNew, SaveOutcome, RecordDelivery
<1>7. CASE ControlPlane
  BY <1>7 DEF ControlPlane, Expire, Create, Sweep, agentVars
<1>8. CASE UNCHANGED vars
  BY <1>8 DEF vars, agentVars
<1> QED
  BY <1>1, <1>2, <1>3, <1>4, <1>5, <1>6, <1>7, <1>8 DEF Next, Loop, Failures

\* TypeOK is preserved, given what the loop holds at each place.
LEMMA TypeStep == TypeOK /\ PlaceOK /\ [Next]_vars => TypeOK'
<1> SUFFICES ASSUME TypeOK, PlaceOK, [Next]_vars PROVE TypeOK'
  OBVIOUS
<1>1. QueueTypeOK'
  BY QueueSteps, QueueTypeStep DEF TypeOK
<1>2. StoreTypeOK'
  BY StoreTypeStep
<1> QED
  BY <1>1, <1>2, AgentTypeStep DEF TypeOK

-----------------------------------------------------------------------------
(* The journal and the loop *)

\* What the loop holds, and what the journal remembers, survive every step: a
\* command is begun only after its record reached the file.
LEMMA JournalStep == TypeOK /\ PlaceOK /\ JournalOK /\ [Next]_vars => PlaceOK' /\ JournalOK'
<1> SUFFICES ASSUME TypeOK, PlaceOK, JournalOK, [Next]_vars PROVE PlaceOK' /\ JournalOK'
  OBVIOUS
<1> USE QueueAssumption DEF TypeOK, StoreTypeOK, Images, Records, AgentResults, PlaceOK, JournalOK, History, Places,
        NoCommand, Move, BackToTop, storeVars
<1>1. ASSUME NEW c \in Commands, DeliverPending(c) PROVE PlaceOK' /\ JournalOK'
  BY <1>1 DEF DeliverPending, PendingResults
<1>2. ASSUME NEW c \in Commands, PollClaim(c) PROVE PlaceOK' /\ JournalOK'
  BY <1>2 DEF PollClaim
<1>3. CASE NothingPending \/ PollEmpty \/ AnswerCommand \/ AnswerRejected
  BY <1>3 DEF NothingPending, PollEmpty, AnswerCommand, AnswerRejected
<1>4. ASSUME NEW w \in WriteOutcomes, HandleInterrupted(w) PROVE PlaceOK' /\ JournalOK'
  BY <1>4 DEF HandleInterrupted, SaveResult, Persist, AfterWrite, WriteOutcomes
<1>5. ASSUME NEW w \in WriteOutcomes, HandleNew(w) PROVE PlaceOK' /\ JournalOK'
  BY <1>5 DEF HandleNew, MarkRunning, Persist, AfterWrite, WriteOutcomes
<1>6. CASE ExecuteBegin
  BY <1>6 DEF ExecuteBegin
<1>7. ASSUME NEW o \in {"ok", "failed"}, ExecuteEnd(o) PROVE PlaceOK' /\ JournalOK'
  BY <1>7 DEF ExecuteEnd
<1>8. ASSUME NEW w \in WriteOutcomes, SaveOutcome(w) PROVE PlaceOK' /\ JournalOK'
  BY <1>8 DEF SaveOutcome, SaveResult, Persist, AfterWrite, WriteOutcomes
<1>9. CASE SubmitAccepted \/ SubmitRefused \/ SubmitLost \/ SubmitReplyLost \/ PollLost
  BY <1>9 DEF SubmitAccepted, SubmitRefused, SubmitLost, SubmitReplyLost, PollLost
<1>10. ASSUME NEW w \in WriteOutcomes, RecordDelivery(w) PROVE PlaceOK' /\ JournalOK'
  BY <1>10 DEF RecordDelivery, MarkDelivered, Persist
<1>11. CASE CrashRestart
  BY <1>11 DEF CrashRestart, Reopen
<1>12. CASE ControlPlane
  BY <1>12 DEF ControlPlane, Expire, Create, Sweep, agentVars
<1>13. CASE UNCHANGED vars
  BY <1>13 DEF vars, agentVars
<1> QED
  BY <1>1, <1>2, <1>3, <1>4, <1>5, <1>6, <1>7, <1>8, <1>9, <1>10, <1>11, <1>12, <1>13 DEF Next, Loop, Failures

-----------------------------------------------------------------------------
(* The queue *)

\* Operation rows and announcements follow their command in every transaction.
LEMMA QueueOKStep == QueueTypeOK /\ QueueOK /\ [QueueNext]_queueVars => QueueOK'
<1> SUFFICES ASSUME QueueTypeOK, QueueOK, [QueueNext]_queueVars PROVE QueueOK'
  OBVIOUS
<1> USE DEF QueueTypeOK, QueueOK, Terminal, OperationKinds
<1>1. ASSUME NEW c \in Commands, NEW k \in Kinds, CreateCommand(c, k) PROVE QueueOK'
  BY <1>1, QueueAssumption DEF CreateCommand, AllKinds, ConnectorKinds, EntityKinds, PlainKinds
<1>2. ASSUME NEW c \in Commands, ClaimCommand(c) PROVE QueueOK'
  BY <1>2 DEF ClaimCommand, Claimable
<1>3. ASSUME NEW c \in Commands, LeaseExpires(c) PROVE QueueOK'
  BY <1>3 DEF LeaseExpires
<1>4. ASSUME NEW c \in Commands, NEW r \in Results, CompleteCommand(c, r) PROVE QueueOK'
  <2>1. CASE CompletionOutcome(c, r) = "updated"
    <3>1. status[c] = "claimed"
      BY <2>1 DEF CompletionOutcome
    <3>2. StatusOf(r) \in Terminal
      BY StatusOfTerminal
    <3>3. /\ status' = [status EXCEPT ![c] = StatusOf(r)]
          /\ operation' = [operation EXCEPT ![c] = IF CompletionReachesOperation(c) THEN StatusOf(r) ELSE @]
          /\ events' = [events EXCEPT ![c] = IF CompletionAnnounced(c, StatusOf(r)) THEN @ + 1 ELSE @]
          /\ kind' = kind
      BY <1>4, <2>1 DEF CompleteCommand
    <3>4. CompletionReachesOperation(c) <=> operation[c] # "none"
      BY <3>1 DEF CompletionReachesOperation
    <3>5. kind[c] \in {"backup", "runtime"} => CompletionAnnounced(c, StatusOf(r))
      BY <3>4 DEF CompletionAnnounced
    <3> QED
      BY <3>1, <3>2, <3>3, <3>4, <3>5
  <2>2. CASE CompletionOutcome(c, r) # "updated"
    BY <1>4, <2>2 DEF CompleteCommand, queueVars
  <2> QED
    BY <2>1, <2>2
<1>5. ASSUME NEW S \in SUBSET Commands, FailStaleCommands(S) PROVE QueueOK'
  BY <1>5 DEF FailStaleCommands, Sweepable, SweptRow, SweepAnnounced
<1>6. CASE UNCHANGED queueVars
  BY <1>6 DEF queueVars
<1> QED
  BY <1>1, <1>2, <1>3, <1>4, <1>5, <1>6 DEF QueueNext

\* No transaction of the queue touches an ended command: claimCommands and the
\* sweep select open rows only, completeCommand refuses or acknowledges.
LEMMA QueueFinal ==
  QueueTypeOK /\ [QueueNext]_queueVars =>
    \A c \in Commands : status[c] \in Terminal =>
      status'[c] = status[c] /\ result'[c] = result[c] /\ events'[c] = events[c] /\ kind'[c] = kind[c]
<1> SUFFICES ASSUME QueueTypeOK, [QueueNext]_queueVars, NEW c \in Commands, status[c] \in Terminal
             PROVE  status'[c] = status[c] /\ result'[c] = result[c] /\ events'[c] = events[c] /\ kind'[c] = kind[c]
  OBVIOUS
<1> USE DEF QueueTypeOK, Terminal
<1>1. ASSUME NEW d \in Commands, NEW k \in Kinds, CreateCommand(d, k)
      PROVE  status'[c] = status[c] /\ result'[c] = result[c] /\ events'[c] = events[c] /\ kind'[c] = kind[c]
  BY <1>1 DEF CreateCommand
<1>2. ASSUME NEW d \in Commands, ClaimCommand(d) \/ LeaseExpires(d)
      PROVE  status'[c] = status[c] /\ result'[c] = result[c] /\ events'[c] = events[c] /\ kind'[c] = kind[c]
  BY <1>2 DEF ClaimCommand, Claimable, LeaseExpires
<1>3. ASSUME NEW d \in Commands, NEW r \in Results, CompleteCommand(d, r)
      PROVE  status'[c] = status[c] /\ result'[c] = result[c] /\ events'[c] = events[c] /\ kind'[c] = kind[c]
  <2>1. CASE CompletionOutcome(d, r) = "updated"
    <3>1. status[d] = "claimed"
      BY <2>1 DEF CompletionOutcome
    <3> QED
      BY <1>3, <2>1, <3>1 DEF CompleteCommand
  <2> QED
    BY <1>3, <2>1 DEF CompleteCommand, queueVars
<1>4. ASSUME NEW S \in SUBSET Commands, FailStaleCommands(S)
      PROVE  status'[c] = status[c] /\ result'[c] = result[c] /\ events'[c] = events[c] /\ kind'[c] = kind[c]
  BY <1>4 DEF FailStaleCommands, Sweepable
<1> QED
  BY <1>1, <1>2, <1>3, <1>4 DEF QueueNext, queueVars

-----------------------------------------------------------------------------
(* What is delivered is recorded *)

\* A recorded report stays recorded.
LEMMA RecordedStable ==
  QueueTypeOK /\ [QueueNext]_queueVars =>
    \A c \in Commands : \A r : Recorded(c, r) => Recorded(c, r)'
  BY QueueFinal, StatusOfTerminal DEF Recorded, StoredResult

\* A report the control plane answers with 2xx is recorded afterwards.
LEMMA AcceptedIsRecorded ==
  ASSUME QueueTypeOK, NEW c \in Commands, NEW r \in Results, CompleteCommand(c, r),
         CompletionOutcome(c, r) \in {"updated", "idempotent"}
  PROVE  Recorded(c, r)'
<1>1. CASE CompletionOutcome(c, r) = "updated"
  BY <1>1 DEF CompleteCommand, Recorded, QueueTypeOK, StoredResult
<1>2. CASE CompletionOutcome(c, r) = "idempotent"
  <2>1. status[c] = StatusOf(r) /\ result[c] = StoredResult(c, r)
    BY <1>2 DEF CompletionOutcome
  <2> QED
    BY <1>2, <2>1 DEF CompleteCommand, Recorded, queueVars, StoredResult
<1> QED
  BY <1>1, <1>2

\* A success only comes from an execution that succeeded.
LEMMA SuccessStep ==
  TypeOK /\ PlaceOK /\ JournalOK /\ SuccessesOK /\ [Next]_vars => SuccessesOK'
<1> DEFINE Good == \A c \in Commands : status[c] = "succeeded" => outcome[c] = "ok"
<1> SUFFICES ASSUME TypeOK, PlaceOK, JournalOK, SuccessesOK, [Next]_vars PROVE Good'
  BY DEF SuccessesOK
<1>0. Good
  BY DEF SuccessesOK
<1> USE DEF TypeOK, QueueTypeOK, History
<1>1. CASE UNCHANGED <<queueVars, outcome>>
  BY <1>0, <1>1 DEF queueVars
<1>2. ASSUME NEW c \in Commands, NEW r \in Results, CompleteCommand(c, r), UNCHANGED outcome,
             r = "ok" => outcome[c] = "ok"
      PROVE  Good'
  BY <1>0, <1>2 DEF CompleteCommand, StatusOf, queueVars
<1>3. ASSUME NEW c \in Commands, PollClaim(c) PROVE Good'
  BY <1>0, <1>3 DEF PollClaim, ClaimCommand
<1>4. CASE AnswerRejected
  <2>1. cur \in Commands
    BY <1>4 DEF AnswerRejected
  <2> QED
    BY <1>2, <1>4, <2>1 DEF AnswerRejected, Results
<1>5. CASE SubmitAccepted \/ SubmitReplyLost
  <2>1. cur \in Commands /\ mem.rec[cur] \in Results
    BY <1>5 DEF SubmitAccepted, SubmitReplyLost, Move, PlaceOK, Results
  <2> QED
    BY <1>2, <1>5, <2>1 DEF SubmitAccepted, SubmitReplyLost, JournalOK
<1>6. ASSUME NEW o \in {"ok", "failed"}, ExecuteEnd(o) PROVE Good'
  BY <1>0, <1>6 DEF ExecuteEnd, PlaceOK, Move, queueVars
<1>7. CASE ControlPlane
  BY <1>0, <1>7 DEF ControlPlane, Expire, LeaseExpires, Create, CreateCommand, Sweep, FailStaleCommands, agentVars
<1>8. CASE Loop /\ ~\E c \in Commands : PollClaim(c)
  <2>1. ASSUME ~AnswerRejected, ~SubmitAccepted, ~\E o \in {"ok", "failed"} : ExecuteEnd(o)
        PROVE  UNCHANGED <<queueVars, outcome>>
    BY <1>8, <2>1 DEF Loop, DeliverPending, NothingPending, PollEmpty, AnswerCommand, ExecuteBegin,
       SubmitRefused, HandleInterrupted, HandleNew, SaveOutcome, RecordDelivery
  <2> QED
    BY <1>1, <1>4, <1>5, <1>6, <2>1
<1>9. CASE PollLost \/ SubmitLost \/ CrashRestart \/ UNCHANGED vars
  BY <1>1, <1>9 DEF PollLost, SubmitLost, CrashRestart, vars, agentVars
<1> QED
  BY <1>3, <1>5, <1>7, <1>8, <1>9 DEF Next, Failures

\* Only reports the control plane has recorded are ever marked delivered.
LEMMA DeliveryStep ==
  TypeOK /\ PlaceOK /\ JournalOK /\ DeliveryOK /\ [Next]_vars => DeliveryOK'
<1> DEFINE Sent(image) == \A c \in image.sent : image.rec[c] \in AgentResults /\ Recorded(c, image.rec[c])
<1> SUFFICES ASSUME TypeOK, PlaceOK, JournalOK, DeliveryOK, [Next]_vars
             PROVE  Sent(mem)' /\ Sent(disk)' /\ (pc = "mark" => Recorded(cur, mem.rec[cur]))'
  BY DEF DeliveryOK
<1>0. Sent(mem) /\ Sent(disk)
  BY DEF DeliveryOK
<1>1. \A c \in Commands : \A r : Recorded(c, r) => Recorded(c, r)'
  BY QueueSteps, RecordedStable DEF TypeOK
<1>2. mem.sent \subseteq Commands /\ disk.sent \subseteq Commands
  BY DEF TypeOK, StoreTypeOK, Images
<1>3. ASSUME mem' \in {mem, disk}, disk' = disk, pc' # "mark"
      PROVE  Sent(mem)' /\ Sent(disk)' /\ (pc = "mark" => Recorded(cur, mem.rec[cur]))'
  BY <1>0, <1>1, <1>2, <1>3
<1>4. CASE SubmitAccepted
  <2>1. cur \in Commands /\ mem.rec[cur] \in Results /\ cur' = cur /\ UNCHANGED storeVars
    BY <1>4 DEF SubmitAccepted, Move, PlaceOK, Results, TypeOK
  <2>2. Recorded(cur, mem.rec[cur])'
    BY <1>4, <2>1, AcceptedIsRecorded DEF SubmitAccepted, Answer2xx, TypeOK, storeVars, Recorded, StoredResult
  <2> QED
    BY <1>0, <1>1, <1>2, <2>1, <2>2 DEF storeVars
<1>5. ASSUME NEW w \in WriteOutcomes, HandleInterrupted(w) \/ HandleNew(w) \/ SaveOutcome(w)
      PROVE  Sent(mem)' /\ Sent(disk)' /\ (pc = "mark" => Recorded(cur, mem.rec[cur]))'
  <2>1. cur \in Commands /\ mem.rec[cur] \notin AgentResults
    BY <1>5 DEF HandleInterrupted, HandleNew, SaveOutcome, MarkRunning, PlaceOK, TypeOK, AgentResults
  <2>2. cur \notin mem.sent
    BY <1>0, <2>1
  <2>3. \E v \in Records : mem' = [rec |-> [mem.rec EXCEPT ![cur] = v], sent |-> mem.sent]
    <3>1. CASE HandleInterrupted(w)
      BY <2>2, <3>1 DEF HandleInterrupted, SaveResult, Persist, Records, AgentResults
    <3>2. CASE HandleNew(w)
      BY <3>2 DEF HandleNew, MarkRunning, Persist, Records, TypeOK, StoreTypeOK, Images
    <3>3. CASE SaveOutcome(w)
      <4>1. outcome[cur] \in Records
        BY <2>1, <3>3 DEF SaveOutcome, TypeOK, Records, AgentResults
      <4> QED
        BY <2>2, <3>3, <4>1 DEF SaveOutcome, SaveResult, Persist
    <3> QED
      BY <1>5, <3>1, <3>2, <3>3
  <2>4. Sent(mem)'
    BY <1>0, <1>1, <1>2, <2>1, <2>2, <2>3 DEF TypeOK, StoreTypeOK, Images
  <2>5. disk' \in {mem', disk} /\ pc' # "mark"
    BY <1>5 DEF HandleInterrupted, HandleNew, SaveOutcome, SaveResult, MarkRunning, Persist, AfterWrite, BackToTop
  <2> QED
    BY <1>0, <1>1, <1>2, <2>4, <2>5
<1>6. ASSUME NEW w \in WriteOutcomes, RecordDelivery(w)
      PROVE  Sent(mem)' /\ Sent(disk)' /\ (pc = "mark" => Recorded(cur, mem.rec[cur]))'
  <2>1. /\ cur \in Commands
        /\ mem.rec[cur] \in AgentResults
        /\ Recorded(cur, mem.rec[cur])
    BY <1>6 DEF RecordDelivery, DeliveryOK, PlaceOK, TypeOK
  <2>2. /\ mem' = [mem EXCEPT !.sent = @ \cup {cur}]
        /\ disk' \in {mem', disk}
        /\ pc' # "mark"
    BY <1>6 DEF RecordDelivery, MarkDelivered, Persist, BackToTop
  <2>3. mem'.rec = mem.rec /\ mem'.sent = mem.sent \cup {cur}
    BY <2>2 DEF TypeOK, StoreTypeOK, Images
  <2> QED
    BY <1>0, <1>1, <1>2, <2>1, <2>2, <2>3
<1>7. CASE ControlPlane \/ UNCHANGED vars
  <2>1. UNCHANGED <<mem, disk, pc, cur>>
    BY <1>7 DEF ControlPlane, Expire, Create, Sweep, vars, agentVars, storeVars
  <2>2. pc = "mark" => cur \in Commands
    BY DEF TypeOK
  <2> QED
    BY <1>0, <1>1, <1>2, <2>1, <2>2 DEF DeliveryOK
<1>8. CASE Failures
  BY <1>3, <1>8 DEF Failures, PollLost, SubmitLost, SubmitReplyLost, CrashRestart, Reopen, BackToTop, storeVars
<1>9. CASE Loop
  <2>1. ASSUME ~SubmitAccepted,
               ~\E w \in WriteOutcomes : HandleInterrupted(w) \/ HandleNew(w) \/ SaveOutcome(w) \/ RecordDelivery(w)
        PROVE  UNCHANGED storeVars /\ pc' # "mark"
    BY <1>9, <2>1 DEF Loop, DeliverPending, PollClaim, NothingPending, PollEmpty, AnswerCommand, AnswerRejected,
       ExecuteBegin, ExecuteEnd, SubmitRefused, Move, BackToTop
  <2> QED
    BY <1>3, <1>4, <1>5, <1>6, <2>1 DEF storeVars
<1> QED
  BY <1>7, <1>8, <1>9 DEF Next

\* The loop receives no command whose result it holds (handleCommand).
LEMMA ReceivedStep ==
  TypeOK /\ DeliveryOK /\ ReceivedOK /\ [Next]_vars => ReceivedOK'
<1> SUFFICES ASSUME TypeOK, DeliveryOK, ReceivedOK, [Next]_vars PROVE ReceivedOK'
  OBVIOUS
<1>1. CASE NothingPending
  BY <1>1 DEF NothingPending, Move, ReceivedOK, PendingResults, storeVars
<1>2. ASSUME NEW c \in Commands, PollClaim(c) PROVE ReceivedOK'
  <2>1. pc = "poll" /\ pc' = "answer" /\ cur' = c /\ mem' = mem /\ status[c] \notin Terminal
    BY <1>2 DEF PollClaim, Move, ClaimCommand, Claimable, Terminal, storeVars
  <2>2. c \notin mem.sent
    BY <2>1, StatusOfTerminal DEF DeliveryOK, Recorded
  <2> QED
    BY <2>1, <2>2 DEF ReceivedOK, PendingResults
<1>3. CASE AnswerCommand
  BY <1>3 DEF AnswerCommand, Move, ReceivedOK, storeVars
<1>4. CASE ControlPlane \/ UNCHANGED vars
  BY <1>4 DEF ControlPlane, Expire, Create, Sweep, vars, agentVars, storeVars, ReceivedOK, PendingResults
<1>5. ASSUME pc' \notin {"poll", "answer", "handle"} PROVE ReceivedOK'
  BY <1>5 DEF ReceivedOK
<1>6. CASE Failures
  BY <1>5, <1>6 DEF Failures, PollLost, SubmitLost, SubmitReplyLost, CrashRestart, BackToTop
<1>7. CASE Loop
  BY <1>1, <1>2, <1>3, <1>5, <1>7 DEF Loop, DeliverPending, PollEmpty, AnswerRejected, ExecuteBegin, ExecuteEnd,
     SubmitAccepted, SubmitRefused, HandleInterrupted, HandleNew, SaveOutcome, RecordDelivery, AfterWrite, Move, BackToTop
<1> QED
  BY <1>4, <1>6, <1>7 DEF Next

-----------------------------------------------------------------------------
(* The theorems *)

\* The queue, the journal and the loop start in the invariant.
LEMMA InitInvariant == Init => IInv
<1> SUFFICES ASSUME Init PROVE IInv
  OBVIOUS
<1> USE DEF Init, QueueInit, StoreInit, EmptyImage
<1>1. TypeOK
  BY DeliveryAssumption DEF TypeOK, QueueTypeOK, StoreTypeOK, Images, Records, Places, Statuses, Stored, RowStatuses
<1>2. PlaceOK /\ JournalOK
  BY DEF PlaceOK, JournalOK, AgentResults
<1>3. DeliveryOK /\ ReceivedOK /\ SuccessesOK /\ QueueOK
  BY DEF DeliveryOK, ReceivedOK, SuccessesOK, QueueOK, Terminal, OperationKinds
<1> QED
  BY <1>1, <1>2, <1>3 DEF IInv

\* The inductive invariant holds in every reachable state.
THEOREM Invariance == Spec => []IInv
<1>1. IInv /\ [Next]_vars => IInv'
  <2> SUFFICES ASSUME IInv, [Next]_vars PROVE IInv'
    OBVIOUS
  <2>1. TypeOK' /\ PlaceOK' /\ JournalOK' /\ DeliveryOK' /\ ReceivedOK'
    BY TypeStep, JournalStep, DeliveryStep, ReceivedStep DEF IInv
  <2>2. QueueOK' /\ SuccessesOK'
    BY QueueSteps, QueueOKStep, SuccessStep DEF IInv, TypeOK
  <2> QED
    BY <2>1, <2>2 DEF IInv
<1> QED
  BY <1>1, InitInvariant, PTL DEF Spec

\* Type correctness of queue, journal and loop.
THEOREM TypeCorrectness == Spec => []TypeOK
<1>1. IInv => TypeOK
  BY DEF IInv
<1> QED
  BY <1>1, Invariance, PTL

\* No command is executed twice, whatever crashes, fails or gets lost.
THEOREM AtMostOnce == Spec => []AtMostOnceExecution
<1>1. IInv => AtMostOnceExecution
  BY DEF IInv, JournalOK, AtMostOnceExecution
<1> QED
  BY <1>1, Invariance, PTL

\* A success shown by the control plane was earned on the host.
THEOREM RealSuccess == Spec => []SuccessIsReal
<1>1. IInv => SuccessIsReal
  BY DEF IInv, JournalOK, SuccessesOK, SuccessIsReal
<1> QED
  BY <1>1, Invariance, PTL

\* Operation rows never disagree with their command.
THEOREM OperationAgreement == Spec => []OperationFollowsCommand
<1>1. IInv => OperationFollowsCommand
  BY DEF IInv, QueueOK, OperationFollowsCommand, Terminal
<1> QED
  BY <1>1, Invariance, PTL

\* Ends are announced once, and those of backups and runtime actions always.
THEOREM SingleAnnouncement == Spec => []AnnouncedOnce
<1>1. IInv => AnnouncedOnce
  BY DEF IInv, QueueOK, AnnouncedOnce
<1> QED
  BY <1>1, Invariance, PTL

\* The agent forgets no result the control plane has not recorded.
THEOREM DeliveryIsRecorded == Spec => []DeliveredIsRecorded
<1>1. IInv => DeliveredIsRecorded
  BY StatusOfTerminal DEF IInv, DeliveryOK, Recorded, DeliveredIsRecorded
<1> QED
  BY <1>1, Invariance, PTL

\* No late, repeated or racing report revises a verdict.
THEOREM FinalVerdicts == Spec => VerdictIsFinal
<1> DEFINE Final == \A c \in Commands : status[c] \in Terminal =>
                      status'[c] = status[c] /\ result'[c] = result[c] /\ events'[c] = events[c]
<1>1. IInv /\ [Next]_vars => [Final]_vars
  BY QueueSteps, QueueFinal DEF IInv, TypeOK
<1> QED
  BY <1>1, Invariance, PTL DEF Spec, VerdictIsFinal

\* No step of the system replaces a result that is on file.
LEMMA DurableStep ==
  ASSUME TypeOK, PlaceOK, JournalOK, [Next]_vars, NEW c \in Commands, disk.rec[c] \in AgentResults
  PROVE  disk'.rec[c] = disk.rec[c]
<1> DEFINE Kept == disk'.rec[c] = disk.rec[c]
<1>1. CASE disk' = disk
  BY <1>1
<1>2. CASE CrashRestart
  BY <1>2 DEF CrashRestart, Reopen
<1>3. ASSUME NEW w \in WriteOutcomes, HandleInterrupted(w) \/ HandleNew(w) \/ SaveOutcome(w) \/ RecordDelivery(w)
      PROVE  Kept
  <2>1. mem \in Images /\ disk \in Images
    BY DEF TypeOK, StoreTypeOK
  <2>2. CASE RecordDelivery(w)
    BY <2>1, <2>2 DEF RecordDelivery, MarkDelivered, Persist, JournalOK, Images
  <2>3. CASE HandleInterrupted(w) \/ HandleNew(w) \/ SaveOutcome(w)
    <3>1. mem.rec[cur] \notin AgentResults /\ \A d \in Commands \ {cur} : disk'.rec[d] \in {disk.rec[d], mem.rec[d]}
      BY <2>1, <2>3 DEF HandleInterrupted, HandleNew, SaveOutcome, MarkRunning, SaveResult, Persist, PlaceOK,
         Images, AgentResults
    <3> QED
      BY <2>1, <3>1 DEF JournalOK
  <2> QED
    BY <1>3, <2>2, <2>3
<1>4. CASE Loop /\ ~\E w \in WriteOutcomes : HandleInterrupted(w) \/ HandleNew(w) \/ SaveOutcome(w) \/ RecordDelivery(w)
  BY <1>1, <1>4 DEF Loop, DeliverPending, PollClaim, NothingPending, PollEmpty, AnswerCommand, AnswerRejected,
     ExecuteBegin, ExecuteEnd, SubmitAccepted, SubmitRefused, storeVars
<1>5. CASE PollLost \/ SubmitLost \/ SubmitReplyLost \/ ControlPlane \/ UNCHANGED vars
  BY <1>1, <1>5 DEF PollLost, SubmitLost, SubmitReplyLost, ControlPlane, Expire, Create, Sweep, vars, storeVars
<1> QED
  BY <1>2, <1>3, <1>4, <1>5 DEF Next, Failures

\* No crash, failed write or interruption report replaces a result on file.
THEOREM DurableResults == Spec => DurableResultIsFinal
<1> DEFINE Kept == \A c \in Commands : disk.rec[c] \in AgentResults => disk'.rec[c] = disk.rec[c]
<1>1. IInv /\ [Next]_vars => [Kept]_vars
  BY DurableStep DEF IInv
<1> QED
  BY <1>1, Invariance, PTL DEF Spec, DurableResultIsFinal

-----------------------------------------------------------------------------
(* The refinement *)

\* A step that leaves executions and verdicts alone stutters.
LEMMA ContractStutter ==
  ASSUME UNCHANGED <<status, runs, outcome>>
  PROVE  [Contract!Next]_<<executionOf, verdictOf>>
<1>1. executionOf' = executionOf /\ verdictOf' = verdictOf
  BY DEF executionOf, verdictOf
<1> QED
  BY <1>1

\* A queue step that ends no command stutters as well.
LEMMA ContractOpen ==
  ASSUME UNCHANGED <<runs, outcome>>,
         \A c \in Commands : status'[c] = status[c] \/ {status[c], status'[c]} \cap Terminal = {}
  PROVE  [Contract!Next]_<<executionOf, verdictOf>>
<1>1. executionOf' = executionOf
  BY DEF executionOf
<1>2. verdictOf' = verdictOf
  BY DEF verdictOf
<1> QED
  BY <1>1, <1>2

\* A failure, of one command or of all the sweep found, is DeclareFailed.
LEMMA ContractFail ==
  ASSUME UNCHANGED <<runs, outcome>>, NEW S \in SUBSET Commands, \A c \in S : status[c] \notin Terminal,
         \A c \in Commands : status'[c] = IF c \in S THEN "failed" ELSE status[c]
  PROVE  [Contract!Next]_<<executionOf, verdictOf>>
<1>1. executionOf' = executionOf
  BY DEF executionOf
<1>2. verdictOf' = [c \in Commands |-> IF c \in S THEN "failed" ELSE verdictOf[c]]
  BY DEF verdictOf, Terminal
<1>3. \A c \in S : verdictOf[c] = "open"
  BY DEF verdictOf
<1>4. Contract!DeclareFailed(S)
  BY <1>1, <1>2, <1>3 DEF Contract!DeclareFailed
<1> QED
  BY <1>4 DEF Contract!Next

\* completeCommand declares one command, and a success only after its execution.
LEMMA ContractComplete ==
  ASSUME IInv, NEW c \in Commands, NEW r \in Results, CompleteCommand(c, r), UNCHANGED <<runs, outcome>>,
         r = "ok" => outcome[c] = "ok"
  PROVE  [Contract!Next]_<<executionOf, verdictOf>>
<1> USE DEF IInv, TypeOK, QueueTypeOK
<1>1. CASE CompletionOutcome(c, r) # "updated"
  BY <1>1, ContractStutter DEF CompleteCommand, queueVars
<1>2. CASE CompletionOutcome(c, r) = "updated"
  <2>1. status[c] = "claimed" /\ status' = [status EXCEPT ![c] = StatusOf(r)]
    BY <1>2 DEF CompleteCommand, CompletionOutcome
  <2>2. CASE StatusOf(r) = "failed"
    <3>1. \A d \in Commands : status'[d] = IF d \in {c} THEN "failed" ELSE status[d]
      BY <2>1, <2>2
    <3>2. {c} \in SUBSET Commands /\ \A d \in {c} : status[d] \notin Terminal
      BY <2>1 DEF Terminal
    <3>3. UNCHANGED <<runs, outcome>>
      OBVIOUS
    <3> HIDE DEF IInv, TypeOK, QueueTypeOK
    <3> QED
      BY <3>1, <3>2, <3>3, ContractFail
  <2>3. CASE StatusOf(r) # "failed"
    <3>1. r = "ok" /\ StatusOf(r) = "succeeded" /\ outcome[c] = "ok" /\ runs[c] = 1
      BY <2>3 DEF StatusOf, JournalOK
    <3>2. executionOf' = executionOf /\ executionOf[c] = "ok"
      BY <3>1 DEF executionOf
    <3>3. verdictOf[c] = "open" /\ verdictOf' = [verdictOf EXCEPT ![c] = "succeeded"]
      BY <2>1, <3>1 DEF verdictOf, Terminal
    <3>4. Contract!DeclareSucceeded(c)
      BY <3>2, <3>3 DEF Contract!DeclareSucceeded
    <3> QED
      BY <3>4 DEF Contract!Next
  <2> QED
    BY <2>2, <2>3
<1> QED
  BY <1>1, <1>2

\* Every step of the system is a step of the contract or a stutter.
LEMMA ContractStep == IInv /\ [Next]_vars => [Contract!Next]_<<executionOf, verdictOf>>
<1> DEFINE Goal == [Contract!Next]_<<executionOf, verdictOf>>
<1> SUFFICES ASSUME IInv, [Next]_vars PROVE Goal
  OBVIOUS
<1> USE DEF IInv, TypeOK, QueueTypeOK, PlaceOK, History
<1>1. CASE AnswerRejected
  <2>1. cur \in Commands
    BY <1>1 DEF AnswerRejected
  <2> QED
    BY <1>1, <2>1, ContractComplete DEF AnswerRejected, Results
<1>2. CASE SubmitAccepted \/ SubmitReplyLost
  <2>1. cur \in Commands /\ mem.rec[cur] \in Results /\ (mem.rec[cur] = "ok" => outcome[cur] = "ok")
    BY <1>2 DEF SubmitAccepted, SubmitReplyLost, Move, Results, JournalOK
  <2> QED
    BY <1>2, <2>1, ContractComplete DEF SubmitAccepted, SubmitReplyLost
<1>3. CASE ExecuteBegin
  <2>1. cur \in Commands /\ runs[cur] = 0 /\ outcome[cur] = "none"
    BY <1>3 DEF ExecuteBegin, Move, JournalOK
  <2>2. executionOf[cur] = "not" /\ executionOf' = [executionOf EXCEPT ![cur] = "running"]
    <3>1. /\ \A c \in Commands : runs'[c] = IF c = cur THEN 1 ELSE runs[c]
          /\ outcome' = outcome
      BY <1>3, <2>1 DEF ExecuteBegin
    <3> HIDE DEF IInv, TypeOK, QueueTypeOK, PlaceOK
    <3>2. \A c \in Commands : executionOf'[c] = IF c = cur THEN "running" ELSE executionOf[c]
      BY <2>1, <3>1 DEF executionOf
    <3> QED
      BY <2>1, <3>2 DEF executionOf
  <2>3. verdictOf' = verdictOf
    BY <1>3 DEF ExecuteBegin, verdictOf, queueVars
  <2>4. Contract!Start(cur)
    BY <2>2, <2>3 DEF Contract!Start
  <2> QED
    BY <2>1, <2>4 DEF Contract!Next
<1>4. ASSUME NEW o \in {"ok", "failed"}, ExecuteEnd(o) PROVE Goal
  <2>1. cur \in Commands /\ runs[cur] = 1 /\ outcome[cur] = "none"
    BY <1>4 DEF ExecuteEnd, Move
  <2>2. executionOf[cur] = "running" /\ executionOf' = [executionOf EXCEPT ![cur] = o]
    <3>1. /\ \A c \in Commands : outcome'[c] = IF c = cur THEN o ELSE outcome[c]
          /\ runs' = runs /\ o # "none"
      BY <1>4 DEF ExecuteEnd
    <3> HIDE DEF IInv, TypeOK, QueueTypeOK, PlaceOK
    <3>2. \A c \in Commands : executionOf'[c] = IF c = cur THEN o ELSE executionOf[c]
      BY <2>1, <3>1 DEF executionOf
    <3>3. executionOf[cur] = "running"
      BY <2>1 DEF executionOf
    <3>4. executionOf' = [c \in Commands |-> executionOf'[c]] /\ DOMAIN executionOf = Commands
      BY DEF executionOf
    <3> QED
      BY <2>1, <3>2, <3>3, <3>4
  <2>3. verdictOf' = verdictOf
    BY <1>4 DEF ExecuteEnd, verdictOf, queueVars
  <2>4. Contract!Finish(cur, o)
    BY <2>2, <2>3 DEF Contract!Finish
  <2> QED
    BY <2>1, <2>4 DEF Contract!Next
<1>5. ASSUME NEW c \in Commands, PollClaim(c) PROVE Goal
  BY <1>5, ContractOpen DEF PollClaim, ClaimCommand, Claimable, Terminal
<1>6. ASSUME NEW c \in Commands, Expire(c) PROVE Goal
  BY <1>6, ContractStutter DEF Expire, LeaseExpires, agentVars
<1>7. ASSUME NEW c \in Commands, NEW k \in Kinds, Create(c, k) PROVE Goal
  BY <1>7, ContractOpen DEF Create, CreateCommand, agentVars, Terminal
<1>8. ASSUME NEW S \in SUBSET Commands, Sweep(S) PROVE Goal
  BY <1>8, ContractFail DEF Sweep, FailStaleCommands, Sweepable, agentVars, Terminal
<1>9. CASE UNCHANGED <<queueVars, runs, outcome>>
  BY <1>9, ContractStutter DEF queueVars
<1>10. CASE Loop
  <2>1. ASSUME ~AnswerRejected, ~SubmitAccepted, ~ExecuteBegin, ~\E c \in Commands : PollClaim(c),
               ~\E o \in {"ok", "failed"} : ExecuteEnd(o)
        PROVE  UNCHANGED <<queueVars, runs, outcome>>
    BY <1>10, <2>1 DEF Loop, DeliverPending, NothingPending, PollEmpty, AnswerCommand, SubmitRefused,
       HandleInterrupted, HandleNew, SaveOutcome, RecordDelivery
  <2> QED
    BY <1>1, <1>2, <1>3, <1>4, <1>5, <1>9, <2>1
<1>11. CASE PollLost \/ SubmitLost \/ CrashRestart \/ UNCHANGED vars
  BY <1>9, <1>11 DEF PollLost, SubmitLost, CrashRestart, vars, agentVars
<1> QED
  BY <1>2, <1>6, <1>7, <1>8, <1>10, <1>11 DEF Next, Failures, ControlPlane

\* Queue, journal, loop and network implement the contract of each command.
THEOREM Refinement == Spec => ImplementsContract
<1>1. Init => Contract!Init
  BY DEF Init, QueueInit, Contract!Init, executionOf, verdictOf, Terminal
<1> QED
  BY <1>1, ContractStep, Invariance, PTL DEF Spec, ImplementsContract, Contract!Spec, Contract!contractVars

-----------------------------------------------------------------------------
(* Rollbacks of the database *)

\* An execution that succeeded stays one (agent.go handleCommand).
LEMMA OutcomeStable ==
  ASSUME TypeOK, PlaceOK, [Next]_vars, NEW c \in Commands, outcome[c] = "ok"
  PROVE  outcome'[c] = "ok"
<1> USE DEF TypeOK, History
<1>1. CASE UNCHANGED outcome
  BY <1>1
<1>2. ASSUME NEW o \in {"ok", "failed"}, ExecuteEnd(o) PROVE outcome'[c] = "ok"
  BY <1>2 DEF ExecuteEnd, Move, PlaceOK
<1>3. CASE Loop /\ ~\E o \in {"ok", "failed"} : ExecuteEnd(o)
  BY <1>1, <1>3 DEF Loop, DeliverPending, PollClaim, NothingPending, PollEmpty, AnswerCommand, AnswerRejected,
     ExecuteBegin, SubmitAccepted, SubmitRefused, HandleInterrupted, HandleNew, SaveOutcome, RecordDelivery
<1>4. CASE Failures
  BY <1>1, <1>4 DEF Failures, PollLost, SubmitLost, SubmitReplyLost, CrashRestart
<1>5. CASE ControlPlane \/ UNCHANGED vars
  BY <1>1, <1>5 DEF ControlPlane, Expire, Create, Sweep, vars, agentVars
<1> QED
  BY <1>2, <1>3, <1>4, <1>5 DEF Next

\* Steps of the command system leave the snapshot's rows what they were.
LEMMA StepKeeps == RInv /\ [Step]_rvars => RInv'
<1> SUFFICES ASSUME RInv, [Step]_rvars PROVE RInv'
  OBVIOUS
<1>1. [Next]_vars /\ UNCHANGED snapshot
  BY DEF Step, rvars, recoveryVars
<1>2. TypeOK' /\ PlaceOK' /\ JournalOK' /\ SuccessesOK'
  BY <1>1, TypeStep, JournalStep, SuccessStep DEF RInv
<1>3. QueueOK'
  BY <1>1, QueueSteps, QueueOKStep DEF RInv, TypeOK
<1>4. Snap!QueueTypeOK' /\ Snap!QueueOK'
  BY <1>1 DEF RInv, SnapshotOK, Snap!QueueTypeOK, Snap!QueueOK
<1>5. Snap!SuccessesOK'
  BY <1>1, OutcomeStable DEF RInv, SnapshotOK, Snap!SuccessesOK
<1> QED
  BY <1>2, <1>3, <1>4, <1>5 DEF RInv, SnapshotOK

\* Delivering a recorded result again moves nothing but the loop.
LEMMA RedeliverKeeps == RInv /\ Redeliver => RInv'
<1> SUFFICES ASSUME RInv, Redeliver PROVE RInv'
  OBVIOUS
<1>1. /\ pc' = "submit" /\ pc = "handle" /\ mem.rec[cur] \in AgentResults
      /\ UNCHANGED <<kind, status, result, leased, operation, events, mem, disk, cur, runs, outcome, faults, snapshot>>
  BY DEF Redeliver, HandleRecorded, Move, History, queueVars, storeVars, recoveryVars
<1>2. TypeOK'
  BY <1>1 DEF RInv, TypeOK, QueueTypeOK, StoreTypeOK, Places
<1>3. PlaceOK' /\ JournalOK' /\ SuccessesOK' /\ QueueOK'
  BY <1>1 DEF RInv, PlaceOK, JournalOK, SuccessesOK, QueueOK
<1>4. SnapshotOK'
  BY <1>1 DEF RInv, SnapshotOK, Snap!QueueTypeOK, Snap!QueueOK, Snap!SuccessesOK
<1> QED
  BY <1>2, <1>3, <1>4 DEF RInv

\* A backup holds what the queue holds.
LEMMA BackupKeeps == RInv /\ TakeBackup => RInv'
<1> SUFFICES ASSUME RInv, TakeBackup PROVE RInv'
  OBVIOUS
<1>1. UNCHANGED vars
  BY DEF TakeBackup
<1>2. [Next]_vars
  BY <1>1
<1>3. TypeOK' /\ PlaceOK' /\ JournalOK' /\ SuccessesOK' /\ QueueOK'
  BY <1>2, TypeStep, JournalStep, SuccessStep, QueueSteps, QueueOKStep DEF RInv, TypeOK
<1>4. /\ snapshot'.kind = kind /\ snapshot'.status = status /\ snapshot'.result = result
      /\ snapshot'.leased = leased /\ snapshot'.operation = operation /\ snapshot'.events = events
      /\ outcome' = outcome
  BY <1>1 DEF TakeBackup, QueueRows, vars, agentVars
<1>5. Snap!QueueTypeOK'
  BY <1>4 DEF RInv, TypeOK, QueueTypeOK, Snap!QueueTypeOK, Snap!Statuses, Snap!Stored, Snap!RowStatuses, Snap!AllKinds,
     Snap!OperationKinds, Snap!ConnectorKinds, Snap!EntityKinds, Snap!PlainKinds, Snap!Results, Snap!AgentResults,
     Statuses, Stored, RowStatuses, AllKinds, OperationKinds, ConnectorKinds, EntityKinds, PlainKinds, Results, AgentResults
<1>6. Snap!QueueOK' /\ Snap!SuccessesOK'
  BY <1>4 DEF RInv, QueueOK, SuccessesOK, Snap!QueueOK, Snap!SuccessesOK, Terminal, OperationKinds, Snap!Terminal, Snap!OperationKinds
<1> QED
  BY <1>3, <1>5, <1>6 DEF RInv, SnapshotOK

\* A rollback puts rows back that are as the invariant wants them, under a
\* journal that did not move.
LEMMA RollbackKeeps == RInv /\ Rollback => RInv'
<1> SUFFICES ASSUME RInv, Rollback PROVE RInv'
  OBVIOUS
<1>1. /\ kind' = snapshot.kind /\ status' = snapshot.status /\ result' = snapshot.result
      /\ leased' = snapshot.leased /\ operation' = snapshot.operation /\ events' = snapshot.events
      /\ UNCHANGED <<snapshot, mem, disk, runs, outcome, faults>>
  BY DEF Rollback, storeVars, History
<1>2. \/ UNCHANGED <<pc, cur>>
      \/ pc' = "deliver" /\ cur' = NoCommand
  BY DEF Rollback, BackToTop
<1>3. QueueTypeOK'
  BY <1>1 DEF RInv, SnapshotOK, QueueTypeOK, Snap!QueueTypeOK, Snap!Statuses, Snap!Stored, Snap!RowStatuses, Snap!AllKinds,
     Snap!OperationKinds, Snap!ConnectorKinds, Snap!EntityKinds, Snap!PlainKinds, Snap!Results, Snap!AgentResults,
     Statuses, Stored, RowStatuses, AllKinds, OperationKinds, ConnectorKinds, EntityKinds, PlainKinds, Results, AgentResults
<1>4. QueueOK' /\ SuccessesOK'
  BY <1>1 DEF RInv, SnapshotOK, QueueOK, SuccessesOK, Snap!QueueOK, Snap!SuccessesOK, Terminal, OperationKinds, Snap!Terminal, Snap!OperationKinds
<1>5. TypeOK'
  BY <1>1, <1>2, <1>3 DEF RInv, TypeOK, StoreTypeOK, Places
<1>6. PlaceOK' /\ JournalOK'
  BY <1>1, <1>2 DEF RInv, PlaceOK, JournalOK
<1>7. SnapshotOK'
  BY <1>1 DEF RInv, SnapshotOK, Snap!QueueTypeOK, Snap!QueueOK, Snap!SuccessesOK
<1> QED
  BY <1>4, <1>5, <1>6, <1>7 DEF RInv

-----------------------------------------------------------------------------
(* Theorems *)

\* The inductive invariant survives any backups and rollbacks.
THEOREM RollbackInvariance == RSpec => []RInv
<1>1. RInit => RInv
  <2> SUFFICES ASSUME RInit PROVE RInv
    OBVIOUS
  <2>1. IInv
    BY InitInvariant DEF RInit
  <2>2. /\ snapshot.kind = kind /\ snapshot.status = status /\ snapshot.result = result
        /\ snapshot.leased = leased /\ snapshot.operation = operation /\ snapshot.events = events
    BY DEF RInit, QueueRows
  <2>3. Snap!QueueTypeOK
    BY <2>1, <2>2 DEF IInv, TypeOK, QueueTypeOK, Snap!QueueTypeOK, Snap!Statuses, Snap!Stored, Snap!RowStatuses, Snap!AllKinds,
     Snap!OperationKinds, Snap!ConnectorKinds, Snap!EntityKinds, Snap!PlainKinds, Snap!Results, Snap!AgentResults,
     Statuses, Stored, RowStatuses, AllKinds, OperationKinds, ConnectorKinds, EntityKinds, PlainKinds, Results, AgentResults
  <2>4. Snap!QueueOK /\ Snap!SuccessesOK
    BY <2>1, <2>2 DEF IInv, QueueOK, SuccessesOK, Snap!QueueOK, Snap!SuccessesOK, Terminal, OperationKinds, Snap!Terminal, Snap!OperationKinds
  <2> QED
    BY <2>1, <2>3, <2>4 DEF IInv, RInv, SnapshotOK
<1>2. RInv /\ [RNext]_rvars => RInv'
  BY StepKeeps, RedeliverKeeps, BackupKeeps, RollbackKeeps DEF RNext
<1> QED
  BY <1>1, <1>2, PTL DEF RSpec

\* No command is executed twice, however often the database goes back
\* (store.go's tombstones).
THEOREM RollbackAtMostOnce == RSpec => []AtMostOnceExecution
<1>1. RInv => AtMostOnceExecution
  BY DEF RInv, JournalOK, AtMostOnceExecution
<1> QED
  BY <1>1, RollbackInvariance, PTL

\* A command shown succeeded, before or after a rollback, was executed with
\* success (completeCommand).
THEOREM RollbackRealSuccess == RSpec => []SuccessIsReal
<1>1. RInv => SuccessIsReal
  BY DEF RInv, JournalOK, SuccessesOK, SuccessIsReal
<1> QED
  BY <1>1, RollbackInvariance, PTL

\* A recorded result is delivered again, never made anew: no rollback, no
\* command received a second time replaces it (handleCommand).
THEOREM RollbackDurableResults == RSpec => DurableResultIsFinal
<1> DEFINE Kept == \A c \in Commands : disk.rec[c] \in AgentResults => disk'.rec[c] = disk.rec[c]
<1>1. RInv /\ [RNext]_rvars => [Kept]_vars
  <2> SUFFICES ASSUME RInv, [RNext]_rvars PROVE Kept
    OBVIOUS
  <2>1. CASE Step
    BY <2>1, DurableStep DEF Step, RInv
  <2>2. CASE Redeliver \/ TakeBackup \/ Rollback \/ UNCHANGED rvars
    BY <2>2 DEF Redeliver, HandleRecorded, TakeBackup, Rollback, rvars, vars, storeVars
  <2> QED
    BY <2>1, <2>2 DEF RNext
<1> QED
  BY <1>1, RollbackInvariance, PTL DEF RSpec, DurableResultIsFinal
=============================================================================
