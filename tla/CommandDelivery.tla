--------------------------- MODULE CommandDelivery --------------------------
(***************************************************************************)
(* One agent's command loop (agent/internal/agent) running against the     *)
(* command queue of the control plane over HTTP, with its journal.         *)
(*                                                                         *)
(* The loop delivers what the journal still owes the control plane, polls  *)
(* for one command, records it, executes it, records its result and        *)
(* delivers it.  Steps of the loop interleave with the control plane's own *)
(* (new commands, lease expiry, the stale sweep).  Faults are crashes of   *)
(* the agent, journal writes that fail, and requests or replies that get   *)
(* lost; MaxFaults bounds their number.                                    *)
(***************************************************************************)
EXTENDS AgentStore

CONSTANT MaxFaults

ASSUME DeliveryAssumption == MaxFaults \in Nat

NoCommand == 0

\* Where the loop is: the top (deliver), the poll request, the control plane
\* preparing its answer, a received command, a command marked running but not
\* begun, the executor, its result in hand, the submission, its acceptance.
Places == {"deliver", "poll", "answer", "handle", "begin", "executing", "save", "submit", "mark"}

VARIABLES
  pc,       \* the loop's place
  cur,      \* the command it is dealing with
  runs,     \* how often the executor was started on each command
  outcome,  \* what the executor returned: handleCommand's local result
  faults    \* the faults so far

agentVars == <<pc, cur, runs, outcome>>
vars == <<queueVars, storeVars, agentVars, faults>>

TypeOK ==
  /\ QueueTypeOK
  /\ StoreTypeOK
  /\ pc \in Places
  /\ cur \in Commands \cup {NoCommand}
  /\ cur = NoCommand <=> pc \in {"deliver", "poll"}
  /\ runs \in [Commands -> Nat]
  /\ outcome \in [Commands -> {"none", "ok", "failed"}]
  /\ faults \in 0..MaxFaults

Init ==
  /\ QueueInit
  /\ StoreInit
  /\ pc = "deliver"
  /\ cur = NoCommand
  /\ runs = [c \in Commands |-> 0]
  /\ outcome = [c \in Commands |-> "none"]
  /\ faults = 0

Move(from, to) == pc = from /\ pc' = to

BackToTop      == pc' = "deliver" /\ cur' = NoCommand
Fault          == faults < MaxFaults /\ faults' = faults + 1
NoFault        == UNCHANGED faults
History        == <<runs, outcome>>

\* A journal write of the loop: on success it goes on, on error it returns to
\* the top of the loop.
AfterWrite(w, next) ==
  \/ w = "done" /\ pc' = next /\ UNCHANGED <<cur, faults>>
  \/ w # "done" /\ BackToTop /\ Fault

-----------------------------------------------------------------------------
(* The top of the loop, and the poll *)

DeliverPending(c) ==
  /\ Move("deliver", "submit")
  /\ c \in PendingResults
  /\ cur' = c
  /\ UNCHANGED <<queueVars, storeVars, History, faults>>

NothingPending ==
  /\ PendingResults = {}
  /\ Move("deliver", "poll")
  /\ UNCHANGED <<queueVars, storeVars, cur, History, faults>>

PollEmpty ==
  /\ pc = "poll"
  /\ Claimable = {}
  /\ BackToTop
  /\ UNCHANGED <<queueVars, storeVars, History, faults>>

PollClaim(c) ==
  /\ Move("poll", "answer")
  /\ ClaimCommand(c)
  /\ cur' = c
  /\ UNCHANGED <<storeVars, History, faults>>

\* The poll handler found the row the command is about and sends the command.
AnswerCommand ==
  /\ Move("answer", "handle")
  /\ UNCHANGED <<queueVars, storeVars, cur, History, faults>>

\* It did not (row gone, moved, revision superseded, secret unreadable): it
\* fails the command in a second transaction, whose outcome it ignores, and
\* answers with no command.
AnswerRejected ==
  /\ pc = "answer"
  /\ kind[cur] \notin PlainKinds
  /\ CompleteCommand(cur, "rejected")
  /\ BackToTop
  /\ UNCHANGED <<storeVars, History, faults>>

\* The poll or its reply is lost; a claimed command waits for its lease.
PollLost ==
  /\ pc \in {"poll", "answer"}
  /\ BackToTop
  /\ Fault
  /\ UNCHANGED <<queueVars, storeVars, History>>

-----------------------------------------------------------------------------
(* handleCommand *)

\* Mutant of HandleRecorded: a result marked delivered is not delivered again.
HandleRecordedUndelivered ==
  /\ pc = "handle"
  /\ mem.rec[cur] \in AgentResults
  /\ IF cur \in mem.sent THEN BackToTop ELSE Move("handle", "submit") /\ UNCHANGED cur
  /\ UNCHANGED <<queueVars, storeVars, History, faults>>

\* The journal holds a result: deliver it again, execute nothing.  Not a step of
\* Loop, where it is never possible (see ReceivedOK): only a control plane that
\* went back to an earlier database asks for one, and DatabaseRollback adds it.
HandleRecorded ==
  /\ Move("handle", "submit")
  /\ mem.rec[cur] \in AgentResults
  /\ UNCHANGED <<queueVars, storeVars, cur, History, faults>>

\* Mutant of HandleInterrupted: any record, with or without result, is taken
\* for an interrupted execution.
HandleInterruptedAlways(w) ==
  /\ pc = "handle"
  /\ mem.rec[cur] # "none"
  /\ SaveResult(cur, "interrupted", w)
  /\ AfterWrite(w, "submit")
  /\ UNCHANGED <<queueVars, History>>

\* The journal holds a record without result: the command may have been
\* executed, so it is reported as interrupted.
HandleInterrupted(w) ==
  /\ pc = "handle"
  /\ mem.rec[cur] = "running"
  /\ SaveResult(cur, "interrupted", w)
  /\ AfterWrite(w, "submit")
  /\ UNCHANGED <<queueVars, History>>

HandleNew(w) ==
  /\ pc = "handle"
  /\ MarkRunning(cur, w)
  /\ AfterWrite(w, "begin")
  /\ UNCHANGED <<queueVars, History>>

ExecuteBegin ==
  /\ Move("begin", "executing")
  /\ runs' = [runs EXCEPT ![cur] = @ + 1]
  /\ UNCHANGED <<queueVars, storeVars, cur, outcome, faults>>

ExecuteEnd(o) ==
  /\ Move("executing", "save")
  /\ outcome' = [outcome EXCEPT ![cur] = o]
  /\ UNCHANGED <<queueVars, storeVars, cur, runs, faults>>

SaveOutcome(w) ==
  /\ pc = "save"
  /\ SaveResult(cur, outcome[cur], w)
  /\ AfterWrite(w, "submit")
  /\ UNCHANGED <<queueVars, History>>

-----------------------------------------------------------------------------
(* deliverResult: submit, then mark delivered *)

Answer2xx == CompletionOutcome(cur, mem.rec[cur]) \in {"updated", "idempotent"}

SubmitAccepted ==
  /\ Move("submit", "mark")
  /\ Answer2xx
  /\ CompleteCommand(cur, mem.rec[cur])
  /\ UNCHANGED <<storeVars, cur, History, faults>>

\* 404 and 409 are errors to the client like any other.
SubmitRefused ==
  /\ pc = "submit"
  /\ ~Answer2xx
  /\ BackToTop
  /\ UNCHANGED <<queueVars, storeVars, History, faults>>

SubmitLost ==
  /\ pc = "submit"
  /\ BackToTop
  /\ Fault
  /\ UNCHANGED <<queueVars, storeVars, History>>

SubmitReplyLost ==
  /\ pc = "submit"
  /\ CompleteCommand(cur, mem.rec[cur])
  /\ BackToTop
  /\ Fault
  /\ UNCHANGED <<storeVars, History>>

RecordDelivery(w) ==
  /\ pc = "mark"
  /\ MarkDelivered(cur, w)
  /\ BackToTop
  /\ IF w = "done" THEN NoFault ELSE Fault
  /\ UNCHANGED <<queueVars, History>>

-----------------------------------------------------------------------------
(* Crashes, and the control plane's own steps *)

\* The process dies at any point and is started again on its journal.
CrashRestart ==
  /\ Reopen
  /\ BackToTop
  /\ Fault
  /\ UNCHANGED <<queueVars, History>>

Create(c, k) ==
  /\ CreateCommand(c, k)
  /\ UNCHANGED <<storeVars, agentVars, faults>>

Expire(c) ==
  /\ LeaseExpires(c)
  /\ UNCHANGED <<storeVars, agentVars, faults>>

Sweep(S) ==
  /\ FailStaleCommands(S)
  /\ Cardinality(Stale \cup S) <= MaxStale
  /\ UNCHANGED <<storeVars, agentVars, faults>>

-----------------------------------------------------------------------------

\* The steps of the loop, failed writes included.
Loop ==
  \/ \E c \in Commands : DeliverPending(c) \/ PollClaim(c)
  \/ NothingPending \/ PollEmpty \/ AnswerCommand \/ AnswerRejected
  \/ ExecuteBegin \/ SubmitAccepted \/ SubmitRefused
  \/ \E w \in WriteOutcomes : HandleInterrupted(w) \/ HandleNew(w) \/ SaveOutcome(w) \/ RecordDelivery(w)
  \/ \E o \in {"ok", "failed"} : ExecuteEnd(o)

Failures == PollLost \/ SubmitLost \/ SubmitReplyLost \/ CrashRestart

ControlPlane ==
  \/ \E c \in Commands : Expire(c) \/ \E k \in Kinds : Create(c, k)
  \/ \E S \in SUBSET Commands : Sweep(S)

Next == Loop \/ Failures \/ ControlPlane

Spec == Init /\ [][Next]_vars

\* A running agent keeps taking its loop's steps and time passes, so leases
\* end.  Nothing is assumed of the operators, the faults or the sweep.
Fairness == WF_vars(Loop) /\ \A c \in Commands : WF_vars(Expire(c))

FairSpec == Spec /\ Fairness

-----------------------------------------------------------------------------
(* Properties *)

\* The executor is started at most once on a command, through crashes, failed
\* journal writes, expired leases and repeated polls (agent.go handleCommand;
\* store.go keeps tombstones "for at-most-once execution").
AtMostOnceExecution == \A c \in Commands : runs[c] <= 1

\* A command the control plane shows as succeeded was executed, and its
\* execution succeeded: no lost reply, redelivery or restart makes up a success
\* (completeCommand, client.go SubmitResult).
SuccessIsReal == \A c \in Commands :
  status[c] = "succeeded" => runs[c] = 1 /\ outcome[c] = "ok"

\* An operation row always tells the same as its command: still active while
\* the command is, ended the way it ended, whichever of claimCommands,
\* completeCommand and failStaleCommands got there first.
OperationFollowsCommand == \A c \in Commands :
  operation[c] # "none" =>
    /\ status[c] = "pending" => operation[c] = "pending"
    /\ status[c] = "claimed" => operation[c] = "running"
    /\ status[c] \in Terminal => operation[c] = status[c]

\* An operation is announced at most once and never before it ended; the end
\* of a backup or a runtime action is always announced, whether the agent
\* reported it, the poll handler rejected it or the sweep gave it up.
AnnouncedOnce == \A c \in Commands :
  /\ events[c] <= 1
  /\ events[c] = 1 => status[c] \in Terminal
  /\ kind[c] \in {"backup", "runtime"} /\ status[c] \in Terminal => events[c] = 1

\* What the journal marks delivered is what the control plane recorded: no
\* result is dropped by the agent on a refused, lost or stale submission
\* (agent.go deliverResult).
DeliveredIsRecorded == \A c \in mem.sent \cup disk.sent :
  /\ status[c] \in Terminal
  /\ \E r \in AgentResults : result[c] = StoredResult(c, r) /\ status[c] = StatusOf(r)

\* A verdict is never revised: a late or repeated report changes neither the
\* status nor the result of an ended command, nor announces it again.
VerdictIsFinal == [][
  \A c \in Commands : status[c] \in Terminal =>
    status'[c] = status[c] /\ result'[c] = result[c] /\ events'[c] = events[c]]_vars

\* A result that reached the journal file is never replaced, not even by an
\* interruption report after a crash (store.go, handleCommand).
DurableResultIsFinal == [][
  \A c \in Commands : disk.rec[c] \in AgentResults => disk'.rec[c] = disk.rec[c]]_vars

-----------------------------------------------------------------------------
(* The inductive invariant behind the safety properties *)

\* What the loop holds at each place.
PlaceOK ==
  /\ pc \in {"begin", "executing", "save"} => mem.rec[cur] = "running"
  /\ pc \in {"submit", "mark"} => mem.rec[cur] \in AgentResults
  /\ pc = "begin" => runs[cur] = 0 /\ disk.rec[cur] # "none"
  /\ pc = "executing" => runs[cur] = 1 /\ outcome[cur] = "none"
  /\ pc = "save" => outcome[cur] # "none"

\* The file lags behind the memory, but never by a record it has already:
\* what was begun is on file, and what is on file as a result is in memory.
JournalOK == \A c \in Commands :
  /\ runs[c] <= 1
  /\ runs[c] = 1 => disk.rec[c] # "none"
  /\ mem.rec[c] = "none" => disk.rec[c] = "none"
  /\ disk.rec[c] \in AgentResults => mem.rec[c] = disk.rec[c]
  /\ outcome[c] # "none" => runs[c] = 1
  /\ mem.rec[c] = "ok" => outcome[c] = "ok"

\* The control plane recorded report r for command c.
Recorded(c, r) == result[c] = StoredResult(c, r) /\ status[c] = StatusOf(r)

\* A success was reported by an execution that succeeded.
SuccessesOK == \A c \in Commands : status[c] = "succeeded" => outcome[c] = "ok"

\* What memory or file mark delivered, and what is about to be marked, is
\* recorded.
DeliveryOK ==
  /\ \A c \in mem.sent : mem.rec[c] \in AgentResults /\ Recorded(c, mem.rec[c])
  /\ \A c \in disk.sent : disk.rec[c] \in AgentResults /\ Recorded(c, disk.rec[c])
  /\ pc = "mark" => Recorded(cur, mem.rec[cur])

\* No command is received whose result the journal holds: before the poll all
\* results were delivered, and what is recorded is not handed out.
ReceivedOK ==
  /\ pc = "poll" => PendingResults = {}
  /\ pc \in {"answer", "handle"} => mem.rec[cur] \notin AgentResults

\* Rows, announcements and statuses move together.
QueueOK == \A c \in Commands :
  /\ status[c] = "absent" => kind[c] = "none" /\ operation[c] = "none"
  /\ operation[c] # "none" <=> kind[c] \in OperationKinds
  /\ operation[c] # "none" =>
       \/ status[c] = "pending" /\ operation[c] = "pending"
       \/ status[c] = "claimed" /\ operation[c] = "running"
       \/ status[c] \in Terminal /\ operation[c] = status[c]
  /\ status[c] \notin Terminal => events[c] = 0
  /\ events[c] <= 1
  /\ kind[c] \in {"backup", "runtime"} /\ status[c] \in Terminal => events[c] = 1

IInv == TypeOK /\ PlaceOK /\ JournalOK /\ SuccessesOK /\ DeliveryOK /\ ReceivedOK /\ QueueOK

-----------------------------------------------------------------------------
(* Refinement *)

\* The abstract view: see CommandContract.
executionOf == [c \in Commands |->
  IF runs[c] = 0 THEN "not" ELSE IF outcome[c] = "none" THEN "running" ELSE outcome[c]]
verdictOf == [c \in Commands |-> IF status[c] \in Terminal THEN status[c] ELSE "open"]

Contract == INSTANCE CommandContract WITH execution <- executionOf, verdict <- verdictOf

\* Queue, journal, loop and network together implement the contract.
ImplementsContract == Contract!Spec

\* A stack is released by the sweep: once an operation was given up as stale,
\* the next one queued is handed out or ended (README.md, "releases the stack
\* for a new operation").  A live agent whose late result is refused does not
\* do so: see the README of this project.
ReleasedForNewOperation == \A c, d \in Commands :
  (result[c] = "stale" /\ status[d] = "pending") ~> status[d] # "pending"

=============================================================================
