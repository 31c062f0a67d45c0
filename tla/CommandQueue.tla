---------------------------- MODULE CommandQueue ----------------------------
(***************************************************************************)
(* The control plane's queue of agent commands for one agent: the rows of  *)
(* agent_commands and, for the kinds that have one, the operation row      *)
(* (stack_backups, stack_restores, runtime_operations,                     *)
(* runtime_log_requests, deployment_runs) that one command carries out,    *)
(* with the operational events that announce it.                           *)
(*                                                                         *)
(* Every operation is one PostgreSQL transaction of PostgresStore and is   *)
(* one atomic operator here.  The operators constrain queueVars only; the  *)
(* modules that extend this one add the caller's state.                    *)
(*                                                                         *)
(* What a sync command does to the shared route, stack or connector row is *)
(* modelled in the modules of those rows.                                  *)
(***************************************************************************)
EXTENDS Naturals, FiniteSets

CONSTANTS
  Commands,   \* command ids, numbered in the order of created_at
  Kinds,      \* the kinds of command this instance creates
  MaxStale    \* how many commands the clock may carry past their completion window

OperationKinds == {"backup", "restore", "runtime", "logs", "deployment"}
ConnectorKinds == {"connectorSync", "connectorRemove"}
EntityKinds    == {"connectorSync", "routeSync"}
PlainKinds     == {"diagnostics"}
AllKinds       == OperationKinds \cup ConnectorKinds \cup EntityKinds \cup PlainKinds

ASSUME QueueAssumption ==
  /\ Commands \subseteq Nat \ {0}
  /\ Kinds \subseteq AllKinds
  /\ MaxStale \in Nat

\* What a result row can hold.  An agent reports one of AgentResults; the
\* control plane itself writes "rejected" (poll handler) and "stale" (sweep).
\* A log command stores only its truncation flag.
AgentResults == {"ok", "failed", "interrupted"}
Results      == AgentResults \cup {"rejected"}
Stored       == Results \cup {"none", "stale", "flag"}
Statuses     == {"absent", "pending", "claimed", "succeeded", "failed"}
Terminal     == {"succeeded", "failed"}
RowStatuses  == {"none", "pending", "running", "succeeded", "failed"}

VARIABLES
  kind,       \* agent_commands.type
  status,     \* agent_commands.status, "absent" before the row exists
  result,     \* agent_commands.result
  leased,     \* the commands whose lease_expires_at is in the future
  operation,  \* status of the command's operation row, "none" if it has none
  events      \* how many operational events announced the command's end

queueVars == <<kind, status, result, leased, operation, events>>

QueueTypeOK ==
  /\ kind \in [Commands -> AllKinds \cup {"none"}]
  /\ status \in [Commands -> Statuses]
  /\ result \in [Commands -> Stored]
  /\ leased \subseteq Commands
  /\ operation \in [Commands -> RowStatuses]
  /\ events \in [Commands -> Nat]

QueueInit ==
  /\ kind = [c \in Commands |-> "none"]
  /\ status = [c \in Commands |-> "absent"]
  /\ result = [c \in Commands |-> "none"]
  /\ leased = {}
  /\ operation = [c \in Commands |-> "none"]
  /\ events = [c \in Commands |-> 0]

-----------------------------------------------------------------------------
(* Creating and claiming *)

\* INSERT INTO agent_commands, together with the operation row of the kinds
\* that have one (createBackup, createRestore, createRuntimeOperation ...).
CreateCommand(c, k) ==
  /\ status[c] = "absent"
  /\ \A d \in Commands : d > c => status[d] = "absent"
  /\ kind' = [kind EXCEPT ![c] = k]
  /\ status' = [status EXCEPT ![c] = "pending"]
  /\ operation' = [operation EXCEPT ![c] = IF k \in OperationKinds THEN "pending" ELSE "none"]
  /\ UNCHANGED <<result, leased, events>>

Claimable == {c \in Commands : \/ status[c] = "pending"
                               \/ status[c] = "claimed" /\ c \notin leased}

\* The oldest claimable row is claimed, and its operation row starts running.
ClaimCommand(c) ==
  /\ c \in Claimable
  /\ \A d \in Claimable : c <= d
  /\ status' = [status EXCEPT ![c] = "claimed"]
  /\ leased' = leased \cup {c}
  /\ operation' = [operation EXCEPT ![c] = IF @ = "pending" THEN "running" ELSE @]
  /\ UNCHANGED <<kind, result, events>>

\* now() reaches lease_expires_at.
LeaseExpires(c) ==
  /\ c \in leased
  /\ leased' = leased \ {c}
  /\ UNCHANGED <<kind, status, result, operation, events>>

-----------------------------------------------------------------------------
(* Completing *)

\* Mutant of StatusOf: only a plain failure is reported as failed.
StatusOfOptimistic(r) == IF r = "failed" THEN "failed" ELSE "succeeded"

StatusOf(r) == IF r = "ok" THEN "succeeded" ELSE "failed"

StoredResult(c, r) == IF kind[c] = "logs" THEN "flag" ELSE r

\* The same report again is acknowledged, any other report for a command that
\* is not claimed is refused.  Whether the lease still runs is not looked at.
CompletionOutcome(c, r) ==
  IF status[c] = "absent" THEN "missing"
  ELSE IF status[c] = StatusOf(r) /\ result[c] = StoredResult(c, r) THEN "idempotent"
  ELSE IF status[c] # "claimed" THEN "conflict"
  ELSE "updated"

\* Backup and restore rows are overwritten whatever they hold; the others only
\* while the row is still active.
CompletionReachesOperation(c) ==
  \/ kind[c] \in {"backup", "restore"}
  \/ kind[c] \in {"runtime", "logs", "deployment"} /\ operation[c] \in {"pending", "running"}

CompletionAnnounced(c, s) ==
  \/ kind[c] \in EntityKinds /\ s = "failed"
  \/ /\ CompletionReachesOperation(c)
     /\ \/ kind[c] \in {"backup", "runtime", "deployment"}
        \/ kind[c] = "restore" /\ s = "failed"

CompleteCommand(c, r) ==
  IF CompletionOutcome(c, r) = "updated"
  THEN LET s == StatusOf(r) IN
       /\ status' = [status EXCEPT ![c] = s]
       /\ result' = [result EXCEPT ![c] = StoredResult(c, r)]
       /\ leased' = leased \ {c}
       /\ operation' = [operation EXCEPT ![c] = IF CompletionReachesOperation(c) THEN s ELSE @]
       /\ events' = [events EXCEPT ![c] = IF CompletionAnnounced(c, s) THEN @ + 1 ELSE @]
       /\ UNCHANGED kind
  ELSE UNCHANGED queueVars

-----------------------------------------------------------------------------
(* The stale sweep of the dispatcher's tick *)

\* Mutant of Sweepable: the status is not looked at.
SweepableAnyStatus == {c \in Commands : kind[c] \in OperationKinds \cup ConnectorKinds}

Sweepable == {c \in Commands : /\ status[c] \in {"pending", "claimed"}
                               /\ kind[c] \in OperationKinds \cup ConnectorKinds}

\* Mutant of SweptRow: rows that never started running are left pending.
SweptRowRunning(c) == operation[c] = "running"

SweptRow(c) == operation[c] \in {"pending", "running"}

\* Mutant of SweepAnnounced: only restores are announced.
SweepAnnouncedRestores(c) == SweptRow(c) /\ kind[c] = "restore"

\* The sweep announces backups, restores and runtime actions, not deployments.
SweepAnnounced(c) == SweptRow(c) /\ kind[c] \in {"backup", "restore", "runtime"}

\* One sweep fails every command past its window at once.  Which commands are
\* past it (24 hours, 30 minutes for connectors) is the clock's choice.
FailStaleCommands(S) ==
  /\ S # {}
  /\ S \subseteq Sweepable
  /\ status' = [c \in Commands |-> IF c \in S THEN "failed" ELSE status[c]]
  /\ result' = [c \in Commands |-> IF c \in S THEN "stale" ELSE result[c]]
  /\ leased' = leased \ S
  /\ operation' = [c \in Commands |-> IF c \in S /\ SweptRow(c) THEN "failed" ELSE operation[c]]
  /\ events' = [c \in Commands |-> IF c \in S /\ SweepAnnounced(c) THEN events[c] + 1 ELSE events[c]]
  /\ UNCHANGED kind

Stale == {c \in Commands : result[c] = "stale"}

-----------------------------------------------------------------------------

QueueNext ==
  \/ \E c \in Commands :
       \/ \E k \in Kinds : CreateCommand(c, k)
       \/ ClaimCommand(c)
       \/ LeaseExpires(c)
       \/ \E r \in Results : CompleteCommand(c, r)
  \/ \E S \in SUBSET Commands : FailStaleCommands(S)
=============================================================================
