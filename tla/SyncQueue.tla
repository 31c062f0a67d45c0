------------------------------ MODULE SyncQueue -----------------------------
(***************************************************************************)
(* The part of the command queue that synchronisation and operations rest  *)
(* on: several agents, each claiming the oldest of its commands it may.    *)
(* A command carries a reference only; the poll handler looks up what it   *)
(* refers to after the claim has committed, so claim and answer are two    *)
(* steps with anything between them.                                       *)
(*                                                                         *)
(* An agent runs one command at a time and reports it before it polls      *)
(* again.  CommandDelivery models that loop and its journal in detail;     *)
(* here a crash leaves a command that is later reported as interrupted.    *)
(***************************************************************************)
EXTENDS Naturals, FiniteSets

CONSTANTS
  Agents,
  MaxRevision,  \* bound on the revisions of a connector, route or deployment
  MaxFaults     \* bound on the faults

ASSUME QueueAssumption == MaxRevision \in Nat \ {0} /\ MaxFaults \in Nat

Revisions == 0..MaxRevision

VARIABLES
  open,         \* the agent_commands rows that are pending or claimed
  at,           \* where each agent's loop is
  held,         \* the row it deals with, as it was claimed
  order,        \* what the poll handler sent it
  ok,           \* the result it has in hand
  interrupted,  \* the rows an agent was executing when it crashed
  faults        \* the faults so far

loopVars == <<at, held, order, ok>>
syncVars == <<open, loopVars, interrupted, faults>>

\* stamp is created_at, which tells rows apart and orders them; rev is the
\* revision in the payload, 0 where it carries none; expired is a claimed row
\* whose lease has run out.
Rows(kinds) == [agent : Agents, kind : kinds, rev : Nat, stamp : Nat,
                state : {"pending", "claimed", "expired"}]
NoRow == [kind |-> "none"]
Orders == [enabled : BOOLEAN, rev : Nat]
NoOrder == [enabled |-> FALSE, rev |-> 0]

SyncTypeOK(kinds) ==
  /\ open \in SUBSET Rows(kinds)
  /\ at \in [Agents -> {"idle", "asked", "holding", "reporting"}]
  /\ held \in [Agents -> Rows(kinds) \cup {NoRow}]
  /\ order \in [Agents -> Orders]
  /\ ok \in [Agents -> BOOLEAN]
  /\ interrupted \in SUBSET Nat
  /\ faults \in 0..MaxFaults

SyncInit(rows) ==
  /\ open = rows
  /\ at = [a \in Agents |-> "idle"]
  /\ held = [a \in Agents |-> NoRow]
  /\ order = [a \in Agents |-> NoOrder]
  /\ ok = [a \in Agents |-> FALSE]
  /\ interrupted = {}
  /\ faults = 0

Fault == faults < MaxFaults /\ faults' = faults + 1

NewRow(a, k, r, stamp) == [agent |-> a, kind |-> k, rev |-> r, stamp |-> stamp, state |-> "pending"]

\* A unique index keeps at most one of these per agent and connector or route.
PendingSync(a) == {r \in open : r.agent = a /\ r.kind = "sync" /\ r.state = "pending"}

-----------------------------------------------------------------------------
(* claimCommands, limit 1 *)

Claimable(a) == {r \in open : r.agent = a /\ r.state \in {"pending", "expired"}}

\* Mutant of Oldest: any claimable row, whatever the order they were made in.
AnyClaimable(a) == Claimable(a)

Oldest(a) == {r \in Claimable(a) : \A s \in Claimable(a) : r.stamp <= s.stamp}

ClaimRow(a, r) ==
  LET claimed == [r EXCEPT !.state = "claimed"] IN
  /\ at[a] = "idle"
  /\ r \in Oldest(a)
  /\ open' = (open \ {r}) \cup {claimed}
  /\ at' = [at EXCEPT ![a] = "asked"]
  /\ held' = [held EXCEPT ![a] = claimed]
  /\ UNCHANGED <<order, ok, interrupted, faults>>

\* The lease of a claimed row runs out.  That matters once no agent deals with
\* it: an agent that does will not poll before it is done with it.
LeaseExpires(r) ==
  /\ r \in open
  /\ r.state = "claimed"
  /\ \A a \in Agents : held[a] # r
  /\ open' = (open \ {r}) \cup {[r EXCEPT !.state = "expired"]}
  /\ UNCHANGED <<loopVars, interrupted, faults>>

\* failStaleCommands: a row open for longer than its window is failed.
FailStaleRow(r) ==
  /\ r \in open
  /\ open' = open \ {r}
  /\ UNCHANGED <<loopVars, interrupted, faults>>

-----------------------------------------------------------------------------
(* The poll handler after the claim, and the agent *)

Release(a) ==
  /\ at' = [at EXCEPT ![a] = "idle"]
  /\ held' = [held EXCEPT ![a] = NoRow]
  /\ order' = [order EXCEPT ![a] = NoOrder]
  /\ ok' = [ok EXCEPT ![a] = FALSE]

\* completeCommand takes a result for a row that is still claimed; for one that
\* was ended meanwhile the caller is told so and lets go of it.
Completes(a) == held[a] \in open

CompleteHeld(a) ==
  /\ open' = open \ {held[a]}
  /\ Release(a)
  /\ UNCHANGED <<interrupted, faults>>

\* The poll handler sends the claimed command with what it looked up.
AnswerWith(a, o) ==
  /\ at[a] = "asked"
  /\ at' = [at EXCEPT ![a] = "holding"]
  /\ order' = [order EXCEPT ![a] = o]
  /\ UNCHANGED <<open, held, ok, interrupted, faults>>

\* It refuses the command, failing it in a transaction of its own.
Refuse(a) == at[a] = "asked" /\ CompleteHeld(a)

\* The poll's answer is lost, or the agent crashes before it has recorded the
\* command; the command waits for its lease.
AnswerLost(a) ==
  /\ at[a] \in {"asked", "holding"}
  /\ Release(a)
  /\ Fault
  /\ UNCHANGED <<open, interrupted>>

Recorded(a) == held[a].stamp \in interrupted

\* The agent executes the command; what that does to its host is up to the
\* executor.
ExecuteHeld(a, success) ==
  /\ at[a] = "holding"
  /\ ~Recorded(a)
  /\ at' = [at EXCEPT ![a] = "reporting"]
  /\ ok' = [ok EXCEPT ![a] = success]
  /\ UNCHANGED <<open, held, order, interrupted, faults>>

\* The journal has a record of it without result: not executed again.
ReportInterrupted(a) ==
  /\ at[a] = "holding"
  /\ Recorded(a)
  /\ at' = [at EXCEPT ![a] = "reporting"]
  /\ UNCHANGED <<open, held, order, ok, interrupted, faults>>

\* The agent crashes while executing, at whatever point of it.
CrashExecuting(a) ==
  /\ at[a] = "holding"
  /\ ~Recorded(a)
  /\ interrupted' = interrupted \cup {held[a].stamp}
  /\ Release(a)
  /\ Fault
  /\ UNCHANGED open

\* The result reaches the result handler.
ReportHeld(a) == at[a] = "reporting" /\ CompleteHeld(a)
=============================================================================
