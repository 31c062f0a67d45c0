---------------------------- MODULE ConnectorSync ---------------------------
(***************************************************************************)
(* A Cloudflare tunnel connector: the row that says what should run, on    *)
(* which agent, the commands that carry it there, the containers on the    *)
(* agents' hosts, and the check of its token against Cloudflare, which     *)
(* reads the row, awaits an answer and writes its verdict back.            *)
(*                                                                         *)
(* Revisions count changes of the row.  A token is known by the revision   *)
(* it was stored with, a container by the revision it was started for.     *)
(***************************************************************************)
EXTENDS SyncQueue

VARIABLES
  conn,       \* the cloudflare_connectors row
  container,  \* the connector's container on each host: 0 or its revision
  removed,    \* the hosts whose container was last removed by a removal
  unremoved,  \* the agents that failed a removal
  check,      \* the identity verification in progress
  began,      \* when the transaction of each revision began; 0 for those to come
  overtaken   \* history: the row's last change began before an earlier revision's,
              \* of which its agent still had a removal pending

hostVars == <<container, removed, unremoved>>
orderVars == <<began, overtaken>>
connVars == <<conn, hostVars, check, orderVars>>
vars == <<syncVars, connVars>>

\* refused stands for unmatched and mismatch, unusable for invalid and failed,
\* which nothing here tells apart.
Identities == {"parsed", "pending", "verified", "refused", "unusable"}
Deployments == {"pending", "deploying", "active", "failed", "stopping", "stopped"}
NoCheck == [stage |-> "none", rev |-> 0, token |-> 0]

Connectors == [agent : Agents, enabled : BOOLEAN, rev : Revisions, token : Revisions,
               identity : Identities, vouched : Revisions, status : Deployments]

TypeOK ==
  /\ SyncTypeOK({"sync", "remove"})
  /\ conn \in Connectors
  /\ container \in [Agents -> Revisions]
  /\ removed \in SUBSET Agents
  /\ unremoved \in SUBSET Agents
  /\ check \in [stage : {"none", "asking"}, rev : Revisions, token : Revisions]
  /\ began \in [1..MaxRevision -> Revisions]
  /\ overtaken \in BOOLEAN

\* connectorIdentityAllowsRuntime: not an identity under verification that
\* Cloudflare could not be asked about, nor a token that carries none.
AllowsRuntime == conn.identity \notin {"pending", "unusable"}

\* connectorIdentityForCreation: a token that cannot be verified is kept as
\* parsed.
CreationIdentities == {"parsed", "verified", "refused"}

\* The row of createConnector.  vouched is the token the identity was
\* established for.
Created(a, enabled, identity) ==
  [agent |-> a, enabled |-> enabled, rev |-> 1, token |-> 1,
   identity |-> identity, vouched |-> 1, status |-> "pending"]

\* created_at of the rows a transaction inserts is now(), which in PostgreSQL is the
\* time it began.  Its removal and its sync have the same; they are for different
\* agents, so that telling them apart orders nothing.
RemovalStamp(time) == 2 * time - 1
SyncStamp(time) == 2 * time

\* POST /api/connectors: the row, and its first sync if it is enabled.  A row from
\* before identities were checked is pending.
Init ==
  /\ \E a \in Agents, e \in BOOLEAN, i \in CreationIdentities \cup {"pending"} :
       /\ conn = Created(a, e, i)
       /\ SyncInit(IF e THEN {NewRow(a, "sync", 1, SyncStamp(1))} ELSE {})
  /\ container = [a \in Agents |-> 0]
  /\ removed = {}
  /\ unremoved = {}
  /\ check = NoCheck
  /\ began = [r \in 1..MaxRevision |-> IF r = 1 THEN 1 ELSE 0]
  /\ overtaken = FALSE

-----------------------------------------------------------------------------
(* Changes of the connector *)

\* Mutant of QueueConnectorSync: a sync that is already pending will do.
QueueConnectorSyncOnce(a, rev, time) ==
  IF PendingSync(a) # {} THEN open ELSE open \cup {NewRow(a, "sync", rev, SyncStamp(time))}

\* The agent's pending sync is brought to the new revision and to the time of the
\* change, or a new one is inserted there.
QueueConnectorSync(a, rev, time) ==
  (open \ PendingSync(a)) \cup {NewRow(a, "sync", rev, SyncStamp(time))}

\* Mutant of QueueRemoval: only an enabled connector leaves its agent a removal.
QueueRemovalIfEnabled(a, rev, time) ==
  IF a # conn.agent /\ conn.enabled THEN {NewRow(conn.agent, "remove", rev, RemovalStamp(time))} ELSE {}

\* A connector that moves leaves the agent it was on a removal.
QueueRemoval(a, rev, time) ==
  IF a # conn.agent THEN {NewRow(conn.agent, "remove", rev, RemovalStamp(time))} ELSE {}

\* The removals that agent a still has before it, but is to come to after its sync.
Overtaking(a, time) ==
  {r \in open : r.agent = a /\ r.kind = "remove" /\ r.state = "pending" /\ r.stamp > SyncStamp(time)}

\* The changes lock the row one after another, in whatever order they began.
BeginTimes == (1..MaxRevision) \ {began[r] : r \in 1..conn.rev}

\* What the PATCH handler asks first: a new token is verified with Cloudflare,
\* and without one the connector can be enabled only with an identity that
\* allows it to run.
MayUpdate(enabled, newToken) == ~conn.enabled /\ enabled => newToken \/ AllowsRuntime

\* updateConnector, in a transaction that began at that time.
UpdateConnector(time, a, enabled, newToken) ==
  LET rev == conn.rev + 1 IN
  /\ conn.rev < MaxRevision
  /\ MayUpdate(enabled, newToken)
  /\ open' = QueueConnectorSync(a, rev, time) \cup QueueRemoval(a, rev, time)
  /\ conn' = [conn EXCEPT
       !.agent = a, !.enabled = enabled, !.rev = rev,
       !.token = IF newToken THEN rev ELSE @,
       !.identity = IF newToken THEN "verified" ELSE @,
       !.vouched = IF newToken THEN rev ELSE @,
       !.status = IF enabled THEN "pending" ELSE "stopping"]
  /\ began' = [began EXCEPT ![rev] = time]
  /\ overtaken' = (Overtaking(a, time) # {})
  /\ UNCHANGED <<loopVars, interrupted, faults, hostVars, check>>

-----------------------------------------------------------------------------
(* verifyStoredConnector: one verification at a time, at any time            *)

\* What it keeps of the row it has read, to compare with.
Expectation == [stage |-> "asking", rev |-> conn.rev, token |-> conn.token]

\* parseCloudflareTunnelToken: a token says whose tunnel it is for, unless it is
\* one that was stored before tokens were parsed, or cannot be decrypted.
Parsings == {"parsed"} \cup (IF conn.token = 1 THEN {"unusable"} ELSE {})

\* The row with what was found out about a token.
Identified(identity, token) == [conn EXCEPT !.identity = identity, !.vouched = token]

\* getConnectorDeployment and the first write, before Cloudflare is asked.  Reading
\* disturbs nothing, and a check whose row changes before this write writes nothing
\* and ends, so that it need not have begun.
StartCheck ==
  /\ check.stage = "none"
  /\ \E parsing \in Parsings :
       /\ conn' = Identified(parsing, conn.token)
       /\ check' = IF parsing = "parsed" THEN Expectation ELSE NoCheck
  /\ UNCHANGED <<syncVars, hostVars, orderVars>>

\* listConnectorIdentityDeployments
Due == conn.identity \in {"pending", "parsed", "unusable", "refused"}

\* Asked for by a user, or by the iteration over the connectors that are due.
VerifyConnector == StartCheck
ReconcileIdentity == Due /\ StartCheck

\* What getTunnelMetadata and getTunnelToken tell of a tunnel: it has this very
\* token, it is gone or has another one, or the call fails or makes no sense.
Answers == {"same", "other", "none"}

\* verifyParsedConnectorIdentity: without an account for the token nobody is asked;
\* that Cloudflare could not be asked leaves the identity pending.
Verdict(answer) ==
  CASE answer = "same" -> "verified"
    [] answer = "none" -> "pending"
    [] answer \in {"other", "unlinked"} -> "refused"

\* Mutant of AsRead: the verdict is written whatever happened to the row.
AsReadAlways == TRUE

\* The row is still the one it read.
AsRead == conn.rev = check.rev /\ conn.token = check.token

\* markConnectorIdentity
MarkIdentity(identity) ==
  conn' = IF AsRead THEN Identified(identity, check.token) ELSE conn

\* The verdict arrives.
FinishCheck(answer) ==
  /\ check.stage = "asking"
  /\ MarkIdentity(Verdict(answer))
  /\ check' = NoCheck
  /\ UNCHANGED <<syncVars, hostVars, orderVars>>

-----------------------------------------------------------------------------
(* The queue's steps, with what they do to the row *)

\* The row is the one sync command r was made for.
Current(r) == r.kind = "sync" /\ r.agent = conn.agent /\ r.rev = conn.rev

Claim(a, r) ==
  /\ ClaimRow(a, r)
  /\ conn' = IF Current(r)
             THEN [conn EXCEPT !.status = IF conn.enabled THEN "deploying" ELSE "stopping"]
             ELSE conn
  /\ UNCHANGED <<hostVars, check, orderVars>>

Expire(r) == LeaseExpires(r) /\ UNCHANGED connVars

\* The connector branch of the poll handler sends the row it now finds only if
\* it is still the one the command was made for.
Answerable(r) == Current(r) /\ (conn.enabled => AllowsRuntime)

AnswerSync(a) ==
  /\ held[a].kind = "sync"
  /\ Answerable(held[a])
  /\ AnswerWith(a, [enabled |-> conn.enabled, rev |-> conn.rev])
  /\ UNCHANGED connVars

\* A removal is passed on as it is.
AnswerRemove(a) ==
  /\ held[a].kind = "remove"
  /\ AnswerWith(a, [enabled |-> FALSE, rev |-> held[a].rev])
  /\ UNCHANGED connVars

\* Completing a sync brings the row up to date if it is still the one it was
\* made for.
Settled(r, status) == conn' = IF Current(r) THEN [conn EXCEPT !.status = status] ELSE conn

RefuseSync(a) ==
  /\ held[a].kind = "sync"
  /\ ~Answerable(held[a])
  /\ Refuse(a)
  /\ IF Completes(a) THEN Settled(held[a], "failed") ELSE UNCHANGED conn
  /\ UNCHANGED <<hostVars, check, orderVars>>

Lost(a) == AnswerLost(a) /\ UNCHANGED connVars

\* What an execution leaves on the host: the container it was ordered if it
\* succeeds; if it fails or is cut short that one, the previous one, or, between
\* retiring the one and renaming the other, none.
Leaves(a, success) ==
  IF success THEN {IF order[a].enabled THEN order[a].rev ELSE 0}
  ELSE {container[a], 0} \cup (IF order[a].enabled THEN {order[a].rev} ELSE {})

Effect(a, success) ==
  /\ \E c \in Leaves(a, success) : container' = [container EXCEPT ![a] = c]
  /\ removed' = IF held[a].kind = "remove" THEN removed \cup {a} ELSE removed \ {a}
  /\ UNCHANGED <<conn, check, orderVars>>

Execute(a, success) == ExecuteHeld(a, success) /\ Effect(a, success) /\ UNCHANGED unremoved

Crash(a) == CrashExecuting(a) /\ Effect(a, FALSE) /\ UNCHANGED unremoved

Interrupted(a) == ReportInterrupted(a) /\ UNCHANGED connVars

\* A removal that is not reported as done.
Unremoved(r, success) ==
  unremoved' = IF r.kind = "remove" /\ ~success THEN unremoved \cup {r.agent} ELSE unremoved

\* What a result makes of the row; the executor may find the container it has
\* just started stopped.
Outcomes(a) ==
  IF ~ok[a] THEN {"failed"} ELSE IF order[a].enabled THEN {"active", "stopped"} ELSE {"stopped"}

Report(a) ==
  /\ ReportHeld(a)
  /\ IF Completes(a) THEN \E s \in Outcomes(a) : Settled(held[a], s) ELSE UNCHANGED conn
  /\ Unremoved(held[a], ok[a])
  /\ UNCHANGED <<container, removed, check, orderVars>>

FailStale(r) ==
  /\ FailStaleRow(r)
  /\ Settled(r, "failed")
  /\ Unremoved(r, FALSE)
  /\ UNCHANGED <<container, removed, check, orderVars>>

AgentStep(a) ==
  \/ \E r \in open : Claim(a, r)
  \/ AnswerSync(a)
  \/ AnswerRemove(a)
  \/ RefuseSync(a)
  \/ Lost(a)
  \/ \E s \in BOOLEAN : Execute(a, s)
  \/ Crash(a)
  \/ Interrupted(a)
  \/ Report(a)

Next ==
  \/ \E time \in BeginTimes :
       \/ \E a \in Agents : UpdateConnector(time, a, conn.enabled, FALSE)
       \/ \E t \in BOOLEAN : UpdateConnector(time, conn.agent, ~conn.enabled, t)
       \/ UpdateConnector(time, conn.agent, conn.enabled, TRUE)
  \/ VerifyConnector
  \/ ReconcileIdentity
  \/ \E answer \in Answers \cup {"unlinked"} : FinishCheck(answer)
  \/ \E a \in Agents : AgentStep(a)
  \/ \E r \in open : Expire(r) \/ FailStale(r)

Spec == Init /\ [][Next]_vars

-----------------------------------------------------------------------------
(* Properties *)

\* A connector shown as active runs on its agent, at its current revision:
\* whatever was superseded or delivered late, no command made for another
\* revision or agent settles its status, and the queue hands an agent the
\* removal of the past before the sync of the present.  There are two exceptions,
\* both of a removal that undoes the deployment after the connector came back: its
\* answer was lost and it waited for its lease, or the change that brought the
\* connector back overlapped the one that moved it away and had begun before it, so
\* that its sync sorts first.
ActiveConnectorRuns ==
  conn.status = "active" =>
    \/ container[conn.agent] = conn.rev
    \/ conn.agent \in removed /\ (faults > 0 \/ overtaken)

\* A connector that is disabled and shown as stopped does not run on its agent.
\* A container left on an agent the connector has moved away from is still owed
\* its removal, or the removal failed: leaving is never silently incomplete.
StoppedMeansGone ==
  /\ conn.status = "stopped" /\ ~conn.enabled => container[conn.agent] = 0
  /\ \A a \in Agents \ {conn.agent} : container[a] # 0 =>
       a \in unremoved \/ \E r \in open : r.agent = a /\ r.kind = "remove"

\* The verdict stored with a connector is about the token stored with it,
\* although Cloudflare is asked between reading the one and writing the other.
IdentityIsOfStoredToken == conn.vouched = conn.token

\* A connector that has not reached a final status has an open sync for exactly
\* its agent and revision, so that an agent's result, a refusal or the sweep will
\* settle it: no interleaving of changes and results loses the last one.
UnsettledIsQueued ==
  conn.status \in {"pending", "deploying", "stopping"} /\ (conn.rev > 1 \/ conn.enabled)
    => \E r \in open : Current(r)
=============================================================================
