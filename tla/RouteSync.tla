------------------------------ MODULE RouteSync -----------------------------
(***************************************************************************)
(* A managed route: the row that says what a gateway agent should serve,   *)
(* the syncs that carry it there, and the file each agent's Traefik reads. *)
(* Unlike a connector's, a route's sync names no revision: whatever the    *)
(* row says when the poll handler answers is what the agent gets, and a    *)
(* result counts for the row as it is when the result arrives.             *)
(*                                                                         *)
(* A change locks the row from its first statement to its commit, but not  *)
(* the sync it finds pending, so it is three steps: the lock, the sync and *)
(* the commit.  What the guard of the table and a result that waits for    *)
(* the lock have looked at is what was there before.  A domain access of   *)
(* the route is an actor of its own, which relies on where the route is    *)
(* served (DomainAccess has what it does at Cloudflare).                   *)
(***************************************************************************)
EXTENDS SyncQueue

VARIABLES
  route,  \* the managed_routes row
  file,   \* the route's file on each agent: 0 or the revision it was written for
  muted,  \* history: a result of the gateway was not recorded, although it was
          \* for the row as it is, because another agent had a sync pending
  change, \* the change of the route that has locked the row
  early,  \* history: the status was set by a result that waited for the lock
  missed, \* history: the sync the last change relied on was gone by its commit
  access, \* the route's cloudflare_public_hostnames row
  fit,    \* its reconciliation has found the topology valid
  skewed  \* history: a change was under way as the access came to rely on it

accessVars == <<access, fit, skewed>>
changeVars == <<change, early, missed>>
rowVars == <<route, muted, changeVars, accessVars>>
routeVars == <<rowVars, file>>
routeSyncVars == <<syncVars, routeVars>>

Routes == [gateway : Agents, enabled : BOOLEAN, rev : Revisions, status : {"pending", "active", "failed"}]
Accesses == [enabled : BOOLEAN, status : {"none", "pending", "active", "failed", "disabled"}, agent : Agents]
NoChange == [on |-> FALSE, enabled |-> FALSE, late |-> "none", sync |-> "none"]
\* sync is what became of its INSERT; late a result that waits for the lock.
Changes == [on : {TRUE}, enabled : BOOLEAN, late : {"none", "active", "failed"},
            sync : {"none", "inserted", "conflict"}, gateway : Agents]

RouteTypeOK ==
  /\ SyncTypeOK({"sync"})
  /\ route \in Routes
  /\ file \in [Agents -> Revisions]
  /\ change \in Changes \cup {NoChange}
  /\ access \in Accesses
  /\ {muted, early, missed, fit, skewed} \subseteq BOOLEAN

\* createRoute
CreatedRoute(a, enabled) == [gateway |-> a, enabled |-> enabled, rev |-> 1, status |-> "pending"]

RouteInit ==
  /\ \E a \in Agents, e \in BOOLEAN :
       /\ route = CreatedRoute(a, e)
       /\ SyncInit({NewRow(a, "sync", 0, 1)})
  /\ file = [a \in Agents |-> 0]
  /\ change = NoChange
  /\ \E a \in Agents : access = [enabled |-> FALSE, status |-> "none", agent |-> a]
  /\ muted = FALSE /\ early = FALSE /\ missed = FALSE /\ fit = FALSE /\ skewed = FALSE

\* Mutant of Gateway: the sync goes to the agent that served the route so far.
OldGateway(a) == route.gateway

\* The agent updateRoute queues the sync for; one the route leaves gets none.
Gateway(a) == a

\* Mutant of Linked: an access counts once it has become active.
LinkedIfActive == access.enabled /\ access.status = "active"

\* hasEnabledDomainAccessDependency, which the handler asks first and the guard of
\* the table again.
Linked == access.enabled

\* What a request may ask of a route that an access relies on.
Moves(a, enabled) == a # route.gateway \/ (route.enabled /\ ~enabled)

\* updateRoute, up to the row's own update ...
StartUpdate(a, enabled) ==
  /\ ~change.on
  /\ route.rev < MaxRevision
  /\ Linked => ~Moves(a, enabled)
  /\ change' = [on |-> TRUE, enabled |-> enabled, late |-> "none", sync |-> "none", gateway |-> a]
  /\ UNCHANGED <<syncVars, route, file, muted, early, missed, accessVars>>

\* ... to queueInternalSync, which inserts a sync unless one waits for the agent: that
\* one will do, but ON CONFLICT DO NOTHING does not lock it ...
QueueInternalSync ==
  /\ change.on /\ change.sync = "none"
  /\ change' = [change EXCEPT !.sync =
       IF PendingSync(Gateway(change.gateway)) # {} THEN "conflict" ELSE "inserted"]
  /\ UNCHANGED <<syncVars, route, file, muted, early, missed, accessVars>>

\* now() of its transaction: the time it began, which no other row is of, and which
\* may be before that of rows that were inserted by changes that began later.
FreeTimes ==
  (1..MaxRevision) \ ({r.stamp : r \in open} \cup interrupted)

\* An agent that has yet to be told what to do for a sync of its.
Untold(a) == at[a] \notin {"holding", "reporting"} /\ \E r \in open : r.agent = a

\* ... and to its commit, which lets the queue see the inserted row, and upon which a
\* result that waits for the row is written if the row still has the result's agent
\* for a gateway; it does not look for pending syncs again.
FinishUpdate(time) ==
  LET overtakes == change.late # "none" /\ change.gateway = route.gateway
      a == Gateway(change.gateway)
  IN
  /\ change.sync # "none"
  /\ route' = [gateway |-> change.gateway, enabled |-> change.enabled, rev |-> route.rev + 1,
               status |-> IF overtakes THEN change.late ELSE "pending"]
  /\ open' = IF change.sync = "inserted" THEN open \cup {NewRow(a, "sync", 0, time)} ELSE open
  /\ change' = NoChange
  /\ muted' = FALSE
  /\ early' = overtakes
  /\ missed' = (change.sync = "conflict" /\ PendingSync(a) = {} /\ ~Untold(a))
  /\ UNCHANGED <<loopVars, interrupted, faults, file, accessVars>>

-----------------------------------------------------------------------------
(* The queue's steps *)

ClaimRoute(a, r) == ClaimRow(a, r) /\ UNCHANGED routeVars
ExpireRoute(r) == LeaseExpires(r) /\ UNCHANGED routeVars

\* The route branch of the poll handler.
Served(a) == route.gateway = a

AnswerRoute(a) ==
  /\ Served(a)
  /\ AnswerWith(a, [enabled |-> route.enabled, rev |-> route.rev])
  /\ UNCHANGED routeVars

\* Mutant of Undisputed: a result is recorded whatever is still to come.
UndisputedAlways == TRUE

\* No agent has a sync of the route pending.
Undisputed == \A b \in Agents : PendingSync(b) = {}

\* What completing a's sync makes of the row, now or once the row is free.
SettledRoute(a, success) ==
  LET status == IF success THEN "active" ELSE "failed"
      counts == Served(a) /\ Undisputed
  IN
  /\ route' = IF counts /\ ~change.on THEN [route EXCEPT !.status = status] ELSE route
  /\ change' = IF counts /\ change.on THEN [change EXCEPT !.late = status] ELSE change
  /\ muted' = (muted \/ (Served(a) /\ ~Undisputed /\ PendingSync(a) = {}))
  /\ early' = (early /\ ~(counts /\ ~change.on))
  /\ UNCHANGED <<missed, accessVars>>

\* Refused: the route has another gateway by now.
RefuseRoute(a) ==
  /\ ~Served(a)
  /\ Refuse(a)
  /\ IF Completes(a) THEN SettledRoute(a, FALSE) ELSE UNCHANGED rowVars
  /\ UNCHANGED file

LostRoute(a) == AnswerLost(a) /\ UNCHANGED routeVars

\* executeRouteSync removes the file or, if the backends answer, replaces it at
\* one stroke; what fails leaves it as it was.
Wanted(a) == IF order[a].enabled THEN order[a].rev ELSE 0

ExecuteRoute(a, success) ==
  /\ ExecuteHeld(a, success)
  /\ file' = IF success THEN [file EXCEPT ![a] = Wanted(a)] ELSE file
  /\ UNCHANGED rowVars

CrashRoute(a) ==
  /\ CrashExecuting(a)
  /\ \E f \in {file[a], Wanted(a)} : file' = [file EXCEPT ![a] = f]
  /\ UNCHANGED rowVars

InterruptedRoute(a) == ReportInterrupted(a) /\ UNCHANGED routeVars

ReportRoute(a) ==
  /\ ReportHeld(a)
  /\ IF Completes(a) THEN SettledRoute(a, ok[a]) ELSE UNCHANGED rowVars
  /\ UNCHANGED file

-----------------------------------------------------------------------------
(* The domain access of the route *)

\* What a tunnel access asks of its route: that the agent of its connector serves
\* it.
Topology == route.enabled /\ route.gateway = access.agent

\* createPendingDomainAccess
CreateAccess ==
  /\ access.status = "none"
  /\ Topology /\ route.status = "active"
  /\ access' = [access EXCEPT !.enabled = TRUE, !.status = "pending"]
  /\ skewed' = change.on
  /\ UNCHANGED <<syncVars, route, file, muted, changeVars, fit>>

\* setDomainAccessPending, which supersedes a reconciliation under way.
SetPending(enabled) ==
  /\ access.status # "none"
  /\ access' = [access EXCEPT !.enabled = enabled, !.status = "pending"]
  /\ fit' = FALSE
  /\ skewed' = (skewed \/ (change.on /\ enabled /\ ~access.enabled))
  /\ UNCHANGED <<syncVars, route, file, muted, changeVars>>

\* reconcileDomainAccess reads the access with its topology ...
ReadTopology ==
  /\ access.status = "pending" /\ ~fit
  /\ LET valid == access.enabled => Topology /\ route.status = "active" IN
     /\ fit' = valid
     /\ access' = IF valid THEN access ELSE [access EXCEPT !.status = "failed"]
  /\ UNCHANGED <<syncVars, route, file, muted, changeVars, skewed>>

\* ... and, if all it does at Cloudflare succeeds, marks it.
MarkAccess ==
  /\ fit
  /\ fit' = FALSE
  /\ \E s \in {IF access.enabled THEN "active" ELSE "disabled", "failed"} : access' = [access EXCEPT !.status = s]
  /\ UNCHANGED <<syncVars, route, file, muted, changeVars, skewed>>

RouteStep(a) ==
  \/ \E r \in open : ClaimRoute(a, r)
  \/ AnswerRoute(a)
  \/ RefuseRoute(a)
  \/ LostRoute(a)
  \/ \E s \in BOOLEAN : ExecuteRoute(a, s)
  \/ CrashRoute(a)
  \/ InterruptedRoute(a)
  \/ ReportRoute(a)

RouteNext ==
  \/ \E a \in Agents, e \in BOOLEAN : StartUpdate(a, e)
  \/ QueueInternalSync
  \/ \E time \in FreeTimes : FinishUpdate(time)
  \/ CreateAccess
  \/ \E e \in BOOLEAN : SetPending(e)
  \/ ReadTopology
  \/ MarkAccess
  \/ \E a \in Agents : RouteStep(a)
  \/ \E r \in open : ExpireRoute(r)

RouteSpec == RouteInit /\ [][RouteNext]_routeSyncVars

-----------------------------------------------------------------------------
(* Properties *)

\* A route shown as active is served by its gateway as the row says it should
\* be: no result that was for an earlier row, for another gateway or delivered
\* late is taken for the row as it is, although no command names a revision.  There
\* are two exceptions: a result that waited while the row was being changed, until
\* that change's own sync is settled; and a change that relied on a pending sync that
\* was claimed, and answered with the row as it was, before the change committed.
ActiveRouteServed ==
  route.status = "active" =>
    early \/ missed \/ file[route.gateway] = IF route.enabled THEN route.rev ELSE 0

\* A pending route that nobody is changing has an open sync for its gateway, whose
\* result will settle it.  There are two exceptions.  The route changed gateways
\* while its old one had a sync pending: the new gateway's result is not recorded
\* then, and the old one's refusal does not count, so the row stays pending with
\* nothing to settle it.  Or the change relied on a pending sync that was claimed and
\* ended before the change committed.
PendingRouteIsQueued ==
  route.status = "pending" =>
    muted \/ missed \/ change.on \/ \E r \in open : r.agent = route.gateway

\* An access shown as active has a route that is enabled and served by the agent
\* of its connector: between reading that topology and marking the access, and
\* after it, no change of the route gets through.  The exception is a change that
\* had passed the guard and was not committed when the access came to rely on it.
ActiveAccessHasRoute == access.status = "active" => Topology \/ skewed
=============================================================================
