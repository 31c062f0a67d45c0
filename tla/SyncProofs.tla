------------------------------ MODULE SyncProofs ----------------------------
(***************************************************************************)
(* Machine-checked proofs about ConnectorSync and RouteSync, and about the *)
(* part of the queue they share, for any set of agents and any number of   *)
(* revisions and faults.                                                   *)
(***************************************************************************)
EXTENDS ConnectorSync, RouteSync, TLAPS

USE QueueAssumption DEF QueueAssumption, Revisions

-----------------------------------------------------------------------------
(* The queue and its agents *)

\* An agent that is not idle deals with a claimed row of its own, and has a
\* success to report only once it has executed it.
HandOK(a) ==
  /\ at[a] = "idle" => held[a] = NoRow
  /\ at[a] # "idle" => held[a] # NoRow /\ held[a].agent = a /\ held[a].state = "claimed"
  /\ ok[a] => at[a] = "reporting"

QueueOK(kinds) == SyncTypeOK(kinds) /\ \A a \in Agents : HandOK(a)

LEMMA RowStates ==
  ASSUME NEW kinds, NEW r \in Rows(kinds), NEW s \in {"pending", "claimed", "expired"}
  PROVE  LET t == [r EXCEPT !.state = s] IN
         /\ t \in Rows(kinds)
         /\ t.agent = r.agent /\ t.kind = r.kind /\ t.rev = r.rev /\ t.stamp = r.stamp /\ t.state = s
  BY DEF Rows

LEMMA NewRowTypes ==
  ASSUME NEW kinds, NEW a \in Agents, NEW k \in kinds, NEW rev \in Nat, NEW stamp \in Nat
  PROVE  LET t == NewRow(a, k, rev, stamp) IN
         /\ t \in Rows(kinds)
         /\ t.agent = a /\ t.kind = k /\ t.rev = rev /\ t.stamp = stamp /\ t.state = "pending"
  BY DEF Rows, NewRow

\* The row an agent deals with is a claimed row of its own.
LEMMA HeldRow ==
  ASSUME NEW kinds, QueueOK(kinds), NEW a \in Agents, at[a] # "idle"
  PROVE  held[a] \in Rows(kinds) /\ held[a].agent = a /\ held[a].state = "claimed"
  BY DEF QueueOK, SyncTypeOK, HandOK

LEMMA QueueInit ==
  ASSUME NEW kinds, NEW rows \in SUBSET Rows(kinds), SyncInit(rows)
  PROVE  QueueOK(kinds)
<1>1. NoOrder \in Orders
  BY DEF NoOrder, Orders
<1> QED
  BY <1>1 DEF SyncInit, QueueOK, SyncTypeOK, HandOK

-----------------------------------------------------------------------------
(* The steps of an agent, each told by what it changes *)

LEMMA ClaimStep ==
  ASSUME NEW kinds, QueueOK(kinds), NEW a \in Agents, NEW r \in open, "none" \notin kinds,
         ClaimRow(a, r)
  PROVE  /\ QueueOK(kinds)'
         /\ at[a] = "idle" /\ at'[a] = "asked" /\ held'[a] = [r EXCEPT !.state = "claimed"]
         /\ order' = order /\ ok' = ok
         /\ \A b \in Agents \ {a} : at'[b] = at[b] /\ held'[b] = held[b]
         /\ r.agent = a /\ r.state # "claimed" /\ r \in Rows(kinds)
         /\ \A s \in open : s.agent = a /\ s.state \in {"pending", "expired"} => r.stamp <= s.stamp
         /\ open' = (open \ {r}) \cup {[r EXCEPT !.state = "claimed"]}
         /\ UNCHANGED <<interrupted, faults>>
<1> DEFINE claimed == [r EXCEPT !.state = "claimed"]
<1> USE DEF QueueOK, SyncTypeOK
<1>1. /\ claimed \in Rows(kinds) /\ claimed.agent = r.agent /\ claimed.kind = r.kind
      /\ claimed.state = "claimed"
  BY RowStates
<1>2. r.agent = a /\ r.state # "claimed" /\ r \in Rows(kinds) /\ claimed # NoRow
  <2>1. claimed.kind \in kinds
    BY <1>1 DEF Rows
  <2> QED
    BY <2>1 DEF ClaimRow, Oldest, Claimable, NoRow
<1>3. /\ at[a] = "idle" /\ at'[a] = "asked" /\ held'[a] = claimed /\ order' = order /\ ok' = ok
      /\ \A b \in Agents \ {a} : at'[b] = at[b] /\ held'[b] = held[b]
      /\ open' = (open \ {r}) \cup {claimed}
      /\ UNCHANGED <<interrupted, faults>>
  BY DEF ClaimRow
<1>4. \A s \in open : s.agent = a /\ s.state \in {"pending", "expired"} => r.stamp <= s.stamp
  BY DEF ClaimRow, Oldest, Claimable
<1>5. SyncTypeOK(kinds)'
  BY <1>1, <1>3 DEF ClaimRow
<1>6. ASSUME NEW b \in Agents PROVE HandOK(b)'
  <2>1. HandOK(b)
    OBVIOUS
  <2>2. CASE b = a
    BY <1>1, <1>2, <1>3, <2>1, <2>2 DEF HandOK
  <2>3. CASE b # a
    BY <1>3, <2>1, <2>3 DEF HandOK
  <2> QED
    BY <2>2, <2>3
<1> QED
  BY <1>2, <1>3, <1>4, <1>5, <1>6

LEMMA ReleaseStep ==
  ASSUME NEW kinds, QueueOK(kinds), NEW a \in Agents, Release(a), open' \subseteq open,
         interrupted' \in SUBSET Nat, faults' \in 0..MaxFaults
  PROVE  /\ QueueOK(kinds)'
         /\ at'[a] = "idle" /\ held'[a] = NoRow /\ order'[a] = NoOrder /\ ~ok'[a]
         /\ \A b \in Agents \ {a} :
              at'[b] = at[b] /\ held'[b] = held[b] /\ order'[b] = order[b] /\ ok'[b] = ok[b]
<1> USE DEF QueueOK, SyncTypeOK
<1>1. /\ at'[a] = "idle" /\ held'[a] = NoRow /\ order'[a] = NoOrder /\ ~ok'[a]
      /\ \A b \in Agents \ {a} :
           at'[b] = at[b] /\ held'[b] = held[b] /\ order'[b] = order[b] /\ ok'[b] = ok[b]
  BY DEF Release
<1>2. SyncTypeOK(kinds)'
  <2>1. NoOrder \in Orders
    BY DEF NoOrder, Orders
  <2> QED
    BY <2>1 DEF Release
<1>3. ASSUME NEW b \in Agents PROVE HandOK(b)'
  BY <1>1 DEF HandOK
<1> QED
  BY <1>1, <1>2, <1>3

\* A step that brings a from one place of its loop to another, with the row it has.
LEMMA MoveStep ==
  ASSUME NEW kinds, QueueOK(kinds), NEW a \in Agents, at[a] # "idle",
         NEW p \in {"holding", "reporting"}, NEW o \in Orders, NEW success \in BOOLEAN,
         success => p = "reporting",
         at' = [at EXCEPT ![a] = p], order' = [order EXCEPT ![a] = o],
         ok' = [ok EXCEPT ![a] = success], UNCHANGED <<open, held, interrupted, faults>>
  PROVE  /\ QueueOK(kinds)'
         /\ at'[a] = p /\ order'[a] = o /\ ok'[a] = success
         /\ \A b \in Agents \ {a} : at'[b] = at[b] /\ order'[b] = order[b] /\ ok'[b] = ok[b]
<1> USE DEF QueueOK, SyncTypeOK
<1>1. /\ at'[a] = p /\ order'[a] = o /\ ok'[a] = success
      /\ \A b \in Agents \ {a} : at'[b] = at[b] /\ order'[b] = order[b] /\ ok'[b] = ok[b]
  OBVIOUS
<1>2. SyncTypeOK(kinds)'
  OBVIOUS
<1>3. ASSUME NEW b \in Agents PROVE HandOK(b)'
  BY <1>1 DEF HandOK
<1> QED
  BY <1>1, <1>2, <1>3

LEMMA AnswerStep ==
  ASSUME NEW kinds, QueueOK(kinds), NEW a \in Agents, NEW o \in Orders, AnswerWith(a, o)
  PROVE  /\ QueueOK(kinds)'
         /\ at[a] = "asked" /\ at'[a] = "holding" /\ order'[a] = o /\ ~ok'[a]
         /\ \A b \in Agents \ {a} : at'[b] = at[b] /\ order'[b] = order[b] /\ ok'[b] = ok[b]
         /\ UNCHANGED <<open, held, interrupted, faults>>
<1> USE DEF QueueOK
<1>1. at[a] = "asked" /\ ~ok[a] /\ ok \in [Agents -> BOOLEAN]
  BY DEF AnswerWith, HandOK, SyncTypeOK
<1>2. ok' = [ok EXCEPT ![a] = FALSE]
  BY <1>1 DEF AnswerWith
<1> QED
  BY <1>1, <1>2, MoveStep, Zenon DEF AnswerWith

LEMMA ExecuteStep ==
  ASSUME NEW kinds, QueueOK(kinds), NEW a \in Agents, NEW success \in BOOLEAN,
         ExecuteHeld(a, success)
  PROVE  /\ QueueOK(kinds)'
         /\ at[a] = "holding" /\ at'[a] = "reporting" /\ ok'[a] = success
         /\ \A b \in Agents \ {a} : at'[b] = at[b] /\ ok'[b] = ok[b]
         /\ UNCHANGED <<open, held, order, interrupted, faults>>
<1>1. at[a] = "holding" /\ order[a] \in Orders /\ order \in [Agents -> Orders]
  BY DEF ExecuteHeld, QueueOK, SyncTypeOK
<1>2. order' = [order EXCEPT ![a] = order[a]] /\ order' = order
  BY <1>1 DEF ExecuteHeld
<1> QED
  BY <1>1, <1>2, MoveStep, Zenon DEF ExecuteHeld

LEMMA InterruptedStep ==
  ASSUME NEW kinds, QueueOK(kinds), NEW a \in Agents, ReportInterrupted(a)
  PROVE  /\ QueueOK(kinds)'
         /\ at[a] = "holding" /\ at'[a] = "reporting" /\ ~ok[a] /\ ok' = ok
         /\ held[a].stamp \in interrupted
         /\ \A b \in Agents \ {a} : at'[b] = at[b]
         /\ UNCHANGED <<open, held, order, interrupted, faults>>
<1>1. /\ at[a] = "holding" /\ order[a] \in Orders /\ order \in [Agents -> Orders]
      /\ ~ok[a] /\ ok \in [Agents -> BOOLEAN]
  BY DEF ReportInterrupted, QueueOK, SyncTypeOK, HandOK
<1>2. /\ order' = [order EXCEPT ![a] = order[a]] /\ order' = order
      /\ ok' = [ok EXCEPT ![a] = FALSE] /\ ok' = ok
  BY <1>1 DEF ReportInterrupted
<1> QED
  BY <1>1, <1>2, MoveStep, Zenon DEF ReportInterrupted, Recorded

\* The steps that end with the agent idle: of the row, if it is still open, or
\* with a fault that leaves it.
LEMMA CompleteStep ==
  ASSUME NEW kinds, QueueOK(kinds), NEW a \in Agents, CompleteHeld(a)
  PROVE  /\ QueueOK(kinds)'
         /\ at'[a] = "idle" /\ held'[a] = NoRow /\ order'[a] = NoOrder /\ ~ok'[a]
         /\ \A b \in Agents \ {a} :
              at'[b] = at[b] /\ held'[b] = held[b] /\ order'[b] = order[b] /\ ok'[b] = ok[b]
         /\ open' = open \ {held[a]}
         /\ UNCHANGED <<interrupted, faults>>
<1>1. Release(a) /\ open' = open \ {held[a]} /\ UNCHANGED <<interrupted, faults>>
  BY DEF CompleteHeld
<1>2. open' \subseteq open /\ interrupted' \in SUBSET Nat /\ faults' \in 0..MaxFaults
  BY <1>1 DEF QueueOK, SyncTypeOK
<1> QED
  BY <1>1, <1>2, ReleaseStep, Zenon

LEMMA LeaveStep ==
  ASSUME NEW kinds, QueueOK(kinds), NEW a \in Agents, AnswerLost(a) \/ CrashExecuting(a)
  PROVE  /\ QueueOK(kinds)'
         /\ at[a] \in {"asked", "holding"} /\ at'[a] = "idle" /\ held'[a] = NoRow /\ order'[a] = NoOrder /\ ~ok'[a]
         /\ \A b \in Agents \ {a} :
              at'[b] = at[b] /\ held'[b] = held[b] /\ order'[b] = order[b] /\ ok'[b] = ok[b]
         /\ open' = open
         /\ faults' > 0
<1>1. /\ Release(a) /\ open' = open /\ at[a] \in {"asked", "holding"} /\ faults < MaxFaults
      /\ faults' = faults + 1
      /\ interrupted' = interrupted \/ interrupted' = interrupted \cup {held[a].stamp}
  BY DEF AnswerLost, CrashExecuting, Fault
<1>2. open' \subseteq open /\ interrupted' \in SUBSET Nat /\ faults' \in 0..MaxFaults /\ faults' > 0
  <2>1. held[a] \in Rows(kinds)
    BY <1>1, HeldRow
  <2>2. held[a].stamp \in Nat
    BY <2>1 DEF Rows
  <2>3. faults' \in 0..MaxFaults /\ faults' > 0
    BY <1>1 DEF QueueOK, SyncTypeOK
  <2>4. interrupted' \in SUBSET Nat
    BY <1>1, <2>2 DEF QueueOK, SyncTypeOK
  <2> QED
    BY <1>1, <2>3, <2>4
<1> QED
  BY <1>1, <1>2, ReleaseStep, Zenon

LEMMA ExpireStep ==
  ASSUME NEW kinds, QueueOK(kinds), NEW r \in open, LeaseExpires(r)
  PROVE  LET expired == [r EXCEPT !.state = "expired"] IN
         /\ QueueOK(kinds)'
         /\ r \in Rows(kinds) /\ r.state = "claimed" /\ \A a \in Agents : held[a] # r
         /\ open' = (open \ {r}) \cup {expired}
         /\ UNCHANGED <<at, held, order, ok, interrupted, faults>>
<1> USE DEF QueueOK, SyncTypeOK
<1>1. [r EXCEPT !.state = "expired"] \in Rows(kinds)
  BY RowStates
<1>2. /\ open' = (open \ {r}) \cup {[r EXCEPT !.state = "expired"]}
      /\ UNCHANGED <<at, held, order, ok, interrupted, faults>>
      /\ r \in Rows(kinds) /\ r.state = "claimed" /\ \A a \in Agents : held[a] # r
  BY DEF LeaseExpires, loopVars
<1>3. SyncTypeOK(kinds)'
  BY <1>1, <1>2
<1>4. ASSUME NEW b \in Agents PROVE HandOK(b)'
  BY <1>2 DEF HandOK
<1> QED
  BY <1>2, <1>3, <1>4

-----------------------------------------------------------------------------
(* Routes: the inductive invariant *)

\* What a route's row says its gateway's file should be.
Desired == IF route.enabled THEN route.rev ELSE 0

\* What the gateway was sent is the row as it is, unless another sync waits for
\* it or the last change missed the one it relied on; and what it has to report as done is what its file says.
Ordered(a) ==
  /\ at[a] \in {"holding", "reporting"} /\ Served(a) =>
       PendingSync(a) # {} \/ missed \/ order[a] = [enabled |-> route.enabled, rev |-> route.rev]
  /\ ok[a] => file[a] = Wanted(a)
  /\ order[a].rev \in Revisions

\* A route shown as active has no sync waiting: whatever is still under way says
\* what the row says.
ActiveUndisputed == route.status = "active" /\ ~early => Undisputed

\* While an access relies on the route, the change that is under way does not move
\* it away from the access.
AccessOK ==
  /\ access.status = "active" => access.enabled
  /\ access.enabled /\ (access.status = "active" \/ fit) => Topology \/ skewed
  /\ change.on /\ access.enabled /\ ~skewed => ~Moves(change.gateway, change.enabled)

ChangeOK == change.on => route.rev < MaxRevision

RouteInv ==
  /\ RouteTypeOK /\ ActiveUndisputed /\ AccessOK /\ ChangeOK
  /\ \A a \in Agents : HandOK(a) /\ Ordered(a)
  /\ ActiveRouteServed /\ PendingRouteIsQueued

RouteRowTypes ==
  /\ route \in Routes
  /\ file \in [Agents -> Revisions]
  /\ change \in Changes \cup {NoChange}
  /\ access \in Accesses
  /\ {muted, early, missed, fit, skewed} \subseteq BOOLEAN

LEMMA RouteTypes ==
  /\ RouteInv => QueueOK({"sync"}) /\ RouteRowTypes
  /\ QueueOK({"sync"})' /\ RouteRowTypes' => RouteTypeOK' /\ \A a \in Agents : HandOK(a)'
  BY DEF RouteInv, RouteTypeOK, RouteRowTypes, QueueOK

LEMMA RouteInitInvariant == RouteInit => RouteInv
<1> SUFFICES ASSUME RouteInit PROVE RouteInv
  OBVIOUS
<1>1. PICK a \in Agents, e \in BOOLEAN :
        route = CreatedRoute(a, e) /\ SyncInit({NewRow(a, "sync", 0, 1)})
  BY DEF RouteInit
<1>2. NewRow(a, "sync", 0, 1) \in Rows({"sync"}) /\ NewRow(a, "sync", 0, 1).agent = a
  BY NewRowTypes
<1>3. QueueOK({"sync"})
  BY <1>1, <1>2, QueueInit
<1>4. /\ route \in Routes /\ route.gateway = a /\ route.status = "pending"
      /\ file \in [Agents -> Revisions] /\ change = NoChange /\ change.on = FALSE
      /\ {muted, early, missed, fit, skewed} \subseteq BOOLEAN /\ ~fit
  <2>1. route \in Routes /\ route.gateway = a /\ route.status = "pending"
    BY <1>1 DEF CreatedRoute, Routes
  <2>2. change = NoChange /\ change.on = FALSE
    BY DEF RouteInit, NoChange
  <2>3. file \in [Agents -> Revisions]
    BY DEF RouteInit
  <2>4. muted = FALSE /\ early = FALSE /\ missed = FALSE /\ fit = FALSE /\ skewed = FALSE
    BY DEF RouteInit
  <2>5. {muted, early, missed, fit, skewed} \subseteq BOOLEAN
    BY <2>4
  <2> QED
    BY <2>1, <2>2, <2>3, <2>4, <2>5
<1>5. access \in Accesses /\ ~access.enabled /\ access.status = "none"
  BY DEF RouteInit, Accesses
<1>6. RouteTypeOK
  BY <1>3, <1>4, <1>5 DEF RouteTypeOK, QueueOK
<1>7. \A b \in Agents : HandOK(b) /\ Ordered(b)
  BY <1>1, <1>3 DEF QueueOK, Ordered, SyncInit, NoOrder
<1>8. PendingRouteIsQueued /\ ActiveRouteServed /\ ActiveUndisputed /\ AccessOK /\ ChangeOK
  <2>1. NewRow(a, "sync", 0, 1) \in open
    BY <1>1 DEF SyncInit
  <2> QED
    BY <1>2, <1>4, <1>5, <2>1 DEF PendingRouteIsQueued, ActiveRouteServed, ActiveUndisputed, AccessOK,
                           ChangeOK
<1> QED
  BY <1>6, <1>7, <1>8 DEF RouteInv

-----------------------------------------------------------------------------
(* Routes: steps of the queue that leave the row alone *)

\* No step of the queue but an insertion adds to what waits for an agent.
LEMMA PendingShrinks ==
  ASSUME NEW b \in Agents, \A s \in open' : s.state = "pending" => s \in open
  PROVE  PendingSync(b)' \subseteq PendingSync(b)
  BY DEF PendingSync

LEMMA PendingStays ==
  ASSUME NEW b \in Agents, \A s \in open' : s.state = "pending" => s \in open,
         \A s \in open : s.state = "pending" /\ s.agent = b => s \in open'
  PROVE  PendingSync(b)' = PendingSync(b)
  BY DEF PendingSync

\* A step that neither inserts a row nor touches the route, its file apart.
LEMMA RouteFrame ==
  ASSUME RouteInv, QueueOK({"sync"})', UNCHANGED rowVars, file' \in [Agents -> Revisions],
         \A s \in open' : s.state = "pending" => s \in open,
         \A r \in open : \E s \in open' : s.agent = r.agent,
         \A b \in Agents : Ordered(b)',
         route.status = "active" /\ ~early /\ ~missed => file'[route.gateway] = file[route.gateway]
  PROVE  RouteInv'
<1> USE DEF RouteInv
<1>1. UNCHANGED <<route, muted, change, early, missed, access, fit, skewed>>
  BY DEF rowVars, changeVars, accessVars
<1>2. RouteTypeOK' /\ \A a \in Agents : HandOK(a)'
  <2>1. RouteRowTypes'
    BY <1>1, RouteTypes DEF RouteRowTypes
  <2> QED
    BY <2>1, RouteTypes
<1>3. ActiveUndisputed'
  BY <1>1, PendingShrinks DEF ActiveUndisputed, Undisputed
<1>4. AccessOK' /\ ChangeOK'
  BY <1>1 DEF AccessOK, ChangeOK, Topology, Moves
<1>5. ActiveRouteServed'
  BY <1>1 DEF ActiveRouteServed
<1>6. PendingRouteIsQueued'
  BY <1>1 DEF PendingRouteIsQueued
<1> QED
  BY <1>2, <1>3, <1>4, <1>5, <1>6

LEMMA RouteClaimed ==
  ASSUME RouteInv, NEW a \in Agents, NEW r \in open, ClaimRoute(a, r)
  PROVE  RouteInv'
<1>1. QueueOK({"sync"}) /\ ClaimRow(a, r) /\ UNCHANGED routeVars
  BY RouteTypes DEF ClaimRoute
<1>2. UNCHANGED <<rowVars, route, missed, file>> /\ file \in [Agents -> Revisions]
  BY <1>1, RouteTypes DEF routeVars, rowVars, changeVars, RouteRowTypes
<1> DEFINE claimed == [r EXCEPT !.state = "claimed"]
<1>3. /\ QueueOK({"sync"})'
      /\ at[a] = "idle" /\ at'[a] = "asked" /\ order' = order /\ ok' = ok
      /\ \A b \in Agents \ {a} : at'[b] = at[b]
      /\ r.agent = a /\ r \in Rows({"sync"})
      /\ open' = (open \ {r}) \cup {claimed}
  <2>1. "none" \notin {"sync"}
    OBVIOUS
  <2>2. r.agent = a
    BY <1>1 DEF ClaimRow, Oldest, Claimable
  <2>3. r \in Rows({"sync"})
    BY <1>1 DEF QueueOK, SyncTypeOK
  <2> HIDE DEF claimed
  <2>4. /\ QueueOK({"sync"})'
        /\ at[a] = "idle" /\ at'[a] = "asked" /\ order' = order /\ ok' = ok
        /\ \A b \in Agents \ {a} : at'[b] = at[b]
    BY <1>1, <2>1, ClaimStep
  <2>5. open' = (open \ {r}) \cup {claimed}
    BY <1>1 DEF ClaimRow, claimed
  <2> QED
    BY <2>2, <2>3, <2>4, <2>5
<1>4. claimed.agent = a /\ claimed.state = "claimed"
  BY <1>3, RowStates
<1>5. ASSUME NEW b \in Agents PROVE Ordered(b)'
  <2>1. Ordered(b)
    BY DEF RouteInv
  <2>2. CASE b = a
    BY <1>2, <1>3, <2>1, <2>2 DEF Ordered, Wanted
  <2>3. CASE b # a
    <3>1. PendingSync(b)' = PendingSync(b)
      BY <1>3, <1>4, <2>3, PendingStays
    <3> QED
      BY <1>2, <1>3, <2>1, <2>3, <3>1 DEF Ordered, Wanted, Served
  <2> QED
    BY <2>2, <2>3
<1>6. \A s \in open' : s.state = "pending" => s \in open
  BY <1>3, <1>4
<1>7. \A q \in open : \E s \in open' : s.agent = q.agent
  BY <1>3, <1>4
<1> QED
  BY <1>2, <1>3, <1>5, <1>6, <1>7, RouteFrame

LEMMA RouteExpired ==
  ASSUME RouteInv, NEW r \in open, ExpireRoute(r)
  PROVE  RouteInv'
<1>1. QueueOK({"sync"}) /\ LeaseExpires(r) /\ UNCHANGED routeVars
  BY RouteTypes DEF ExpireRoute
<1>2. UNCHANGED <<rowVars, route, missed, file>> /\ file \in [Agents -> Revisions]
  BY <1>1, RouteTypes DEF routeVars, rowVars, changeVars, RouteRowTypes
<1> DEFINE expired == [r EXCEPT !.state = "expired"]
<1>3. /\ QueueOK({"sync"})'
      /\ UNCHANGED <<at, order, ok>>
      /\ r.state = "claimed" /\ r \in Rows({"sync"})
      /\ open' = (open \ {r}) \cup {expired}
  BY <1>1, ExpireStep
<1>4. expired.agent = r.agent /\ expired.state = "expired"
  BY <1>3, RowStates
<1>5. ASSUME NEW b \in Agents PROVE Ordered(b)'
  <2>1. PendingSync(b)' = PendingSync(b)
    BY <1>3, <1>4, PendingStays
  <2> QED
    BY <1>2, <1>3, <2>1 DEF RouteInv, Ordered, Wanted, Served
<1>6. \A s \in open' : s.state = "pending" => s \in open
  BY <1>3, <1>4
<1>7. \A q \in open : \E s \in open' : s.agent = q.agent
  BY <1>3, <1>4
<1> QED
  BY <1>2, <1>3, <1>5, <1>6, <1>7, RouteFrame

LEMMA RouteAnswered ==
  ASSUME RouteInv, NEW a \in Agents, AnswerRoute(a)
  PROVE  RouteInv'
<1> DEFINE o == [enabled |-> route.enabled, rev |-> route.rev]
<1>1. QueueOK({"sync"}) /\ RouteRowTypes /\ o \in Orders
  BY RouteTypes DEF RouteRowTypes, Routes, Orders
<1>2. AnswerWith(a, o) /\ UNCHANGED routeVars
  BY DEF AnswerRoute
<1>3. UNCHANGED <<rowVars, route, missed, file>> /\ file \in [Agents -> Revisions]
  BY <1>1, <1>2 DEF routeVars, rowVars, changeVars, RouteRowTypes
<1>4. /\ QueueOK({"sync"})'
      /\ order'[a] = o /\ ~ok'[a]
      /\ \A b \in Agents \ {a} : at'[b] = at[b] /\ order'[b] = order[b] /\ ok'[b] = ok[b]
      /\ open' = open
  <2> HIDE DEF o
  <2> QED
    BY <1>1, <1>2, AnswerStep
<1>5. ASSUME NEW b \in Agents PROVE Ordered(b)'
  <2>1. PendingSync(b)' = PendingSync(b)
    BY <1>4, PendingStays
  <2>2. CASE b = a
    BY <1>1, <1>3, <1>4, <2>2 DEF Ordered, RouteRowTypes, Routes
  <2>3. CASE b # a
    BY <1>3, <1>4, <2>1, <2>3 DEF RouteInv, Ordered, Wanted, Served
  <2> QED
    BY <2>2, <2>3
<1> QED
  BY <1>3, <1>4, <1>5, RouteFrame

LEMMA RouteLost ==
  ASSUME RouteInv, NEW a \in Agents, LostRoute(a)
  PROVE  RouteInv'
<1>1. QueueOK({"sync"}) /\ AnswerLost(a) /\ UNCHANGED routeVars
  BY RouteTypes DEF LostRoute
<1>2. UNCHANGED <<rowVars, route, missed, file>> /\ file \in [Agents -> Revisions]
  BY <1>1, RouteTypes DEF routeVars, rowVars, changeVars, RouteRowTypes
<1>3. /\ QueueOK({"sync"})'
      /\ at'[a] = "idle" /\ order'[a] = NoOrder /\ ~ok'[a]
      /\ \A b \in Agents \ {a} : at'[b] = at[b] /\ order'[b] = order[b] /\ ok'[b] = ok[b]
      /\ open' = open
  BY <1>1, LeaveStep
<1>4. ASSUME NEW b \in Agents PROVE Ordered(b)'
  <2>1. PendingSync(b)' = PendingSync(b)
    BY <1>3, PendingStays
  <2>2. CASE b = a
    BY <1>3, <2>2 DEF Ordered, NoOrder
  <2>3. CASE b # a
    BY <1>2, <1>3, <2>1, <2>3 DEF RouteInv, Ordered, Wanted, Served
  <2> QED
    BY <2>2, <2>3
<1> QED
  BY <1>2, <1>3, <1>4, RouteFrame

LEMMA RouteInterrupted ==
  ASSUME RouteInv, NEW a \in Agents, InterruptedRoute(a)
  PROVE  RouteInv'
<1>1. QueueOK({"sync"}) /\ ReportInterrupted(a) /\ UNCHANGED routeVars
  BY RouteTypes DEF InterruptedRoute
<1>2. UNCHANGED <<rowVars, route, missed, file>> /\ file \in [Agents -> Revisions]
  BY <1>1, RouteTypes DEF routeVars, rowVars, changeVars, RouteRowTypes
<1>3. /\ QueueOK({"sync"})'
      /\ at[a] = "holding" /\ at'[a] = "reporting" /\ ok' = ok
      /\ \A b \in Agents \ {a} : at'[b] = at[b]
      /\ UNCHANGED <<open, order>>
  BY <1>1, InterruptedStep
<1>4. ASSUME NEW b \in Agents PROVE Ordered(b)'
  BY <1>2, <1>3, PendingStays DEF RouteInv, Ordered, Wanted, Served
<1> QED
  BY <1>2, <1>3, <1>4, RouteFrame

-----------------------------------------------------------------------------
(* Routes: what an execution does to the file *)

\* An agent that executes for an active route writes what its file already says.
LEMMA ActiveRewrites ==
  ASSUME RouteInv, NEW a \in Agents, at[a] = "holding", route.status = "active", ~early, ~missed,
         route.gateway = a
  PROVE  file[a] = Wanted(a)
<1>1. PendingSync(a) = {}
  BY DEF RouteInv, ActiveUndisputed, Undisputed
<1>2. order[a] = [enabled |-> route.enabled, rev |-> route.rev]
  BY <1>1 DEF RouteInv, Ordered, Served
<1> QED
  BY <1>2 DEF RouteInv, ActiveRouteServed, Wanted

LEMMA RouteExecuted ==
  ASSUME RouteInv, NEW a \in Agents, NEW success \in BOOLEAN, ExecuteRoute(a, success)
  PROVE  RouteInv'
<1>1. QueueOK({"sync"}) /\ ExecuteHeld(a, success) /\ UNCHANGED rowVars /\ file \in [Agents -> Revisions]
  BY RouteTypes DEF ExecuteRoute, RouteRowTypes
<1>2. /\ QueueOK({"sync"})'
      /\ at[a] = "holding" /\ at'[a] = "reporting" /\ ok'[a] = success
      /\ \A b \in Agents \ {a} : at'[b] = at[b] /\ ok'[b] = ok[b]
      /\ UNCHANGED <<open, order>>
  BY <1>1, ExecuteStep
<1>3. /\ file' \in [Agents -> Revisions] /\ (success => file'[a] = Wanted(a))
      /\ \A b \in Agents \ {a} : file'[b] = file[b]
      /\ file'[a] \in {file[a], Wanted(a)}
  <2>1. Wanted(a) \in Revisions
    BY DEF RouteInv, Ordered, Wanted
  <2> QED
    BY <1>1, <2>1 DEF ExecuteRoute
<1>4. UNCHANGED <<route, early, missed>>
  BY <1>1 DEF rowVars, changeVars
<1>5. ASSUME NEW b \in Agents PROVE Ordered(b)'
  BY <1>2, <1>3, <1>4, PendingStays DEF RouteInv, Ordered, Wanted, Served
<1>6. route.status = "active" /\ ~early /\ ~missed => file'[route.gateway] = file[route.gateway]
  BY <1>2, <1>3, ActiveRewrites, RouteTypes DEF RouteRowTypes, Routes
<1> QED
  BY <1>1, <1>2, <1>3, <1>5, <1>6, RouteFrame

LEMMA RouteCrashed ==
  ASSUME RouteInv, NEW a \in Agents, CrashRoute(a)
  PROVE  RouteInv'
<1>1. QueueOK({"sync"}) /\ CrashExecuting(a) /\ UNCHANGED rowVars /\ file \in [Agents -> Revisions]
  BY RouteTypes DEF CrashRoute, RouteRowTypes
<1>2. /\ QueueOK({"sync"})'
      /\ at'[a] = "idle" /\ order'[a] = NoOrder /\ ~ok'[a]
      /\ \A b \in Agents \ {a} : at'[b] = at[b] /\ order'[b] = order[b] /\ ok'[b] = ok[b]
      /\ open' = open
  BY <1>1, LeaveStep
<1>3. /\ file' \in [Agents -> Revisions] /\ file'[a] \in {file[a], Wanted(a)}
      /\ \A b \in Agents \ {a} : file'[b] = file[b]
  <2>1. Wanted(a) \in Revisions
    BY DEF RouteInv, Ordered, Wanted
  <2> QED
    BY <1>1, <2>1 DEF CrashRoute
<1>4. UNCHANGED <<route, early, missed>> /\ at[a] = "holding"
  BY <1>1 DEF rowVars, changeVars, CrashExecuting
<1>5. ASSUME NEW b \in Agents PROVE Ordered(b)'
  BY <1>2, <1>3, <1>4, PendingStays DEF RouteInv, Ordered, Wanted, Served, NoOrder
<1>6. route.status = "active" /\ ~early /\ ~missed => file'[route.gateway] = file[route.gateway]
  BY <1>3, <1>4, ActiveRewrites, RouteTypes DEF RouteRowTypes, Routes
<1> QED
  BY <1>1, <1>2, <1>3, <1>5, <1>6, RouteFrame

-----------------------------------------------------------------------------
(* Routes: settling *)

\* A refusal, or a result, that is not taken any more.
LEMMA RouteLetGo ==
  ASSUME RouteInv, NEW a \in Agents, CompleteHeld(a), at[a] # "idle", ~Completes(a),
         UNCHANGED <<rowVars, file>>
  PROVE  RouteInv'
<1>1. QueueOK({"sync"}) /\ file' \in [Agents -> Revisions]
  BY RouteTypes DEF RouteRowTypes
<1>2. /\ QueueOK({"sync"})'
      /\ at'[a] = "idle" /\ order'[a] = NoOrder /\ ~ok'[a]
      /\ \A b \in Agents \ {a} : at'[b] = at[b] /\ order'[b] = order[b] /\ ok'[b] = ok[b]
      /\ open' = open
  BY <1>1, CompleteStep DEF Completes
<1>3. UNCHANGED <<route, early, missed>>
  BY DEF rowVars, changeVars
<1>4. ASSUME NEW b \in Agents PROVE Ordered(b)'
  BY <1>2, <1>3, PendingStays DEF RouteInv, Ordered, Wanted, Served, NoOrder
<1> QED
  BY <1>1, <1>2, <1>4, RouteFrame

\* One that is: it counts only if its row is the last word the gateway was sent.
LEMMA RouteSettled ==
  ASSUME RouteInv, NEW a \in Agents, NEW success \in BOOLEAN, CompleteHeld(a), at[a] # "idle",
         SettledRoute(a, success), UNCHANGED file,
         success => ok[a],
         Served(a) => at[a] \in {"holding", "reporting"}
  PROVE  RouteInv'
<1> DEFINE counts == Served(a) /\ Undisputed
           status == IF success THEN "active" ELSE "failed"
<1>1. QueueOK({"sync"}) /\ RouteRowTypes
  BY RouteTypes
<1>2. /\ QueueOK({"sync"})'
      /\ at'[a] = "idle" /\ order'[a] = NoOrder /\ ~ok'[a]
      /\ \A b \in Agents \ {a} : at'[b] = at[b] /\ order'[b] = order[b] /\ ok'[b] = ok[b]
      /\ open' = open \ {held[a]}
  BY <1>1, CompleteStep
<1>3. held[a].agent = a /\ held[a].state = "claimed"
  BY <1>1, HeldRow
<1>4. /\ counts /\ ~change.on => route' = [route EXCEPT !.status = status] /\ early' = FALSE
      /\ ~(counts /\ ~change.on) => route' = route /\ early' = early
      /\ counts /\ change.on => change' = [change EXCEPT !.late = status]
      /\ ~(counts /\ change.on) => change' = change
      /\ muted' = (muted \/ (Served(a) /\ ~Undisputed /\ PendingSync(a) = {}))
      /\ UNCHANGED <<missed, access, fit, skewed>>
  BY <1>1 DEF SettledRoute, accessVars, RouteRowTypes
<1>5. /\ route' \in Routes /\ route'.gateway = route.gateway /\ route'.enabled = route.enabled
      /\ route'.rev = route.rev
      /\ counts /\ ~change.on => route'.status = status
      /\ ~(counts /\ ~change.on) => route'.status = route.status
  <2>1. route \in Routes /\ status \in {"pending", "active", "failed"}
    BY <1>1 DEF RouteRowTypes
  <2> HIDE DEF counts, status
  <2>2. CASE counts /\ ~change.on
    BY <1>4, <2>1, <2>2 DEF Routes
  <2>3. CASE ~(counts /\ ~change.on)
    BY <1>4, <2>1, <2>3
  <2> QED
    BY <2>2, <2>3
<1>6. \A b \in Agents : PendingSync(b)' = PendingSync(b)
  BY <1>2, <1>3, PendingStays
<1>7. RouteTypeOK' /\ \A b \in Agents : HandOK(b)'
  <2>1. change' \in Changes \cup {NoChange}
    <3>1. CASE counts /\ change.on
      <4>1. change \in Changes
        BY <1>1, <3>1 DEF RouteRowTypes, NoChange
      <4> QED
        BY <1>4, <3>1, <4>1 DEF Changes
    <3>2. CASE ~(counts /\ change.on)
      BY <1>1, <1>4, <3>2 DEF RouteRowTypes
    <3> QED
      BY <3>1, <3>2
  <2>2. {muted, early, missed, fit, skewed}' \subseteq BOOLEAN
    BY <1>1, <1>4 DEF RouteRowTypes
  <2>3. RouteRowTypes'
    BY <1>1, <1>4, <1>5, <2>1, <2>2 DEF RouteRowTypes
  <2> QED
    BY <1>2, <2>3, RouteTypes
<1>8. ASSUME NEW b \in Agents PROVE Ordered(b)'
  <2> HIDE DEF counts, status
  <2>1. missed' = missed
    BY <1>4
  <2>2. CASE b = a
    BY <1>2, <2>2 DEF Ordered, NoOrder
  <2>3. CASE b # a
    BY <1>2, <1>5, <1>6, <2>1, <2>3 DEF RouteInv, Ordered, Wanted, Served
  <2> QED
    BY <2>2, <2>3
<1>9. ActiveUndisputed'
  BY <1>4, <1>5, <1>6 DEF RouteInv, ActiveUndisputed, Undisputed
<1>10. AccessOK' /\ ChangeOK'
  <2> HIDE DEF counts, status
  <2>1. change'.on = change.on /\ (change.on => UNCHANGED <<change.gateway, change.enabled>>)
    <3>1. CASE counts /\ change.on
      <4>1. change \in Changes
        BY <1>1, <3>1 DEF RouteRowTypes, NoChange
      <4> QED
        BY <1>4, <3>1, <4>1 DEF Changes
    <3>2. CASE ~(counts /\ change.on)
      BY <1>4, <3>2
    <3> QED
      BY <3>1, <3>2
  <2> QED
    BY <1>4, <1>5, <2>1 DEF RouteInv, AccessOK, ChangeOK, Topology, Moves
<1>11. ActiveRouteServed'
  <2>1. CASE counts /\ ~change.on
    <3>1. PendingSync(a) = {}
      BY <2>1 DEF Undisputed
    <3>2. missed \/ order[a] = [enabled |-> route.enabled, rev |-> route.rev]
      BY <2>1, <3>1 DEF RouteInv, Ordered
    <3>3. success => missed \/ file[a] = IF route.enabled THEN route.rev ELSE 0
      BY <3>2 DEF RouteInv, Ordered, Wanted
    <3> QED
      BY <1>4, <1>5, <2>1, <3>3 DEF ActiveRouteServed, Served
  <2>2. CASE ~(counts /\ ~change.on)
    BY <1>4, <1>5, <2>2 DEF RouteInv, ActiveRouteServed
  <2> QED
    BY <2>1, <2>2
<1>12. PendingRouteIsQueued'
  <2> SUFFICES ASSUME route'.status = "pending", ~muted', ~missed', ~change'.on
               PROVE  \E r \in open' : r.agent = route.gateway
    BY <1>5 DEF PendingRouteIsQueued
  <2>1. change'.on = change.on
    BY <1>1, <1>4 DEF RouteRowTypes, Changes, NoChange
  <2>2. ~counts /\ route.status = "pending" /\ ~muted /\ ~missed /\ ~change.on
    BY <1>4, <1>5, <2>1
  <2>3. PICK r \in open : r.agent = route.gateway
    BY <2>2 DEF RouteInv, PendingRouteIsQueued
  <2>4. CASE ~Served(a)
    BY <1>2, <1>3, <2>3, <2>4 DEF Served
  <2>5. CASE Served(a)
    BY <1>2, <1>3, <1>4, <2>2, <2>5 DEF Served, PendingSync
  <2> QED
    BY <2>4, <2>5
<1> QED
  BY <1>7, <1>8, <1>9, <1>10, <1>11, <1>12 DEF RouteInv

LEMMA RouteReported ==
  ASSUME RouteInv, NEW a \in Agents, RefuseRoute(a) \/ ReportRoute(a)
  PROVE  RouteInv'
<1>1. /\ CompleteHeld(a) /\ UNCHANGED file
      /\ (at[a] = "asked" /\ ~Served(a)) \/ at[a] = "reporting"
      /\ ~Completes(a) => UNCHANGED rowVars
  BY DEF RefuseRoute, ReportRoute, Refuse, ReportHeld
<1>2. CASE ~Completes(a)
  BY <1>1, <1>2, RouteLetGo
<1>3. CASE Completes(a)
  <2>1. PICK success \in BOOLEAN : SettledRoute(a, success) /\ (success => ok[a])
    BY <1>3, RouteTypes DEF RefuseRoute, ReportRoute, QueueOK, SyncTypeOK
  <2> QED
    BY <1>1, <2>1, RouteSettled
<1> QED
  BY <1>2, <1>3

-----------------------------------------------------------------------------
(* Routes: changes of the route and of its access *)

\* The change is let through only if no access relies on what it changes; and looking
\* for a sync that waits changes nothing else.
LEMMA RouteChanging ==
  ASSUME RouteInv, (\E a \in Agents, e \in BOOLEAN : StartUpdate(a, e)) \/ QueueInternalSync
  PROVE  RouteInv'
<1> USE DEF RouteInv
<1>1. UNCHANGED <<open, at, held, order, ok, interrupted, faults, route, file, muted, early, missed,
                  access, fit, skewed>>
  BY DEF StartUpdate, QueueInternalSync, syncVars, loopVars, accessVars
<1>2. /\ change' \in Changes /\ change'.on /\ route.rev < MaxRevision
      /\ access.enabled /\ ~skewed => ~Moves(change'.gateway, change'.enabled)
  <2>1. ASSUME NEW a \in Agents, NEW e \in BOOLEAN, StartUpdate(a, e)
        PROVE  /\ change' \in Changes /\ change'.on /\ route.rev < MaxRevision
               /\ access.enabled => ~Moves(change'.gateway, change'.enabled)
    BY <2>1 DEF StartUpdate, Changes, Linked
  <2>2. CASE QueueInternalSync
    <3> DEFINE found == IF PendingSync(Gateway(change.gateway)) # {} THEN "conflict" ELSE "inserted"
    <3>1. change.on /\ change \in Changes /\ change' = [change EXCEPT !.sync = found]
          /\ found \in {"none", "inserted", "conflict"}
      BY <2>2 DEF QueueInternalSync, RouteTypeOK, NoChange
    <3> HIDE DEF found
    <3>2. /\ change' \in Changes /\ change'.on
          /\ change'.gateway = change.gateway /\ change'.enabled = change.enabled
      BY <3>1 DEF Changes
    <3> QED
      BY <3>1, <3>2 DEF AccessOK, ChangeOK
  <2> QED
    BY <2>1, <2>2
<1>3. RouteTypeOK' /\ \A b \in Agents : HandOK(b)'
  BY <1>1, <1>2 DEF RouteTypeOK, SyncTypeOK, HandOK
<1>4. \A b \in Agents : Ordered(b)'
  BY <1>1 DEF Ordered, Served, Wanted, PendingSync
<1>5. ActiveUndisputed' /\ ActiveRouteServed'
  BY <1>1 DEF ActiveUndisputed, ActiveRouteServed, Undisputed, PendingSync
<1>6. AccessOK' /\ ChangeOK'
  BY <1>1, <1>2 DEF AccessOK, ChangeOK, Topology, Moves
<1>7. PendingRouteIsQueued'
  BY <1>2 DEF PendingRouteIsQueued
<1> QED
  BY <1>3, <1>4, <1>5, <1>6, <1>7

\* It commits with a sync that the new gateway has not been answered, unless it relied
\* on one that was gone by then.
LEMMA RouteChanged ==
  ASSUME RouteInv, NEW time \in FreeTimes, FinishUpdate(time)
  PROVE  RouteInv'
<1> USE DEF RouteInv
<1> DEFINE overtakes == change.late # "none" /\ change.gateway = route.gateway
           status == IF overtakes THEN change.late ELSE "pending"
<1>1. QueueOK({"sync"}) /\ RouteRowTypes
  BY RouteTypes
<1>2. change \in Changes
  BY <1>1 DEF FinishUpdate, RouteRowTypes, NoChange
<1> PICK g \in Agents : g = change.gateway
  BY <1>2 DEF Changes
<1> DEFINE new == NewRow(g, "sync", 0, time)
<1>3. /\ route' = [gateway |-> g, enabled |-> change.enabled, rev |-> route.rev + 1, status |-> status]
      /\ open' = IF change.sync = "inserted" THEN open \cup {new} ELSE open
      /\ change' = NoChange /\ muted' = FALSE /\ early' = overtakes
      /\ missed' = (change.sync = "conflict" /\ PendingSync(g) = {} /\ ~Untold(g))
      /\ UNCHANGED <<at, held, order, ok, interrupted, faults, file, access, fit, skewed>>
      /\ change.on /\ change.sync \in {"inserted", "conflict"}
  BY <1>2 DEF FinishUpdate, Changes, loopVars, accessVars, Gateway
<1>4. status \in {"pending", "active", "failed"} /\ route \in Routes /\ g \in Agents
  BY <1>1, <1>2 DEF RouteRowTypes, Changes
<1>5. route.rev + 1 \in Revisions /\ route.rev \in Nat
  BY <1>1, <1>3, <1>4 DEF Routes, ChangeOK
<1> HIDE DEF overtakes, status, new
<1>6. route' \in Routes /\ route'.gateway = g /\ route'.enabled = change.enabled /\ route'.status = status
  BY <1>2, <1>3, <1>4, <1>5 DEF Routes, Changes
<1>7. new \in Rows({"sync"}) /\ new.agent = g /\ new.kind = "sync" /\ new.state = "pending"
  <2>1. "sync" \in {"sync"} /\ 0 \in Nat /\ time \in Nat
    BY DEF FreeTimes
  <2>2. NewRow(g, "sync", 0, time) \in Rows({"sync"})
    BY <1>4, <2>1, NewRowTypes
  <2> QED
    BY <2>2 DEF NewRow, new
<1>8. open \subseteq open' /\ open' \subseteq Rows({"sync"})
  BY <1>1, <1>3, <1>7 DEF QueueOK, SyncTypeOK
<1>9. \/ missed'
      \/ \E r \in open' : r.agent = g /\ r.kind = "sync" /\ r.state = "pending"
      \/ at[g] \notin {"holding", "reporting"} /\ \E r \in open' : r.agent = g
  <2>1. CASE change.sync = "inserted"
    BY <1>3, <1>7, <2>1
  <2>2. CASE change.sync = "conflict"
    <3>1. missed' \/ PendingSync(g) # {} \/ Untold(g)
      BY <1>3, <2>2
    <3> QED
      BY <1>8, <3>1 DEF PendingSync, Untold
  <2> QED
    BY <1>3, <2>1, <2>2
<1>10. RouteTypeOK' /\ \A b \in Agents : HandOK(b)'
  <2>1. QueueOK({"sync"})'
    BY <1>1, <1>3, <1>8 DEF QueueOK, SyncTypeOK, HandOK
  <2>2. {muted, early, missed, fit, skewed}' \subseteq BOOLEAN
    BY <1>1, <1>3 DEF RouteRowTypes, overtakes
  <2>3. RouteRowTypes'
    BY <1>1, <1>3, <1>6, <2>2 DEF RouteRowTypes
  <2> QED
    BY <2>1, <2>3, RouteTypes
<1>11. ASSUME NEW b \in Agents PROVE Ordered(b)'
  <2>1. CASE b = g /\ at[b] \in {"holding", "reporting"}
    <3>1. missed' \/ PendingSync(b)' # {}
      BY <1>9, <2>1 DEF PendingSync
    <3> QED
      BY <1>3, <2>1, <3>1 DEF Ordered, Wanted
  <2>2. CASE ~(b = g /\ at[b] \in {"holding", "reporting"})
    BY <1>3, <1>6, <2>2 DEF Ordered, Served, Wanted
  <2> QED
    BY <2>1, <2>2
<1>12. ActiveUndisputed' /\ ActiveRouteServed'
  BY <1>3, <1>6 DEF ActiveUndisputed, ActiveRouteServed, status
<1>13. AccessOK' /\ ChangeOK'
  BY <1>3, <1>6 DEF AccessOK, ChangeOK, Topology, Moves, NoChange
<1>14. PendingRouteIsQueued'
  BY <1>6, <1>9 DEF PendingRouteIsQueued
<1> QED
  BY <1>10, <1>11, <1>12, <1>13, <1>14

\* What happens to the access leaves the route and its queue alone.
LEMMA RouteAccessed ==
  ASSUME RouteInv, CreateAccess \/ (\E e \in BOOLEAN : SetPending(e)) \/ ReadTopology \/ MarkAccess
  PROVE  RouteInv'
<1> USE DEF RouteInv
<1>1. UNCHANGED <<open, at, held, order, ok, interrupted, faults, route, file, muted, change, early, missed>>
  BY DEF CreateAccess, SetPending, ReadTopology, MarkAccess, syncVars, loopVars, changeVars
<1>2. access \in Accesses /\ fit \in BOOLEAN /\ skewed \in BOOLEAN /\ change.on \in BOOLEAN
  <2>1. change.on \in BOOLEAN
    <3>1. CASE change = NoChange
      BY <3>1 DEF NoChange
    <3>2. CASE change \in Changes
      BY <3>2 DEF Changes
    <3> QED
      BY <3>1, <3>2 DEF RouteTypeOK
  <2>2. fit \in BOOLEAN /\ skewed \in BOOLEAN
    BY DEF RouteTypeOK
  <2> QED
    BY <2>1, <2>2 DEF RouteTypeOK
<1>3. access' \in Accesses /\ fit' \in BOOLEAN /\ skewed' \in BOOLEAN /\ AccessOK'
  <2>1. CASE CreateAccess
    BY <1>1, <1>2, <2>1 DEF CreateAccess, Accesses, AccessOK, Topology, Moves
  <2>2. ASSUME NEW e \in BOOLEAN, SetPending(e)
        PROVE  access' \in Accesses /\ fit' \in BOOLEAN /\ skewed' \in BOOLEAN /\ AccessOK'
    BY <1>1, <1>2, <2>2 DEF SetPending, Accesses, AccessOK, Topology, Moves
  <2>3. CASE ReadTopology
    BY <1>1, <1>2, <2>3 DEF ReadTopology, Accesses, AccessOK, Topology, Moves
  <2>4. CASE MarkAccess
    BY <1>1, <1>2, <2>4 DEF MarkAccess, Accesses, AccessOK, Topology, Moves
  <2> QED
    BY <2>1, <2>2, <2>3, <2>4
<1>4. RouteTypeOK' /\ \A b \in Agents : HandOK(b)'
  BY <1>1, <1>3 DEF RouteTypeOK, SyncTypeOK, HandOK
<1>5. \A b \in Agents : Ordered(b)'
  BY <1>1 DEF Ordered, Served, Wanted, PendingSync
<1>6. ActiveUndisputed' /\ ActiveRouteServed' /\ PendingRouteIsQueued' /\ ChangeOK'
  BY <1>1 DEF ActiveUndisputed, ActiveRouteServed, PendingRouteIsQueued, ChangeOK, Undisputed, PendingSync
<1> QED
  BY <1>3, <1>4, <1>5, <1>6

LEMMA RouteStepInvariant == RouteInv /\ [RouteNext]_routeSyncVars => RouteInv'
<1> SUFFICES ASSUME RouteInv, [RouteNext]_routeSyncVars PROVE RouteInv'
  OBVIOUS
<1>1. ASSUME NEW a \in Agents, RouteStep(a) PROVE RouteInv'
  <2>1. CASE \E r \in open : ClaimRoute(a, r)
    BY <2>1, RouteClaimed
  <2>2. CASE \E s \in BOOLEAN : ExecuteRoute(a, s)
    BY <2>2, RouteExecuted
  <2> QED
    BY <1>1, <2>1, <2>2, RouteAnswered, RouteReported, RouteLost, RouteCrashed, RouteInterrupted
    DEF RouteStep
<1>2. ASSUME UNCHANGED routeSyncVars PROVE RouteInv'
  <2>1. UNCHANGED <<open, at, held, order, ok, interrupted, faults, route, file, muted, change,
                    early, missed, access, fit, skewed>>
    BY <1>2 DEF routeSyncVars, syncVars, loopVars, routeVars, rowVars, changeVars, accessVars
  <2>2. RouteTypeOK' /\ \A b \in Agents : HandOK(b)'
    BY <2>1 DEF RouteInv, RouteTypeOK, SyncTypeOK, HandOK
  <2>3. \A b \in Agents : Ordered(b)'
    BY <2>1 DEF RouteInv, Ordered, Served, Wanted, PendingSync
  <2>4. AccessOK' /\ ChangeOK' /\ ActiveUndisputed' /\ ActiveRouteServed' /\ PendingRouteIsQueued'
    BY <2>1 DEF RouteInv, AccessOK, ChangeOK, Topology, Moves, ActiveUndisputed, ActiveRouteServed,
                PendingRouteIsQueued, Undisputed, PendingSync
  <2> QED
    BY <2>2, <2>3, <2>4 DEF RouteInv
<1>3. CASE (\E a \in Agents, e \in BOOLEAN : StartUpdate(a, e)) \/ QueueInternalSync
  BY <1>3, RouteChanging
<1>4. ASSUME NEW r \in open, ExpireRoute(r) PROVE RouteInv'
  BY <1>4, RouteExpired
<1> QED
  BY <1>1, <1>2, <1>3, <1>4, RouteChanged, RouteAccessed DEF RouteNext

-----------------------------------------------------------------------------
(* Routes: the theorems *)

THEOREM RouteInvariance == RouteSpec => []RouteInv
  BY RouteInitInvariant, RouteStepInvariant, PTL DEF RouteSpec

\* Every variable keeps its type: what an agent was sent, written and has yet to
\* report, and the access beside it.
THEOREM RouteTypeCorrect == RouteSpec => []RouteTypeOK
<1>1. RouteInv => RouteTypeOK
  BY DEF RouteInv
<1> QED
  BY <1>1, RouteInvariance, PTL

\* Although a route's sync names no revision, completing one makes the route active
\* only if what its gateway serves is what the row says: if it was answered before a
\* later change, that change's sync waits for the gateway, and the result does not
\* count; unless the change relied on a sync that was claimed before it committed.
THEOREM ActiveRoutesServed == RouteSpec => []ActiveRouteServed
<1>1. RouteInv => ActiveRouteServed
  BY DEF RouteInv
<1> QED
  BY <1>1, RouteInvariance, PTL

\* A pending route has a sync under way that will settle it, the cases apart in
\* which updateRoute's and completeCommand's rules together leave none.
THEOREM PendingRoutesQueued == RouteSpec => []PendingRouteIsQueued
<1>1. RouteInv => PendingRouteIsQueued
  BY DEF RouteInv
<1> QED
  BY <1>1, RouteInvariance, PTL

\* The guard of updateRoute, asked before the change and again by the table, keeps
\* the route where an access relies on it, from before the access is marked.
THEOREM ActiveAccessesHaveRoutes == RouteSpec => []ActiveAccessHasRoute
<1>1. RouteInv => ActiveAccessHasRoute
  BY DEF RouteInv, AccessOK, ActiveAccessHasRoute
<1> QED
  BY <1>1, RouteInvariance, PTL

-----------------------------------------------------------------------------
(* Connectors: the inductive invariant *)

Kinds == {"sync", "remove"}

\* A row of the queue is of the time its revision's transaction began.
RowOK(r) ==
  /\ r.rev \in 1..conn.rev
  /\ r.kind = "remove" => r.rev > 1
  /\ r.stamp = IF r.kind = "remove" THEN RemovalStamp(began[r.rev]) ELSE SyncStamp(began[r.rev])

RowsOK ==
  /\ conn.rev > 0
  /\ \A r \in open : RowOK(r) /\ \A s \in open : r.stamp = s.stamp => r = s

\* What an agent was sent is what its command was made for, and what it has to
\* report as done is what runs on its host.
WorkOK(a) ==
  /\ at[a] # "idle" => RowOK(held[a]) /\ \A r \in open : r.stamp = held[a].stamp => r = held[a]
  /\ at[a] \in {"holding", "reporting"} =>
       IF held[a].kind = "remove" THEN ~order[a].enabled
       ELSE order[a].rev = held[a].rev /\ (Current(held[a]) => order[a].enabled = conn.enabled)
  /\ ok[a] => container[a] = IF order[a].enabled THEN order[a].rev ELSE 0
  /\ order[a].rev \in Revisions

\* A connector is shown as active or stopped once its sync is done with; all its
\* agent can still be executing is a removal.
SettledOK ==
  conn.status \in {"active", "stopped"} =>
    /\ \A r \in open : ~Current(r)
    /\ \A a \in Agents : at[a] # "idle" => ~Current(held[a])
    /\ at[conn.agent] = "holding" => held[conn.agent].kind = "remove"

\* As long as no answer is lost and the last change has not overtaken one that moved
\* the connector away, its agent comes to its removals before the sync of the present.
InTurn ==
  faults = 0 =>
    /\ \A r \in open : r.state = "pending" \/ held[r.agent] = r
    /\ ~overtaken => \A r \in open : r.agent = conn.agent /\ r.kind = "remove" =>
         /\ conn.status # "active"
         /\ at[conn.agent] # "idle" => ~Current(held[conn.agent])
         /\ r.state = "pending" => r.stamp < SyncStamp(began[conn.rev])
    /\ ~overtaken /\ conn.status = "active" /\ at[conn.agent] # "idle" => held[conn.agent].kind = "sync"

\* An agent the connector has left that has a container, or is about to start one,
\* is owed a removal, or has failed it.
LeavingOK ==
  \A a \in Agents \ {conn.agent} :
    container[a] # 0 \/ (at[a] = "holding" /\ held[a].kind = "sync") =>
      a \in unremoved \/ \E r \in open : r.agent = a /\ r.kind = "remove"

\* A connector that is to be stopped and shown as stopped does not run.
StoppedOK == conn.status = "stopped" /\ ~conn.enabled => container[conn.agent] = 0

ConnTypes ==
  /\ conn \in Connectors
  /\ container \in [Agents -> Revisions]
  /\ removed \in SUBSET Agents
  /\ unremoved \in SUBSET Agents
  /\ check \in [stage : {"none", "asking"}, rev : Revisions, token : Revisions]
  /\ began \in [1..MaxRevision -> Revisions]
  /\ overtaken \in BOOLEAN

ConnInv ==
  /\ QueueOK(Kinds) /\ ConnTypes /\ RowsOK /\ SettledOK /\ InTurn /\ LeavingOK /\ StoppedOK
  /\ \A a \in Agents : WorkOK(a)
  /\ ActiveConnectorRuns /\ IdentityIsOfStoredToken /\ UnsettledIsQueued

\* The stamp of a row tells the time it is of.
LEMMA StampOfRow ==
  ASSUME ConnTypes, NEW r \in Rows(Kinds), RowOK(r)
  PROVE  /\ r.rev \in Nat /\ r.stamp \in Nat /\ began[r.rev] \in Nat
         /\ \/ r.kind = "remove" /\ r.stamp = 2 * began[r.rev] - 1
            \/ r.kind = "sync" /\ r.stamp = 2 * began[r.rev]
<1>1. conn.rev \in 0..MaxRevision /\ began \in [1..MaxRevision -> 0..MaxRevision] /\ MaxRevision \in Nat
  BY QueueAssumption DEF ConnTypes, Connectors, Revisions
<1>2. r.rev \in 1..MaxRevision /\ r.rev \in Nat /\ r.stamp \in Nat
  BY <1>1 DEF RowOK, Rows
<1>3. began[r.rev] \in Nat
  BY <1>1, <1>2
<1>4. r.kind \in Kinds
  BY DEF Rows
<1> QED
  BY <1>2, <1>3, <1>4 DEF RowOK, RemovalStamp, SyncStamp, Kinds

LEMMA SyncsOfOneRevision ==
  ASSUME NEW r, NEW s, RowOK(r), RowOK(s), r.kind = "sync", s.kind = "sync", r.rev = s.rev
  PROVE  r.stamp = s.stamp
  BY DEF RowOK

LEMMA ConnInitInvariant == Init => ConnInv
<1> SUFFICES ASSUME Init PROVE ConnInv
  OBVIOUS
<1>1. PICK a \in Agents, e \in BOOLEAN, i \in CreationIdentities \cup {"pending"} :
        /\ conn = Created(a, e, i)
        /\ SyncInit(IF e THEN {NewRow(a, "sync", 1, SyncStamp(1))} ELSE {})
  BY DEF Init
<1> DEFINE new == NewRow(a, "sync", 1, SyncStamp(1))
<1>2. new \in Rows(Kinds) /\ new.agent = a /\ new.kind = "sync" /\ new.rev = 1 /\ new.stamp = 2
      /\ new.state = "pending"
  <2>1. "sync" \in Kinds /\ 1 \in Nat /\ SyncStamp(1) = 2 /\ 2 \in Nat
    BY DEF Kinds, SyncStamp
  <2> QED
    BY <2>1, NewRowTypes
<1> HIDE DEF new
<1>3. QueueOK(Kinds)
  BY <1>1, <1>2, QueueInit DEF new
<1>4. /\ conn \in Connectors /\ conn.agent = a /\ conn.enabled = e /\ conn.rev = 1
      /\ conn.status = "pending" /\ conn.vouched = conn.token
  BY <1>1 DEF Created, Connectors, Identities, CreationIdentities, Deployments
<1>12. began \in [1..MaxRevision -> Revisions] /\ began[1] = 1 /\ overtaken = FALSE
  BY QueueAssumption DEF Init, Revisions
<1>5. ConnTypes
  <2>1. check \in [stage : {"none", "asking"}, rev : Revisions, token : Revisions]
    BY DEF Init, NoCheck
  <2>2. container \in [Agents -> Revisions] /\ removed \in SUBSET Agents /\ unremoved \in SUBSET Agents
    BY QueueAssumption DEF Init, Revisions
  <2>3. overtaken \in BOOLEAN
    BY <1>12
  <2> QED
    BY <1>4, <1>12, <2>1, <2>2, <2>3 DEF ConnTypes
<1>6. open = IF e THEN {new} ELSE {}
  BY <1>1 DEF SyncInit, new
<1>7. \A b \in Agents : at[b] = "idle" /\ order[b] = NoOrder /\ ~ok[b] /\ container[b] = 0
  BY <1>1 DEF SyncInit, Init
<1>8. RowsOK
  BY <1>2, <1>4, <1>6, <1>12 DEF RowsOK, RowOK, SyncStamp
<1>9. \A b \in Agents : WorkOK(b)
  BY <1>7 DEF WorkOK, NoOrder
<1>10. SettledOK /\ InTurn /\ LeavingOK /\ StoppedOK
  BY <1>2, <1>4, <1>6, <1>7 DEF SettledOK, InTurn, LeavingOK, StoppedOK
<1>11. ActiveConnectorRuns /\ IdentityIsOfStoredToken /\ UnsettledIsQueued
  BY <1>2, <1>4, <1>6 DEF ActiveConnectorRuns, IdentityIsOfStoredToken, UnsettledIsQueued, Current
<1> QED
  BY <1>3, <1>5, <1>8, <1>9, <1>10, <1>11 DEF ConnInv

-----------------------------------------------------------------------------
(* Connectors: what steps have in common *)

\* The row says the same of what should run where.
SameOrder ==
  conn'.agent = conn.agent /\ conn'.enabled = conn.enabled /\ conn'.rev = conn.rev
  /\ began' = began /\ overtaken' = overtaken

LEMMA SettledRow ==
  ASSUME ConnTypes, NEW r, NEW s \in Deployments, Settled(r, s), UNCHANGED orderVars
  PROVE  /\ conn' \in Connectors /\ SameOrder
         /\ conn'.token = conn.token /\ conn'.vouched = conn.vouched
         /\ conn'.identity = conn.identity
         /\ conn'.status = IF Current(r) THEN s ELSE conn.status
<1>1. conn \in Connectors
  BY DEF ConnTypes
<1>2. CASE Current(r)
  <2>1. conn' = [conn EXCEPT !.status = s]
    BY <1>2 DEF Settled
  <2> QED
    BY <1>1, <1>2, <2>1 DEF Connectors, SameOrder, orderVars
<1>3. CASE ~Current(r)
  BY <1>1, <1>3 DEF Settled, SameOrder, orderVars
<1> QED
  BY <1>2, <1>3

LEMMA RowsShrink ==
  ASSUME RowsOK, open' \subseteq open, SameOrder
  PROVE  RowsOK'
  BY DEF RowsOK, RowOK, RemovalStamp, SyncStamp, SameOrder

\* A row is replaced by one that differs in its state only.
LEMMA RowsRestated ==
  ASSUME RowsOK, NEW r \in open, NEW t, SameOrder, open' = (open \ {r}) \cup {t},
         t.agent = r.agent, t.kind = r.kind, t.rev = r.rev, t.stamp = r.stamp
  PROVE  RowsOK'
<1>1. \A s \in open : RowOK(s)'
  BY DEF RowsOK, RowOK, RemovalStamp, SyncStamp, SameOrder
<1>2. RowOK(t)'
  BY <1>1 DEF RowOK
<1>3. ASSUME NEW s \in open', NEW u \in open', s.stamp = u.stamp PROVE s = u
  BY <1>3 DEF RowsOK
<1> QED
  BY <1>1, <1>2, <1>3 DEF RowsOK, SameOrder

\* An agent that has no part in a step, or has just let go of what it had.
LEMMA WorkStays ==
  ASSUME NEW b \in Agents, WorkOK(b), open' \subseteq open, SameOrder,
         at'[b] = at[b], held'[b] = held[b], order'[b] = order[b], ok'[b] = ok[b],
         container'[b] = container[b]
  PROVE  WorkOK(b)'
  BY DEF WorkOK, RowOK, RemovalStamp, SyncStamp, SameOrder, Current

LEMMA WorkDone ==
  ASSUME NEW b \in Agents, at'[b] = "idle", order'[b] = NoOrder, ~ok'[b]
  PROVE  WorkOK(b)'
  BY DEF WorkOK, NoOrder

\* A step of the identity check, which leaves the queue and the hosts alone.
LEMMA ConnIdentified ==
  ASSUME ConnInv, UNCHANGED <<syncVars, hostVars>>, ConnTypes', SameOrder,
         conn'.status = conn.status, conn'.vouched = conn'.token
  PROVE  ConnInv'
<1> USE DEF ConnInv
<1>1. UNCHANGED <<open, at, held, order, ok, interrupted, faults, container, removed, unremoved>>
  BY DEF syncVars, loopVars, hostVars
<1>2. QueueOK(Kinds)'
  BY <1>1 DEF QueueOK, SyncTypeOK, HandOK
<1>3. RowsOK' /\ \A b \in Agents : WorkOK(b)'
  BY <1>1, RowsShrink, WorkStays
<1>4. SettledOK' /\ InTurn' /\ LeavingOK' /\ StoppedOK'
  BY <1>1 DEF SettledOK, InTurn, LeavingOK, StoppedOK, SameOrder, Current, SyncStamp
<1>5. ActiveConnectorRuns' /\ IdentityIsOfStoredToken' /\ UnsettledIsQueued'
  BY <1>1 DEF ActiveConnectorRuns, IdentityIsOfStoredToken, UnsettledIsQueued, SameOrder, Current
<1> QED
  BY <1>2, <1>3, <1>4, <1>5

LEMMA IdentityMarked ==
  ASSUME ConnInv, NEW i \in Identities, UNCHANGED orderVars,
         conn' = conn \/ conn' = Identified(i, conn.token)
  PROVE  /\ conn' \in Connectors /\ SameOrder
         /\ conn'.status = conn.status /\ conn'.vouched = conn'.token
<1>1. conn \in Connectors /\ conn.vouched = conn.token
  BY DEF ConnInv, ConnTypes, IdentityIsOfStoredToken
<1> QED
  BY <1>1 DEF Identified, Connectors, SameOrder, orderVars

LEMMA ConnChecked ==
  ASSUME ConnInv,
         \/ VerifyConnector \/ ReconcileIdentity
         \/ \E answer \in Answers \cup {"unlinked"} : FinishCheck(answer)
  PROVE  ConnInv'
<1> DEFINE Checks == [stage : {"none", "asking"}, rev : Revisions, token : Revisions]
<1>1. ConnTypes /\ conn \in Connectors /\ check \in Checks /\ NoCheck \in Checks
  BY DEF ConnInv, ConnTypes, NoCheck, Revisions
<1>2. UNCHANGED <<syncVars, hostVars, orderVars, container, removed, unremoved, began, overtaken>>
  BY DEF VerifyConnector, ReconcileIdentity, StartCheck, FinishCheck, hostVars, orderVars
<1>3. check' \in Checks /\ conn' \in Connectors /\ SameOrder
      /\ conn'.status = conn.status /\ conn'.vouched = conn'.token
  <2>1. CASE StartCheck
    <3>1. PICK parsing \in Parsings :
            /\ conn' = Identified(parsing, conn.token)
            /\ check' = IF parsing = "parsed" THEN Expectation ELSE NoCheck
      BY <2>1 DEF StartCheck
    <3>2. Expectation \in Checks /\ parsing \in Identities
      BY <1>1 DEF Expectation, Connectors, Parsings, Identities
    <3> QED
      BY <1>1, <1>2, <3>1, <3>2, IdentityMarked
  <2>2. ASSUME NEW answer \in Answers \cup {"unlinked"}, FinishCheck(answer)
        PROVE  check' \in Checks /\ conn' \in Connectors /\ SameOrder
               /\ conn'.status = conn.status /\ conn'.vouched = conn'.token
    <3>1. Verdict(answer) \in Identities
      BY DEF Verdict, Answers, Identities
    <3>2. conn' = conn \/ conn' = Identified(Verdict(answer), conn.token)
      BY <2>2 DEF FinishCheck, MarkIdentity, AsRead
    <3>3. check' = NoCheck
      BY <2>2 DEF FinishCheck
    <3> QED
      BY <1>1, <1>2, <3>1, <3>2, <3>3, IdentityMarked
  <2> QED
    BY <2>1, <2>2 DEF VerifyConnector, ReconcileIdentity
<1>4. ConnTypes'
  BY <1>1, <1>2, <1>3 DEF ConnTypes
<1> QED
  BY <1>2, <1>3, <1>4, ConnIdentified

-----------------------------------------------------------------------------
(* Connectors: a change of the row *)

\* It supersedes what was under way: no row made before it is for the revision it
\* makes, and the agent it takes the connector from is owed a removal.
LEMMA ConnUpdated ==
  ASSUME ConnInv, NEW time \in BeginTimes, NEW a \in Agents, NEW enabled \in BOOLEAN,
         NEW newToken \in BOOLEAN, UpdateConnector(time, a, enabled, newToken)
  PROVE  ConnInv'
<1> USE DEF ConnInv
<1> DEFINE rev == conn.rev + 1
<1>1. /\ conn \in Connectors /\ conn.rev \in Nat /\ conn.agent \in Agents /\ conn.rev < MaxRevision
      /\ rev \in Nat /\ rev > 1 /\ rev \in Revisions /\ rev \in 1..MaxRevision
      /\ time \in Revisions /\ time \in Nat /\ time >= 1
      /\ SyncStamp(time) = 2 * time /\ RemovalStamp(time) = 2 * time - 1
  BY DEF UpdateConnector, ConnTypes, Connectors, RowsOK, SyncStamp, RemovalStamp, BeginTimes, Revisions
<1>2. PICK sync, removal \in Rows(Kinds) :
        /\ sync = NewRow(a, "sync", rev, SyncStamp(time))
        /\ removal = NewRow(conn.agent, "remove", rev, RemovalStamp(time))
        /\ sync.agent = a /\ sync.kind = "sync" /\ sync.rev = rev
        /\ sync.stamp = 2 * time /\ sync.state = "pending"
        /\ removal.agent = conn.agent /\ removal.kind = "remove"
        /\ removal.rev = rev /\ removal.stamp = 2 * time - 1 /\ removal.state = "pending"
  <2>1. "sync" \in Kinds /\ "remove" \in Kinds /\ SyncStamp(time) \in Nat /\ RemovalStamp(time) \in Nat
    BY <1>1 DEF Kinds
  <2> DEFINE s == NewRow(a, "sync", rev, SyncStamp(time))
             r == NewRow(conn.agent, "remove", rev, RemovalStamp(time))
  <2> HIDE DEF rev
  <2>2. s \in Rows(Kinds) /\ r \in Rows(Kinds)
    BY <1>1, <2>1, NewRowTypes
  <2>3. /\ s.agent = a /\ s.kind = "sync" /\ s.rev = rev /\ s.stamp = SyncStamp(time)
        /\ s.state = "pending"
        /\ r.agent = conn.agent /\ r.kind = "remove" /\ r.rev = rev /\ r.stamp = RemovalStamp(time)
        /\ r.state = "pending"
    BY DEF NewRow
  <2> QED
    BY <1>1, <2>2, <2>3
<1>3. /\ open' \subseteq open \cup {sync, removal} /\ sync \in open'
      /\ a # conn.agent => removal \in open'
      /\ a = conn.agent => open' \subseteq open \cup {sync}
      /\ \A r \in open : r.kind # "sync" => r \in open'
  BY <1>2 DEF UpdateConnector, QueueConnectorSync, QueueRemoval, PendingSync
<1>4. /\ UNCHANGED <<at, held, order, ok, interrupted, faults, container, removed, unremoved, check>>
      /\ began' = [began EXCEPT ![rev] = time] /\ overtaken' = (Overtaking(a, time) # {})
  BY DEF UpdateConnector, loopVars, hostVars
<1>17. /\ began' \in [1..MaxRevision -> Revisions] /\ began'[rev] = time /\ overtaken' \in BOOLEAN
       /\ \A n \in 1..conn.rev : began'[n] = began[n] /\ began[n] # time
  <2>1. began \in [1..MaxRevision -> Revisions]
    BY DEF ConnTypes
  <2>7. \A n \in 1..conn.rev : n # rev
    BY <1>1
  <2> HIDE DEF rev
  <2>2. overtaken' \in BOOLEAN
    BY <1>4
  <2>3. time \in Revisions /\ \A n \in 1..conn.rev : began[n] # time
    BY <1>1 DEF BeginTimes
  <2>4. began' = [began EXCEPT ![rev] = time] /\ rev \in 1..MaxRevision
    BY <1>1, <1>4
  <2>5. began' \in [1..MaxRevision -> Revisions] /\ began'[rev] = time
    BY <2>1, <2>3, <2>4
  <2>6. \A n \in 1..conn.rev : began'[n] = began[n]
    BY <1>1, <2>1, <2>4, <2>7
  <2> QED
    BY <2>2, <2>3, <2>5, <2>6
<1>5. /\ conn' \in Connectors /\ conn'.agent = a /\ conn'.enabled = enabled /\ conn'.rev = rev
      /\ conn'.status \in {"pending", "stopping"} /\ conn'.vouched = conn'.token
  <2>1. /\ conn' = [conn EXCEPT
              !.agent = a, !.enabled = enabled, !.rev = rev,
              !.token = IF newToken THEN rev ELSE @,
              !.identity = IF newToken THEN "verified" ELSE @,
              !.vouched = IF newToken THEN rev ELSE @,
              !.status = IF enabled THEN "pending" ELSE "stopping"]
        /\ conn.vouched = conn.token
    BY DEF UpdateConnector, IdentityIsOfStoredToken
  <2> HIDE DEF rev
  <2>2. CASE newToken
    BY <1>1, <2>1, <2>2 DEF Connectors, Identities, Deployments
  <2>3. CASE ~newToken
    BY <1>1, <2>1, <2>3 DEF Connectors, Identities, Deployments
  <2> QED
    BY <2>2, <2>3
<1> HIDE DEF rev
<1>6. ASSUME NEW r \in Rows(Kinds), RowOK(r)
      PROVE  /\ r.rev # rev /\ r.stamp # sync.stamp /\ r.stamp # removal.stamp
             /\ RowOK(r)'
  <2>1. r.rev \in 1..conn.rev
    BY <1>6 DEF RowOK
  <2>2. r.rev # rev /\ r.rev \in 1..conn'.rev
    BY <1>1, <1>5, <2>1 DEF rev
  <2>3. began[r.rev] # time /\ began'[r.rev] = began[r.rev]
    BY <1>17, <2>1
  <2>4. RowOK(r)'
    BY <1>6, <2>2, <2>3 DEF RowOK, RemovalStamp, SyncStamp
  <2> HIDE DEF rev
  <2>5. r.stamp # sync.stamp /\ r.stamp # removal.stamp
    BY <1>1, <1>2, <1>6, <2>3, StampOfRow
  <2> QED
    BY <2>2, <2>4, <2>5
<1>7. ASSUME NEW b \in Agents, at[b] # "idle"
      PROVE  held[b] \in Rows(Kinds) /\ RowOK(held[b])
  BY <1>7, HeldRow DEF WorkOK
<1>8. open \subseteq Rows(Kinds) /\ \A r \in open : RowOK(r)
  BY DEF QueueOK, SyncTypeOK, RowsOK
<1>9. QueueOK(Kinds)'
  BY <1>2, <1>3, <1>4, <1>8 DEF QueueOK, SyncTypeOK, HandOK
<1>10. ConnTypes'
  BY <1>4, <1>5, <1>17 DEF ConnTypes
<1>11. RowsOK'
  <2>1. RowOK(sync)' /\ RowOK(removal)'
    <3>1. conn'.rev = rev /\ rev \in 1..rev
      BY <1>1, <1>5
    <3> QED
      BY <1>1, <1>2, <1>17, <3>1 DEF RowOK, RemovalStamp, SyncStamp
  <2>2. \A r \in open' : RowOK(r)'
    BY <1>3, <1>6, <1>8, <2>1
  <2>3. ASSUME NEW r \in open', NEW s \in open', r.stamp = s.stamp PROVE r = s
    <3>1. CASE r \in open /\ s \in open
      BY <2>3, <3>1 DEF RowsOK
    <3>2. sync.stamp # removal.stamp
      BY <1>1, <1>2
    <3> QED
      BY <1>3, <1>6, <1>8, <2>3, <3>1, <3>2
  <2> QED
    BY <1>1, <1>5, <2>2, <2>3 DEF RowsOK
<1>12. ASSUME NEW b \in Agents PROVE WorkOK(b)'
  <2>1. at[b] # "idle" => RowOK(held[b])' /\ \A r \in open' : r.stamp = held[b].stamp => r = held[b]
    <3> SUFFICES ASSUME at[b] # "idle", NEW r \in open', r.stamp = held[b].stamp PROVE r = held[b]
      BY <1>4, <1>6, <1>7
    <3>1. held[b].stamp # sync.stamp /\ held[b].stamp # removal.stamp
      BY <1>6, <1>7
    <3> QED
      BY <1>3, <3>1 DEF WorkOK
  <2>2. at[b] # "idle" => ~(held[b].rev = rev)
    BY <1>6, <1>7
  <2> QED
    BY <1>4, <1>5, <2>1, <2>2 DEF WorkOK, Current
<1>13. SettledOK' /\ StoppedOK' /\ ActiveConnectorRuns' /\ IdentityIsOfStoredToken'
  BY <1>5 DEF SettledOK, StoppedOK, ActiveConnectorRuns, IdentityIsOfStoredToken
<1>14. UnsettledIsQueued'
  BY <1>2, <1>3, <1>5 DEF UnsettledIsQueued, Current
<1>15. InTurn'
  <2> SUFFICES ASSUME faults = 0
               PROVE  /\ \A r \in open' : r.state = "pending" \/ held[r.agent] = r
                      /\ ~overtaken' => \A r \in open' : r.agent = a /\ r.kind = "remove" =>
                           /\ at[a] # "idle" => ~Current(held[a])'
                           /\ r.state = "pending" => r.stamp < SyncStamp(time)
    BY <1>4, <1>5, <1>17 DEF InTurn, SyncStamp, Current
  <2>1. \A r \in open' : r.state = "pending" \/ held[r.agent] = r
    BY <1>2, <1>3 DEF InTurn
  <2>2. at[a] # "idle" => ~Current(held[a])'
    BY <1>4, <1>5, <1>6, <1>7 DEF Current
  <2>3. ASSUME ~overtaken', NEW r \in open', r.agent = a, r.kind = "remove", r.state = "pending"
        PROVE  r.stamp < SyncStamp(time)
    <3>1. CASE r \in open
      <4>1. r.stamp \in Nat /\ r.stamp # sync.stamp
        BY <1>6, <1>8, <3>1, StampOfRow
      <4>2. ~(r.stamp > SyncStamp(time))
        BY <1>4, <2>3, <3>1 DEF Overtaking
      <4> QED
        BY <1>1, <1>2, <4>1, <4>2
    <3>2. CASE r = removal
      BY <1>1, <1>2, <3>2
    <3> QED
      BY <1>2, <1>3, <2>3, <3>1, <3>2
  <2> QED
    BY <2>1, <2>2, <2>3
<1>16. LeavingOK'
  <2> SUFFICES ASSUME NEW b \in Agents \ {a},
                      container[b] # 0 \/ (at[b] = "holding" /\ held[b].kind = "sync"),
                      b \notin unremoved
               PROVE  \E r \in open' : r.agent = b /\ r.kind = "remove"
    BY <1>4, <1>5 DEF LeavingOK
  <2>1. CASE b = conn.agent
    BY <1>2, <1>3, <2>1
  <2>2. CASE b # conn.agent
    <3>1. PICK r \in open : r.agent = b /\ r.kind = "remove"
      BY <2>2 DEF LeavingOK
    <3> QED
      BY <1>3, <3>1
  <2> QED
    BY <2>1, <2>2
<1> QED
  BY <1>9, <1>10, <1>11, <1>12, <1>13, <1>14, <1>15, <1>16

-----------------------------------------------------------------------------
(* Connectors: steps of the queue *)

LEMMA ConnClaimed ==
  ASSUME ConnInv, NEW a \in Agents, NEW r \in open, Claim(a, r)
  PROVE  ConnInv'
<1> USE DEF ConnInv
<1> DEFINE t == [r EXCEPT !.state = "claimed"]
<1>1. ClaimRow(a, r) /\ UNCHANGED <<container, removed, unremoved, check, began, overtaken>>
  BY DEF Claim, hostVars, orderVars
<1>2. r.agent = a
  BY <1>1 DEF ClaimRow, Oldest, Claimable
<1>3. /\ QueueOK(Kinds)'
      /\ at[a] = "idle" /\ at'[a] = "asked" /\ held'[a] = t /\ order' = order /\ ok' = ok
      /\ \A b \in Agents \ {a} : at'[b] = at[b] /\ held'[b] = held[b]
      /\ r.state # "claimed" /\ r \in Rows(Kinds)
      /\ \A s \in open : s.agent = a /\ s.state \in {"pending", "expired"} => r.stamp <= s.stamp
      /\ open' = (open \ {r}) \cup {t}
      /\ UNCHANGED <<interrupted, faults>>
  <2>1. "none" \notin Kinds
    BY DEF Kinds
  <2> QED
    BY <1>1, <1>2, <2>1, ClaimStep
<1>4. t.agent = a /\ t.kind = r.kind /\ t.rev = r.rev /\ t.stamp = r.stamp /\ t.state = "claimed"
  BY <1>2, <1>3, RowStates
<1> HIDE DEF t
<1>5. /\ conn' \in Connectors /\ SameOrder /\ conn'.token = conn.token /\ conn'.vouched = conn.vouched
      /\ Current(r) => conn'.status \in {"deploying", "stopping"}
      /\ ~Current(r) => conn'.status = conn.status
  <2>1. conn \in Connectors
    BY DEF ConnTypes
  <2>2. CASE Current(r)
    BY <1>1, <2>1, <2>2 DEF Claim, Connectors, Deployments, SameOrder
  <2>3. CASE ~Current(r)
    BY <1>1, <2>1, <2>3 DEF Claim, SameOrder
  <2> QED
    BY <2>2, <2>3
<1>6. ConnTypes' /\ RowsOK'
  BY <1>1, <1>2, <1>3, <1>4, <1>5, RowsRestated DEF ConnTypes
<1>7. held[a] = NoRow /\ ~ok[a]
  BY <1>3 DEF QueueOK, HandOK
<1>8. ASSUME NEW b \in Agents PROVE WorkOK(b)'
  <2>1. CASE b = a
    <3>1. RowOK(t)' /\ \A s \in open' : s.stamp = t.stamp => s = t
      BY <1>3, <1>6 DEF RowsOK
    <3> QED
      BY <1>3, <1>7, <2>1, <3>1 DEF WorkOK, RowOK
  <2>2. CASE b # a
    <3>1. at[b] # "idle" => \A s \in open' : s.stamp = held[b].stamp => s = held[b]
      <4> SUFFICES ASSUME at[b] # "idle", t.stamp = held[b].stamp PROVE FALSE
        BY <1>3 DEF WorkOK
      <4>1. r = held[b]
        <5>1. r.stamp = held[b].stamp /\ WorkOK(b)
          BY <1>4
        <5> QED
          BY <5>1 DEF WorkOK
      <4>2. held[b].state = "claimed"
        BY HeldRow
      <4> QED
        BY <1>3, <4>1, <4>2
    <3>2. at[b] # "idle" => RowOK(held[b])'
      BY <1>3, <1>5, <2>2 DEF WorkOK, RowOK, RemovalStamp, SyncStamp, SameOrder
    <3> QED
      BY <1>1, <1>3, <1>5, <2>2, <3>1, <3>2 DEF WorkOK, SameOrder, Current
  <2> QED
    BY <2>1, <2>2
<1>9. SettledOK'
  <2> SUFFICES ASSUME conn'.status \in {"active", "stopped"}
               PROVE  /\ \A s \in open' : ~Current(s)
                      /\ \A b \in Agents : at'[b] # "idle" => ~Current(held'[b])
                      /\ at'[conn.agent] = "holding" => held'[conn.agent].kind = "remove"
    BY <1>5 DEF SettledOK, SameOrder, Current
  <2>1. conn.status \in {"active", "stopped"} /\ ~Current(r)
    BY <1>5
  <2>2. ~Current(t)
    BY <1>2, <1>4, <2>1 DEF Current
  <2>3. \A s \in open' : ~Current(s)
    BY <1>3, <2>1, <2>2 DEF SettledOK
  <2>4. \A b \in Agents : at'[b] # "idle" => ~Current(held'[b])
    BY <1>3, <2>1, <2>2 DEF SettledOK
  <2>5. at'[conn.agent] = "holding" => held'[conn.agent].kind = "remove"
    BY <1>3, <2>1 DEF SettledOK, ConnTypes, Connectors
  <2> QED
    BY <2>3, <2>4, <2>5
<1>10. InTurn'
  <2> SUFFICES ASSUME faults = 0
               PROVE  /\ \A s \in open' : s.state = "pending" \/ held'[s.agent] = s
                      /\ ~overtaken => \A s \in open' : s.agent = conn.agent /\ s.kind = "remove" =>
                           /\ conn'.status # "active"
                           /\ at'[conn.agent] # "idle" => ~Current(held'[conn.agent])
                           /\ s.state = "pending" => s.stamp < SyncStamp(began[conn.rev])
                      /\ ~overtaken /\ conn'.status = "active" /\ at'[conn.agent] # "idle" =>
                           held'[conn.agent].kind = "sync"
    BY <1>3, <1>5 DEF InTurn, SameOrder, Current, SyncStamp
  <2>1. \A s \in open : s.agent = a => s.state = "pending"
    <3>1. \A s \in open : s # NoRow
      BY DEF QueueOK, SyncTypeOK, Rows, Kinds, NoRow
    <3> QED
      BY <1>7, <3>1 DEF InTurn
  <2>2. \A s \in open' : s.state = "pending" \/ held'[s.agent] = s
    <3>1. \A s \in open : s.agent \in Agents
      BY DEF QueueOK, SyncTypeOK, Rows
    <3> QED
      BY <1>3, <1>4, <2>1, <3>1 DEF InTurn
  <2>3. ASSUME ~overtaken, NEW s \in open, s.agent = conn.agent, s.kind = "remove", a = conn.agent
        PROVE  ~Current(r)
    <3> SUFFICES ASSUME Current(r) PROVE FALSE
      OBVIOUS
    <3>1. s.state = "pending" /\ s.stamp < SyncStamp(began[conn.rev])
      BY <2>1, <2>3 DEF InTurn
    <3>2. r.stamp <= s.stamp
      BY <1>3, <2>3, <3>1
    <3>3. r.stamp = SyncStamp(began[conn.rev])
      BY DEF RowsOK, RowOK, Current
    <3>4. r.stamp \in Nat /\ s.stamp \in Nat
      BY <1>3 DEF QueueOK, SyncTypeOK, Rows
    <3> QED
      BY <3>1, <3>2, <3>3, <3>4
  <2>4. ASSUME ~overtaken, NEW s \in open', s.agent = conn.agent, s.kind = "remove"
        PROVE  /\ conn'.status # "active"
               /\ at'[conn.agent] # "idle" => ~Current(held'[conn.agent])
               /\ s.state = "pending" => s.stamp < SyncStamp(began[conn.rev])
    <3>1. PICK u \in open : u.agent = conn.agent /\ u.kind = "remove"
                          /\ (s.state = "pending" => u = s)
      BY <1>2, <1>3, <1>4, <2>4
    <3>2. conn.status # "active" /\ (u.state = "pending" => u.stamp < SyncStamp(began[conn.rev]))
      BY <2>4, <3>1 DEF InTurn
    <3>3. conn'.status # "active"
      BY <1>5, <3>2
    <3>4. CASE a = conn.agent
      <4>1. ~Current(r)
        BY <2>3, <2>4, <3>1, <3>4
      <4>2. ~Current(t)
        BY <1>2, <1>4, <4>1 DEF Current
      <4> QED
        BY <1>3, <3>1, <3>2, <3>3, <3>4, <4>2
    <3>5. CASE a # conn.agent
      <4>1. at'[conn.agent] = at[conn.agent] /\ held'[conn.agent] = held[conn.agent]
        BY <1>3, <3>5 DEF ConnTypes, Connectors
      <4> QED
        BY <2>4, <3>1, <3>2, <3>3, <4>1 DEF InTurn
    <3> QED
      BY <3>4, <3>5
  <2>5. ASSUME ~overtaken, conn'.status = "active", at'[conn.agent] # "idle"
        PROVE  held'[conn.agent].kind = "sync"
    <3>1. conn.status = "active"
      BY <1>5, <2>5
    <3>2. CASE a = conn.agent
      <4>1. r.kind # "remove" /\ r.kind \in Kinds
        BY <1>2, <1>3, <2>5, <3>1, <3>2 DEF InTurn, Rows
      <4> QED
        BY <1>3, <1>4, <3>2, <4>1 DEF Kinds
    <3>3. CASE a # conn.agent
      <4>1. at'[conn.agent] = at[conn.agent] /\ held'[conn.agent] = held[conn.agent]
        BY <1>3, <3>3 DEF ConnTypes, Connectors
      <4> QED
        BY <2>5, <3>1, <4>1 DEF InTurn
    <3> QED
      BY <3>2, <3>3
  <2> QED
    BY <2>2, <2>4, <2>5
<1>11. LeavingOK'
  <2> SUFFICES ASSUME NEW b \in Agents \ {conn.agent},
                      container[b] # 0 \/ (at'[b] = "holding" /\ held'[b].kind = "sync"),
                      b \notin unremoved
               PROVE  \E s \in open' : s.agent = b /\ s.kind = "remove"
    BY <1>1, <1>5 DEF LeavingOK, SameOrder
  <2>1. PICK s \in open : s.agent = b /\ s.kind = "remove"
    BY <1>3 DEF LeavingOK
  <2> QED
    BY <1>2, <1>3, <1>4, <2>1
<1>12. StoppedOK' /\ ActiveConnectorRuns' /\ IdentityIsOfStoredToken'
  BY <1>1, <1>3, <1>5 DEF StoppedOK, ActiveConnectorRuns, IdentityIsOfStoredToken, SameOrder
<1>13. UnsettledIsQueued'
  <2>1. CASE Current(r)
    BY <1>2, <1>3, <1>4, <1>5, <2>1 DEF UnsettledIsQueued, Current, SameOrder
  <2>2. CASE ~Current(r)
    BY <1>3, <1>5, <2>2 DEF UnsettledIsQueued, Current, SameOrder
  <2> QED
    BY <2>1, <2>2
<1> QED
  BY <1>3, <1>6, <1>8, <1>9, <1>10, <1>11, <1>12, <1>13

\* A lease runs out only after a fault: without one the agent deals with the row.
LEMMA ConnExpired ==
  ASSUME ConnInv, NEW r \in open, Expire(r)
  PROVE  ConnInv'
<1> USE DEF ConnInv
<1> DEFINE t == [r EXCEPT !.state = "expired"]
<1>1. LeaseExpires(r) /\ UNCHANGED <<conn, container, removed, unremoved, check, began, overtaken>>
  BY DEF Expire, connVars, hostVars, orderVars
<1>2. /\ QueueOK(Kinds)'
      /\ r \in Rows(Kinds) /\ r.state = "claimed" /\ \A a \in Agents : held[a] # r
      /\ open' = (open \ {r}) \cup {t}
      /\ UNCHANGED <<at, held, order, ok, interrupted, faults>>
  BY <1>1, ExpireStep
<1>3. t.agent = r.agent /\ t.kind = r.kind /\ t.rev = r.rev /\ t.stamp = r.stamp
  BY <1>2, RowStates
<1> HIDE DEF t
<1>4. SameOrder
  BY <1>1 DEF SameOrder
<1>5. ConnTypes' /\ RowsOK'
  BY <1>1, <1>2, <1>3, <1>4, RowsRestated DEF ConnTypes
<1>6. ASSUME NEW b \in Agents PROVE WorkOK(b)'
  <2>1. at[b] # "idle" => RowOK(held[b])' /\ \A s \in open' : s.stamp = held[b].stamp => s = held[b]
    BY <1>1, <1>2, <1>3 DEF WorkOK, RowOK, RemovalStamp, SyncStamp
  <2> QED
    BY <1>1, <1>2, <2>1 DEF WorkOK, Current
<1>7. SettledOK'
  BY <1>1, <1>2, <1>3 DEF SettledOK, Current
<1>8. InTurn'
  <2>1. r.agent \in Agents
    BY <1>2 DEF Rows
  <2>2. faults # 0
    BY <1>2, <2>1 DEF InTurn
  <2> QED
    BY <1>2, <2>2 DEF InTurn
<1>9. LeavingOK'
  BY <1>1, <1>2, <1>3 DEF LeavingOK
<1>10. StoppedOK' /\ ActiveConnectorRuns' /\ IdentityIsOfStoredToken'
  BY <1>1, <1>2 DEF StoppedOK, ActiveConnectorRuns, IdentityIsOfStoredToken
<1>11. UnsettledIsQueued'
  BY <1>1, <1>2, <1>3 DEF UnsettledIsQueued, Current
<1> QED
  BY <1>2, <1>5, <1>6, <1>7, <1>8, <1>9, <1>10, <1>11

LEMMA ConnAnswered ==
  ASSUME ConnInv, NEW a \in Agents, AnswerSync(a) \/ AnswerRemove(a)
  PROVE  ConnInv'
<1> USE DEF ConnInv
<1>1. at[a] = "asked" /\ UNCHANGED <<conn, container, removed, unremoved, check, began, overtaken>>
  BY DEF AnswerSync, AnswerRemove, AnswerWith, connVars, hostVars, orderVars
<1>2. held[a] \in Rows(Kinds) /\ held[a].rev \in Revisions
  <2>1. held[a] \in Rows(Kinds) /\ RowOK(held[a])
    BY <1>1, HeldRow DEF WorkOK
  <2> QED
    BY <2>1 DEF RowOK, Rows, ConnTypes, Connectors
<1>3. PICK o \in Orders :
        /\ AnswerWith(a, o) /\ o.rev \in Revisions /\ o.rev = held[a].rev
        /\ \/ held[a].kind = "sync" /\ Current(held[a]) /\ o.enabled = conn.enabled
           \/ held[a].kind = "remove" /\ ~o.enabled
  <2>1. CASE AnswerSync(a)
    <3> DEFINE o == [enabled |-> conn.enabled, rev |-> conn.rev]
    <3>1. o \in Orders /\ o.rev \in Revisions
      BY DEF Orders, ConnTypes, Connectors
    <3> QED
      BY <2>1, <3>1 DEF AnswerSync, Answerable, Current
  <2>2. CASE AnswerRemove(a)
    <3> DEFINE o == [enabled |-> FALSE, rev |-> held[a].rev]
    <3>1. o \in Orders /\ o.rev \in Revisions
      BY <1>2 DEF Orders
    <3> QED
      BY <2>2, <3>1 DEF AnswerRemove
  <2> QED
    BY <2>1, <2>2
<1>4. /\ QueueOK(Kinds)'
      /\ at'[a] = "holding" /\ order'[a] = o /\ ~ok'[a]
      /\ \A b \in Agents \ {a} : at'[b] = at[b] /\ order'[b] = order[b] /\ ok'[b] = ok[b]
      /\ UNCHANGED <<open, held, interrupted, faults>>
  BY <1>3, AnswerStep
<1>5. SameOrder /\ open' \subseteq open
  BY <1>1, <1>4 DEF SameOrder
<1>6. ConnTypes' /\ RowsOK'
  BY <1>1, <1>5, RowsShrink DEF ConnTypes
<1>7. ASSUME NEW b \in Agents PROVE WorkOK(b)'
  <2>1. CASE b = a
    <3>1. RowOK(held[a])' /\ \A r \in open' : r.stamp = held[a].stamp => r = held[a]
      BY <1>1, <1>4 DEF WorkOK, RowOK, RemovalStamp, SyncStamp
    <3> QED
      BY <1>1, <1>3, <1>4, <2>1, <3>1 DEF WorkOK, Current
  <2>2. CASE b # a
    BY <1>1, <1>4, <1>5, <2>2, WorkStays
  <2> QED
    BY <2>1, <2>2
<1>8. /\ \A b \in Agents : at'[b] = "idle" <=> at[b] = "idle"
      /\ \A b \in Agents : at'[b] = "holding" => at[b] = "holding" \/ b = a
      /\ conn.agent \in Agents
  BY <1>1, <1>4 DEF ConnTypes, Connectors
<1>9. SettledOK'
  <2> SUFFICES ASSUME conn.status \in {"active", "stopped"}
               PROVE  /\ \A r \in open : ~Current(r)
                      /\ \A b \in Agents : at'[b] # "idle" => ~Current(held[b])
                      /\ at'[conn.agent] = "holding" => held[conn.agent].kind = "remove"
    BY <1>1, <1>4 DEF SettledOK, Current
  <2>1. ~Current(held[a])
    BY <1>1 DEF SettledOK
  <2> QED
    BY <1>3, <1>8, <2>1 DEF SettledOK
<1>10. InTurn'
  BY <1>1, <1>4, <1>8 DEF InTurn, Current, SyncStamp
<1>11. LeavingOK'
  <2> SUFFICES ASSUME NEW b \in Agents \ {conn.agent},
                      container[b] # 0 \/ (at'[b] = "holding" /\ held[b].kind = "sync")
               PROVE  b \in unremoved \/ \E r \in open : r.agent = b /\ r.kind = "remove"
    BY <1>1, <1>4 DEF LeavingOK
  <2>1. container[b] # 0 \/ (at[b] = "holding" /\ held[b].kind = "sync")
    <3>1. held[a].agent = a
      BY <1>1, HeldRow
    <3> QED
      BY <1>3, <1>4, <3>1 DEF Current
  <2> QED
    BY <2>1 DEF LeavingOK
<1>12. StoppedOK' /\ ActiveConnectorRuns' /\ IdentityIsOfStoredToken' /\ UnsettledIsQueued'
  BY <1>1, <1>4 DEF StoppedOK, ActiveConnectorRuns, IdentityIsOfStoredToken, UnsettledIsQueued, Current
<1> QED
  BY <1>4, <1>6, <1>7, <1>9, <1>10, <1>11, <1>12

-----------------------------------------------------------------------------
(* Connectors: executions *)

\* What one leaves on the host.  The agent of a connector that is shown as active or
\* stopped can be executing a removal only; before it is shown as active again that
\* takes a fault.
LEMMA EffectOnHost ==
  ASSUME ConnInv, NEW a \in Agents, NEW success \in BOOLEAN, at[a] = "holding", Effect(a, success)
  PROVE  /\ ConnTypes /\ container' \in [Agents -> Revisions] /\ removed' \in SUBSET Agents
         /\ success => container'[a] = IF order[a].enabled THEN order[a].rev ELSE 0
         /\ \A b \in Agents \ {a} : container'[b] = container[b]
         /\ conn.status = "active" =>
              container'[conn.agent] = conn.rev \/ (conn.agent \in removed' /\ (faults > 0 \/ overtaken))
         /\ conn.status = "stopped" /\ ~conn.enabled => container'[conn.agent] = 0
         /\ \A b \in Agents \ {conn.agent} : container'[b] # 0 =>
              b \in unremoved \/ \E r \in open : r.agent = b /\ r.kind = "remove"
<1> USE DEF ConnInv
<1>1. /\ container \in [Agents -> Revisions] /\ conn.agent \in Agents /\ order[a].rev \in Revisions
      /\ removed \in SUBSET Agents
  BY DEF ConnTypes, Connectors, WorkOK
<1>2. PICK c \in Leaves(a, success) : container' = [container EXCEPT ![a] = c]
  BY DEF Effect
<1>3. /\ c \in Revisions /\ (success => c = IF order[a].enabled THEN order[a].rev ELSE 0)
      /\ ~order[a].enabled => c \in {container[a], 0}
  BY <1>1, <1>2 DEF Leaves
<1>4. /\ container' \in [Agents -> Revisions] /\ container'[a] = c
      /\ \A b \in Agents \ {a} : container'[b] = container[b]
  BY <1>1, <1>2, <1>3
<1>5. /\ removed' \in SUBSET Agents /\ (held[a].kind = "remove" => a \in removed')
      /\ \A b \in Agents \ {a} : b \in removed => b \in removed'
  BY <1>1 DEF Effect
<1>6. held[a].kind = "remove" => ~order[a].enabled
  BY DEF WorkOK
<1>7. conn.status \in {"active", "stopped"} /\ a = conn.agent => held[a].kind = "remove"
  BY DEF SettledOK
<1>8. faults \in Nat
  BY DEF QueueOK, SyncTypeOK
<1>9. conn.status = "active" =>
        container'[conn.agent] = conn.rev \/ (conn.agent \in removed' /\ (faults > 0 \/ overtaken))
  <2>1. CASE a = conn.agent
    <3>1. conn.status = "active" => held[a].kind = "remove" /\ a \in removed'
      BY <1>5, <1>7, <2>1
    <3>2. conn.status = "active" => faults # 0 \/ overtaken
      BY <2>1, <3>1 DEF InTurn
    <3> QED
      BY <1>8, <2>1, <3>1, <3>2
  <2>2. CASE a # conn.agent
    BY <1>1, <1>4, <1>5, <2>2 DEF ActiveConnectorRuns
  <2> QED
    BY <2>1, <2>2
<1>10. conn.status = "stopped" /\ ~conn.enabled => container'[conn.agent] = 0
  BY <1>1, <1>3, <1>4, <1>6, <1>7 DEF StoppedOK
<1>11. ASSUME NEW b \in Agents \ {conn.agent}, container'[b] # 0
       PROVE  b \in unremoved \/ \E r \in open : r.agent = b /\ r.kind = "remove"
  <2>1. CASE b = a
    <3>1. held[a].kind \in Kinds
      BY HeldRow DEF Rows
    <3>2. container[a] # 0 \/ held[a].kind = "sync"
      BY <1>3, <1>4, <1>6, <1>11, <2>1, <3>1 DEF Kinds
    <3> QED
      BY <2>1, <3>2 DEF LeavingOK
  <2>2. CASE b # a
    BY <1>4, <1>11, <2>2 DEF LeavingOK
  <2> QED
    BY <2>1, <2>2
<1> QED
  BY <1>3, <1>4, <1>5, <1>9, <1>10, <1>11

LEMMA ConnExecuted ==
  ASSUME ConnInv, NEW a \in Agents, NEW success \in BOOLEAN, Execute(a, success)
  PROVE  ConnInv'
<1> USE DEF ConnInv
<1>1. ExecuteHeld(a, success) /\ Effect(a, success) /\ UNCHANGED <<conn, check, unremoved, began, overtaken>>
  BY DEF Execute, Effect, orderVars
<1>2. /\ QueueOK(Kinds)'
      /\ at[a] = "holding" /\ at'[a] = "reporting" /\ ok'[a] = success
      /\ \A b \in Agents \ {a} : at'[b] = at[b] /\ ok'[b] = ok[b]
      /\ UNCHANGED <<open, held, order, interrupted, faults>>
  BY <1>1, ExecuteStep
<1>3. /\ container' \in [Agents -> Revisions] /\ removed' \in SUBSET Agents
      /\ success => container'[a] = IF order[a].enabled THEN order[a].rev ELSE 0
      /\ \A b \in Agents \ {a} : container'[b] = container[b]
      /\ conn.status = "active" =>
           container'[conn.agent] = conn.rev \/ (conn.agent \in removed' /\ (faults > 0 \/ overtaken))
      /\ conn.status = "stopped" /\ ~conn.enabled => container'[conn.agent] = 0
      /\ \A b \in Agents \ {conn.agent} : container'[b] # 0 =>
           b \in unremoved \/ \E r \in open : r.agent = b /\ r.kind = "remove"
  BY <1>1, <1>2, EffectOnHost
<1>4. SameOrder /\ open' \subseteq open
  BY <1>1, <1>2 DEF SameOrder
<1>5. ConnTypes' /\ RowsOK'
  BY <1>1, <1>3, <1>4, RowsShrink DEF ConnTypes
<1>6. ASSUME NEW b \in Agents PROVE WorkOK(b)'
  <2>1. CASE b = a
    <3>1. RowOK(held[a])' /\ \A r \in open' : r.stamp = held[a].stamp => r = held[a]
      BY <1>1, <1>2 DEF WorkOK, RowOK, RemovalStamp, SyncStamp
    <3> QED
      BY <1>1, <1>2, <1>3, <2>1, <3>1 DEF WorkOK, Current
  <2>2. CASE b # a
    BY <1>2, <1>3, <1>4, <2>2, WorkStays
  <2> QED
    BY <2>1, <2>2
<1>7. /\ \A b \in Agents : at'[b] = "idle" <=> at[b] = "idle"
      /\ \A b \in Agents : at'[b] = "holding" => at[b] = "holding"
      /\ conn.agent \in Agents
  BY <1>2 DEF ConnTypes, Connectors
<1>8. SettledOK'
  BY <1>1, <1>2, <1>7 DEF SettledOK, Current
<1>9. InTurn'
  BY <1>1, <1>2, <1>7 DEF InTurn, Current, SyncStamp
<1>10. LeavingOK'
  BY <1>1, <1>2, <1>3, <1>7 DEF LeavingOK
<1>11. StoppedOK' /\ ActiveConnectorRuns' /\ IdentityIsOfStoredToken' /\ UnsettledIsQueued'
  BY <1>1, <1>2, <1>3 DEF StoppedOK, ActiveConnectorRuns, IdentityIsOfStoredToken, UnsettledIsQueued, Current
<1> QED
  BY <1>2, <1>5, <1>6, <1>8, <1>9, <1>10, <1>11

\* The answer is lost, or the agent crashes: its command stays open, and a fault has
\* happened.
LEMMA ConnLeft ==
  ASSUME ConnInv, NEW a \in Agents, Lost(a) \/ Crash(a)
  PROVE  ConnInv'
<1> USE DEF ConnInv
<1>1. (AnswerLost(a) \/ CrashExecuting(a)) /\ UNCHANGED <<conn, check, unremoved, began, overtaken>>
  BY DEF Lost, Crash, Effect, connVars, hostVars, orderVars
<1>2. /\ QueueOK(Kinds)'
      /\ at'[a] = "idle" /\ held'[a] = NoRow /\ order'[a] = NoOrder /\ ~ok'[a]
      /\ \A b \in Agents \ {a} :
           at'[b] = at[b] /\ held'[b] = held[b] /\ order'[b] = order[b] /\ ok'[b] = ok[b]
      /\ open' = open /\ faults' > 0
  BY <1>1, LeaveStep
<1>3. /\ container' \in [Agents -> Revisions] /\ removed' \in SUBSET Agents
      /\ \A b \in Agents \ {a} : container'[b] = container[b]
      /\ conn.status = "active" => container'[conn.agent] = conn.rev \/ conn.agent \in removed'
      /\ conn.status = "stopped" /\ ~conn.enabled => container'[conn.agent] = 0
      /\ \A b \in Agents \ {conn.agent} : container'[b] # 0 =>
           b \in unremoved \/ \E r \in open : r.agent = b /\ r.kind = "remove"
  <2>1. CASE Lost(a)
    BY <2>1 DEF Lost, connVars, hostVars, ConnTypes, ActiveConnectorRuns, StoppedOK, LeavingOK
  <2>2. CASE Crash(a)
    <3>1. Effect(a, FALSE) /\ at[a] = "holding"
      BY <2>2 DEF Crash, CrashExecuting
    <3> QED
      BY <3>1, EffectOnHost
  <2> QED
    BY <2>1, <2>2
<1>4. SameOrder /\ open' \subseteq open
  BY <1>1, <1>2 DEF SameOrder
<1>5. ConnTypes' /\ RowsOK'
  BY <1>1, <1>3, <1>4, RowsShrink DEF ConnTypes
<1>6. ASSUME NEW b \in Agents PROVE WorkOK(b)'
  BY <1>2, <1>3, <1>4, WorkStays, WorkDone
<1>7. SettledOK'
  BY <1>1, <1>2 DEF SettledOK, Current, ConnTypes, Connectors
<1>8. InTurn'
  BY <1>2 DEF InTurn
<1>9. LeavingOK'
  BY <1>1, <1>2, <1>3 DEF LeavingOK
<1>10. StoppedOK' /\ ActiveConnectorRuns' /\ IdentityIsOfStoredToken' /\ UnsettledIsQueued'
  BY <1>1, <1>2, <1>3 DEF StoppedOK, ActiveConnectorRuns, IdentityIsOfStoredToken, UnsettledIsQueued, Current
<1> QED
  BY <1>2, <1>5, <1>6, <1>7, <1>8, <1>9, <1>10

LEMMA ConnInterrupted ==
  ASSUME ConnInv, NEW a \in Agents, Interrupted(a)
  PROVE  ConnInv'
<1> USE DEF ConnInv
<1>1. ReportInterrupted(a) /\ UNCHANGED <<conn, container, removed, unremoved, check, began, overtaken>>
  BY DEF Interrupted, connVars, hostVars, orderVars
<1>2. /\ QueueOK(Kinds)'
      /\ at[a] = "holding" /\ at'[a] = "reporting" /\ ~ok[a] /\ ok' = ok
      /\ \A b \in Agents \ {a} : at'[b] = at[b]
      /\ UNCHANGED <<open, held, order, interrupted, faults>>
  BY <1>1, InterruptedStep
<1>3. SameOrder /\ open' \subseteq open
  BY <1>1, <1>2 DEF SameOrder
<1>4. ConnTypes' /\ RowsOK'
  BY <1>1, <1>3, RowsShrink DEF ConnTypes
<1>5. /\ \A b \in Agents : at'[b] = "idle" <=> at[b] = "idle"
      /\ \A b \in Agents : at'[b] \in {"holding", "reporting"} <=> at[b] \in {"holding", "reporting"}
      /\ \A b \in Agents : at'[b] = "holding" => at[b] = "holding"
      /\ conn.agent \in Agents
  BY <1>2 DEF ConnTypes, Connectors
<1>6. ASSUME NEW b \in Agents PROVE WorkOK(b)'
  BY <1>1, <1>2, <1>5 DEF WorkOK, RowOK, RemovalStamp, SyncStamp, Current
<1>7. SettledOK'
  BY <1>1, <1>2, <1>5 DEF SettledOK, Current
<1>8. InTurn'
  BY <1>1, <1>2, <1>5 DEF InTurn, Current, SyncStamp
<1>9. LeavingOK'
  BY <1>1, <1>2, <1>5 DEF LeavingOK
<1>10. StoppedOK' /\ ActiveConnectorRuns' /\ IdentityIsOfStoredToken' /\ UnsettledIsQueued'
  BY <1>1, <1>2 DEF StoppedOK, ActiveConnectorRuns, IdentityIsOfStoredToken, UnsettledIsQueued, Current
<1> QED
  BY <1>2, <1>4, <1>6, <1>7, <1>8, <1>9, <1>10

-----------------------------------------------------------------------------
(* Connectors: settling *)

\* A command ends with status s, if it was open: for the row as it is only if it was
\* the one sync made for it, of which there is no other.
LEMMA ConnCompleted ==
  ASSUME ConnInv, NEW a \in Agents, at[a] # "idle", CompleteHeld(a),
         NEW s \in {"failed", "active", "stopped"},
         IF Completes(a) THEN Settled(held[a], s) ELSE UNCHANGED conn,
         UNCHANGED <<container, removed, check, began, overtaken>>,
         unremoved' \in SUBSET Agents, unremoved \subseteq unremoved',
         held[a].kind = "remove" => a \in unremoved' \/ ok[a],
         s = "active" => ok[a] /\ order[a].enabled,
         s = "stopped" => ok[a]
  PROVE  ConnInv'
<1> USE DEF ConnInv
<1>1. /\ QueueOK(Kinds)'
      /\ at'[a] = "idle" /\ held'[a] = NoRow /\ order'[a] = NoOrder /\ ~ok'[a]
      /\ \A b \in Agents \ {a} :
           at'[b] = at[b] /\ held'[b] = held[b] /\ order'[b] = order[b] /\ ok'[b] = ok[b]
      /\ open' = open \ {held[a]}
      /\ UNCHANGED <<interrupted, faults>>
  BY CompleteStep
<1>2. /\ held[a] \in Rows(Kinds) /\ held[a].agent = a /\ RowOK(held[a])
      /\ \A r \in open : r.stamp = held[a].stamp => r = held[a]
  BY HeldRow DEF WorkOK
<1>3. open \subseteq Rows(Kinds) /\ conn \in Connectors /\ conn.agent \in Agents
  BY DEF QueueOK, SyncTypeOK, ConnTypes, Connectors
<1> DEFINE settles == Completes(a) /\ Current(held[a])
<1>4. /\ conn' \in Connectors /\ SameOrder /\ conn'.token = conn.token /\ conn'.vouched = conn.vouched
      /\ settles => conn'.status = s
      /\ ~settles => conn'.status = conn.status
  <2>1. CASE Completes(a)
    <3>1. s \in Deployments /\ Settled(held[a], s)
      BY <2>1 DEF Deployments
    <3> QED
      BY <2>1, <3>1, SettledRow DEF orderVars
  <2>2. CASE ~Completes(a)
    BY <1>3, <2>2 DEF SameOrder
  <2> QED
    BY <2>1, <2>2
\* What has ended was the only sync made for the row.
<1>5. ASSUME Current(held[a])
      PROVE  /\ a = conn.agent
             /\ \A r \in open' : ~Current(r)
  <2>1. a = conn.agent
    BY <1>2, <1>5 DEF Current
  <2>2. ASSUME NEW r \in open', Current(r) PROVE FALSE
    <3>1. RowOK(r) /\ r \in open
      BY <1>1 DEF RowsOK
    <3>2. r.stamp = held[a].stamp
      BY <1>2, <1>5, <2>2, <3>1, SyncsOfOneRevision DEF Current
    <3> QED
      BY <1>1, <1>2, <3>1, <3>2
  <2> QED
    BY <2>1, <2>2
<1>6. ASSUME Current(held[a]), ok[a]
      PROVE  container[conn.agent] = IF conn.enabled THEN conn.rev ELSE 0
  <2>1. at[a] = "reporting" /\ held[a].kind = "sync" /\ held[a].rev = conn.rev
    BY <1>6 DEF QueueOK, HandOK, Current
  <2> QED
    BY <1>5, <1>6, <2>1 DEF WorkOK
<1>7. s = "active" /\ Current(held[a]) => conn.enabled
  <2> SUFFICES ASSUME s = "active", Current(held[a]) PROVE conn.enabled
    OBVIOUS
  <2>1. at[a] = "reporting" /\ held[a].kind = "sync" /\ order[a].enabled
    BY DEF QueueOK, HandOK, Current
  <2> QED
    BY <2>1 DEF WorkOK
<1> HIDE DEF settles
<1>8. ConnTypes' /\ RowsOK'
  <2>1. open' \subseteq open
    BY <1>1
  <2> QED
    BY <1>4, <2>1, RowsShrink DEF ConnTypes
<1>9. ASSUME NEW b \in Agents PROVE WorkOK(b)'
  BY <1>1, <1>4, WorkStays, WorkDone
<1>10. SettledOK'
  <2> SUFFICES ASSUME conn'.status \in {"active", "stopped"}
               PROVE  /\ \A r \in open' : ~Current(r)
                      /\ \A b \in Agents : at'[b] # "idle" => ~Current(held'[b])
                      /\ at'[conn.agent] = "holding" => held'[conn.agent].kind = "remove"
    BY <1>4 DEF SettledOK, SameOrder, Current
  <2>1. CASE settles
    <3>1. \A b \in Agents : at'[b] # "idle" => b # conn.agent /\ held'[b].agent = b
      BY <1>1, <1>5, <2>1 DEF QueueOK, HandOK, settles
    <3> QED
      BY <1>1, <1>5, <2>1, <3>1 DEF settles, Current
  <2>2. CASE ~settles
    BY <1>1, <1>3, <1>4, <2>2 DEF SettledOK
  <2> QED
    BY <2>1, <2>2
<1>11. InTurn'
  <2> SUFFICES ASSUME faults = 0
               PROVE  /\ \A r \in open' : r.state = "pending" \/ held'[r.agent] = r
                      /\ ~overtaken => \A r \in open' : r.agent = conn.agent /\ r.kind = "remove" =>
                           /\ conn'.status # "active"
                           /\ at'[conn.agent] # "idle" => ~Current(held'[conn.agent])
                           /\ r.state = "pending" => r.stamp < SyncStamp(began[conn.rev])
                      /\ ~overtaken /\ conn'.status = "active" /\ at'[conn.agent] # "idle" =>
                           held'[conn.agent].kind = "sync"
    BY <1>1, <1>4 DEF InTurn, SameOrder, Current, SyncStamp
  <2>1. \A r \in open' : r.state = "pending" \/ held'[r.agent] = r
    <3>1. \A r \in open : r.agent \in Agents
      BY <1>3 DEF Rows
    <3> QED
      BY <1>1, <3>1 DEF InTurn
  <2>2. at'[conn.agent] # "idle" => a # conn.agent /\ at[conn.agent] # "idle" /\ held'[conn.agent] = held[conn.agent]
    BY <1>1, <1>3
  <2>3. ASSUME ~overtaken, NEW r \in open', r.agent = conn.agent, r.kind = "remove"
        PROVE  /\ conn'.status # "active"
               /\ at'[conn.agent] # "idle" => ~Current(held'[conn.agent])
               /\ r.state = "pending" => r.stamp < SyncStamp(began[conn.rev])
    <3>1. /\ conn.status # "active" /\ (at[conn.agent] # "idle" => ~Current(held[conn.agent]))
          /\ r.state = "pending" => r.stamp < SyncStamp(began[conn.rev])
      BY <1>1, <2>3 DEF InTurn
    <3>2. ~settles
      BY <1>5, <3>1 DEF settles
    <3> QED
      BY <1>4, <2>2, <3>1, <3>2
  <2>4. ASSUME ~overtaken, conn'.status = "active", at'[conn.agent] # "idle"
        PROVE  held'[conn.agent].kind = "sync"
    <3>1. ~settles
      BY <1>5, <2>2, <2>4 DEF settles
    <3> QED
      BY <1>4, <2>2, <2>4, <3>1 DEF InTurn
  <2> QED
    BY <2>1, <2>3, <2>4
<1>12. LeavingOK'
  <2> SUFFICES ASSUME NEW b \in Agents \ {conn.agent},
                      container[b] # 0 \/ (at'[b] = "holding" /\ held'[b].kind = "sync"),
                      b \notin unremoved'
               PROVE  \E r \in open' : r.agent = b /\ r.kind = "remove"
    BY <1>4 DEF LeavingOK, SameOrder
  <2>1. PICK r \in open : r.agent = b /\ r.kind = "remove"
    BY <1>1 DEF LeavingOK
  <2>2. CASE r = held[a]
    <3>1. b = a /\ held[a].kind = "remove" /\ ok[a]
      BY <1>2, <2>1, <2>2
    <3>2. container[a] = 0
      BY <3>1 DEF QueueOK, HandOK, WorkOK
    <3> QED
      BY <1>1, <3>1, <3>2
  <2>3. CASE r # held[a]
    BY <1>1, <2>1, <2>3
  <2> QED
    BY <2>2, <2>3
<1>13. StoppedOK' /\ ActiveConnectorRuns' /\ IdentityIsOfStoredToken'
  <2>1. CASE settles
    BY <1>1, <1>4, <1>6, <1>7, <2>1
    DEF StoppedOK, ActiveConnectorRuns, IdentityIsOfStoredToken, SameOrder, settles
  <2>2. CASE ~settles
    BY <1>1, <1>4, <2>2 DEF StoppedOK, ActiveConnectorRuns, IdentityIsOfStoredToken, SameOrder
  <2> QED
    BY <2>1, <2>2
<1>14. UnsettledIsQueued'
  <2>1. CASE settles
    BY <1>4, <2>1 DEF UnsettledIsQueued
  <2>2. CASE ~settles
    <3>1. \A r \in open : Current(r) => r \in open'
      BY <1>1, <2>2 DEF settles, Completes
    <3> QED
      BY <1>4, <2>2, <3>1 DEF UnsettledIsQueued, Current, SameOrder
  <2> QED
    BY <2>1, <2>2
<1> QED
  BY <1>1, <1>8, <1>9, <1>10, <1>11, <1>12, <1>13, <1>14

LEMMA ConnRefused ==
  ASSUME ConnInv, NEW a \in Agents, RefuseSync(a)
  PROVE  ConnInv'
<1>1. /\ CompleteHeld(a) /\ at[a] # "idle" /\ held[a].kind = "sync"
      /\ IF Completes(a) THEN Settled(held[a], "failed") ELSE UNCHANGED conn
      /\ UNCHANGED <<container, removed, unremoved, check, began, overtaken>>
  BY DEF RefuseSync, Refuse, hostVars, orderVars
<1>2. unremoved' \in SUBSET Agents
  BY <1>1 DEF ConnInv, ConnTypes
<1> QED
  BY <1>1, <1>2, ConnCompleted

LEMMA ConnReported ==
  ASSUME ConnInv, NEW a \in Agents, Report(a)
  PROVE  ConnInv'
<1>1. /\ CompleteHeld(a) /\ at[a] # "idle" /\ UNCHANGED <<container, removed, check, began, overtaken>>
      /\ Unremoved(held[a], ok[a])
  BY DEF Report, ReportHeld, orderVars
<1>2. held[a].agent = a
  BY <1>1, HeldRow DEF ConnInv
<1>3. /\ unremoved' \in SUBSET Agents /\ unremoved \subseteq unremoved'
      /\ held[a].kind = "remove" => a \in unremoved' \/ ok[a]
  BY <1>1, <1>2 DEF Unremoved, ConnInv, ConnTypes
<1>4. \E s \in Outcomes(a) : s \in {"failed", "active", "stopped"}
  BY DEF Outcomes
<1>5. PICK s \in Outcomes(a) : IF Completes(a) THEN Settled(held[a], s) ELSE UNCHANGED conn
  BY <1>4 DEF Report
<1>6. /\ s \in {"failed", "active", "stopped"}
      /\ s = "active" => ok[a] /\ order[a].enabled
      /\ s = "stopped" => ok[a]
  BY <1>5 DEF Outcomes
<1> QED
  BY <1>1, <1>3, <1>5, <1>6, ConnCompleted

\* The sweep ends a row, whoever deals with it.
LEMMA ConnFailedStale ==
  ASSUME ConnInv, NEW r \in open, FailStale(r)
  PROVE  ConnInv'
<1> USE DEF ConnInv
<1>1. /\ open' = open \ {r} /\ UNCHANGED <<at, held, order, ok, interrupted, faults>>
      /\ Settled(r, "failed") /\ Unremoved(r, FALSE) /\ UNCHANGED <<container, removed, check, began, overtaken>>
  BY DEF FailStale, FailStaleRow, loopVars, orderVars
<1>2. r.agent \in Agents
  BY DEF QueueOK, SyncTypeOK, Rows
<1>3. /\ unremoved' \in SUBSET Agents /\ unremoved \subseteq unremoved'
      /\ r.kind = "remove" => r.agent \in unremoved'
  BY <1>1, <1>2 DEF Unremoved, ConnTypes
<1>4. /\ conn' \in Connectors /\ SameOrder /\ conn'.token = conn.token /\ conn'.vouched = conn.vouched
      /\ conn'.status = IF Current(r) THEN "failed" ELSE conn.status
  <2>1. "failed" \in Deployments
    BY DEF Deployments
  <2> QED
    BY <1>1, <2>1, SettledRow DEF orderVars
<1>5. QueueOK(Kinds)'
  BY <1>1 DEF QueueOK, SyncTypeOK, HandOK
<1>6. ConnTypes' /\ RowsOK'
  BY <1>1, <1>3, <1>4, RowsShrink DEF ConnTypes
<1>7. ASSUME NEW b \in Agents PROVE WorkOK(b)'
  BY <1>1, <1>4, WorkStays
<1>8. SettledOK'
  BY <1>1, <1>4 DEF SettledOK, SameOrder, Current
<1>9. InTurn'
  BY <1>1, <1>4 DEF InTurn, SameOrder, Current, SyncStamp
<1>10. LeavingOK'
  BY <1>1, <1>3, <1>4 DEF LeavingOK, SameOrder
<1>11. StoppedOK' /\ ActiveConnectorRuns' /\ IdentityIsOfStoredToken'
  BY <1>1, <1>4 DEF StoppedOK, ActiveConnectorRuns, IdentityIsOfStoredToken, SameOrder
<1>12. UnsettledIsQueued'
  BY <1>1, <1>4 DEF UnsettledIsQueued, Current, SameOrder
<1> QED
  BY <1>5, <1>6, <1>7, <1>8, <1>9, <1>10, <1>11, <1>12

LEMMA ConnStepInvariant == ConnInv /\ [Next]_vars => ConnInv'
<1> SUFFICES ASSUME ConnInv, [Next]_vars PROVE ConnInv'
  OBVIOUS
<1>1. conn.enabled \in BOOLEAN /\ conn.agent \in Agents
  BY DEF ConnInv, ConnTypes, Connectors
<1>2. ASSUME NEW a \in Agents, AgentStep(a) PROVE ConnInv'
  <2>1. CASE \E r \in open : Claim(a, r)
    BY <2>1, ConnClaimed
  <2>2. CASE \E s \in BOOLEAN : Execute(a, s)
    BY <2>2, ConnExecuted
  <2> QED
    BY <1>2, <2>1, <2>2, ConnAnswered, ConnRefused, ConnLeft, ConnInterrupted, ConnReported
    DEF AgentStep
<1>3. ASSUME NEW time \in BeginTimes, NEW a \in Agents, NEW e \in BOOLEAN, NEW t \in BOOLEAN,
             UpdateConnector(time, a, e, t)
      PROVE  ConnInv'
  BY <1>3, ConnUpdated
<1>4. ASSUME UNCHANGED vars PROVE ConnInv'
  <2>1. UNCHANGED <<syncVars, hostVars, conn, container, removed, unremoved, check, began, overtaken>>
    BY <1>4 DEF vars, connVars, hostVars, orderVars
  <2>2. ConnTypes' /\ SameOrder /\ conn'.vouched = conn'.token
    BY <2>1 DEF ConnInv, ConnTypes, SameOrder, IdentityIsOfStoredToken
  <2> QED
    BY <2>1, <2>2, ConnIdentified
<1>5. ASSUME NEW r \in open, Expire(r) \/ FailStale(r) PROVE ConnInv'
  BY <1>5, ConnExpired, ConnFailedStale
<1>6. CASE Next
  <2>1. CASE \E time \in BeginTimes, a \in Agents : UpdateConnector(time, a, conn.enabled, FALSE)
    BY <1>1, <1>3, <2>1
  <2>2. CASE \E time \in BeginTimes, t \in BOOLEAN : UpdateConnector(time, conn.agent, ~conn.enabled, t)
    BY <1>1, <1>3, <2>2
  <2>3. CASE \E time \in BeginTimes : UpdateConnector(time, conn.agent, conn.enabled, TRUE)
    BY <1>1, <1>3, <2>3
  <2> QED
    BY <1>2, <1>5, <1>6, <2>1, <2>2, <2>3, ConnChecked DEF Next
<1> QED
  BY <1>4, <1>6

-----------------------------------------------------------------------------
(* Connectors: the theorems *)

THEOREM ConnectorInvariance == Spec => []ConnInv
  BY ConnInitInvariant, ConnStepInvariant, PTL DEF Spec

\* Every variable keeps its type, and an agent that is not idle deals with a row of
\* its own, as it claimed it.
THEOREM ConnectorTypeCorrect == Spec => [](TypeOK /\ \A a \in Agents : HandOK(a))
<1>1. ConnInv => TypeOK /\ \A a \in Agents : HandOK(a)
  BY DEF ConnInv, ConnTypes, QueueOK, TypeOK, Kinds
<1> QED
  BY <1>1, ConnectorInvariance, PTL

\* completeCommand makes a connector active only for the sync made for its present
\* agent and revision, which its agent came to after the removals that were there;
\* so, unless an answer was lost or the sync of a change that began early has been
\* put before a removal, nothing is left that would undo it.
THEOREM ActiveConnectorsRun == Spec => []ActiveConnectorRuns
<1>1. ConnInv => ActiveConnectorRuns
  BY DEF ConnInv
<1> QED
  BY <1>1, ConnectorInvariance, PTL

\* A disabled connector shown as stopped does not run, and updateConnector's removal
\* stays in the queue until the agent that was left has executed or failed it.
THEOREM StoppedConnectorsGone == Spec => []StoppedMeansGone
<1>1. ConnInv => StoppedMeansGone
  BY DEF ConnInv, StoppedOK, LeavingOK, StoppedMeansGone
<1> QED
  BY <1>1, ConnectorInvariance, PTL

\* markConnectorIdentity writes a verdict only beside the token it is about.
THEOREM IdentitiesOfStoredTokens == Spec => []IdentityIsOfStoredToken
<1>1. ConnInv => IdentityIsOfStoredToken
  BY DEF ConnInv
<1> QED
  BY <1>1, ConnectorInvariance, PTL

\* Whatever is claimed, refused, lost or swept, a connector that is neither active,
\* stopped nor failed has the sync in the queue that will make it so.
THEOREM UnsettledConnectorsQueued == Spec => []UnsettledIsQueued
<1>1. ConnInv => UnsettledIsQueued
  BY DEF ConnInv
<1> QED
  BY <1>1, ConnectorInvariance, PTL
=============================================================================
