-------------------------- MODULE AnnouncementProofs -------------------------
(***************************************************************************)
(* Machine-checked proofs about what is announced and how it is delivered: *)
(* about AgentRegistry, for any hosts and any bound on the credentials     *)
(* handed out, and about NotificationOutbox, for any deliveries and any    *)
(* limits and, for the line staying open, the limits under which it does.  *)
(***************************************************************************)
EXTENDS AgentRegistry, NotificationOutbox, TLAPS

-----------------------------------------------------------------------------
(* The registry *)

USE RegistryAssumption DEF RegistryAssumption, Slots, ServiceStatuses

-----------------------------------------------------------------------------
(* The inductive invariant *)

\* Nothing is heard of an agent that no host has enrolled.
NewOK ==
  row.life = "new" =>
    /\ \A h \in Hosts : host[h].at = "enrolling"
    /\ ~beating
    /\ \A s \in Slots : ~posts[s].on
    /\ presence = "none"
    /\ ~row.offline

\* The type invariant, of the row, of the snapshots and of the rest.
RowTypes ==
  [life : {"new", "enrolled", "archived", "deleted"}, token : BOOLEAN,
   cred : 0..MaxCredentials, issued : 0..MaxCredentials,
   beat : {"none", "fresh", "stale"}, offline : BOOLEAN]
PostTypes ==
  [on : BOOLEAN, prev : ServiceStatuses, status : ServiceStatuses, second : BOOLEAN, behind : BOOLEAN, alone : BOOLEAN]
ReferenceTypes ==
  /\ dependent \in BOOLEAN /\ commands \in {"none", "open", "past"}
  /\ creating \in {"none", "dependent", "command"} /\ crossed \in BOOLEAN
HostTypes == [Hosts -> [at : {"enrolling", "answered", "running"}, cred : 0..MaxCredentials]]
PresenceTypes == beating \in BOOLEAN /\ presence \in {"none", "offline", "recovered"} /\ unmarked \in BOOLEAN
ServiceTypes ==
  /\ posts \in [Slots -> PostTypes]
  /\ latest \in ServiceStatuses \cup {"none"}
  /\ notice \in {"none", "unhealthy", "stopped", "recovered"}
  /\ gap \in BOOLEAN

\* One host at most was answered, and what it was answered is still the
\* agent's credential.
HostOK ==
  /\ \A g, h \in Hosts : host[g].at # "enrolling" /\ host[h].at # "enrolling" => g = h
  /\ \A h \in Hosts : host[h].at # "enrolling" /\ row.life = "enrolled" => host[h].cred = row.cred

\* A snapshot that overlaps no other has read the latest one, and no other is
\* committed before it.
AloneOK ==
  \A s \in Slots : posts[s].on /\ posts[s].alone =>
    /\ ~posts[s].behind
    /\ ~posts[Other(s)].on
    /\ posts[s].prev = IF latest = "none" THEN "other" ELSE latest

\* A status that is neither trouble nor health leaves a gap, and nothing is
\* announced before the first snapshot.
GapOK == gap \/ (latest # "other" /\ (latest = "none" => notice = "none"))

RegistryInv ==
  /\ RegistryTypeOK
  /\ NewOK /\ HostOK /\ AloneOK /\ GapOK
  /\ RemovedIsUnreferenced /\ PresenceAnnounced /\ ServiceAnnounced


LEMMA TypeParts ==
  RegistryTypeOK <=> row \in RowTypes /\ host \in HostTypes /\ ReferenceTypes /\ PresenceTypes /\ ServiceTypes
  BY DEF RegistryTypeOK, RowTypes, HostTypes, ReferenceTypes, PresenceTypes, ServiceTypes, PostTypes

LEMMA TypePartsNext ==
  RegistryTypeOK' <=> row' \in RowTypes /\ host' \in HostTypes /\ ReferenceTypes' /\ PresenceTypes' /\ ServiceTypes'
  BY DEF RegistryTypeOK, RowTypes, HostTypes, ReferenceTypes, PresenceTypes, ServiceTypes, PostTypes

LEMMA RegistryInitInvariant == RegistryInit => RegistryInv
<1> SUFFICES ASSUME RegistryInit PROVE RegistryInv
  OBVIOUS
<1>1. RegistryTypeOK
  <2>1. row \in RowTypes
    BY DEF RegistryInit, Created, RowTypes
  <2>2. host \in HostTypes
    BY DEF RegistryInit, HostTypes
  <2>3. ReferenceTypes /\ PresenceTypes
    BY DEF RegistryInit, ReferenceTypes, PresenceTypes
  <2>4. ServiceTypes
    BY DEF RegistryInit, NoPost, ServiceTypes, PostTypes
  <2> QED
    BY <2>1, <2>2, <2>3, <2>4, TypeParts
<1>2. NewOK /\ HostOK /\ AloneOK /\ GapOK
  BY DEF RegistryInit, Created, NoPost, NewOK, HostOK, AloneOK, GapOK
<1>3. RemovedIsUnreferenced /\ PresenceAnnounced /\ ServiceAnnounced
  BY DEF RegistryInit, Created, RemovedIsUnreferenced, PresenceAnnounced, ServiceAnnounced
<1> QED
  BY <1>1, <1>2, <1>3 DEF RegistryInv

\* Telemetry's state is about nothing else.
LEMMA ServiceKept ==
  ASSUME RegistryInv, UNCHANGED serviceVars
  PROVE  AloneOK' /\ GapOK' /\ ServiceAnnounced'
  BY DEF RegistryInv, serviceVars, AloneOK, GapOK, ServiceAnnounced

LEMMA ServiceTypesKept ==
  ASSUME RegistryTypeOK, UNCHANGED serviceVars
  PROVE  ServiceTypes'
  BY TypeParts DEF serviceVars, ServiceTypes

-----------------------------------------------------------------------------
(* The steps *)

\* A token is accepted only of an agent nobody has enrolled; what the host is
\* answered may be lost, and then nobody is let in.
LEMMA EnrollStep ==
  ASSUME RegistryInv, NEW h \in Hosts, Enroll(h) \/ SaveCredentials(h) \/ CredentialLost(h)
  PROVE  RegistryInv'
<1> USE DEF RegistryInv
<1>1. CASE Enroll(h)
  <2>1. RegistryTypeOK'
    <3>1. row' \in RowTypes
      <4>1. row \in RowTypes
        BY TypeParts
      <4>2. row.issued + 1 \in 0..MaxCredentials
        BY <1>1, <4>1 DEF Enroll, RowTypes
      <4>3. row' = [row EXCEPT !.life = "enrolled", !.token = FALSE, !.cred = row.issued + 1,
                              !.issued = row.issued + 1]
        BY <1>1, <4>1 DEF Enroll, RowTypes
      <4> QED
        BY <4>1, <4>2, <4>3 DEF RowTypes
    <3>2. host' \in HostTypes
      BY <1>1, TypeParts DEF Enroll, HostTypes, RowTypes
    <3>3. ReferenceTypes' /\ PresenceTypes'
      BY <1>1, TypeParts DEF Enroll, ReferenceTypes, PresenceTypes, presenceVars
    <3> QED
      BY <1>1, <3>1, <3>2, <3>3, ServiceTypesKept, TypePartsNext DEF Enroll
  <2>2. /\ row.life = "new" /\ row'.life = "enrolled" /\ row'.cred = row.issued + 1
        /\ row'.offline = row.offline
    BY <1>1 DEF Enroll, TokenValid, RegistryTypeOK
  <2>3. host'[h].cred = row.issued + 1 /\ \A g \in Hosts : g # h => host'[g].at = "enrolling"
    BY <1>1, <2>2 DEF Enroll, NewOK, RegistryTypeOK
  <2>4. NewOK' /\ HostOK'
    BY <2>2, <2>3 DEF NewOK, HostOK
  <2>5. RemovedIsUnreferenced' /\ PresenceAnnounced'
    BY <1>1, <2>2 DEF Enroll, NewOK, RemovedIsUnreferenced, PresenceAnnounced, presenceVars
  <2> QED
    BY <1>1, <2>1, <2>4, <2>5, ServiceKept DEF Enroll
<1>2. CASE SaveCredentials(h) \/ CredentialLost(h)
  <2>1. /\ UNCHANGED <<rowVars, serviceVars, presenceVars>>
        /\ host[h].at = "answered"
        /\ \E c \in {[at |-> "running", cred |-> host[h].cred], [at |-> "enrolling", cred |-> 0]} :
             host' = [host EXCEPT ![h] = c]
    BY <1>2 DEF SaveCredentials, CredentialLost, RegistryTypeOK
  <2>2. RegistryTypeOK'
    BY <2>1 DEF RegistryTypeOK, rowVars, serviceVars, presenceVars
  <2>3. NewOK' /\ HostOK'
    BY <2>1 DEF NewOK, HostOK, RegistryTypeOK, rowVars, serviceVars, presenceVars
  <2>4. RemovedIsUnreferenced' /\ PresenceAnnounced'
    BY <2>1 DEF RemovedIsUnreferenced, PresenceAnnounced, rowVars, presenceVars
  <2> QED
    BY <2>1, <2>2, <2>3, <2>4, ServiceKept
<1> QED
  BY <1>1, <1>2

\* Whether the agent is marked offline and what was announced last change
\* together.
LEMMA PresenceStep ==
  ASSUME RegistryInv, TokenExpires \/ (\E h \in Hosts : StartHeartbeat(h)) \/ Heartbeat \/ GoesQuiet \/ Sweep
  PROVE  RegistryInv'
<1> USE DEF RegistryInv
<1>1. /\ UNCHANGED <<dependent, commands, creating, crossed, host, serviceVars>>
      /\ row'.life = row.life /\ row'.cred = row.cred
  BY DEF TokenExpires, StartHeartbeat, Heartbeat, GoesQuiet, Sweep, RegistryTypeOK, rowVars
<1>2. RegistryTypeOK'
  <2>1. row' \in RowTypes
    BY TypeParts DEF TokenExpires, StartHeartbeat, Heartbeat, GoesQuiet, Sweep, RowTypes, rowVars
  <2>2. PresenceTypes'
    BY TypeParts DEF TokenExpires, StartHeartbeat, Heartbeat, Returns, GoesQuiet, Sweep, PresenceTypes, presenceVars
  <2>3. host' \in HostTypes /\ ReferenceTypes'
    BY <1>1, TypeParts DEF ReferenceTypes
  <2> QED
    BY <1>1, <2>1, <2>2, <2>3, ServiceTypesKept, TypePartsNext
<1>3. HostOK' /\ RemovedIsUnreferenced'
  BY <1>1 DEF HostOK, RemovedIsUnreferenced
<1>4. NewOK' /\ PresenceAnnounced'
  <2>1. CASE TokenExpires \/ GoesQuiet
    BY <1>1, <2>1 DEF TokenExpires, GoesQuiet, NewOK, PresenceAnnounced, RegistryTypeOK, serviceVars, presenceVars
  <2>2. CASE \E h \in Hosts : StartHeartbeat(h)
    BY <1>1, <2>2 DEF StartHeartbeat, Authenticated, NewOK, PresenceAnnounced, RegistryTypeOK, rowVars, serviceVars
  <2>3. CASE Heartbeat
    BY <1>1, <2>3 DEF Heartbeat, Returns, NewOK, PresenceAnnounced, RegistryTypeOK, serviceVars
  <2>4. CASE Sweep
    BY <1>1, <2>4 DEF Sweep, NewOK, PresenceAnnounced, RegistryTypeOK
  <2> QED
    BY <2>1, <2>2, <2>3, <2>4
<1> QED
  BY <1>1, <1>2, <1>3, <1>4, ServiceKept

\* A snapshot that starts while another is under way takes away that one's being
\* alone.
LEMMA StartPostStep ==
  ASSUME RegistryInv, NEW h \in Hosts, NEW s \in Slots, NEW v \in ServiceStatuses, StartPost(h, s, v)
  PROVE  RegistryInv'
<1> USE DEF RegistryInv, Posting, Other
<1>1. /\ UNCHANGED <<rowVars, host, latest, notice, gap, presenceVars>>
      /\ row.life # "new"
  BY DEF StartPost, Authenticated, NewOK, RegistryTypeOK
<1>2. Other(s) \in Slots /\ Other(s) # s /\ Slots = {s, Other(s)} /\ Other(Other(s)) = s
  OBVIOUS
<1>3. /\ posts'[s] = [on |-> TRUE, prev |-> IF latest = "none" THEN "other" ELSE latest, status |-> v,
                      second |-> posts[Other(s)].on, behind |-> FALSE, alone |-> ~posts[Other(s)].on]
      /\ posts'[Other(s)] = [posts[Other(s)] EXCEPT !.alone = @ /\ ~posts[Other(s)].on]
      /\ DOMAIN posts' = DOMAIN posts
      /\ posts' = [t \in Slots |-> posts'[t]]
  BY <1>2 DEF StartPost, RegistryTypeOK
<1>4. RegistryTypeOK'
  <2>1. posts[Other(s)] \in PostTypes
    BY <1>2, TypeParts DEF ServiceTypes
  <2>2. (IF latest = "none" THEN "other" ELSE latest) \in ServiceStatuses
    BY TypeParts DEF ServiceTypes
  <2>3. posts'[s] \in PostTypes
    BY <1>3, <2>1, <2>2 DEF PostTypes
  <2>4. posts'[Other(s)] \in PostTypes
    BY <1>3, <2>1 DEF PostTypes
  <2>5. posts' \in [Slots -> PostTypes]
    BY <1>2, <1>3, <2>3, <2>4
  <2>6. ServiceTypes' /\ row' \in RowTypes /\ host' \in HostTypes /\ ReferenceTypes' /\ PresenceTypes'
    BY <1>1, <2>5, TypeParts DEF ServiceTypes, ReferenceTypes, PresenceTypes, rowVars, presenceVars
  <2> QED
    BY <2>6, TypePartsNext
<1>5. AloneOK'
  BY <1>1, <1>2, <1>3 DEF AloneOK, RegistryTypeOK
<1>6. GapOK' /\ ServiceAnnounced'
  BY <1>1 DEF GapOK, ServiceAnnounced
<1>7. NewOK' /\ HostOK' /\ RemovedIsUnreferenced' /\ PresenceAnnounced'
  BY <1>1 DEF NewOK, HostOK, RemovedIsUnreferenced, PresenceAnnounced, rowVars, presenceVars
<1> QED
  BY <1>4, <1>5, <1>6, <1>7

\* A snapshot that was alone announces what it changes; any other leaves a gap.
LEMMA PostStep ==
  ASSUME RegistryInv, NEW s \in Slots, Post(s)
  PROVE  RegistryInv'
<1> USE DEF RegistryInv, Posting, Other
<1> DEFINE notices == Notices(posts[s].prev, posts[s].status)
<1>1. /\ UNCHANGED <<dependent, commands, creating, crossed, host, beating, presence>>
      /\ posts[s].on
      /\ row' = [row EXCEPT !.offline = FALSE]
      /\ row'.life = row.life /\ row'.cred = row.cred /\ ~row'.offline
      /\ unmarked' = (unmarked \/ row.offline)
  BY DEF Post, RegistryTypeOK
<1>2. Other(s) \in Slots /\ Other(s) # s /\ Slots = {s, Other(s)} /\ Other(Other(s)) = s
  OBVIOUS
<1>3. /\ posts'[s] = NoPost
      /\ posts'[Other(s)] = [posts[Other(s)] EXCEPT !.second = FALSE,
                               !.behind = @ \/ (posts[Other(s)].on /\ posts[s].second)]
      /\ posts' = [t \in Slots |-> posts'[t]]
  BY <1>2 DEF Post, RegistryTypeOK
<1>4. posts[s] \in PostTypes /\ notices \subseteq {"unhealthy", "stopped", "recovered"}
  BY TypeParts DEF Notices, ServiceTypes, PostTypes
<1>5. notice' = IF notices = {} THEN notice ELSE CHOOSE n \in notices : TRUE
  BY DEF Post
<1>6. RegistryTypeOK'
  <2>1. posts[Other(s)] \in PostTypes
    BY <1>2, TypeParts DEF ServiceTypes
  <2>2. NoPost \in PostTypes /\ posts'[Other(s)] \in PostTypes
    BY <1>3, <1>4, <2>1 DEF NoPost, PostTypes
  <2>3. notice' \in {"none", "unhealthy", "stopped", "recovered"}
    BY <1>4, <1>5 DEF RegistryTypeOK
  <2>4. latest' \in ServiceStatuses \cup {"none"} /\ gap' \in BOOLEAN
    BY <1>4 DEF Post, PostTypes, RegistryTypeOK
  <2>5. posts' \in [Slots -> PostTypes]
    BY <1>2, <1>3, <2>2
  <2>6. ServiceTypes'
    BY <2>3, <2>4, <2>5 DEF ServiceTypes
  <2>7. row' \in RowTypes /\ host' \in HostTypes /\ ReferenceTypes' /\ PresenceTypes'
    BY <1>1, TypeParts DEF RowTypes, ReferenceTypes, PresenceTypes
  <2> QED
    BY <2>6, <2>7, TypePartsNext
<1>7. NewOK' /\ HostOK' /\ RemovedIsUnreferenced' /\ PresenceAnnounced'
  BY <1>1 DEF NewOK, HostOK, RemovedIsUnreferenced, PresenceAnnounced, RegistryTypeOK
<1>8. AloneOK'
  <2>1. ~posts'[s].on
    BY <1>3 DEF NoPost
  <2>2. posts'[Other(s)].on /\ posts'[Other(s)].alone => FALSE
    BY <1>1, <1>2, <1>3 DEF AloneOK, RegistryTypeOK
  <2> QED
    BY <1>2, <2>1, <2>2 DEF AloneOK
<1>9. GapOK' /\ ServiceAnnounced'
  <2>1. CASE posts[s].status = "other" \/ ~posts[s].alone
    BY <2>1 DEF Post, GapOK, ServiceAnnounced
  <2>2. CASE posts[s].status # "other" /\ posts[s].alone
    <3>1. /\ latest' = posts[s].status
          /\ posts[s].prev = IF latest = "none" THEN "other" ELSE latest
          /\ gap' = IF notices = {} THEN gap ELSE FALSE
          /\ posts[s].status \in {"healthy", "unhealthy", "stopped"}
      <4>1. ~posts[s].behind /\ posts[s].prev = IF latest = "none" THEN "other" ELSE latest
        BY <1>1, <2>2 DEF AloneOK
      <4>2. posts[s].status \in {"healthy", "unhealthy", "stopped"}
        BY <1>4, <2>2 DEF PostTypes
      <4> QED
        BY <2>2, <4>1, <4>2 DEF Post
    <3>2. CASE notices = {}
      BY <3>1, <3>2, <1>5 DEF Notices, GapOK, ServiceAnnounced, RegistryTypeOK
    <3>3. ASSUME NEW n, notices = {n} PROVE notice' = n
      BY <3>3, <1>5
    <3>4. CASE notices # {}
      <4>1. \/ posts[s].status \in {"unhealthy", "stopped"} /\ notices = {posts[s].status}
            \/ posts[s].status = "healthy" /\ notices = {"recovered"}
        BY <3>1, <3>4 DEF Notices
      <4> QED
        BY <3>1, <3>3, <4>1 DEF GapOK, ServiceAnnounced
    <3> QED
      BY <3>2, <3>4
  <2> QED
    BY <2>1, <2>2
<1> QED
  BY <1>6, <1>7, <1>8, <1>9

\* A reference that is committed after the removal is a crossing.
LEMMA ReferenceStep ==
  ASSUME RegistryInv,
         \/ \E k \in {"dependent", "command"} : StartCreating(k)
         \/ FinishCreating \/ Reassign
         \/ \E h \in Hosts : CommandsEnd(h)
         \/ Remove
  PROVE  RegistryInv'
<1> USE DEF RegistryInv
<1>1. UNCHANGED <<host, serviceVars, presenceVars>>
  BY DEF StartCreating, FinishCreating, Reassign, CommandsEnd, Remove
<1>2. \/ row' = row
      \/ /\ row'.life \in {"archived", "deleted"}
         /\ row' \in RowTypes
  <2>1. CASE Remove
    <3>1. row \in RowTypes
      BY TypeParts
    <3>2. PICK life \in {"archived", "deleted"} :
            row' = [row EXCEPT !.life = life, !.token = FALSE, !.cred = 0, !.offline = FALSE]
      BY <2>1 DEF Remove, Removed
    <3>3. row' \in RowTypes
      <4>1. 0 \in 0..MaxCredentials /\ life \in {"new", "enrolled", "archived", "deleted"}
        BY <3>2
      <4>2. row' = [row EXCEPT !.life = life, !.token = FALSE, !.cred = 0, !.offline = FALSE]
        BY <3>2
      <4> QED
        BY <3>1, <4>1, <4>2 DEF RowTypes
    <3>4. row'.life = life
      BY <3>1, <3>2 DEF RowTypes
    <3> QED
      BY <3>3, <3>4
  <2> QED
    BY <2>1 DEF StartCreating, FinishCreating, Reassign, CommandsEnd
<1>3. RegistryTypeOK'
  <2>1. ReferenceTypes'
    BY TypeParts DEF StartCreating, FinishCreating, Reassign, CommandsEnd, Remove, ReferenceTypes
  <2>2. row' \in RowTypes /\ host' \in HostTypes /\ PresenceTypes'
    BY <1>1, <1>2, TypeParts DEF PresenceTypes, presenceVars
  <2> QED
    BY <1>1, <2>1, <2>2, ServiceTypesKept, TypePartsNext
<1>4. NewOK' /\ HostOK' /\ PresenceAnnounced'
  BY <1>1, <1>2 DEF NewOK, HostOK, PresenceAnnounced, serviceVars, presenceVars
<1>5. RemovedIsUnreferenced'
  <2>1. CASE Remove
    BY <2>1 DEF Remove, Blocked, RemovedIsUnreferenced, RegistryTypeOK
  <2>2. CASE FinishCreating
    BY <2>2 DEF FinishCreating, RemovedIsUnreferenced, RegistryTypeOK
  <2>3. CASE ~Remove /\ ~FinishCreating
    BY <2>3 DEF StartCreating, Reassign, CommandsEnd, RemovedIsUnreferenced, RegistryTypeOK
  <2> QED
    BY <2>1, <2>2, <2>3
<1> QED
  BY <1>1, <1>3, <1>4, <1>5, ServiceKept

LEMMA RegistryStepInvariant == RegistryInv /\ [RegistryNext]_registryVars => RegistryInv'
<1> SUFFICES ASSUME RegistryInv, [RegistryNext]_registryVars PROVE RegistryInv'
  OBVIOUS
<1>1. CASE UNCHANGED registryVars
  <2>1. UNCHANGED <<row, dependent, commands, creating, crossed, host, serviceVars, presenceVars>>
    BY <1>1 DEF registryVars, rowVars
  <2>2. RegistryTypeOK' /\ NewOK' /\ HostOK'
    BY <2>1 DEF RegistryInv, RegistryTypeOK, NewOK, HostOK, serviceVars, presenceVars
  <2>3. RemovedIsUnreferenced' /\ PresenceAnnounced'
    BY <2>1 DEF RegistryInv, RemovedIsUnreferenced, PresenceAnnounced, presenceVars
  <2> QED
    BY <2>1, <2>2, <2>3, ServiceKept DEF RegistryInv
<1>2. CASE RegistryNext
  BY <1>2, EnrollStep, PresenceStep, StartPostStep, PostStep, ReferenceStep DEF RegistryNext
<1> QED
  BY <1>1, <1>2

THEOREM RegistryInvariance == RegistrySpec => []RegistryInv
  BY RegistryInitInvariant, RegistryStepInvariant, PTL DEF RegistrySpec

-----------------------------------------------------------------------------
(* The properties *)

\* The model is well typed: no handler leaves a row, a host or a snapshot in a
\* state the others do not know.
THEOREM RegistryTypes == RegistrySpec => []RegistryTypeOK
<1>1. RegistryInv => RegistryTypeOK
  BY DEF RegistryInv
<1> QED
  BY <1>1, RegistryInvariance, PTL

\* An agent is removed only once nothing refers to it, unless a request that
\* found it enabled commits after the removal.
THEOREM UnreferencedRemoval == RegistrySpec => []RemovedIsUnreferenced
<1>1. RegistryInv => RemovedIsUnreferenced
  BY DEF RegistryInv
<1> QED
  BY <1>1, RegistryInvariance, PTL

\* However many hosts present the token, one is enrolled, and it is let in with
\* the credential it has saved until the agent is removed.
THEOREM OneEnrollment == RegistrySpec => []OneHostEnrolled
<1>1. RegistryInv => OneHostEnrolled
  BY DEF RegistryInv, HostOK, OneHostEnrolled, Authenticated, Enabled
<1> QED
  BY <1>1, RegistryInvariance, PTL

\* What was announced last about an agent's presence agrees with its mark.
THEOREM AnnouncedPresence == RegistrySpec => []PresenceAnnounced
<1>1. RegistryInv => PresenceAnnounced
  BY DEF RegistryInv
<1> QED
  BY <1>1, RegistryInvariance, PTL

\* The last event about a service agrees with its latest status, however
\* snapshots overlap, unless they left a gap.
THEOREM AnnouncedService == RegistrySpec => []ServiceAnnounced
<1>1. RegistryInv => ServiceAnnounced
  BY DEF RegistryInv
<1> QED
  BY <1>1, RegistryInvariance, PTL

-----------------------------------------------------------------------------
(* The outbox *)

USE OutboxAssumption DEF OutboxAssumption, Statuses, Ended, Places

-----------------------------------------------------------------------------
(* Facts about the operators *)

\* A row that becomes due, or no longer is, keeps the line well typed.
LEMMA LineTypes ==
  ASSUME TypeOK, NEW d \in Deliveries, BecomesDue(d) \/ NoLongerDue(d)
  PROVE  due' \subseteq Deliveries /\ ahead' \in [Deliveries -> SUBSET Deliveries]
  BY DEF TypeOK, BecomesDue, NoLongerDue

\* The statement that ends a dispatch writes the status of that row at most.
LEMMA EndEffect ==
  ASSUME TypeOK, cur \in Deliveries, NEW s \in {"pending", "skipped", "succeeded", "failed"},
         End(s) \/ UNCHANGED rows
  PROVE  /\ due' \subseteq Deliveries /\ ahead' \in [Deliveries -> SUBSET Deliveries]
         /\ overdue' \subseteq Deliveries
         /\ attempts' = attempts
         /\ status' \in [Deliveries -> Statuses]
         /\ \A d \in Deliveries : d # cur => status'[d] = status[d]
         /\ status'[cur] = status[cur] \/ (status[cur] = "dispatching" /\ status'[cur] = s)
         /\ End(s) /\ status[cur] = "dispatching" => status'[cur] = s
<1> USE DEF TypeOK
<1>1. CASE UNCHANGED rows
  <2>1. status' = status /\ attempts' = attempts /\ due' = due /\ ahead' = ahead /\ overdue' = overdue
    BY <1>1 DEF rows
  <2>2. End(s) /\ status[cur] = "dispatching" => status'[cur] = s
    BY DEF End
  <2> QED
    BY <2>1, <2>2
<1>2. CASE End(s) /\ status[cur] = "dispatching"
  <2>1. /\ status' = [status EXCEPT ![cur] = s] /\ overdue' = overdue \ {cur}
        /\ NoLongerDue(cur) /\ attempts' = attempts
    BY <1>2 DEF End
  <2>2. due' \subseteq Deliveries /\ ahead' \in [Deliveries -> SUBSET Deliveries]
    BY <2>1, LineTypes
  <2>3. /\ status' \in [Deliveries -> Statuses] /\ status'[cur] = s
        /\ \A d \in Deliveries : d # cur => status'[d] = status[d]
    BY <2>1
  <2>4. overdue' \subseteq Deliveries
    BY <2>1
  <2> QED
    BY <1>2, <2>1, <2>2, <2>3, <2>4
<1>3. CASE End(s) /\ status[cur] # "dispatching"
  BY <1>1, <1>3 DEF End
<1> QED
  BY <1>1, <1>2, <1>3

-----------------------------------------------------------------------------
(* The inductive invariant *)

LEMMA InitInvariant == Init => IInv
<1> SUFFICES ASSUME Init PROVE IInv
  OBVIOUS
<1>1. TypeOK
  <2>1. /\ status \in [Deliveries -> Statuses] /\ attempts \in [Deliveries -> 0..CheckLimit]
        /\ ahead \in [Deliveries -> SUBSET Deliveries] /\ received \in [Deliveries -> Nat]
    BY DEF Init
  <2>2. due \subseteq Deliveries /\ overdue \subseteq Deliveries /\ faults \in 0..MaxFaults
    BY DEF Init
  <2>3. muted \in BOOLEAN
    BY DEF Init
  <2>4. pc \in Places /\ cur \in Deliveries \cup {NoDelivery} /\ (pc = "idle" <=> cur = NoDelivery)
    BY DEF Init
  <2> QED
    BY <2>1, <2>2, <2>3, <2>4 DEF TypeOK
<1>2. PlaceOK /\ \A d \in Deliveries : RowOK(d)
  BY DEF Init, PlaceOK, RowOK
<1>3. SuccessWasReceived /\ AttemptsAreAccounted
  BY DEF Init, SuccessWasReceived, AttemptsAreAccounted
<1> QED
  BY <1>1, <1>2, <1>3 DEF IInv

\* Inserting a row, the time and the preferences disturb the status of at most
\* one row, and neither the dispatcher nor what Telegram received.
LEMMA OthersStep ==
  ASSUME IInv, SetMuted \/ \E d \in Deliveries : Enqueue(d) \/ Time(d)
  PROVE  IInv'
<1> USE DEF IInv, PlaceOK, RowOK, SuccessWasReceived, AttemptsAreAccounted
<1>1. CASE SetMuted
  BY <1>1 DEF SetMuted, Switched, rows, dispatcher, TypeOK
<1>2. ASSUME NEW d \in Deliveries, Enqueue(d) PROVE IInv'
  <2>1. TypeOK'
    BY <1>2, LineTypes DEF Enqueue, dispatcher, TypeOK
  <2>2. PlaceOK'
    BY <1>2 DEF Enqueue, dispatcher, TypeOK
  <2>3. \A e \in Deliveries : RowOK(e)'
    BY <1>2 DEF Enqueue, dispatcher, TypeOK
  <2>4. SuccessWasReceived' /\ AttemptsAreAccounted'
    BY <1>2 DEF Enqueue, TypeOK
  <2> QED
    BY <2>1, <2>2, <2>3, <2>4
<1>3. ASSUME NEW d \in Deliveries, DelayPasses(d) PROVE IInv'
  <2>1. TypeOK'
    BY <1>3, LineTypes DEF DelayPasses, dispatcher, TypeOK
  <2> QED
    BY <1>3, <2>1 DEF DelayPasses, dispatcher
<1>4. ASSUME NEW d \in Deliveries, BecomesOverdue(d) PROVE IInv'
  BY <1>4 DEF BecomesOverdue, dispatcher, TypeOK
<1> QED
  BY <1>1, <1>2, <1>3, <1>4 DEF Time

\* A claim charges one attempt: to a row that has attempts left, or to an
\* abandoned one, which a fault has paid for.
LEMMA ClaimStep ==
  ASSUME IInv, NEW d \in Deliveries, Claim(d)
  PROVE  IInv'
<1> USE DEF IInv, PlaceOK, RowOK, SuccessWasReceived, AttemptsAreAccounted
<1>1. /\ status[d] \in {"pending", "dispatching"}
      /\ cur = NoDelivery /\ d # NoDelivery
      /\ attempts[d] < GiveUp + faults
  BY DEF Claim, Eligible, TypeOK
<1>2. TypeOK'
  BY DEF Claim, TypeOK
<1>3. attempts' = [attempts EXCEPT ![d] = attempts[d] + 1] /\ attempts'[d] = attempts[d] + 1
  BY DEF Claim, TypeOK
<1>4. PlaceOK'
  BY <1>3 DEF Claim, TypeOK
<1>5. \A e \in Deliveries : RowOK(e)'
  BY <1>1, <1>3 DEF Claim, TypeOK
<1>6. SuccessWasReceived'
  BY <1>1, <1>3 DEF Claim, TypeOK
<1>7. AttemptsAreAccounted'
  BY <1>1, <1>3 DEF Claim, TypeOK
<1> QED
  BY <1>2, <1>4, <1>5, <1>6, <1>7

\* A message is sent once per claim.
LEMMA SendStep ==
  ASSUME IInv, CheckEnabled \/ SendAccepted \/ SendUnanswered \/ SendRefused
  PROVE  IInv'
<1> USE DEF IInv, PlaceOK, RowOK, SuccessWasReceived, AttemptsAreAccounted
<1>1. CASE CheckEnabled
  BY <1>1 DEF CheckEnabled, Fault, NoFault, rows, TypeOK
<1>2. CASE SendAccepted \/ SendUnanswered
  <2>1. cur \in Deliveries /\ received' = [received EXCEPT ![cur] = received[cur] + 1]
    BY <1>2 DEF SendAccepted, SendUnanswered, TypeOK
  <2> QED
    BY <1>2, <2>1 DEF SendAccepted, SendUnanswered, rows, TypeOK
<1>3. CASE SendRefused
  BY <1>3 DEF SendRefused, rows, TypeOK
<1> QED
  BY <1>1, <1>2, <1>3

\* An end is recorded only after what it says; a failed statement leaves the
\* row to the retry.
LEMMA EndStep ==
  ASSUME IInv, Skip \/ Complete
  PROVE  IInv'
<1> USE DEF IInv, PlaceOK, RowOK, SuccessWasReceived, AttemptsAreAccounted
<1>1. PICK s \in {"skipped", "succeeded"} :
        EndOrRetry(s) /\ (s = "succeeded" => pc = "complete")
  BY DEF Skip, Complete
<1>2. cur \in Deliveries /\ pc # "idle" /\ received' = received /\ muted' = muted
      /\ status[cur] = "dispatching"
  BY DEF Skip, Complete, TypeOK
<1>3. End(s) \/ UNCHANGED rows
  BY <1>1 DEF EndOrRetry
<1>4. \/ End(s) /\ pc' = "idle" /\ cur' = NoDelivery /\ faults' = faults
      \/ pc' = "retry" /\ cur' = cur /\ Fault
  BY <1>1 DEF EndOrRetry, Idle, NoFault
<1>5. TypeOK'
  BY <1>2, <1>3, <1>4, EndEffect DEF TypeOK, Fault
<1>6. PlaceOK'
  BY <1>4
<1>7. \A e \in Deliveries : RowOK(e)'
  BY <1>2, <1>3, <1>4, EndEffect DEF TypeOK, Fault
<1>8. SuccessWasReceived'
  BY <1>1, <1>2, <1>3, EndEffect DEF TypeOK
<1>9. AttemptsAreAccounted'
  BY <1>1, <1>2, <1>3, <1>4, EndEffect DEF TypeOK, Fault
<1> QED
  BY <1>5, <1>6, <1>7, <1>8, <1>9

\* A retry gives the row up or leaves it attempts; a fault abandons it.
LEMMA RetryStep ==
  ASSUME IInv, Retry \/ Crash
  PROVE  IInv'
<1> USE DEF IInv, PlaceOK, RowOK, SuccessWasReceived, AttemptsAreAccounted
<1>1. cur \in Deliveries /\ pc' = "idle" /\ cur' = NoDelivery /\ received' = received /\ muted' = muted
  BY DEF Retry, Crash, Idle, TypeOK
<1>2. CASE UNCHANGED rows /\ Fault
  BY <1>1, <1>2 DEF rows, Fault, TypeOK
<1>3. CASE RetryRow(Terminal(cur)) /\ faults' = faults
  <2>1. PICK s \in {"pending", "failed"} :
          End(s) /\ (s = "failed" <=> attempts[cur] >= GiveUp)
    BY <1>3 DEF RetryRow, Terminal
  <2>2. TypeOK'
    BY <1>1, <1>3, <2>1, EndEffect DEF TypeOK
  <2>3. /\ attempts' = attempts
        /\ \A d \in Deliveries : d # cur => status'[d] = status[d]
        /\ status'[cur] = status[cur] \/ (status[cur] = "dispatching" /\ status'[cur] = s)
        /\ status[cur] = "dispatching" => status'[cur] = s
    BY <1>1, <2>1, EndEffect
  <2>4. attempts[cur] \in Nat
    BY <1>1 DEF TypeOK
  <2>5. \A e \in Deliveries : RowOK(e)'
    BY <1>1, <1>3, <2>3
  <2>6. SuccessWasReceived' /\ AttemptsAreAccounted'
    BY <1>1, <1>3, <2>1, <2>3, <2>4
  <2> QED
    BY <1>1, <2>2, <2>5, <2>6
<1> QED
  BY <1>2, <1>3 DEF Retry, Crash, NoFault

LEMMA StepInvariant == IInv /\ [Next]_vars => IInv'
<1> SUFFICES ASSUME IInv, [Next]_vars PROVE IInv'
  OBVIOUS
<1>1. CASE UNCHANGED vars
  BY <1>1 DEF IInv, TypeOK, PlaceOK, RowOK, SuccessWasReceived, AttemptsAreAccounted, vars, rows, dispatcher
<1> QED
  BY <1>1, OthersStep, ClaimStep, SendStep, EndStep, RetryStep DEF Next, Tick

-----------------------------------------------------------------------------
(* Theorems *)

\* The inductive invariant holds for all deliveries and limits.
THEOREM Invariance == Spec => []IInv
  BY InitInvariant, StepInvariant, PTL DEF Spec

\* All variables of rows, line and dispatcher keep their types.
THEOREM TypeCorrectness == Spec => []TypeOK
  BY Invariance, PTL DEF IInv

\* A delivery recorded as succeeded was accepted (completeNotificationDelivery).
THEOREM ReceivedSuccess == Spec => []SuccessWasReceived
  BY Invariance, PTL DEF IInv

\* Retries are bounded by the limit and the faults (dispatch).
THEOREM AccountedAttempts == Spec => []AttemptsAreAccounted
  BY Invariance, PTL DEF IInv

\* The line stays open as long as the CHECK leaves room for every fault beyond
\* the attempt at which a delivery is given up.
THEOREM OpenLine ==
  ASSUME GiveUp + MaxFaults <= CheckLimit
  PROVE  Spec => []LineIsOpen
<1>1. IInv => LineIsOpen
  <2> SUFFICES ASSUME IInv, pc = "idle", NEW d \in Eligible PROVE attempts[d] < CheckLimit
    BY DEF LineIsOpen
  <2>1. d \in Deliveries /\ status[d] \in {"pending", "dispatching"} /\ cur # d
    BY DEF Eligible, IInv, TypeOK
  <2>2. attempts[d] < GiveUp + faults /\ attempts[d] \in Nat /\ faults \in 0..MaxFaults
    BY <2>1 DEF IInv, TypeOK, RowOK, AttemptsAreAccounted
  <2> QED
    BY <2>2
<1> QED
  BY <1>1, Invariance, PTL

\* An ended delivery is never sent, counted or ended again.
THEOREM FinalEnd == Spec => EndIsFinal
<1> DEFINE Kept == \A d \in Deliveries : status[d] \in Ended =>
      status'[d] = status[d] /\ received'[d] = received[d] /\ attempts'[d] = attempts[d]
<1>1. IInv /\ [Next]_vars => [Kept]_vars
  <2> SUFFICES ASSUME IInv, Next PROVE Kept
    OBVIOUS
  <2> USE DEF IInv, TypeOK, PlaceOK
  <2>1. CASE SetMuted \/ \E d \in Deliveries : Enqueue(d) \/ Time(d)
    BY <2>1 DEF SetMuted, Switched, Enqueue, Time, DelayPasses, BecomesOverdue, rows
  <2>2. ASSUME NEW d \in Deliveries, Claim(d) PROVE Kept
    BY <2>2 DEF Claim, Eligible
  <2>3. CASE CheckEnabled \/ SendAccepted \/ SendUnanswered \/ SendRefused
    BY <2>3 DEF CheckEnabled, SendAccepted, SendUnanswered, SendRefused, rows
  <2>4. CASE Skip \/ Complete
    <3>1. PICK s \in {"skipped", "succeeded"} : End(s) \/ UNCHANGED rows
      BY <2>4 DEF Skip, Complete, EndOrRetry
    <3> QED
      BY <2>4, <3>1, EndEffect DEF Skip, Complete
  <2>5. CASE Retry \/ Crash
    <3>1. PICK s \in {"pending", "failed"} : End(s) \/ UNCHANGED rows
      BY <2>5 DEF Retry, Crash, RetryRow
    <3> QED
      BY <2>5, <3>1, EndEffect DEF Retry, Crash
  <2> QED
    BY <2>1, <2>2, <2>3, <2>4, <2>5 DEF Next, Tick
<1> QED
  BY <1>1, Invariance, PTL DEF Spec, EndIsFinal
=============================================================================
