---------------------------- MODULE AgentRegistry ---------------------------
(***************************************************************************)
(* The life of an agent: a row made with a one-time token, enrolled by the *)
(* host that presents it first, kept alive by heartbeats and telemetry,    *)
(* announced when it goes quiet and when it returns, and removed by an     *)
(* owner once nothing refers to it.                                        *)
(*                                                                         *)
(* A request is authenticated before its handler runs, and requests of one *)
(* host overlap when it has given up waiting for an earlier one.  Removing *)
(* locks the row and is one step; a request that makes something refer to  *)
(* the agent reads the row without locking it, and is held to the foreign  *)
(* key at its end, so it is two.                                           *)
(***************************************************************************)
EXTENDS Naturals, FiniteSets

CONSTANTS
  Hosts,          \* where the enrollment command is run
  MaxCredentials  \* bound on the credentials handed out

ASSUME RegistryAssumption == MaxCredentials \in Nat \ {0}

VARIABLES
  row,        \* the agents row
  dependent,  \* a connector, stack, route or backup of the agent exists
  commands,   \* the agent's commands: none, open, or only past ones
  creating,   \* a request that makes something refer to the agent
  crossed,    \* history: one was committed after the agent was archived
  host,       \* what runs on each host, and the credential it has saved
  beating,    \* a heartbeat is authenticated and not yet handled
  posts,      \* telemetry authenticated and not yet committed
  latest,     \* the service's status in the latest snapshot
  presence,   \* the last of agent.offline and agent.recovered
  unmarked,   \* history: telemetry, not a heartbeat, has ended the last offline
  notice,     \* the last event about the service
  gap         \* history: the statuses it was about were not all seen in order

rowVars == <<row, dependent, commands, creating, crossed>>
serviceVars == <<posts, latest, notice, gap>>
presenceVars == <<beating, presence, unmarked>>
registryVars == <<rowVars, host, serviceVars, presenceVars>>

ServiceStatuses == {"healthy", "unhealthy", "stopped", "other"}
Slots == {1, 2}
NoPost == [on |-> FALSE, prev |-> "other", status |-> "other", second |-> FALSE, behind |-> FALSE, alone |-> TRUE]

RegistryTypeOK ==
  /\ row \in [life : {"new", "enrolled", "archived", "deleted"}, token : BOOLEAN,
              cred : 0..MaxCredentials, issued : 0..MaxCredentials,
              beat : {"none", "fresh", "stale"}, offline : BOOLEAN]
  /\ dependent \in BOOLEAN
  /\ commands \in {"none", "open", "past"}
  /\ creating \in {"none", "dependent", "command"}
  /\ crossed \in BOOLEAN
  /\ host \in [Hosts -> [at : {"enrolling", "answered", "running"}, cred : 0..MaxCredentials]]
  /\ beating \in BOOLEAN
  /\ posts \in [Slots -> [on : BOOLEAN, prev : ServiceStatuses, status : ServiceStatuses,
                          second : BOOLEAN, behind : BOOLEAN, alone : BOOLEAN]]
  /\ latest \in ServiceStatuses \cup {"none"}
  /\ presence \in {"none", "offline", "recovered"}
  /\ unmarked \in BOOLEAN
  /\ notice \in {"none", "unhealthy", "stopped", "recovered"}
  /\ gap \in BOOLEAN

Enabled == row.life \in {"new", "enrolled"}

\* createAgent
Created == [life |-> "new", token |-> TRUE, cred |-> 0, issued |-> 0, beat |-> "none", offline |-> FALSE]

\* POST /api/agents
RegistryInit ==
  /\ row = Created
  /\ dependent = FALSE
  /\ commands = "none"
  /\ creating = "none"
  /\ crossed = FALSE
  /\ host = [h \in Hosts |-> [at |-> "enrolling", cred |-> 0]]
  /\ beating = FALSE
  /\ posts = [s \in Slots |-> NoPost]
  /\ latest = "none"
  /\ presence = "none"
  /\ unmarked = FALSE
  /\ notice = "none"
  /\ gap = FALSE

-----------------------------------------------------------------------------
(* Enrollment *)

\* Mutant of TokenValid: nobody asks whether the agent is enrolled already.
TokenValidAgain == Enabled

\* The token enrollAgent accepts is one that no host has used.
TokenValid == Enabled /\ row.token /\ row.life = "new"

\* The enroll handler: a new credential, whose hash replaces the token's.
Enroll(h) ==
  /\ host[h].at = "enrolling"
  /\ TokenValid
  /\ row.issued < MaxCredentials
  /\ row' = [row EXCEPT !.life = "enrolled", !.token = FALSE, !.cred = row.issued + 1, !.issued = @ + 1]
  /\ host' = [host EXCEPT ![h] = [at |-> "answered", cred |-> row.issued + 1]]
  /\ UNCHANGED <<dependent, commands, creating, crossed, serviceVars, presenceVars>>

\* The token runs out before it is used.
TokenExpires ==
  /\ row.token
  /\ row' = [row EXCEPT !.token = FALSE]
  /\ UNCHANGED <<dependent, commands, creating, crossed, host, serviceVars, presenceVars>>

\* ensureEnrollment saves the credential it was answered ...
SaveCredentials(h) ==
  /\ host[h].at = "answered"
  /\ host' = [host EXCEPT ![h].at = "running"]
  /\ UNCHANGED <<rowVars, serviceVars, presenceVars>>

\* ... unless the answer is lost or the agent stops first; it then presents the
\* token again.
CredentialLost(h) ==
  /\ host[h].at = "answered"
  /\ host' = [host EXCEPT ![h] = [at |-> "enrolling", cred |-> 0]]
  /\ UNCHANGED <<rowVars, serviceVars, presenceVars>>

\* requireAgent
Authenticated(h) == host[h].at = "running" /\ Enabled /\ host[h].cred = row.cred

-----------------------------------------------------------------------------
(* Heartbeats and the offline sweep *)

StartHeartbeat(h) ==
  /\ Authenticated(h)
  /\ ~beating
  /\ beating' = TRUE
  /\ UNCHANGED <<rowVars, host, serviceVars, presence, unmarked>>

\* Mutant of Returns: the mark is looked at after the heartbeat has cleared it.
ReturnsTooLate == FALSE

\* The agent was found offline, and nothing was heard of it since.
Returns == row.offline

\* heartbeatAgent
Heartbeat ==
  /\ beating
  /\ beating' = FALSE
  /\ row' = [row EXCEPT !.beat = "fresh", !.offline = FALSE]
  /\ presence' = IF Returns THEN "recovered" ELSE presence
  /\ UNCHANGED <<dependent, commands, creating, crossed, host, serviceVars, unmarked>>

\* Time passes without a heartbeat.
GoesQuiet ==
  /\ row.beat = "fresh"
  /\ row' = [row EXCEPT !.beat = "stale"]
  /\ UNCHANGED <<dependent, commands, creating, crossed, host, serviceVars, presenceVars>>

\* sweepOfflineAgents
Sweep ==
  /\ row.life = "enrolled"
  /\ row.beat = "stale"
  /\ ~row.offline
  /\ row' = [row EXCEPT !.offline = TRUE]
  /\ presence' = "offline"
  /\ unmarked' = FALSE
  /\ UNCHANGED <<dependent, commands, creating, crossed, host, serviceVars, beating>>

-----------------------------------------------------------------------------
(* Telemetry *)

Posting(s) == posts[s].on
Other(s) == 3 - s

\* A snapshot arrives; recordTelemetry reads the one before it.  now() is when a
\* transaction started, so of two overlapping snapshots the later to start is
\* the later one, whichever commits first.
StartPost(h, s, status) ==
  LET overlaps == Posting(Other(s))
      post == [on |-> TRUE, prev |-> IF latest = "none" THEN "other" ELSE latest, status |-> status,
               second |-> overlaps, behind |-> FALSE, alone |-> ~overlaps]
  IN
  /\ Authenticated(h)
  /\ ~Posting(s)
  /\ s = 2 => Posting(1)
  /\ posts' = [posts EXCEPT ![s] = post, ![Other(s)].alone = @ /\ ~overlaps]
  /\ UNCHANGED <<rowVars, host, latest, notice, gap, presenceVars>>

\* Mutant of Notices: a return to health is announced from unhealthy only.
NoticesUnhealthyOnly(prev, status) ==
  CASE status \in {"unhealthy", "stopped"} /\ prev # status -> {status}
    [] status = "healthy" /\ prev = "unhealthy" -> {"recovered"}
    [] OTHER -> {}

\* The event about a service whose status was prev and is now status.
Notices(prev, status) ==
  CASE status \in {"unhealthy", "stopped"} /\ prev # status -> {status}
    [] status = "healthy" /\ prev \in {"unhealthy", "stopped"} -> {"recovered"}
    [] OTHER -> {}

\* recordTelemetry commits: the snapshot, the events, and the agent counts as
\* heard of.
Post(s) ==
  LET post == posts[s]
      notices == Notices(post.prev, post.status)
      other == posts[Other(s)]
  IN
  /\ Posting(s)
  /\ posts' = [posts EXCEPT ![s] = NoPost,
                            ![Other(s)].second = FALSE,
                            ![Other(s)].behind = @ \/ (other.on /\ post.second)]
  /\ latest' = IF post.behind THEN latest ELSE post.status
  /\ notice' = IF notices = {} THEN notice ELSE CHOOSE n \in notices : TRUE
  /\ gap' = IF post.status = "other" \/ ~post.alone THEN TRUE ELSE IF notices = {} THEN gap ELSE FALSE
  /\ row' = [row EXCEPT !.offline = FALSE]
  /\ unmarked' = (unmarked \/ row.offline)
  /\ UNCHANGED <<dependent, commands, creating, crossed, host, beating, presence>>

-----------------------------------------------------------------------------
(* References and removal *)

\* createRoute, createConnector, createCommand and their like find the agent
\* enabled; their statement has its snapshot now.
StartCreating(kind) ==
  /\ creating = "none"
  /\ Enabled
  /\ creating' = kind
  /\ UNCHANGED <<row, dependent, commands, crossed, host, serviceVars, presenceVars>>

\* It commits if the row still exists, by the foreign key; a deployed resource
\* comes with a command.
FinishCreating ==
  /\ creating # "none"
  /\ creating' = "none"
  /\ IF row.life = "deleted"
     THEN UNCHANGED <<dependent, commands, crossed>>
     ELSE /\ dependent' = (dependent \/ creating = "dependent")
          /\ commands' = "open"
          /\ crossed' = (crossed \/ row.life = "archived")
  /\ UNCHANGED <<row, host, serviceVars, presenceVars>>

\* What refers to the agent is reassigned.
Reassign ==
  /\ dependent
  /\ dependent' = FALSE
  /\ UNCHANGED <<row, commands, creating, crossed, host, serviceVars, presenceVars>>

\* The agent completes its open commands.
CommandsEnd(h) ==
  /\ Authenticated(h)
  /\ commands = "open"
  /\ commands' = "past"
  /\ UNCHANGED <<row, dependent, creating, crossed, host, serviceVars, presenceVars>>

\* Mutant of Blocked: open commands do not count.
BlockedByResources == dependent

\* What removeAgent refuses to remove.
Blocked == dependent \/ commands = "open"

Referenced == commands # "none" \/ latest # "none" \/ presence # "none"

\* removeAgent: one that has left no trace is deleted.
Removed == [row EXCEPT !.life = IF row.life = "new" /\ ~Referenced THEN "deleted" ELSE "archived",
                       !.token = FALSE, !.cred = 0, !.offline = FALSE]

\* DELETE /api/agents/:id
Remove ==
  /\ Enabled
  /\ ~Blocked
  /\ row' = Removed
  /\ UNCHANGED <<dependent, commands, creating, crossed, host, serviceVars, presenceVars>>

RegistryNext ==
  \/ \E h \in Hosts :
       \/ Enroll(h)
       \/ SaveCredentials(h)
       \/ CredentialLost(h)
       \/ StartHeartbeat(h)
       \/ \E s \in Slots, v \in ServiceStatuses : StartPost(h, s, v)
       \/ CommandsEnd(h)
  \/ TokenExpires
  \/ Heartbeat
  \/ GoesQuiet
  \/ Sweep
  \/ \E s \in Slots : Post(s)
  \/ \E k \in {"dependent", "command"} : StartCreating(k)
  \/ FinishCreating
  \/ Reassign
  \/ Remove

RegistrySpec == RegistryInit /\ [][RegistryNext]_registryVars

-----------------------------------------------------------------------------
(* Properties *)

\* An agent that is removed has nothing that refers to it and no command left
\* to do, and one that is deleted has never had any.  The exception is a request
\* that found the agent enabled before the removal and committed after it.
RemovedIsUnreferenced ==
  row.life \in {"archived", "deleted"} => (~dependent /\ commands # "open") \/ crossed

\* A token enrolls one host, however often the command is run and whatever is
\* lost: no two hosts hold a credential, and while the agent is not removed a
\* host that has one saved is let in with it.
OneHostEnrolled ==
  /\ \A g, h \in Hosts : host[g].at # "enrolling" /\ host[h].at # "enrolling" => g = h
  /\ \A h \in Hosts : host[h].at = "running" /\ row.life = "enrolled" => Authenticated(h)

\* An agent announced as offline is still marked so, and one announced as
\* recovered is not, so the next heartbeat or sweep announces the change; the
\* exceptions are that telemetry has cleared the mark without an announcement
\* and that the agent was removed.
PresenceAnnounced ==
  row.life = "enrolled" => (presence = "offline" /\ ~unmarked <=> row.offline)

\* Every change to or from trouble in a service is announced, and nothing else
\* is: the last event about it agrees with its latest status.  The exceptions
\* are a status that is neither trouble nor health in between, and snapshots
\* that overlap.
ServiceAnnounced ==
  gap \/ CASE latest = "unhealthy" -> notice = "unhealthy"
           [] latest = "stopped" -> notice = "stopped"
           [] latest = "healthy" -> notice \in {"none", "recovered"}
           [] OTHER -> TRUE
=============================================================================
