----------------------------- MODULE DomainAccess ----------------------------
(***************************************************************************)
(* A Cloudflare domain access: the row that says whether a hostname should *)
(* be reachable, the DNS records and the tunnel configuration at           *)
(* Cloudflare that make it so, the reconciliations that bring the second   *)
(* in line with the first, and the verification of a guided publish, which *)
(* reads the row, watches the hostname and writes its verdict back.        *)
(*                                                                         *)
(* A reconciliation works for the revision it has read.  A request that    *)
(* changes the row takes no lock: it raises the revision, and every write  *)
(* to the store is fenced by it.  A call to Cloudflare and the fenced      *)
(* write that follows are one step here: the call does not look at the     *)
(* row, so a change between the two is like one before both, and a crash   *)
(* between them is a case of Crash.  The other accesses of the tunnel are  *)
(* one neighbour, whose reconciliation sets or removes a rule of its own.  *)
(***************************************************************************)
EXTENDS Naturals, FiniteSets

CONSTANTS Requests, Cname, Addresses, Ids, MaxRevision, MaxFaults

\* "access" is the access itself among those that others' changes concern (meddled).
ASSUME AccessAssumption ==
  /\ Cname \notin Addresses
  /\ "access" \notin Requests
  /\ MaxRevision \in Nat \ {0}
  /\ MaxFaults \in Nat

VARIABLES
  access,     \* the cloudflare_public_hostnames row
  known,      \* what the store's DNS record rows say of each record
  guided,     \* the guided operation that published the access, if any
  provided,   \* history: a reconciliation that enables the access has reached its
              \* end, and none that disables it has begun since
  unfounded,  \* history: last marked active by a verification while not provided
  remote,     \* the hostname's DNS records at Cloudflare
  rules,      \* the rules in the tunnel's configuration
  neighbour,  \* another access of the tunnel
  meddled,    \* history: the records were changed by others since ("access") it
              \* was reconciled, or the request listed them
  task,       \* what each request is doing
  verifier,   \* the verification in progress
  faults      \* the faults so far

rowVars == <<access, known, guided, provided, unfounded>>
cloudVars == <<remote, rules, neighbour, meddled>>
vars == <<rowVars, cloudVars, task, verifier, faults>>

\* A record is as the server made it, with the access's ownership marker; or it
\* was made so and changed by someone else; or it is someone else's.
Items == {Cname} \cup Addresses
Records == [id : Ids, item : Items, mark : {"ours", "changed", "theirs"}]
TypeOf(item) == IF item = Cname THEN "CNAME" ELSE "A"

Tunnel == access.method = "tunnel"

\* The records that make the access reachable.
Desired == IF Tunnel THEN {Cname} ELSE Addresses

\* found, clash, missing and todo, the records to delete, are what is left to do
\* of what the reconciliation makes of the records it knows and lists; made are
\* those it created; original is the tunnel's configuration once it has got it.
Idle == [at |-> "idle", guided |-> FALSE, rev |-> 0, enabled |-> FALSE, found |-> {},
         clash |-> FALSE, todo |-> {}, missing |-> {}, made |-> {}, got |-> FALSE,
         original |-> {}, superseded |-> FALSE]

NoVerification == [at |-> "idle", rev |-> 0, valid |-> FALSE]

TypeOK ==
  /\ access \in [method : {"tunnel", "public_ip"}, enabled : BOOLEAN, rev : 1..MaxRevision,
                 status : {"pending", "active", "failed", "disabled"}]
  /\ known \in [Ids -> {"none", "active", "cleanup_pending"}]
  /\ guided \in {"none", "posted", "created", "waiting", "succeeded", "failed", "lost"}
  /\ {provided, unfounded} \subseteq BOOLEAN
  /\ remote \in SUBSET Records
  /\ rules \in SUBSET {"own", "other"}
  /\ neighbour \in [on : BOOLEAN, got : BOOLEAN, original : SUBSET {"own", "other"}]
  /\ meddled \in SUBSET ({"access"} \cup Requests)
  /\ faults \in 0..MaxFaults

Fault == faults < MaxFaults /\ faults' = faults + 1

\* What POST domain-accesses, or a guided publish, creates.
Creations == [method : {"tunnel", "public_ip"}, enabled : {TRUE}, rev : {1}, status : {"pending"}]

\* createPendingDomainAccess, for a hostname that may have a record of someone
\* else's.
Init ==
  /\ access \in Creations
  /\ known = [i \in Ids |-> "none"]
  /\ guided \in {"posted", "created"}
  /\ provided = FALSE /\ unfounded = FALSE
  /\ \E i \in Ids, t \in Items : remote \in {{}, {[id |-> i, item |-> t, mark |-> "theirs"]}}
  /\ rules = {}
  /\ neighbour = [on |-> FALSE, got |-> FALSE, original |-> {}]
  /\ meddled = {}
  /\ task = [q \in Requests |-> Idle]
  /\ verifier = NoVerification
  /\ faults = 0

\* Rows another reconciliation cannot change: it has the lock.
Owned == {i \in Ids : known[i] # "none"}

Marked == {r \in remote : r.mark = "ours"}
IdsOf(records) == {r.id : r \in records}

Served ==
  /\ \A t \in Desired : \E r \in Marked : r.item = t
  /\ Tunnel => "own" \in rules

-----------------------------------------------------------------------------
(* Requests *)

Enqueue(q, g) == task' = [task EXCEPT ![q] = [Idle EXCEPT !.at = "lock", !.guided = g]]

\* PATCH and POST reconcile: the row becomes pending, at a new revision, and is
\* then reconciled.
Change(q, enabled) ==
  /\ task[q].at = "idle"
  /\ access.rev < MaxRevision
  /\ access' = [access EXCEPT !.enabled = enabled, !.rev = @ + 1, !.status = "pending"]
  /\ Enqueue(q, FALSE)
  /\ UNCHANGED <<known, guided, provided, unfounded, cloudVars, verifier, faults>>

\* What the request that created the row goes on with, and continueGuidedPublish
\* as often as it is asked to while the operation is not past this stage: the
\* row is reconciled at the revision it has.
Continue(q) ==
  /\ task[q].at = "idle"
  /\ guided \in {"posted", "created", "failed"}
  /\ Enqueue(q, guided # "posted")
  /\ guided' = IF guided = "posted" THEN "none" ELSE guided
  /\ UNCHANGED <<access, known, provided, unfounded, cloudVars, verifier, faults>>

\* The operation of a request that ends with an error.  One that another request
\* brought to its verification meanwhile keeps that stage, and one that has
\* succeeded has lost its request: neither can be taken up again.
Broken == IF guided \in {"waiting", "succeeded", "lost"} THEN "lost" ELSE "failed"

Ends(q, status) ==
  /\ task' = [task EXCEPT ![q] = Idle]
  /\ guided' = IF task[q].guided THEN status ELSE guided

-----------------------------------------------------------------------------
(* withDomainAccessLock: the access's lock, and that of the tunnel *)

Holds(q) == task[q].at \notin {"idle", "lock"}

\* Mutant of TunnelFree: an access excludes only its own reconciliations.
TunnelFreeAlways == TRUE

TunnelFree == Tunnel => ~neighbour.got

LockFree == TunnelFree /\ \A p \in Requests : ~Holds(p)

\* acquireAdvisoryLock gives up after half a minute.
GiveUp(q) ==
  /\ task[q].at = "lock"
  /\ ~LockFree
  /\ Ends(q, Broken)
  /\ UNCHANGED <<access, known, provided, unfounded, cloudVars, verifier, faults>>

\* The neighbour's reconciliation: get the configuration, put it with its rule or
\* without.
NeighbourGets ==
  /\ ~neighbour.got
  /\ Tunnel /\ \A q \in Requests : ~Holds(q)
  /\ neighbour' = [neighbour EXCEPT !.got = TRUE, !.original = rules]
  /\ UNCHANGED <<rowVars, remote, rules, meddled, task, verifier, faults>>

NeighbourPuts(on) ==
  /\ neighbour.got
  /\ rules' = IF on THEN neighbour.original \cup {"other"} ELSE neighbour.original \ {"other"}
  /\ neighbour' = [on |-> on, got |-> FALSE, original |-> {}]
  /\ UNCHANGED <<rowVars, remote, meddled, task, verifier, faults>>

-----------------------------------------------------------------------------
(* reconcileDomainAccess *)

\* Mutant of Current: the writes of an older revision count.
CurrentAlways(q) == TRUE

\* The fence of every write: the row has still the revision that was read.
Current(q) == access.rev = task[q].rev

\* A record's row, written if the fence lets it.
Note(q, i, status) == known' = IF Current(q) THEN [known EXCEPT ![i] = status] ELSE known

SetStatus(q, status) == access' = IF Current(q) THEN [access EXCEPT !.status = status] ELSE access

Forget(i) == remote' = {r \in remote : r.id # i}

\* To the handler of everything thrown once reconciling has begun.
Throw(q, superseded) ==
  [task EXCEPT ![q].at = "undo", ![q].found = {}, ![q].clash = FALSE, ![q].todo = {},
               ![q].missing = {}, ![q].superseded = superseded]

\* The lock, and getCloudflareDomainAccessDeployment.
Read(q) ==
  /\ task[q].at = "lock"
  /\ LockFree
  /\ \E at \in {"owned", "unfit"} :
       task' = [task EXCEPT ![q].at = at, ![q].rev = access.rev, ![q].enabled = access.enabled,
                            ![q].todo = IF access.enabled THEN {} ELSE Owned]
  /\ provided' = (provided /\ access.enabled)
  /\ UNCHANGED <<access, known, guided, unfounded, cloudVars, verifier, faults>>

\* The topology does not hold any more, or the credentials cannot be read.
Unfit(q) ==
  /\ task[q].at = "unfit"
  /\ SetStatus(q, "failed")
  /\ Ends(q, Broken)
  /\ UNCHANGED <<known, provided, unfounded, cloudVars, verifier, faults>>

\* Mutants of Found: a record with the wanted content is taken for one's own;
\* what no row knows is not looked for.
FoundAnyone == IdsOf({r \in remote : r.item \in Desired})
FoundKnown == IdsOf(Marked) \cap Owned

\* The records that carry the access's marker, whether or not a row knows them.
Found == IdsOf(Marked)

\* listDnsRecordsExact, and what follows from the list: what to adopt, what is
\* someone else's, what is not as it was made and what there is to create.
List(q) ==
  LET e == task[q].enabled IN
  /\ task[q].at = "owned"
  /\ task[q].todo = {}
  /\ task' = [task EXCEPT
       ![q].at = "records",
       ![q].found = IF e THEN Found \ Owned ELSE Found,
       ![q].clash = e /\ \E r \in remote : /\ \E t \in Desired : TypeOf(r.item) = TypeOf(t)
                                           /\ r.id \notin Found \cup Owned,
       ![q].todo = IF e THEN Owned \ Found ELSE {},
       ![q].missing = IF e THEN {t \in Desired : \A r \in Marked : r.item # t} ELSE {}]
  /\ meddled' = meddled \ {q}
  /\ UNCHANGED <<rowVars, remote, rules, neighbour, verifier, faults>>

\* A marked record gets a row; when disabling it is deleted next.
Adopt(q) ==
  /\ task[q].at = "records"
  /\ task[q].enabled \/ task[q].todo = {}
  /\ \E i \in task[q].found :
       /\ Note(q, i, "active")
       /\ task' = IF ~Current(q) THEN Throw(q, TRUE)
                  ELSE [task EXCEPT ![q].found = @ \ {i},
                                    ![q].todo = IF task[q].enabled THEN @ ELSE {i}]
  /\ UNCHANGED <<access, guided, provided, unfounded, cloudVars, verifier, faults>>

\* A record someone else has for the hostname ends it before anything is changed.
Clash(q) ==
  /\ task[q].at = "records"
  /\ task[q].found = {}
  /\ task[q].clash
  /\ task' = Throw(q, FALSE)
  /\ UNCHANGED <<rowVars, cloudVars, verifier, faults>>

\* The records in todo come next: when enabling, those that are not as they were
\* made, after all that was found has been adopted.
Dropping(q) ==
  \/ task[q].at = "owned"
  \/ task[q].at = "records" /\ (task[q].enabled => task[q].found = {} /\ ~task[q].clash)

\* deleteOwnedRecord; that there was none counts as deleted.
Drop(q) ==
  /\ Dropping(q)
  /\ \E i \in task[q].todo :
       /\ Forget(i)
       /\ Note(q, i, "none")
       /\ task' = IF Current(q) THEN [task EXCEPT ![q].todo = @ \ {i}] ELSE Throw(q, TRUE)
  /\ UNCHANGED <<access, guided, provided, unfounded, rules, neighbour, meddled, verifier, faults>>

\* The call fails, or its answer is lost: the row waits for another attempt.
DropFails(q) ==
  /\ Dropping(q)
  /\ \E i \in task[q].todo :
       /\ Forget(i) \/ UNCHANGED remote
       /\ Note(q, i, "cleanup_pending")
  /\ task' = Throw(q, FALSE)
  /\ Fault
  /\ UNCHANGED <<access, guided, provided, unfounded, rules, neighbour, meddled, verifier>>

\* getTunnelConfig
GetConfig(q) ==
  /\ task[q].at = "records"
  /\ task[q].found = {} /\ ~task[q].clash /\ task[q].todo = {}
  /\ task' = IF Tunnel THEN [task EXCEPT ![q].at = "put", ![q].got = TRUE, ![q].original = rules]
                       ELSE [task EXCEPT ![q].at = "create"]
  /\ UNCHANGED <<rowVars, cloudVars, verifier, faults>>

\* enabledIngress or disabledIngress of what it got.
Ingress(q) == IF task[q].enabled THEN task[q].original \cup {"own"} ELSE task[q].original \ {"own"}

PutConfig(q) ==
  /\ task[q].at = "put"
  /\ rules' = Ingress(q)
  /\ task' = [task EXCEPT ![q].at = "create"]
  /\ UNCHANGED <<rowVars, remote, neighbour, meddled, verifier, faults>>

PutFails(q) ==
  /\ task[q].at = "put"
  /\ rules' = Ingress(q) \/ UNCHANGED rules
  /\ task' = Throw(q, FALSE)
  /\ Fault
  /\ UNCHANGED <<rowVars, remote, neighbour, meddled, verifier>>

\* An id Cloudflare has not given out.
Fresh == Ids \ (IdsOf(remote) \cup Owned
                \cup UNION {task[q].made \cup task[q].todo \cup task[q].found : q \in Requests})

NewRecord(i, t) == [id |-> i, item |-> t, mark |-> "ours"]

\* createDnsCname or createDnsAddress, the row, and the record read back.
Create(q) ==
  /\ task[q].at = "create"
  /\ \E t \in task[q].missing, i \in Fresh :
       /\ remote' = remote \cup {NewRecord(i, t)}
       /\ Note(q, i, "active")
       /\ LET made == task[q].made \cup {i} IN
          task' = IF Current(q) THEN [task EXCEPT ![q].made = made, ![q].missing = @ \ {t}]
                  ELSE [Throw(q, TRUE) EXCEPT ![q].made = made]
  /\ UNCHANGED <<access, guided, provided, unfounded, rules, neighbour, meddled, verifier, faults>>

\* The call fails without having had an effect, or its answer is lost and the
\* list that would show the record fails too; or the record has its row and is
\* not read back.
CreateFails(q) ==
  /\ task[q].at = "create"
  /\ \/ /\ task[q].missing # {}
        /\ task' = Throw(q, FALSE)
        /\ UNCHANGED <<remote, known>>
     \/ \E t \in task[q].missing, i \in Fresh :
          /\ remote' = remote \cup {NewRecord(i, t)}
          /\ \/ task' = Throw(q, FALSE) /\ UNCHANGED known
             \/ /\ Current(q)
                /\ Note(q, i, "active")
                /\ task' = [Throw(q, FALSE) EXCEPT ![q].made = @ \cup {i}]
  /\ Fault
  /\ UNCHANGED <<access, guided, provided, unfounded, rules, neighbour, meddled, verifier>>

\* A guided publish leaves the access pending and waits for its verification.
Reached(q) ==
  IF ~task[q].enabled THEN "disabled" ELSE IF task[q].guided THEN "pending" ELSE "active"

Outcome(q) ==
  /\ task[q].at = "create"
  /\ task[q].missing = {}
  /\ SetStatus(q, Reached(q))
  /\ IF Current(q) THEN Ends(q, "waiting") ELSE (task' = Throw(q, TRUE) /\ UNCHANGED guided)
  /\ meddled' = IF Current(q) /\ q \notin meddled THEN meddled \ {"access"} ELSE meddled
  /\ provided' = IF Current(q) THEN task[q].enabled ELSE provided
  /\ unfounded' = (unfounded /\ ~Current(q))
  /\ UNCHANGED <<known, remote, rules, neighbour, verifier, faults>>

-----------------------------------------------------------------------------
(* What was thrown *)

\* The records this attempt has created are deleted again.
Undo(q) ==
  /\ task[q].at = "undo"
  /\ \E i \in task[q].made :
       /\ Forget(i)
       /\ Note(q, i, "none")
       /\ task' = [task EXCEPT ![q].made = @ \ {i}]
  /\ UNCHANGED <<access, guided, provided, unfounded, rules, neighbour, meddled, verifier, faults>>

UndoFails(q) ==
  /\ task[q].at = "undo"
  /\ \E i \in task[q].made :
       /\ Forget(i) \/ UNCHANGED remote
       /\ IF i \in Owned THEN Note(q, i, "cleanup_pending") ELSE UNCHANGED known
       /\ task' = [task EXCEPT ![q].made = @ \ {i}]
  /\ Fault
  /\ UNCHANGED <<access, guided, provided, unfounded, rules, neighbour, meddled, verifier>>

\* A configuration is put back if the access was being enabled.
Restores(q) == task[q].got /\ task[q].enabled

RestoreConfig(q) ==
  /\ task[q].at = "undo"
  /\ task[q].made = {}
  /\ Restores(q)
  /\ \/ rules' = task[q].original /\ UNCHANGED faults
     \/ Fault /\ UNCHANGED rules
  /\ task' = [task EXCEPT ![q].at = "fail"]
  /\ UNCHANGED <<rowVars, remote, neighbour, meddled, verifier>>

Fail(q) ==
  /\ \/ task[q].at = "fail"
     \/ task[q].at = "undo" /\ task[q].made = {} /\ ~Restores(q)
  /\ IF task[q].superseded THEN UNCHANGED access ELSE SetStatus(q, "failed")
  /\ Ends(q, Broken)
  /\ UNCHANGED <<known, provided, unfounded, cloudVars, verifier, faults>>

-----------------------------------------------------------------------------
(* reconcileGuidedVerifications, which takes no lock *)

VerifyRead ==
  /\ verifier.at = "idle"
  /\ guided = "waiting"
  /\ verifier' = [NoVerification EXCEPT !.at = "observing", !.rev = access.rev]
  /\ UNCHANGED <<rowVars, cloudVars, task, faults>>

\* observeTlsCertificate looks at what answers for the hostname, which need not be the
\* access's doing: a tunnel without its rule answers too, and so do one address of
\* several, a record of someone else's and a record of the whole zone.
Observed == BOOLEAN

\* boundedTlsObservation
VerifyObserve ==
  /\ verifier.at = "observing"
  /\ \E v \in Observed : verifier' = [verifier EXCEPT !.at = "observed", !.valid = v]
  /\ UNCHANGED <<rowVars, cloudVars, task, faults>>

AsVerified == access.rev = verifier.rev

\* An access that has been disabled cannot be marked active: the check of the
\* table makes the update fail and the operation keeps waiting.
VerifyValid ==
  /\ verifier.at = "observed"
  /\ verifier.valid
  /\ verifier' = NoVerification
  /\ IF AsVerified /\ access.enabled
     THEN /\ access' = [access EXCEPT !.status = "active"]
          /\ guided' = "succeeded"
          /\ unfounded' = ~provided
     ELSE UNCHANGED <<access, guided, unfounded>>
  /\ UNCHANGED <<known, provided, cloudVars, task, faults>>

\* The operation waits on, or its deadline has passed.
VerifyInvalid ==
  /\ verifier.at = "observed"
  /\ ~verifier.valid
  /\ verifier' = NoVerification
  /\ \/ UNCHANGED <<access, guided>>
     \/ /\ access' = IF AsVerified THEN [access EXCEPT !.status = "failed"] ELSE access
        /\ guided' = "failed"
  /\ UNCHANGED <<known, provided, unfounded, cloudVars, task, faults>>

-----------------------------------------------------------------------------
(* The surroundings *)

\* A marked record is deleted or changed at Cloudflare by someone else.
Meddle(r) ==
  /\ r.mark = "ours"
  /\ remote' \in {remote \ {r}, (remote \ {r}) \cup {[r EXCEPT !.mark = "changed"]}}
  /\ meddled' = {"access"} \cup Requests
  /\ Fault
  /\ UNCHANGED <<rowVars, rules, neighbour, task, verifier>>

\* The call the request is at has an effect.
Effect(q) ==
  \/ \E i \in Ids : /\ \/ Dropping(q) /\ i \in task[q].todo
                       \/ task[q].at = "undo" /\ i \in task[q].made
                    /\ Forget(i)
                    /\ UNCHANGED rules
  \/ \E t \in task[q].missing, i \in Fresh :
       /\ task[q].at = "create"
       /\ remote' = remote \cup {NewRecord(i, t)}
       /\ UNCHANGED rules
  \/ /\ task[q].at = "put"
     /\ rules' = Ingress(q)
     /\ UNCHANGED remote

\* The server crashes: the requests are gone, and so are their locks.
Crash ==
  /\ \E q \in Requests : task[q].at # "idle"
  /\ UNCHANGED <<remote, rules>> \/ \E q \in Requests : Effect(q)
  /\ task' = [q \in Requests |-> Idle]
  /\ neighbour' = [neighbour EXCEPT !.got = FALSE, !.original = {}]
  /\ verifier' = NoVerification
  /\ Fault
  /\ UNCHANGED <<rowVars, meddled>>

Reconcile(q) ==
  \/ GiveUp(q) \/ Read(q) \/ Unfit(q)
  \/ List(q) \/ Adopt(q) \/ Clash(q) \/ Drop(q) \/ DropFails(q)
  \/ GetConfig(q) \/ PutConfig(q) \/ PutFails(q)
  \/ Create(q) \/ CreateFails(q) \/ Outcome(q)
  \/ Undo(q) \/ UndoFails(q) \/ RestoreConfig(q) \/ Fail(q)

Next ==
  \/ \E q \in Requests, e \in BOOLEAN : Change(q, e)
  \/ \E q \in Requests : Continue(q)
  \/ \E q \in Requests : Reconcile(q)
  \/ NeighbourGets
  \/ \E on \in BOOLEAN : NeighbourPuts(on)
  \/ VerifyRead \/ VerifyObserve \/ VerifyValid \/ VerifyInvalid
  \/ \E r \in remote : Meddle(r)
  \/ Crash

Spec == Init /\ [][Next]_vars

-----------------------------------------------------------------------------
(* Properties *)

\* An access shown as active is enabled and has all its records at Cloudflare and
\* its tunnel rule, whatever was superseded, verified late or taken back on the
\* way, and whatever answered for the hostname when it was verified.  There are two
\* exceptions: what others changed at Cloudflare since the access was reconciled, and
\* a verification's verdict on an access that a request has set about disabling and
\* whose enabling has not reached its end since: a verification takes no lock and
\* does not ask what became of the reconciliation.
ActiveIsServed ==
  access.status = "active" => access.enabled /\ ("access" \in meddled \/ unfounded \/ Served)

\* An access shown as disabled has left nothing of its own at Cloudflare: no
\* record, not even one created by a request that crashed or lost the answer
\* before the record had its row, and no tunnel rule.
DisabledIsGone == access.status = "disabled" => Marked = {} /\ "own" \notin rules

\* Reading the tunnel's configuration, changing it and putting it back, whole and
\* possibly twice, neither loses nor revives the rule of another access.
NeighbourKept == ("other" \in rules) = neighbour.on

\* A record that is someone else's is never taken over, changed or deleted.
ForeignKept ==
  [][\A r \in remote : r.mark = "theirs" => r \in remote' /\ known'[r.id] = "none"]_vars
=============================================================================
