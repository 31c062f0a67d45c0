-------------------------- MODULE DomainAccessProofs -------------------------
(***************************************************************************)
(* Machine-checked proofs about DomainAccess, for any number of requests,  *)
(* addresses, record ids, revisions and faults.                            *)
(***************************************************************************)
EXTENDS DomainAccess, TLAPS

USE AccessAssumption DEF AccessAssumption

-----------------------------------------------------------------------------
(* The inductive invariant *)

Stages == {"idle", "lock", "owned", "unfit", "records", "put", "create", "undo", "fail"}

Tasks ==
  [at : Stages, guided : BOOLEAN, rev : Nat, enabled : BOOLEAN, found : SUBSET Ids,
   clash : BOOLEAN, todo : SUBSET Ids, missing : SUBSET Items, made : SUBSET Ids,
   got : BOOLEAN, original : SUBSET {"own", "other"}, superseded : BOOLEAN]

Verifications ==
  [at : {"idle", "observing", "observed"}, rev : Nat, valid : BOOLEAN]

TypesOK == TypeOK /\ task \in [Requests -> Tasks] /\ verifier \in Verifications

\* One reconciliation of the tunnel at a time: the neighbour reads and puts back the
\* configuration as it is.
LockOK ==
  /\ \A p, q \in Requests : Holds(p) /\ Holds(q) => p = q
  /\ neighbour.got => Tunnel /\ neighbour.original = rules /\ \A q \in Requests : ~Holds(q)

\* What is someone else's has an id of its own, which no row and no request knows.
IdsOK ==
  /\ \A r, s \in remote : r.id = s.id => r = s
  /\ \A r \in remote : r.mark = "theirs" =>
       /\ known[r.id] = "none"
       /\ \A q \in Requests : r.id \notin task[q].made \cup task[q].todo \cup task[q].found

\* A request works for a revision the row had, in the way that revision asks for.
TaskOK(q) ==
  /\ ~Holds(q) => /\ task[q].todo = {} /\ task[q].made = {} /\ task[q].found = {}
                  /\ task[q].missing = {} /\ ~task[q].got
  /\ Holds(q) => task[q].rev <= access.rev /\ (Current(q) => task[q].enabled = access.enabled)
  /\ task[q].at = "put" => task[q].got
  /\ task[q].at \in {"undo", "fail"} =>
       task[q].todo = {} /\ task[q].found = {} /\ task[q].missing = {}
  /\ task[q].got => Tunnel /\ (("other" \in task[q].original) = ("other" \in rules))

\* One that disables: every record of the access it has not deleted yet is still on
\* its lists, and once it has dealt with them and the tunnel, nothing is left.
Disabling(q) ==
  Holds(q) /\ ~task[q].enabled =>
    /\ task[q].made = {} /\ task[q].missing = {}
    /\ task[q].at = "records" => IdsOf(Marked) \subseteq task[q].found \cup task[q].todo
    /\ task[q].at \in {"put", "create"} => Marked = {}
    /\ task[q].at = "create" => "own" \notin rules

\* One that enables: it deletes no record that is as it was made, and what the
\* access needs is there or on its list.
Enabling(q) ==
  Holds(q) /\ task[q].enabled =>
    /\ task[q].todo \cap IdsOf(Marked) = {}
    /\ task[q].at \in {"records", "put", "create"} =>
         IF q \in meddled THEN "access" \in meddled
         ELSE \A t \in Desired \ task[q].missing : \E r \in Marked : r.item = t
    /\ task[q].at = "create" /\ Tunnel => "own" \in rules

\* One that finds the access served takes nothing away when it is undone.
Harmless(q) ==
  Holds(q) => /\ task[q].enabled /\ task[q].made = {} /\ task[q].missing = {}
              /\ task[q].got => "own" \in task[q].original

\* The access is shown as active, or has been provided, so that a verification may show
\* it so whatever it has seen.
Trusted == (access.status = "active" /\ ~unfounded) \/ provided

ServedOK == Trusted => "access" \in meddled \/ (Served /\ \A q \in Requests : Harmless(q))

GoneOK ==
  /\ access.status = "disabled" =>
       /\ ~access.enabled /\ Marked = {} /\ "own" \notin rules
       /\ \A q \in Requests : Holds(q) => ~task[q].enabled
  /\ ~Tunnel => "own" \notin rules

StatusOK ==
  /\ access.status = "active" => access.enabled
  /\ verifier.rev <= access.rev

IInv ==
  /\ TypesOK /\ LockOK /\ IdsOK /\ ServedOK /\ GoneOK /\ StatusOK /\ NeighbourKept
  /\ \A q \in Requests : TaskOK(q) /\ Disabling(q) /\ Enabling(q)

\* What a step may not do to what is someone else's.
ForeignStep == \A r \in remote : r.mark = "theirs" => r \in remote' /\ known'[r.id] = "none"

-----------------------------------------------------------------------------
(* Types *)

AccessRows ==
  [method : {"tunnel", "public_ip"}, enabled : BOOLEAN, rev : 1..MaxRevision,
   status : {"pending", "active", "failed", "disabled"}]

LEMMA IdleTask == Idle \in Tasks
  BY DEF Idle, Tasks, Stages

LEMMA InitInvariant == Init => IInv
<1> SUFFICES ASSUME Init PROVE IInv
  OBVIOUS
<1>1. /\ access.rev = 1 /\ access.enabled = TRUE /\ access.status = "pending"
      /\ access \in AccessRows
  <2>1. 1 \in 1..MaxRevision
    OBVIOUS
  <2>2. access \in Creations
    BY DEF Init
  <2> QED
    BY <2>1, <2>2 DEF Creations, AccessRows
<1>2. PICK i \in Ids, t \in Items : remote \in {{}, {[id |-> i, item |-> t, mark |-> "theirs"]}}
  BY DEF Init
<1>3. remote \in SUBSET Records /\ (\A r, s \in remote : r = s) /\ Marked = {}
  BY <1>2 DEF Records, Marked
<1>4. neighbour \in [on : BOOLEAN, got : BOOLEAN, original : SUBSET {"own", "other"}]
      /\ ~neighbour.got /\ ~neighbour.on /\ rules = {} /\ meddled = {} /\ faults = 0
      /\ provided = FALSE /\ unfounded = FALSE
  BY DEF Init
<1>5. known \in [Ids -> {"none", "active", "cleanup_pending"}] /\ \A j \in Ids : known[j] = "none"
  BY DEF Init
<1>6. TypeOK
  <2>1. guided \in {"none", "posted", "created", "waiting", "succeeded", "failed", "lost"}
    BY DEF Init
  <2>2. rules \in SUBSET {"own", "other"} /\ meddled \in SUBSET ({"access"} \cup Requests)
    BY <1>4
  <2>3. {provided, unfounded} \subseteq BOOLEAN
    BY <1>4
  <2>4. faults \in 0..MaxFaults
    BY <1>4
  <2> QED
    BY <1>1, <1>3, <1>4, <1>5, <2>1, <2>2, <2>3, <2>4 DEF TypeOK, AccessRows
<1>7. task \in [Requests -> Tasks] /\ \A q \in Requests : task[q] = Idle
  BY IdleTask DEF Init
<1>8. verifier \in Verifications /\ verifier.at = "idle" /\ verifier.rev = 0
  BY DEF Init, NoVerification, Verifications
<1>9. \A q \in Requests : TaskOK(q) /\ Disabling(q) /\ Enabling(q) /\ ~Holds(q)
  BY <1>7 DEF TaskOK, Disabling, Enabling, Holds, Idle
<1>10. LockOK /\ NeighbourKept
  BY <1>4, <1>9 DEF LockOK, NeighbourKept
<1>11. IdsOK
  BY <1>3, <1>5, <1>7 DEF IdsOK, Idle, Records
<1>12. ServedOK /\ GoneOK /\ StatusOK
  BY <1>1, <1>4, <1>8 DEF ServedOK, Trusted, GoneOK, StatusOK
<1> QED
  BY <1>6, <1>7, <1>8, <1>9, <1>10, <1>11, <1>12 DEF IInv, TypesOK

-----------------------------------------------------------------------------
(* What steps have in common *)

\* The row asks for the same; its status is the same, or that of a failure.
SameRow ==
  /\ access'.method = access.method /\ access'.rev = access.rev /\ access'.enabled = access.enabled
  /\ access'.status \in {access.status, "failed"}

LEMMA StatusSet ==
  ASSUME access \in AccessRows, NEW q, NEW s \in {"pending", "active", "failed", "disabled"},
         SetStatus(q, s)
  PROVE  /\ access' \in AccessRows
         /\ access'.method = access.method /\ access'.rev = access.rev
         /\ access'.enabled = access.enabled
         /\ access'.status = IF Current(q) THEN s ELSE access.status
<1>1. CASE Current(q)
  <2>1. access' = [access EXCEPT !.status = s]
    BY <1>1 DEF SetStatus
  <2> QED
    BY <1>1, <2>1 DEF AccessRows
<1>2. CASE ~Current(q)
  BY <1>2 DEF SetStatus
<1> QED
  BY <1>1, <1>2

LEMMA RowNoted ==
  ASSUME known \in [Ids -> {"none", "active", "cleanup_pending"}],
         NEW q, NEW i \in Ids, NEW s \in {"none", "active", "cleanup_pending"}, Note(q, i, s)
  PROVE  /\ known' \in [Ids -> {"none", "active", "cleanup_pending"}]
         /\ \A j \in Ids : j # i => known'[j] = known[j]
         /\ Current(q) => known'[i] = s
  BY DEF Note

\* A record is deleted, whoever's it was: i is no one else's.
LEMMA RecordForgotten ==
  ASSUME NEW i, Forget(i)
  PROVE  /\ remote' \subseteq remote
         /\ \A r \in remote : r.id # i => r \in remote'
         /\ Marked' \subseteq Marked
         /\ \A r \in Marked : r.id # i => r \in Marked'
         /\ \A r \in Marked' : r.id # i
  BY DEF Forget, Marked

LEMMA RecordMade ==
  ASSUME NEW t, NEW i, remote' = remote \cup {NewRecord(i, t)}
  PROVE  /\ Marked' = Marked \cup {NewRecord(i, t)} /\ remote \subseteq remote'
         /\ NewRecord(i, t).id = i /\ NewRecord(i, t).item = t /\ NewRecord(i, t).mark = "ours"
         /\ NewRecord(i, t) \in remote'
  BY DEF Marked, NewRecord

LEMMA FreshId ==
  ASSUME NEW i \in Fresh
  PROVE  /\ i \in Ids /\ (\A r \in remote : r.id # i)
         /\ \A q \in Requests : i \notin task[q].made \cup task[q].todo \cup task[q].found
<1>1. i \in Ids /\ i \notin IdsOf(remote)
      /\ i \notin UNION {task[q].made \cup task[q].todo \cup task[q].found : q \in Requests}
  BY DEF Fresh
<1>2. \A q \in Requests : i \notin task[q].made \cup task[q].todo \cup task[q].found
  BY <1>1
<1> QED
  BY <1>1, <1>2 DEF IdsOf

\* The step leaves the other requests, the neighbour and the verification alone, and
\* neither takes away what the row asks for nor touches another access's rule.
OthersKept(q) ==
  /\ \A p \in Requests \ {q} : task'[p] = task[p]
  /\ UNCHANGED <<neighbour, verifier>>
  /\ SameRow /\ unfounded' = unfounded /\ (provided' => provided)
  /\ "access" \in meddled => "access" \in meddled'
  /\ ("other" \in rules') = ("other" \in rules)
  /\ Tunnel \/ rules' = rules

\* Records keep their ids, and those of someone else are what they were.
RecordsKept ==
  /\ ForeignStep
  /\ \A r, s \in remote' : r.id = s.id => r = s
  /\ \A r \in remote' : r.mark = "theirs" => r \in remote

\* A step of the request that holds the lock, which is the only one that does: what
\* is left to show is about its own task, the row and the records.
LEMMA HolderStep ==
  ASSUME IInv, NEW q \in Requests, Holds(q), TypesOK', OthersKept(q), RecordsKept,
         \A r \in remote : r.mark = "theirs" =>
           r.id \notin task'[q].made \cup task'[q].todo \cup task'[q].found,
         TaskOK(q)', Disabling(q)', Enabling(q)',
         Marked = {} /\ "own" \notin rules /\ ~task[q].enabled =>
           Marked' = {} /\ "own" \notin rules' /\ (Holds(q)' => ~task'[q].enabled),
         Served /\ Harmless(q) => Served' /\ Harmless(q)'
  PROVE  IInv' /\ ForeignStep
<1> USE DEF IInv, OthersKept, RecordsKept
<1>1. \A p \in Requests \ {q} : ~Holds(p) /\ ~Holds(p)'
  BY DEF LockOK, Holds
<1>2. LockOK'
  BY <1>1 DEF LockOK, Holds
<1>3. IdsOK'
  <2> SUFFICES ASSUME NEW r \in remote', r.mark = "theirs", NEW p \in Requests
               PROVE  r.id \notin task'[p].made \cup task'[p].todo \cup task'[p].found
    BY DEF IdsOK, ForeignStep
  <2>1. r \in remote
    OBVIOUS
  <2>2. CASE p = q
    BY <2>1, <2>2
  <2>3. CASE p # q
    <3>1. task'[p] = task[p]
      BY <2>3
    <3> QED
      BY <2>1, <3>1 DEF IdsOK
  <2> QED
    BY <2>2, <2>3
<1>4. ASSUME NEW p \in Requests PROVE TaskOK(p)' /\ Disabling(p)' /\ Enabling(p)'
  <2>1. CASE p = q
    BY <2>1
  <2>2. CASE p # q
    <3>1. ~Holds(p) /\ ~Holds(p)' /\ task'[p] = task[p]
      BY <1>1, <2>2
    <3>2. task[p].at \notin {"put", "undo", "fail"}
      BY <3>1 DEF Holds
    <3> QED
      BY <3>1, <3>2 DEF TaskOK, Disabling, Enabling
  <2> QED
    BY <2>1, <2>2
<1>5. access.status = access'.status \/ access'.status = "failed"
  BY DEF SameRow
<1>6. Trusted' => Trusted
  BY <1>5 DEF Trusted, SameRow
<1>7. ServedOK'
  BY <1>1, <1>6 DEF ServedOK, Harmless
<1>8. GoneOK'
  BY <1>1, <1>5 DEF GoneOK, SameRow, Tunnel
<1>9. StatusOK' /\ NeighbourKept'
  BY <1>5 DEF StatusOK, SameRow, NeighbourKept
<1> QED
  BY <1>2, <1>3, <1>4, <1>7, <1>8, <1>9

-----------------------------------------------------------------------------
(* Steps that leave Cloudflare and the reconciliation under way alone *)

\* A change of the row makes every reconciliation and verification under way one of
\* an earlier revision.
LEMMA RowStep ==
  ASSUME IInv, TypesOK', UNCHANGED <<known, cloudVars>>,
         \A q \in Requests : Holds(q) => task'[q] = task[q],
         \A q \in Requests : ~Holds(q) =>
           /\ task'[q].at \in {"idle", "lock"} /\ task'[q].todo = {} /\ task'[q].made = {}
           /\ task'[q].found = {} /\ task'[q].missing = {} /\ ~task'[q].got,
         access'.method = access.method,
         \/ access'.rev > access.rev
         \/ access'.rev = access.rev /\ access'.enabled = access.enabled,
         access'.status = "disabled" => access'.rev = access.rev /\ access.status = "disabled",
         Trusted' => Trusted \/ (Served /\ \A q \in Requests : ~Holds(q)),
         StatusOK'
  PROVE  IInv' /\ ForeignStep
<1> USE DEF IInv
<1>1. UNCHANGED <<remote, rules, neighbour, meddled>>
  BY DEF cloudVars
<1>2. /\ \A q \in Requests : Holds(q)' = Holds(q)
      /\ \A q \in Requests : task'[q].made \cup task'[q].todo \cup task'[q].found
                               = task[q].made \cup task[q].todo \cup task[q].found
  BY DEF Holds, TaskOK
<1>3. LockOK' /\ NeighbourKept'
  BY <1>1, <1>2 DEF LockOK, NeighbourKept, Tunnel
<1>4. IdsOK' /\ ForeignStep
  BY <1>1, <1>2 DEF IdsOK, ForeignStep
<1>5. access.rev \in Nat /\ access'.rev \in Nat
  BY DEF TypesOK, TypeOK
<1>6. UNCHANGED <<Marked, Desired, Tunnel, Served>>
  BY <1>1 DEF Marked, Desired, Tunnel, Served
<1>7. ASSUME NEW q \in Requests PROVE TaskOK(q)' /\ Disabling(q)' /\ Enabling(q)'
  <2>1. CASE Holds(q)
    <3>1. task'[q] = task[q] /\ Holds(q)' /\ TaskOK(q) /\ Disabling(q) /\ Enabling(q)
      BY <1>2, <2>1
    <3>2. task[q].rev \in Nat
      BY DEF TypesOK, Tasks
    <3>3. TaskOK(q)'
      BY <1>1, <1>5, <1>6, <2>1, <3>1, <3>2 DEF TaskOK, Current
    <3>4. Disabling(q)' /\ Enabling(q)'
      BY <1>1, <1>6, <2>1, <3>1 DEF Disabling, Enabling
    <3> QED
      BY <3>3, <3>4
  <2>2. CASE ~Holds(q)
    BY <1>2, <2>2 DEF TaskOK, Disabling, Enabling
  <2> QED
    BY <2>1, <2>2
<1>8. ServedOK'
  <2>1. \A q \in Requests : Harmless(q) => Harmless(q)'
    BY <1>2 DEF Harmless
  <2>2. (\A q \in Requests : ~Holds(q)) => \A q \in Requests : Harmless(q)
    BY DEF Harmless
  <2> QED
    BY <1>1, <1>6, <2>1, <2>2 DEF ServedOK
<1>9. GoneOK'
  BY <1>1, <1>2, <1>5, <1>6 DEF GoneOK
<1> QED
  BY <1>3, <1>4, <1>7, <1>8, <1>9

\* The request that is not holding the lock is what changes.
LEMMA WaitingTask ==
  ASSUME IInv, NEW q \in Requests, ~Holds(q), NEW x \in Tasks, task' = [task EXCEPT ![q] = x],
         x.at \in {"idle", "lock"}, x.todo = {}, x.made = {}, x.found = {}, x.missing = {}, ~x.got
  PROVE  /\ task' \in [Requests -> Tasks]
         /\ \A p \in Requests : Holds(p) => task'[p] = task[p]
         /\ \A p \in Requests : ~Holds(p) =>
              /\ task'[p].at \in {"idle", "lock"} /\ task'[p].todo = {} /\ task'[p].made = {}
              /\ task'[p].found = {} /\ task'[p].missing = {} /\ ~task'[p].got
<1>1. task \in [Requests -> Tasks] /\ \A p \in Requests : TaskOK(p)
  BY DEF IInv, TypesOK
<1>2. task'[q] = x /\ \A p \in Requests \ {q} : task'[p] = task[p]
  BY <1>1
<1>3. task' \in [Requests -> Tasks]
  BY <1>1
<1> QED
  BY <1>1, <1>2, <1>3 DEF TaskOK, Holds

LEMMA WaitingTasks ==
  ASSUME IInv, UNCHANGED task
  PROVE  /\ \A p \in Requests : ~Holds(p) =>
              /\ task'[p].at \in {"idle", "lock"} /\ task'[p].todo = {} /\ task'[p].made = {}
              /\ task'[p].found = {} /\ task'[p].missing = {} /\ ~task'[p].got
  BY DEF IInv, TaskOK, Holds

LEMMA IdleFields ==
  /\ Idle \in Tasks /\ Idle.at = "idle" /\ Idle.todo = {} /\ Idle.made = {} /\ Idle.found = {}
  /\ Idle.missing = {} /\ ~Idle.got
  /\ \A g \in BOOLEAN :
       LET x == [Idle EXCEPT !.at = "lock", !.guided = g] IN
       /\ x \in Tasks /\ x.at = "lock" /\ x.todo = {} /\ x.made = {} /\ x.found = {}
       /\ x.missing = {} /\ ~x.got
  BY DEF Idle, Tasks, Stages

LEMMA Changed ==
  ASSUME IInv, NEW q \in Requests, NEW e \in BOOLEAN, Change(q, e)
  PROVE  IInv' /\ ForeignStep
<1>1. ~Holds(q) /\ UNCHANGED <<known, guided, provided, unfounded, cloudVars, verifier, faults>>
  BY DEF Change, Holds
<1>2. task' = [task EXCEPT ![q] = [Idle EXCEPT !.at = "lock", !.guided = FALSE]]
  BY DEF Change, Enqueue
<1>3. /\ access' \in AccessRows /\ access'.method = access.method /\ access'.rev = access.rev + 1
      /\ access'.status = "pending" /\ access.rev \in Nat
  <2>1. access \in AccessRows /\ access.rev < MaxRevision
    BY DEF Change, IInv, TypesOK, TypeOK, AccessRows
  <2>2. access' = [access EXCEPT !.enabled = e, !.rev = @ + 1, !.status = "pending"]
    BY DEF Change
  <2>3. access.rev + 1 \in 1..MaxRevision /\ access.rev \in Nat
    BY <2>1 DEF AccessRows
  <2> QED
    BY <2>1, <2>2, <2>3 DEF AccessRows
<1>4. /\ task' \in [Requests -> Tasks]
      /\ \A p \in Requests : Holds(p) => task'[p] = task[p]
      /\ \A p \in Requests : ~Holds(p) =>
           /\ task'[p].at \in {"idle", "lock"} /\ task'[p].todo = {} /\ task'[p].made = {}
           /\ task'[p].found = {} /\ task'[p].missing = {} /\ ~task'[p].got
  BY <1>1, <1>2, IdleFields, WaitingTask
<1>5. TypesOK'
  BY <1>1, <1>3, <1>4 DEF IInv, TypesOK, TypeOK, AccessRows, cloudVars
<1>6. StatusOK' /\ (Trusted' => Trusted)
  <2>1. verifier.rev \in Nat /\ verifier.rev <= access.rev
    BY DEF IInv, TypesOK, Verifications, StatusOK
  <2> QED
    BY <1>1, <1>3, <2>1 DEF StatusOK, Trusted
<1> QED
  BY <1>1, <1>3, <1>4, <1>5, <1>6, RowStep

LEMMA Continued ==
  ASSUME IInv, NEW q \in Requests, Continue(q)
  PROVE  IInv' /\ ForeignStep
<1>1. ~Holds(q) /\ UNCHANGED <<access, known, provided, unfounded, cloudVars, verifier, faults>>
  BY DEF Continue, Holds
<1>2. task' = [task EXCEPT ![q] = [Idle EXCEPT !.at = "lock", !.guided = (guided # "posted")]]
  BY DEF Continue, Enqueue
<1>3. /\ task' \in [Requests -> Tasks]
      /\ \A p \in Requests : Holds(p) => task'[p] = task[p]
      /\ \A p \in Requests : ~Holds(p) =>
           /\ task'[p].at \in {"idle", "lock"} /\ task'[p].todo = {} /\ task'[p].made = {}
           /\ task'[p].found = {} /\ task'[p].missing = {} /\ ~task'[p].got
  <2>1. (guided # "posted") \in BOOLEAN
    OBVIOUS
  <2> QED
    BY <1>1, <1>2, <2>1, IdleFields, WaitingTask
<1>4. guided' \in {"none", "posted", "created", "waiting", "succeeded", "failed", "lost"}
  BY DEF Continue, IInv, TypesOK, TypeOK
<1>5. TypesOK'
  BY <1>1, <1>3, <1>4 DEF IInv, TypesOK, TypeOK, cloudVars
<1>6. StatusOK' /\ (Trusted' => Trusted)
  BY <1>1 DEF IInv, StatusOK, Trusted
<1> QED
  BY <1>1, <1>3, <1>5, <1>6, RowStep

LEMMA GivenUp ==
  ASSUME IInv, NEW q \in Requests, GiveUp(q)
  PROVE  IInv' /\ ForeignStep
<1>1. ~Holds(q) /\ UNCHANGED <<access, known, provided, unfounded, cloudVars, verifier, faults>>
  BY DEF GiveUp, Holds
<1>2. task' = [task EXCEPT ![q] = Idle]
  BY DEF GiveUp, Ends
<1>3. /\ task' \in [Requests -> Tasks]
      /\ \A p \in Requests : Holds(p) => task'[p] = task[p]
      /\ \A p \in Requests : ~Holds(p) =>
           /\ task'[p].at \in {"idle", "lock"} /\ task'[p].todo = {} /\ task'[p].made = {}
           /\ task'[p].found = {} /\ task'[p].missing = {} /\ ~task'[p].got
  BY <1>1, <1>2, IdleFields, WaitingTask
<1>4. guided' \in {"none", "posted", "created", "waiting", "succeeded", "failed", "lost"}
  BY DEF GiveUp, Ends, Broken, IInv, TypesOK, TypeOK
<1>5. TypesOK'
  BY <1>1, <1>3, <1>4 DEF IInv, TypesOK, TypeOK, cloudVars
<1>6. StatusOK' /\ (Trusted' => Trusted)
  BY <1>1 DEF IInv, StatusOK, Trusted
<1> QED
  BY <1>1, <1>3, <1>5, <1>6, RowStep

\* A verification takes no lock; its verdict counts for the revision it has read.
LEMMA Verified ==
  ASSUME IInv, VerifyRead \/ VerifyObserve \/ VerifyValid \/ VerifyInvalid
  PROVE  IInv' /\ ForeignStep
<1> USE DEF IInv
<1>1. UNCHANGED <<known, provided, cloudVars, remote, rules, neighbour, meddled, task, faults>>
  BY DEF VerifyRead, VerifyObserve, VerifyValid, VerifyInvalid, cloudVars, rowVars
<1>2. /\ access \in AccessRows /\ verifier \in Verifications /\ verifier.rev <= access.rev
      /\ guided \in {"none", "posted", "created", "waiting", "succeeded", "failed", "lost"}
      /\ {provided, unfounded} \subseteq BOOLEAN
  BY DEF TypesOK, TypeOK, AccessRows, StatusOK
<1> DEFINE Goal == /\ access' \in AccessRows /\ verifier' \in Verifications
                   /\ guided' \in {"none", "posted", "created", "waiting", "succeeded", "failed", "lost"}
                   /\ {provided, unfounded}' \subseteq BOOLEAN
                   /\ access'.method = access.method /\ access'.rev = access.rev
                   /\ access'.enabled = access.enabled
                   /\ access'.status = "disabled" => access.status = "disabled"
                   /\ Trusted' => Trusted \/ (Served /\ \A q \in Requests : ~Holds(q))
                   /\ StatusOK'
<1>3. NoVerification \in Verifications /\ NoVerification.at = "idle" /\ NoVerification.rev = 0
  BY DEF NoVerification, Verifications
<1>4. ASSUME VerifyRead PROVE Goal
  <2>1. /\ UNCHANGED <<access, guided, provided, unfounded>>
        /\ verifier' = [NoVerification EXCEPT !.at = "observing", !.rev = access.rev]
    BY <1>4 DEF VerifyRead, rowVars
  <2>2. access.rev \in Nat
    BY <1>2 DEF AccessRows
  <2>3. verifier' \in Verifications /\ verifier'.at = "observing" /\ verifier'.rev = access.rev
    BY <2>1, <2>2 DEF NoVerification, Verifications
  <2> QED
    BY <1>2, <2>1, <2>2, <2>3 DEF Trusted, StatusOK
<1>5. ASSUME VerifyObserve PROVE Goal
  <2>1. PICK v \in Observed : verifier' = [verifier EXCEPT !.at = "observed", !.valid = v]
    BY <1>5 DEF VerifyObserve
  <2>2. UNCHANGED <<access, guided, provided, unfounded>>
    BY <1>5 DEF VerifyObserve, rowVars
  <2>3. verifier' \in Verifications /\ verifier'.rev = verifier.rev
    BY <1>2, <2>1 DEF Verifications, Observed
  <2> QED
    BY <1>2, <2>2, <2>3 DEF StatusOK, Trusted
<1>6. ASSUME VerifyValid PROVE Goal
  <2>1. verifier' = NoVerification /\ verifier.at = "observed" /\ verifier.valid
    BY <1>6 DEF VerifyValid
  <2>2. CASE AsVerified /\ access.enabled
    <3>1. access' = [access EXCEPT !.status = "active"] /\ guided' = "succeeded" /\ unfounded' = ~provided
      BY <1>6, <2>2 DEF VerifyValid
    <3>2. /\ access' \in AccessRows /\ access'.method = access.method /\ access'.rev = access.rev
          /\ access'.enabled = access.enabled /\ access'.status = "active"
      BY <1>2, <3>1 DEF AccessRows
    <3>3. Trusted' => Trusted
      BY <1>1, <3>1 DEF Trusted
    <3>4. StatusOK' /\ {provided, unfounded}' \subseteq BOOLEAN
      BY <1>1, <1>2, <1>3, <2>1, <2>2, <3>1, <3>2 DEF StatusOK, AccessRows
    <3> QED
      BY <1>3, <2>1, <3>1, <3>2, <3>3, <3>4
  <2>3. CASE ~(AsVerified /\ access.enabled)
    <3>1. UNCHANGED <<access, guided, provided, unfounded>>
      BY <1>6, <2>3 DEF VerifyValid
    <3>2. StatusOK' /\ (Trusted' => Trusted)
      BY <1>2, <1>3, <2>1, <3>1 DEF StatusOK, Trusted, AccessRows
    <3> QED
      BY <1>2, <1>3, <2>1, <3>1, <3>2
  <2> QED
    BY <2>2, <2>3
<1>7. ASSUME VerifyInvalid PROVE Goal
  <2>1. verifier' = NoVerification /\ UNCHANGED <<provided, unfounded>>
    BY <1>7 DEF VerifyInvalid
  <2>2. /\ access' \in AccessRows /\ access'.method = access.method /\ access'.rev = access.rev
        /\ access'.enabled = access.enabled /\ access'.status \in {access.status, "failed"}
        /\ guided' \in {"none", "posted", "created", "waiting", "succeeded", "failed", "lost"}
    <3>1. CASE access' = access
      BY <1>2, <1>7, <3>1 DEF VerifyInvalid
    <3>2. CASE access' = [access EXCEPT !.status = "failed"]
      BY <1>2, <1>7, <3>2 DEF VerifyInvalid, AccessRows
    <3> QED
      BY <1>7, <3>1, <3>2 DEF VerifyInvalid
  <2>3. StatusOK' /\ (Trusted' => Trusted)
    BY <1>2, <1>3, <2>1, <2>2 DEF StatusOK, Trusted, AccessRows
  <2> QED
    BY <1>2, <1>3, <2>1, <2>2, <2>3
<1>8. Goal
  BY <1>4, <1>5, <1>6, <1>7
<1>9. TypesOK'
  BY <1>1, <1>8 DEF TypesOK, TypeOK, AccessRows
<1> HIDE DEF IInv
<1> QED
  BY <1>1, <1>8, <1>9, WaitingTasks, RowStep

LEMMA Stuttered ==
  ASSUME IInv, UNCHANGED vars
  PROVE  IInv' /\ ForeignStep
<1>1. /\ UNCHANGED <<known, cloudVars, task, access, provided, unfounded, verifier, guided, faults, remote, rules,
                     neighbour, meddled>>
  BY DEF vars, rowVars, cloudVars
<1>2. TypesOK' /\ StatusOK' /\ (Trusted' => Trusted)
  BY <1>1 DEF IInv, TypesOK, TypeOK, StatusOK, Trusted
<1> QED
  BY <1>1, <1>2, WaitingTasks, RowStep

-----------------------------------------------------------------------------
(* The lock, the neighbour, and what others do *)

\* The request that gets the lock finds nobody at the tunnel and has done nothing yet.
LEMMA Locked ==
  ASSUME IInv, NEW q \in Requests, Read(q)
  PROVE  IInv' /\ ForeignStep
<1> USE DEF IInv
<1>1. /\ ~Holds(q) /\ UNCHANGED <<access, known, guided, unfounded, cloudVars, verifier, faults>>
      /\ provided' = (provided /\ access.enabled)
      /\ UNCHANGED <<remote, rules, neighbour, meddled>>
      /\ \A p \in Requests : ~Holds(p)
      /\ Tunnel => ~neighbour.got
  BY DEF Read, LockFree, TunnelFree, Holds, rowVars, cloudVars
<1>2. PICK stage \in {"owned", "unfit"} :
        task' = [task EXCEPT ![q].at = stage, ![q].rev = access.rev, ![q].enabled = access.enabled,
                             ![q].todo = IF access.enabled THEN {} ELSE Owned]
  BY DEF Read
<1>3. /\ task \in [Requests -> Tasks] /\ task[q] \in Tasks /\ access.rev \in Nat
      /\ access.enabled \in BOOLEAN /\ Owned \in SUBSET Ids
      /\ task[q].made = {} /\ task[q].found = {} /\ task[q].missing = {} /\ ~task[q].got
  BY <1>1 DEF TypesOK, TypeOK, Owned, TaskOK
<1> DEFINE todo == IF access.enabled THEN {} ELSE Owned
           x == [task[q] EXCEPT !.at = stage, !.rev = access.rev, !.enabled = access.enabled,
                                !.todo = todo]
<1>4. task'[q] = x /\ \A p \in Requests \ {q} : task'[p] = task[p]
  BY <1>2, <1>3
<1>5. /\ task'[q] \in Tasks /\ task'[q].at = stage /\ task'[q].rev = access.rev
      /\ task'[q].enabled = access.enabled /\ task'[q].todo = (IF access.enabled THEN {} ELSE Owned)
      /\ task'[q].made = {} /\ task'[q].found = {} /\ task'[q].missing = {} /\ ~task'[q].got
  <2>1. todo \in SUBSET Ids /\ stage \in Stages
    BY <1>3 DEF Stages
  <2> HIDE DEF todo
  <2>2. x \in Tasks
    BY <1>3, <2>1 DEF Tasks
  <2>3. /\ x.at = stage /\ x.rev = access.rev /\ x.enabled = access.enabled /\ x.todo = todo
        /\ x.made = task[q].made /\ x.found = task[q].found /\ x.missing = task[q].missing
        /\ x.got = task[q].got
    BY <1>3 DEF Tasks
  <2> QED
    BY <1>3, <1>4, <2>2, <2>3 DEF todo
<1>6. TypesOK'
  <2>1. task' \in [Requests -> Tasks]
    BY <1>2, <1>3, <1>4, <1>5
  <2> QED
    BY <1>1, <2>1 DEF TypesOK, TypeOK
<1>7. /\ Holds(q)' /\ \A p \in Requests \ {q} : ~Holds(p)'
  BY <1>1, <1>4, <1>5 DEF Holds
<1>8. LockOK' /\ NeighbourKept'
  BY <1>1, <1>7 DEF LockOK, NeighbourKept, Tunnel
<1>9. IdsOK' /\ ForeignStep
  <2>1. ASSUME NEW r \in remote, r.mark = "theirs" PROVE r.id \notin task'[q].todo
    BY <1>3, <1>5, <2>1 DEF IdsOK, Owned
  <2> QED
    BY <1>1, <1>4, <1>5, <2>1 DEF IdsOK, ForeignStep
<1>10. UNCHANGED <<Marked, Desired, Tunnel, Served>>
  BY <1>1 DEF Marked, Desired, Tunnel, Served
<1>11. ASSUME NEW p \in Requests PROVE TaskOK(p)' /\ Disabling(p)' /\ Enabling(p)'
  <2>1. CASE p = q
    <3>1. TaskOK(q)'
      BY <1>1, <1>3, <1>5, <1>7 DEF TaskOK, Current
    <3>2. Disabling(q)'
      BY <1>5 DEF Disabling
    <3>3. Enabling(q)'
      BY <1>5 DEF Enabling
    <3> QED
      BY <2>1, <3>1, <3>2, <3>3
  <2>2. CASE p # q
    <3>1. task'[p] = task[p] /\ task[p].at \in {"idle", "lock"} /\ ~Holds(p)'
      BY <1>1, <1>4, <1>7, <2>2 DEF Holds
    <3> QED
      BY <1>1, <3>1 DEF TaskOK, Disabling, Enabling
  <2> QED
    BY <2>1, <2>2
<1>12. GoneOK' /\ StatusOK'
  BY <1>1, <1>5, <1>7, <1>10 DEF GoneOK, StatusOK
<1>13. ServedOK'
  <2> SUFFICES ASSUME Trusted, access.enabled, "access" \notin meddled
               PROVE  Served /\ \A p \in Requests : Harmless(p)'
    BY <1>1, <1>10 DEF ServedOK, Trusted, StatusOK
  <2>1. Served
    BY DEF ServedOK
  <2> QED
    BY <1>5, <1>7, <2>1 DEF Harmless
<1> QED
  BY <1>6, <1>8, <1>9, <1>11, <1>12, <1>13

\* The neighbour comes only when no request holds the lock.
LEMMA NeighbourStep ==
  ASSUME IInv, NeighbourGets \/ \E on \in BOOLEAN : NeighbourPuts(on)
  PROVE  IInv' /\ ForeignStep
<1> USE DEF IInv
<1>1. UNCHANGED <<access, known, guided, provided, unfounded, remote, meddled, task, verifier, faults>>
  BY DEF NeighbourGets, NeighbourPuts, rowVars
<1>2. /\ Tunnel /\ \A q \in Requests : ~Holds(q)
      /\ rules \in SUBSET {"own", "other"} /\ neighbour.on \in BOOLEAN
  BY DEF NeighbourGets, NeighbourPuts, LockOK, TypesOK, TypeOK
<1>3. /\ neighbour' \in [on : BOOLEAN, got : BOOLEAN, original : SUBSET {"own", "other"}]
      /\ rules' \in SUBSET {"own", "other"} /\ ("own" \in rules') = ("own" \in rules)
      /\ ("other" \in rules') = neighbour'.on
      /\ neighbour'.got => neighbour'.original = rules'
  <2>1. CASE NeighbourGets
    <3>1. neighbour' = [neighbour EXCEPT !.got = TRUE, !.original = rules] /\ rules' = rules
      BY <2>1 DEF NeighbourGets
    <3>2. neighbour \in [on : BOOLEAN, got : BOOLEAN, original : SUBSET {"own", "other"}]
      BY DEF TypesOK, TypeOK
    <3> QED
      BY <1>2, <3>1, <3>2 DEF NeighbourKept
  <2>2. ASSUME NEW on \in BOOLEAN, NeighbourPuts(on)
        PROVE  /\ neighbour' \in [on : BOOLEAN, got : BOOLEAN, original : SUBSET {"own", "other"}]
               /\ rules' \in SUBSET {"own", "other"} /\ ("own" \in rules') = ("own" \in rules)
               /\ ("other" \in rules') = neighbour'.on
               /\ neighbour'.got => neighbour'.original = rules'
    <3>1. neighbour.original = rules /\ neighbour' = [on |-> on, got |-> FALSE, original |-> {}]
      BY <2>2 DEF NeighbourPuts, LockOK
    <3>2. rules' = IF on THEN rules \cup {"other"} ELSE rules \ {"other"}
      BY <2>2, <3>1 DEF NeighbourPuts
    <3>3. rules' \in SUBSET {"own", "other"} /\ ("own" \in rules') = ("own" \in rules)
      BY <1>2, <3>2
    <3>4. ("other" \in rules') = on
      BY <3>2
    <3> QED
      BY <3>1, <3>3, <3>4
  <2> QED
    BY <2>1, <2>2
<1>4. TypesOK'
  BY <1>1, <1>3 DEF TypesOK, TypeOK
<1>5. \A q \in Requests : Holds(q)' = Holds(q)
  BY <1>1 DEF Holds
<1>6. UNCHANGED <<Marked, Desired, Tunnel>> /\ (Served' = Served)
  BY <1>1, <1>3 DEF Marked, Desired, Tunnel, Served
<1>7. LockOK' /\ NeighbourKept'
  BY <1>2, <1>3, <1>5, <1>6 DEF LockOK, NeighbourKept
<1>8. IdsOK' /\ ForeignStep
  BY <1>1 DEF IdsOK, ForeignStep
<1>9. \A q \in Requests : TaskOK(q)' /\ Disabling(q)' /\ Enabling(q)' /\ Harmless(q)'
  <2> SUFFICES ASSUME NEW q \in Requests PROVE TaskOK(q)' /\ Disabling(q)' /\ Enabling(q)' /\ Harmless(q)'
    OBVIOUS
  <2>1. ~Holds(q)' /\ task'[q] = task[q] /\ task[q].at \notin {"put", "undo", "fail"}
    BY <1>1, <1>2, <1>5 DEF Holds
  <2> QED
    BY <1>2, <2>1 DEF TaskOK, Disabling, Enabling, Harmless
<1>10. ServedOK'
  BY <1>1, <1>6, <1>9 DEF ServedOK, Trusted
<1>11. GoneOK' /\ StatusOK'
  BY <1>1, <1>2, <1>3, <1>5, <1>6 DEF GoneOK, StatusOK
<1> QED
  BY <1>4, <1>7, <1>8, <1>9, <1>10, <1>11

-----------------------------------------------------------------------------
(* What the steps of the request that holds the lock are made of *)

GuidedStages == {"none", "posted", "created", "waiting", "succeeded", "failed", "lost"}

LEMMA HolderTypes ==
  ASSUME IInv, NEW q \in Requests
  PROVE  /\ task \in [Requests -> Tasks] /\ task[q] \in Tasks
         /\ access \in AccessRows /\ access.rev \in Nat /\ access.enabled \in BOOLEAN
         /\ known \in [Ids -> {"none", "active", "cleanup_pending"}]
         /\ remote \in SUBSET Records /\ rules \in SUBSET {"own", "other"}
         /\ TaskOK(q) /\ Disabling(q) /\ Enabling(q) /\ guided \in GuidedStages
         /\ {provided, unfounded} \subseteq BOOLEAN
  BY DEF IInv, TypesOK, TypeOK, AccessRows, GuidedStages

LEMMA TypesStep ==
  ASSUME IInv, access' \in AccessRows,
         known' \in [Ids -> {"none", "active", "cleanup_pending"}], guided' \in GuidedStages,
         UNCHANGED <<provided, unfounded, neighbour, verifier>>, remote' \in SUBSET Records,
         rules' \in SUBSET {"own", "other"}, meddled' \subseteq meddled,
         faults' = faults \/ Fault, task' \in [Requests -> Tasks]
  PROVE  TypesOK'
<1>1. faults' \in 0..MaxFaults
  <2>1. faults \in 0..MaxFaults
    BY DEF IInv, TypesOK, TypeOK
  <2>2. CASE faults' = faults
    BY <2>1, <2>2
  <2>3. CASE Fault
    BY <2>1, <2>3 DEF Fault
  <2> QED
    BY <2>2, <2>3
<1>2. /\ meddled' \in SUBSET ({"access"} \cup Requests)
      /\ neighbour' \in [on : BOOLEAN, got : BOOLEAN, original : SUBSET {"own", "other"}]
      /\ verifier' \in Verifications
  BY DEF IInv, TypesOK, TypeOK
<1>3. {provided, unfounded}' \subseteq BOOLEAN
  BY DEF IInv, TypesOK, TypeOK
<1> QED
  BY <1>1, <1>2, <1>3 DEF TypesOK, TypeOK, AccessRows, GuidedStages

\* What was thrown leaves the request nothing to do but to undo what it has made.
LEMMA Thrown ==
  ASSUME task \in [Requests -> Tasks], NEW q \in Requests, NEW s \in BOOLEAN
  PROVE  /\ Throw(q, s) \in [Requests -> Tasks]
         /\ \A p \in Requests \ {q} : Throw(q, s)[p] = task[p]
         /\ Throw(q, s)[q].at = "undo" /\ Throw(q, s)[q].found = {} /\ Throw(q, s)[q].todo = {}
         /\ Throw(q, s)[q].missing = {} /\ Throw(q, s)[q].made = task[q].made
         /\ Throw(q, s)[q].rev = task[q].rev /\ Throw(q, s)[q].enabled = task[q].enabled
         /\ Throw(q, s)[q].got = task[q].got /\ Throw(q, s)[q].original = task[q].original
<1>1. task[q] \in Tasks
  OBVIOUS
<1> DEFINE x == [task[q] EXCEPT !.at = "undo", !.found = {}, !.clash = FALSE, !.todo = {},
                                !.missing = {}, !.superseded = s]
<1>2. /\ x \in Tasks /\ x.at = "undo" /\ x.found = {} /\ x.todo = {} /\ x.missing = {}
      /\ x.made = task[q].made /\ x.rev = task[q].rev /\ x.enabled = task[q].enabled
      /\ x.got = task[q].got /\ x.original = task[q].original
  BY <1>1 DEF Tasks, Stages
<1>3. Throw(q, s) = [task EXCEPT ![q] = x]
  BY DEF Throw
<1> HIDE DEF x
<1>4. Throw(q, s)[q] = x /\ (\A p \in Requests \ {q} : Throw(q, s)[p] = task[p])
  BY <1>3
<1>5. Throw(q, s) \in [Requests -> Tasks]
  BY <1>2, <1>3
<1> QED
  BY <1>2, <1>4, <1>5

\* Nothing or one record is deleted, and its row written or not.
LEMMA RecordsLost ==
  ASSUME IInv, NEW i \in Ids, \A r \in remote : r.mark = "theirs" => r.id # i,
         Forget(i) \/ UNCHANGED remote,
         known' \in [Ids -> {"none", "active", "cleanup_pending"}],
         \A j \in Ids : j # i => known'[j] = known[j]
  PROVE  RecordsKept /\ remote' \in SUBSET Records /\ Marked' \subseteq Marked
<1>1. remote \in SUBSET Records /\ IdsOK
  BY DEF IInv, TypesOK, TypeOK
<1>2. /\ remote' \subseteq remote /\ Marked' \subseteq Marked
      /\ \A r \in remote : r.mark = "theirs" => r \in remote'
  <2>1. CASE Forget(i)
    BY <2>1, RecordForgotten
  <2>2. CASE UNCHANGED remote
    BY <2>2 DEF Marked
  <2> QED
    BY <2>1, <2>2
<1>3. ForeignStep
  <2> SUFFICES ASSUME NEW r \in remote, r.mark = "theirs" PROVE known'[r.id] = "none"
    BY <1>2 DEF ForeignStep
  <2>1. r.id \in Ids /\ r.id # i /\ known[r.id] = "none"
    BY <1>1 DEF IdsOK, Records
  <2> QED
    BY <2>1
<1> QED
  BY <1>1, <1>2, <1>3 DEF RecordsKept, IdsOK

LEMMA RecordsMade ==
  ASSUME IInv, NEW q \in Requests, NEW t \in task[q].missing, NEW i \in Fresh,
         remote' = remote \cup {NewRecord(i, t)},
         known' \in [Ids -> {"none", "active", "cleanup_pending"}],
         \A j \in Ids : j # i => known'[j] = known[j]
  PROVE  RecordsKept /\ remote' \in SUBSET Records
<1>1. remote \in SUBSET Records /\ IdsOK /\ t \in Items
  BY DEF IInv, TypesOK, TypeOK, Tasks
<1>2. i \in Ids /\ \A r \in remote : r.id # i
  BY FreshId
<1>3. NewRecord(i, t) \in Records /\ NewRecord(i, t).id = i /\ NewRecord(i, t).mark = "ours"
  BY <1>1, <1>2 DEF NewRecord, Records
<1>4. remote' \in SUBSET Records
  BY <1>1, <1>3
<1>5. ForeignStep
  <2> SUFFICES ASSUME NEW r \in remote, r.mark = "theirs" PROVE known'[r.id] = "none"
    BY DEF ForeignStep
  <2>1. r.id \in Ids /\ r.id # i /\ known[r.id] = "none"
    BY <1>1, <1>2 DEF IdsOK, Records
  <2> QED
    BY <2>1
<1>6. \A r, s \in remote' : r.id = s.id => r = s
  BY <1>1, <1>2, <1>3 DEF IdsOK
<1> QED
  BY <1>3, <1>4, <1>5, <1>6 DEF RecordsKept

LEMMA RecordsSame ==
  ASSUME IInv, UNCHANGED <<remote, known>>
  PROVE  RecordsKept /\ remote' \in SUBSET Records /\ Marked' = Marked
         /\ known' \in [Ids -> {"none", "active", "cleanup_pending"}]
  BY DEF IInv, TypesOK, TypeOK, IdsOK, RecordsKept, ForeignStep, Marked

\* What is known to the request is not someone else's.
LEMMA OwnIds ==
  ASSUME IInv, NEW q \in Requests,
         NEW i \in task[q].made \cup task[q].todo \cup task[q].found
  PROVE  i \in Ids /\ \A r \in remote : r.mark = "theirs" => r.id # i
  BY DEF IInv, TypesOK, Tasks, IdsOK

\* A request that fails, is superseded or ends: it has only to leave what is left of
\* its records to others and, if it enables, what was served.
LEMMA BackOut ==
  ASSUME IInv, NEW q \in Requests, Holds(q), TypesOK', OthersKept(q), RecordsKept,
         task'[q].todo = {}, task'[q].found = {}, task'[q].missing = {},
         \/ task'[q].at = "idle" /\ task'[q].made = {} /\ ~task'[q].got
         \/ /\ task'[q].at \in {"undo", "fail"}
            /\ task'[q].rev = task[q].rev /\ task'[q].enabled = task[q].enabled
            /\ task'[q].got = task[q].got /\ task'[q].original = task[q].original,
         \A r \in remote : r.mark = "theirs" => r.id \notin task'[q].made,
         ~task[q].enabled => /\ task'[q].made = {} /\ Marked' \subseteq Marked
                             /\ "own" \in rules' => "own" \in rules,
         Served /\ Harmless(q) => Served' /\ task'[q].made = {}
  PROVE  IInv' /\ ForeignStep
<1>1. /\ TaskOK(q) /\ access'.rev = access.rev /\ access'.enabled = access.enabled
      /\ access'.method = access.method /\ ("other" \in rules') = ("other" \in rules)
  BY DEF IInv, OthersKept, SameRow
<1>2. CASE task'[q].at = "idle"
  <2>1. ~Holds(q)'
    BY <1>2 DEF Holds
  <2>2. TaskOK(q)' /\ Disabling(q)' /\ Enabling(q)' /\ Harmless(q)'
    BY <1>2, <2>1 DEF TaskOK, Disabling, Enabling, Harmless
  <2>3. Marked = {} /\ "own" \notin rules /\ ~task[q].enabled =>
           Marked' = {} /\ "own" \notin rules' /\ (Holds(q)' => ~task'[q].enabled)
    BY <2>1
  <2> QED
    BY <1>2, <2>2, <2>3, HolderStep
<1>3. CASE /\ task'[q].at \in {"undo", "fail"}
           /\ task'[q].rev = task[q].rev /\ task'[q].enabled = task[q].enabled
           /\ task'[q].got = task[q].got /\ task'[q].original = task[q].original
  <2>1. Holds(q)'
    BY <1>3 DEF Holds
  <2>2. TaskOK(q)'
    BY <1>1, <1>3, <2>1 DEF TaskOK, Current, Tunnel
  <2>3. Disabling(q)'
    BY <1>3 DEF Disabling
  <2>4. Enabling(q)'
    BY <1>3 DEF Enabling
  <2>5. Served /\ Harmless(q) => Served' /\ Harmless(q)'
    BY <1>3 DEF Harmless
  <2>6. Marked = {} /\ "own" \notin rules /\ ~task[q].enabled =>
           Marked' = {} /\ "own" \notin rules' /\ (Holds(q)' => ~task'[q].enabled)
    BY <1>3
  <2> QED
    BY <2>2, <2>3, <2>4, <2>5, <2>6, HolderStep
<1> QED
  BY <1>2, <1>3

-----------------------------------------------------------------------------
(* Requests that fail or are superseded *)

LEMMA Ended ==
  ASSUME IInv, NEW q \in Requests, NEW s \in GuidedStages, Ends(q, s)
  PROVE  /\ task' \in [Requests -> Tasks] /\ \A p \in Requests \ {q} : task'[p] = task[p]
         /\ task'[q].at = "idle" /\ task'[q].todo = {} /\ task'[q].found = {}
         /\ task'[q].missing = {} /\ task'[q].made = {} /\ ~task'[q].got
         /\ guided' \in GuidedStages
  BY IdleFields, HolderTypes DEF Ends

LEMMA BrokenStage == Broken \in GuidedStages
  BY DEF Broken, GuidedStages

\* Nothing at Cloudflare or in the records' rows changes: the task ends or is thrown.
LEMMA Failing ==
  ASSUME IInv, NEW q \in Requests, Holds(q),
         UNCHANGED <<known, provided, unfounded, cloudVars, verifier, faults>>,
         access' = access \/ SetStatus(q, "failed"),
         \/ Ends(q, Broken)
         \/ \E s \in BOOLEAN : task' = Throw(q, s) /\ guided' = guided
  PROVE  IInv' /\ ForeignStep
<1>1. UNCHANGED <<remote, rules, neighbour, meddled>>
  BY DEF cloudVars
<1>2. access \in AccessRows /\ guided \in GuidedStages
  BY HolderTypes
<1>3. access' \in AccessRows /\ SameRow
  <2>1. CASE access' = access
    BY <1>2, <2>1 DEF SameRow
  <2>2. CASE SetStatus(q, "failed")
    BY <1>2, <2>2, StatusSet DEF SameRow
  <2> QED
    BY <2>1, <2>2
<1> DEFINE Over ==
        /\ task' \in [Requests -> Tasks] /\ \A p \in Requests \ {q} : task'[p] = task[p]
        /\ task'[q].todo = {} /\ task'[q].found = {} /\ task'[q].missing = {}
        /\ \/ task'[q].at = "idle" /\ task'[q].made = {} /\ ~task'[q].got
           \/ /\ task'[q].at \in {"undo", "fail"}
              /\ task'[q].rev = task[q].rev /\ task'[q].enabled = task[q].enabled
              /\ task'[q].got = task[q].got /\ task'[q].original = task[q].original
              /\ task'[q].made = task[q].made
        /\ guided' \in GuidedStages
<1>4. Over
  <2>1. CASE Ends(q, Broken)
    BY <2>1, BrokenStage, Ended
  <2>2. ASSUME NEW s \in BOOLEAN, task' = Throw(q, s) /\ guided' = guided
        PROVE  Over
    BY <1>2, <2>2, HolderTypes, Thrown
  <2> QED
    BY <2>1, <2>2
<1>5. RecordsKept /\ remote' \in SUBSET Records /\ Marked' = Marked
      /\ known' \in [Ids -> {"none", "active", "cleanup_pending"}] /\ rules' \in SUBSET {"own", "other"}
  BY <1>1, RecordsSame, HolderTypes
<1>6. TypesOK'
  BY <1>1, <1>3, <1>4, <1>5, TypesStep
<1>7. OthersKept(q)
  BY <1>1, <1>3, <1>4 DEF OthersKept
<1>8. \A r \in remote : r.mark = "theirs" => r.id \notin task'[q].made
  BY <1>4, OwnIds
<1>9. Disabling(q) /\ Served' = Served
  BY <1>1, <1>3, <1>5, HolderTypes DEF Served, Desired, Tunnel, SameRow
<1>10. ~task[q].enabled => /\ task'[q].made = {} /\ Marked' \subseteq Marked
                           /\ "own" \in rules' => "own" \in rules
  BY <1>1, <1>4, <1>5, <1>9 DEF Disabling
<1>11. Served /\ Harmless(q) => Served' /\ task'[q].made = {}
  BY <1>4, <1>9 DEF Harmless
<1> QED
  BY <1>4, <1>5, <1>6, <1>7, <1>8, <1>10, <1>11, BackOut

LEMMA FailingSteps ==
  ASSUME IInv, NEW q \in Requests, Unfit(q) \/ Clash(q) \/ Fail(q)
  PROVE  IInv' /\ ForeignStep
<1>1. CASE Unfit(q)
  <2>1. Holds(q)
    BY <1>1 DEF Unfit, Holds
  <2> QED
    BY <1>1, <2>1, Failing DEF Unfit
<1>2. CASE Clash(q)
  <2>1. Holds(q) /\ task' = Throw(q, FALSE)
    BY <1>2 DEF Clash, Holds
  <2>2. UNCHANGED <<access, known, guided, provided, unfounded, cloudVars, verifier, faults>>
    BY <1>2 DEF Clash, rowVars
  <2> QED
    BY <2>1, <2>2, Failing
<1>3. CASE Fail(q)
  <2>1. Holds(q)
    BY <1>3 DEF Fail, Holds
  <2>2. access' = access \/ SetStatus(q, "failed")
    BY <1>3 DEF Fail
  <2>3. Ends(q, Broken) /\ UNCHANGED <<known, provided, unfounded, cloudVars, verifier, faults>>
    BY <1>3 DEF Fail
  <2> QED
    BY <2>1, <2>2, <2>3, Failing
<1> QED
  BY <1>1, <1>2, <1>3

\* The deletion of a record on one's lists, with an effect or not, ends the request;
\* a record that is as it was made is deleted only by a request that disables or
\* that has made it.
LEMMA Losing ==
  ASSUME IInv, NEW q \in Requests, Holds(q), NEW i \in task[q].made \cup task[q].todo \cup task[q].found,
         UNCHANGED <<access, guided, provided, unfounded, rules, neighbour, meddled, verifier>>,
         faults' = faults \/ Fault, Forget(i) \/ UNCHANGED remote,
         (\E s \in {"none", "active", "cleanup_pending"} : Note(q, i, s)) \/ UNCHANGED known,
         task' \in [Requests -> Tasks], \A p \in Requests \ {q} : task'[p] = task[p],
         task'[q].at = "undo", task'[q].todo = {}, task'[q].found = {}, task'[q].missing = {},
         task'[q].rev = task[q].rev, task'[q].enabled = task[q].enabled,
         task'[q].got = task[q].got, task'[q].original = task[q].original,
         task'[q].made \subseteq task[q].made,
         remote' = remote \/ i \in task[q].made \cup task[q].todo
  PROVE  IInv' /\ ForeignStep
<1>1. i \in Ids /\ \A r \in remote : r.mark = "theirs" => r.id # i
  BY OwnIds
<1>2. known' \in [Ids -> {"none", "active", "cleanup_pending"}] /\ \A j \in Ids : j # i => known'[j] = known[j]
  <2>1. known \in [Ids -> {"none", "active", "cleanup_pending"}]
    BY HolderTypes
  <2> QED
    BY <1>1, <2>1, RowNoted
<1>3. RecordsKept /\ remote' \in SUBSET Records /\ Marked' \subseteq Marked
  BY <1>1, <1>2, RecordsLost
<1>4. /\ access \in AccessRows /\ rules \in SUBSET {"own", "other"} /\ guided \in GuidedStages
      /\ Disabling(q) /\ Enabling(q)
  BY HolderTypes
<1>5. TypesOK'
  BY <1>2, <1>3, <1>4, TypesStep
<1>6. OthersKept(q)
  BY DEF OthersKept, SameRow
<1>7. \A r \in remote : r.mark = "theirs" => r.id \notin task'[q].made
  BY OwnIds
<1>8. ~task[q].enabled => /\ task'[q].made = {} /\ Marked' \subseteq Marked
                          /\ "own" \in rules' => "own" \in rules
  BY <1>3, <1>4 DEF Disabling
<1>9. ASSUME Served, Harmless(q) PROVE Served' /\ task'[q].made = {}
  <2>1. task[q].made = {} /\ task[q].enabled
    BY <1>9 DEF Harmless
  <2>2. Marked' = Marked
    <3>1. CASE remote' = remote
      BY <3>1 DEF Marked
    <3>2. CASE Forget(i) /\ i \in task[q].todo
      <4>1. i \notin IdsOf(Marked)
        BY <1>4, <2>1, <3>2 DEF Enabling
      <4>2. \A r \in Marked : r.id # i
        BY <4>1 DEF IdsOf
      <4>3. Marked' \subseteq Marked /\ \A r \in Marked : r.id # i => r \in Marked'
        BY <3>2, RecordForgotten
      <4> QED
        BY <4>2, <4>3
    <3> QED
      BY <2>1, <3>1, <3>2
  <2> QED
    BY <1>9, <2>1, <2>2 DEF Served, Desired, Tunnel
<1> QED
  BY <1>3, <1>5, <1>6, <1>7, <1>8, <1>9, BackOut

LEMMA OneTask ==
  ASSUME task \in [Requests -> Tasks], NEW q \in Requests, NEW x \in Tasks,
         task' = [task EXCEPT ![q] = x]
  PROVE  /\ task' \in [Requests -> Tasks] /\ task'[q] = x
         /\ \A p \in Requests \ {q} : task'[p] = task[p]
  OBVIOUS

LEMMA Undone ==
  ASSUME IInv, NEW q \in Requests, Undo(q) \/ UndoFails(q)
  PROVE  IInv' /\ ForeignStep
<1>1. /\ Holds(q) /\ task[q].at = "undo"
      /\ UNCHANGED <<access, guided, provided, unfounded, rules, neighbour, meddled, verifier>>
      /\ faults' = faults \/ Fault
  BY DEF Undo, UndoFails, Holds
<1>2. PICK i \in task[q].made :
        /\ Forget(i) \/ UNCHANGED remote
        /\ (\E s \in {"none", "active", "cleanup_pending"} : Note(q, i, s)) \/ UNCHANGED known
        /\ task' = [task EXCEPT ![q].made = @ \ {i}]
  <2>1. CASE Undo(q)
    BY <2>1 DEF Undo
  <2>2. CASE UndoFails(q)
    BY <2>2 DEF UndoFails
  <2> QED
    BY <2>1, <2>2
<1>3. task \in [Requests -> Tasks] /\ task[q] \in Tasks /\ TaskOK(q)
  BY HolderTypes
<1> DEFINE x == [task[q] EXCEPT !.made = @ \ {i}]
<1>4. task' = [task EXCEPT ![q] = x]
  BY <1>2, <1>3
<1>5. /\ x \in Tasks /\ x.made \subseteq task[q].made /\ x.at = task[q].at
      /\ x.found = task[q].found /\ x.todo = task[q].todo /\ x.missing = task[q].missing
      /\ x.rev = task[q].rev /\ x.enabled = task[q].enabled /\ x.got = task[q].got
      /\ x.original = task[q].original
  BY <1>3 DEF Tasks
<1> HIDE DEF x
<1>6. /\ task' \in [Requests -> Tasks] /\ task'[q] = x
      /\ \A p \in Requests \ {q} : task'[p] = task[p]
  BY <1>3, <1>4, <1>5, OneTask
<1>7. task[q].found = {} /\ task[q].todo = {} /\ task[q].missing = {}
  BY <1>1, <1>3 DEF TaskOK
<1> QED
  BY <1>1, <1>2, <1>5, <1>6, <1>7, Losing

\* A call to delete that fails, or finds the row changed.
LEMMA DropGivenUp ==
  ASSUME IInv, NEW q \in Requests, DropFails(q) \/ (Drop(q) /\ ~Current(q)) \/ (Adopt(q) /\ ~Current(q))
  PROVE  IInv' /\ ForeignStep
<1>1. /\ Holds(q) /\ UNCHANGED <<access, guided, provided, unfounded, rules, neighbour, meddled, verifier>>
      /\ faults' = faults \/ Fault
  BY DEF DropFails, Drop, Adopt, Dropping, Holds, cloudVars
<1>2. \E i \in task[q].made \cup task[q].todo \cup task[q].found :
        /\ Forget(i) \/ UNCHANGED remote
        /\ remote' = remote \/ i \in task[q].made \cup task[q].todo
        /\ (\E s \in {"none", "active", "cleanup_pending"} : Note(q, i, s)) \/ UNCHANGED known
  BY DEF DropFails, Drop, Adopt, cloudVars
<1>3. PICK s \in BOOLEAN : task' = Throw(q, s)
  BY DEF DropFails, Drop, Adopt
<1>4. task \in [Requests -> Tasks]
  BY HolderTypes
<1>5. /\ task' \in [Requests -> Tasks] /\ \A p \in Requests \ {q} : task'[p] = task[p]
      /\ task'[q].at = "undo" /\ task'[q].found = {} /\ task'[q].todo = {}
      /\ task'[q].missing = {} /\ task'[q].made = task[q].made
      /\ task'[q].rev = task[q].rev /\ task'[q].enabled = task[q].enabled
      /\ task'[q].got = task[q].got /\ task'[q].original = task[q].original
  BY <1>3, <1>4, Thrown
<1> QED
  BY <1>1, <1>2, <1>5, Losing

-----------------------------------------------------------------------------
(* The tunnel's configuration *)

LEMMA IngressRules ==
  ASSUME IInv, NEW q \in Requests, task[q].got
  PROVE  /\ Tunnel /\ Ingress(q) \in SUBSET {"own", "other"}
         /\ task[q].original \in SUBSET {"own", "other"}
         /\ ("other" \in task[q].original) = ("other" \in rules)
         /\ ("other" \in Ingress(q)) = ("other" \in rules)
         /\ ("own" \in Ingress(q)) = task[q].enabled
<1>1. task[q].original \in SUBSET {"own", "other"} /\ task[q].enabled \in BOOLEAN /\ TaskOK(q)
  BY HolderTypes DEF Tasks
<1>2. Tunnel /\ (("other" \in task[q].original) = ("other" \in rules))
  BY <1>1 DEF TaskOK
<1>3. CASE task[q].enabled
  <2>1. Ingress(q) = task[q].original \cup {"own"}
    BY <1>3 DEF Ingress
  <2>2. Ingress(q) \in SUBSET {"own", "other"} /\ "own" \in Ingress(q)
    BY <1>1, <2>1
  <2>3. ("other" \in Ingress(q)) = ("other" \in task[q].original)
    BY <2>1
  <2> QED
    BY <1>1, <1>2, <1>3, <2>2, <2>3
<1>4. CASE ~task[q].enabled
  <2>1. Ingress(q) = task[q].original \ {"own"}
    BY <1>4 DEF Ingress
  <2>2. Ingress(q) \in SUBSET {"own", "other"} /\ "own" \notin Ingress(q)
    BY <1>1, <2>1
  <2>3. ("other" \in Ingress(q)) = ("other" \in task[q].original)
    BY <2>1
  <2> QED
    BY <1>1, <1>2, <1>4, <2>2, <2>3
<1> QED
  BY <1>3, <1>4

\* The configuration is put, with or without an answer, or put back as it was; then
\* the request gives up.
LEMMA ConfigGivenUp ==
  ASSUME IInv, NEW q \in Requests, PutFails(q) \/ RestoreConfig(q)
  PROVE  IInv' /\ ForeignStep
<1>1. /\ Holds(q) /\ UNCHANGED <<access, known, guided, provided, unfounded, remote, neighbour, meddled, verifier>>
      /\ faults' = faults \/ Fault
  BY DEF PutFails, RestoreConfig, Holds, rowVars
<1>2. /\ task \in [Requests -> Tasks] /\ task[q] \in Tasks /\ rules \in SUBSET {"own", "other"}
      /\ access \in AccessRows /\ guided \in GuidedStages /\ TaskOK(q) /\ Disabling(q)
  BY HolderTypes
<1>3. task[q].got
  BY <1>2 DEF PutFails, RestoreConfig, Restores, TaskOK
<1>4. /\ task' \in [Requests -> Tasks] /\ \A p \in Requests \ {q} : task'[p] = task[p]
      /\ task'[q].at \in {"undo", "fail"} /\ task'[q].found = {} /\ task'[q].todo = {}
      /\ task'[q].missing = {} /\ task'[q].made = task[q].made
      /\ task'[q].rev = task[q].rev /\ task'[q].enabled = task[q].enabled
      /\ task'[q].got = task[q].got /\ task'[q].original = task[q].original
  <2>1. CASE PutFails(q)
    <3>1. task' = Throw(q, FALSE)
      BY <2>1 DEF PutFails
    <3>2. task \in [Requests -> Tasks]
      BY <1>2
    <3> QED
      BY <3>1, <3>2, Thrown
  <2>2. CASE RestoreConfig(q)
    <3> DEFINE x == [task[q] EXCEPT !.at = "fail"]
    <3>1. task' = [task EXCEPT ![q] = x]
      BY <1>2, <2>2 DEF RestoreConfig
    <3>2. /\ x \in Tasks /\ x.made = task[q].made /\ x.at = "fail"
          /\ x.found = task[q].found /\ x.todo = task[q].todo /\ x.missing = task[q].missing
          /\ x.rev = task[q].rev /\ x.enabled = task[q].enabled /\ x.got = task[q].got
          /\ x.original = task[q].original
      BY <1>2 DEF Tasks, Stages
    <3> HIDE DEF x
    <3>3. task' \in [Requests -> Tasks] /\ task'[q] = x /\ \A p \in Requests \ {q} : task'[p] = task[p]
      BY <1>2, <3>1, <3>2, OneTask
    <3>4. task[q].found = {} /\ task[q].todo = {} /\ task[q].missing = {}
      BY <1>2, <2>2 DEF RestoreConfig, TaskOK
    <3> QED
      BY <3>2, <3>3, <3>4
  <2> QED
    BY <2>1, <2>2
<1>5. /\ Tunnel /\ rules' \in SUBSET {"own", "other"} /\ ("other" \in rules') = ("other" \in rules)
      /\ ~task[q].enabled => ("own" \in rules' => "own" \in rules)
      /\ "own" \in rules /\ Harmless(q) => "own" \in rules'
  <2>1. CASE rules' = rules
    BY <1>2, <1>3, <2>1, IngressRules
  <2>2. CASE PutFails(q) /\ rules' = Ingress(q)
    <3>1. Harmless(q) => task[q].enabled
      BY <1>1 DEF Harmless
    <3> QED
      BY <1>3, <2>2, <3>1, IngressRules
  <2>3. CASE RestoreConfig(q) /\ rules' = task[q].original
    <3>1. task[q].enabled /\ (Harmless(q) => "own" \in task[q].original)
      BY <1>1, <1>3, <2>3 DEF RestoreConfig, Restores, Harmless
    <3> QED
      BY <1>3, <2>3, <3>1, IngressRules
  <2> QED
    BY <2>1, <2>2, <2>3 DEF PutFails, RestoreConfig
<1>6. RecordsKept /\ remote' \in SUBSET Records /\ Marked' = Marked
      /\ known' \in [Ids -> {"none", "active", "cleanup_pending"}]
  BY <1>1, RecordsSame
<1>7. TypesOK'
  BY <1>1, <1>2, <1>4, <1>5, <1>6, TypesStep
<1>8. OthersKept(q)
  BY <1>1, <1>4, <1>5 DEF OthersKept, SameRow
<1>9. \A r \in remote : r.mark = "theirs" => r.id \notin task'[q].made
  BY <1>4, OwnIds
<1>10. ~task[q].enabled => /\ task'[q].made = {} /\ Marked' \subseteq Marked
                           /\ "own" \in rules' => "own" \in rules
  BY <1>1, <1>2, <1>4, <1>5, <1>6 DEF Disabling
<1>11. ASSUME Served, Harmless(q) PROVE Served' /\ task'[q].made = {}
  <2>1. task[q].made = {}
    BY <1>1, <1>11 DEF Harmless
  <2>2. Served'
    BY <1>1, <1>5, <1>6, <1>11 DEF Served, Desired, Tunnel
  <2> QED
    BY <1>4, <2>1, <2>2
<1> QED
  BY <1>1, <1>4, <1>6, <1>7, <1>8, <1>9, <1>10, <1>11, BackOut

LEMMA ConfigPut ==
  ASSUME IInv, NEW q \in Requests, PutConfig(q)
  PROVE  IInv' /\ ForeignStep
<1>1. /\ Holds(q) /\ task[q].at = "put" /\ rules' = Ingress(q)
      /\ UNCHANGED <<access, known, guided, provided, unfounded, remote, neighbour, meddled, verifier, faults>>
  BY DEF PutConfig, Holds, rowVars
<1>2. /\ task \in [Requests -> Tasks] /\ task[q] \in Tasks
      /\ access \in AccessRows /\ guided \in GuidedStages
      /\ TaskOK(q) /\ Disabling(q) /\ Enabling(q)
  BY HolderTypes
<1>3. /\ task[q].got /\ Tunnel /\ rules' \in SUBSET {"own", "other"}
      /\ ("other" \in rules') = ("other" \in rules) /\ ("own" \in rules') = task[q].enabled
  BY <1>1, <1>2, IngressRules DEF TaskOK
<1> DEFINE x == [task[q] EXCEPT !.at = "create"]
<1>4. task' = [task EXCEPT ![q] = x]
  BY <1>2 DEF PutConfig
<1>5. /\ x \in Tasks /\ x.made = task[q].made /\ x.at = "create"
      /\ x.found = task[q].found /\ x.todo = task[q].todo /\ x.missing = task[q].missing
      /\ x.rev = task[q].rev /\ x.enabled = task[q].enabled /\ x.got = task[q].got
      /\ x.original = task[q].original
  BY <1>2 DEF Tasks, Stages
<1> HIDE DEF x
<1>6. task' \in [Requests -> Tasks] /\ task'[q] = x /\ \A p \in Requests \ {q} : task'[p] = task[p]
  BY <1>2, <1>4, <1>5, OneTask
<1>7. RecordsKept /\ remote' \in SUBSET Records /\ Marked' = Marked
      /\ known' \in [Ids -> {"none", "active", "cleanup_pending"}]
  BY <1>1, RecordsSame
<1>8. TypesOK'
  BY <1>1, <1>2, <1>3, <1>6, <1>7, TypesStep
<1>9. OthersKept(q)
  BY <1>1, <1>3, <1>6 DEF OthersKept, SameRow
<1>10. \A r \in remote : r.mark = "theirs" =>
          r.id \notin task'[q].made \cup task'[q].todo \cup task'[q].found
  BY <1>5, <1>6, OwnIds
<1>11. TaskOK(q)'
  BY <1>1, <1>2, <1>3, <1>5, <1>6 DEF TaskOK, Holds, Current, Tunnel
<1>12. Disabling(q)'
  BY <1>1, <1>2, <1>3, <1>5, <1>6, <1>7 DEF Disabling
<1>13. Enabling(q)'
  BY <1>1, <1>2, <1>3, <1>5, <1>6, <1>7 DEF Enabling, Desired, Tunnel
<1>14. Marked = {} /\ "own" \notin rules /\ ~task[q].enabled =>
         Marked' = {} /\ "own" \notin rules' /\ (Holds(q)' => ~task'[q].enabled)
  BY <1>3, <1>5, <1>6, <1>7
<1>15. ASSUME Served, Harmless(q) PROVE Served' /\ Harmless(q)'
  <2>1. task[q].enabled
    BY <1>1, <1>15 DEF Harmless
  <2>2. Served'
    BY <1>1, <1>3, <1>7, <1>15, <2>1 DEF Served, Desired, Tunnel
  <2>3. Harmless(q)'
    BY <1>1, <1>5, <1>6, <1>15 DEF Harmless
  <2> QED
    BY <2>2, <2>3
<1> QED
  BY <1>1, <1>7, <1>8, <1>9, <1>10, <1>11, <1>12, <1>13, <1>14, <1>15, HolderStep

LEMMA ConfigGot ==
  ASSUME IInv, NEW q \in Requests, GetConfig(q)
  PROVE  IInv' /\ ForeignStep
<1>1. /\ Holds(q) /\ task[q].at = "records" /\ task[q].found = {} /\ task[q].todo = {}
      /\ UNCHANGED <<access, known, guided, provided, unfounded, remote, rules, neighbour, meddled, verifier, faults>>
  BY DEF GetConfig, Holds, rowVars, cloudVars
<1>2. /\ task \in [Requests -> Tasks] /\ task[q] \in Tasks /\ rules \in SUBSET {"own", "other"}
      /\ access \in AccessRows /\ guided \in GuidedStages
      /\ TaskOK(q) /\ Disabling(q) /\ Enabling(q) /\ GoneOK
  BY HolderTypes DEF IInv
<1> DEFINE x == IF Tunnel THEN [task[q] EXCEPT !.at = "put", !.got = TRUE, !.original = rules]
                          ELSE [task[q] EXCEPT !.at = "create"]
<1>3. task' = [task EXCEPT ![q] = x]
  BY <1>2 DEF GetConfig
<1>4. /\ x \in Tasks /\ x.made = task[q].made /\ x.found = task[q].found /\ x.todo = task[q].todo
      /\ x.missing = task[q].missing /\ x.rev = task[q].rev /\ x.enabled = task[q].enabled
      /\ Tunnel => x.at = "put" /\ x.got /\ x.original = rules
      /\ ~Tunnel => x.at = "create" /\ x.got = task[q].got /\ x.original = task[q].original
  BY <1>2 DEF Tasks, Stages
<1> HIDE DEF x
<1>5. task' \in [Requests -> Tasks] /\ task'[q] = x /\ \A p \in Requests \ {q} : task'[p] = task[p]
  BY <1>2, <1>3, <1>4, OneTask
<1>6. RecordsKept /\ remote' \in SUBSET Records /\ Marked' = Marked
      /\ known' \in [Ids -> {"none", "active", "cleanup_pending"}]
  BY <1>1, RecordsSame
<1>7. TypesOK'
  BY <1>1, <1>2, <1>5, <1>6, TypesStep
<1>8. OthersKept(q)
  BY <1>1, <1>5 DEF OthersKept, SameRow
<1>9. \A r \in remote : r.mark = "theirs" =>
          r.id \notin task'[q].made \cup task'[q].todo \cup task'[q].found
  BY <1>4, <1>5, OwnIds
<1>10. TaskOK(q)'
  <2>1. ~task[q].got \/ Tunnel
    BY <1>2 DEF TaskOK
  <2> QED
    BY <1>1, <1>2, <1>4, <1>5, <2>1 DEF TaskOK, Holds, Current, Tunnel
<1>11. Disabling(q)'
  <2> SUFFICES ASSUME ~task[q].enabled
               PROVE  /\ x.made = {} /\ x.missing = {} /\ x.at \in {"put", "create"}
                      /\ Marked' = {} /\ (x.at = "create" => "own" \notin rules')
    BY <1>4, <1>5 DEF Disabling
  <2>1. IdsOf(Marked) = {}
    BY <1>1, <1>2 DEF Disabling
  <2>2. Marked = {}
    BY <2>1 DEF IdsOf
  <2> QED
    BY <1>1, <1>2, <1>4, <1>6, <2>2 DEF Disabling, GoneOK
<1>12. Enabling(q)'
  BY <1>1, <1>2, <1>4, <1>5, <1>6 DEF Enabling, Desired, Tunnel
<1>13. Marked = {} /\ "own" \notin rules /\ ~task[q].enabled =>
         Marked' = {} /\ "own" \notin rules' /\ (Holds(q)' => ~task'[q].enabled)
  BY <1>1, <1>4, <1>5, <1>6
<1>14. ASSUME Served, Harmless(q) PROVE Served' /\ Harmless(q)'
  <2>1. Served'
    BY <1>1, <1>6, <1>14 DEF Served, Desired, Tunnel
  <2>2. Harmless(q)'
    BY <1>1, <1>4, <1>5, <1>14 DEF Harmless, Served
  <2> QED
    BY <2>1, <2>2
<1> QED
  BY <1>1, <1>6, <1>7, <1>8, <1>9, <1>10, <1>11, <1>12, <1>13, <1>14, HolderStep

-----------------------------------------------------------------------------
(* The records *)

\* The list shows every record with the access's marker; a later change by others is
\* remembered.
LEMMA RecordsListed ==
  ASSUME IInv, NEW q \in Requests, List(q)
  PROVE  IInv' /\ ForeignStep
<1>1. /\ Holds(q) /\ task[q].at = "owned" /\ task[q].todo = {} /\ meddled' = meddled \ {q}
      /\ UNCHANGED <<access, known, guided, provided, unfounded, remote, rules, neighbour, verifier, faults>>
  BY DEF List, Holds, rowVars
<1>2. /\ task \in [Requests -> Tasks] /\ task[q] \in Tasks /\ rules \in SUBSET {"own", "other"}
      /\ access \in AccessRows /\ guided \in GuidedStages
      /\ TaskOK(q) /\ Disabling(q) /\ Enabling(q) /\ remote \in SUBSET Records /\ IdsOK
  BY HolderTypes DEF IInv
<1> DEFINE e == task[q].enabled
           found == IF e THEN Found \ Owned ELSE Found
           clash == e /\ \E r \in remote : /\ \E t \in Desired : TypeOf(r.item) = TypeOf(t)
                                           /\ r.id \notin Found \cup Owned
           todo == IF e THEN Owned \ Found ELSE {}
           missing == IF e THEN {t \in Desired : \A r \in Marked : r.item # t} ELSE {}
           x == [task[q] EXCEPT !.at = "records", !.found = found, !.clash = clash,
                                !.todo = todo, !.missing = missing]
<1>3. task' = [task EXCEPT ![q] = x]
  BY <1>2 DEF List
<1>4. /\ Found \in SUBSET Ids /\ Owned \in SUBSET Ids /\ Desired \in SUBSET Items
      /\ found \in SUBSET Ids /\ todo \in SUBSET Ids /\ missing \in SUBSET Items
  BY <1>2 DEF Found, Owned, Desired, Items, IdsOf, Marked, Records
<1>5. clash \in BOOLEAN
  <2>1. e \in BOOLEAN
    BY <1>2 DEF Tasks
  <2> QED
    BY <2>1
<1>6. \A r \in remote : r.mark = "theirs" => r.id \notin found \cup todo
  <2> SUFFICES ASSUME NEW r \in remote, r.mark = "theirs" PROVE r.id \notin Found \cup Owned
    OBVIOUS
  <2>1. r.id \notin Owned
    BY <1>2 DEF IdsOK, Owned
  <2>2. r.id \notin Found
    BY <1>2 DEF IdsOK, Found, IdsOf, Marked
  <2> QED
    BY <2>1, <2>2
<1>7. /\ e => todo \cap IdsOf(Marked) = {} /\ \A t \in Desired \ missing : \E r \in Marked : r.item = t
      /\ ~e => missing = {} /\ IdsOf(Marked) \subseteq found
      /\ Served => missing = {}
  BY DEF Found, Served
<1> HIDE DEF e, found, clash, todo, missing
<1>8. /\ x \in Tasks /\ x.at = "records" /\ x.made = task[q].made /\ x.found = found
      /\ x.todo = todo /\ x.missing = missing /\ x.rev = task[q].rev /\ x.enabled = task[q].enabled
      /\ x.got = task[q].got /\ x.original = task[q].original
  BY <1>2, <1>4, <1>5 DEF Tasks, Stages
<1> HIDE DEF x
<1>9. task' \in [Requests -> Tasks] /\ task'[q] = x /\ \A p \in Requests \ {q} : task'[p] = task[p]
  BY <1>2, <1>3, <1>8, OneTask
<1>10. RecordsKept /\ remote' \in SUBSET Records /\ Marked' = Marked
      /\ known' \in [Ids -> {"none", "active", "cleanup_pending"}]
  BY <1>1, RecordsSame
<1>11. TypesOK'
  BY <1>1, <1>2, <1>9, <1>10, TypesStep
<1>12. OthersKept(q)
  BY <1>1, <1>9 DEF OthersKept, SameRow
<1>13. \A r \in remote : r.mark = "theirs" =>
          r.id \notin task'[q].made \cup task'[q].todo \cup task'[q].found
  BY <1>6, <1>8, <1>9, OwnIds
<1>14. TaskOK(q)'
  BY <1>1, <1>2, <1>8, <1>9 DEF TaskOK, Holds, Current, Tunnel
<1>15. Disabling(q)'
  BY <1>1, <1>2, <1>7, <1>8, <1>9, <1>10 DEF Disabling, e
<1>16. Enabling(q)'
  BY <1>1, <1>7, <1>8, <1>9, <1>10 DEF Enabling, Desired, Tunnel, e
<1>17. Marked = {} /\ "own" \notin rules /\ ~task[q].enabled =>
         Marked' = {} /\ "own" \notin rules' /\ (Holds(q)' => ~task'[q].enabled)
  BY <1>1, <1>8, <1>9, <1>10
<1>18. ASSUME Served, Harmless(q) PROVE Served' /\ Harmless(q)'
  <2>1. Served'
    BY <1>1, <1>10, <1>18 DEF Served, Desired, Tunnel
  <2>2. Harmless(q)'
    BY <1>1, <1>7, <1>8, <1>9, <1>18 DEF Harmless
  <2> QED
    BY <2>1, <2>2
<1> QED
  BY <1>1, <1>10, <1>11, <1>12, <1>13, <1>14, <1>15, <1>16, <1>17, <1>18, HolderStep

LEMMA Adopted ==
  ASSUME IInv, NEW q \in Requests, Adopt(q), Current(q)
  PROVE  IInv' /\ ForeignStep
<1>1. /\ Holds(q) /\ task[q].at = "records" /\ (task[q].enabled \/ task[q].todo = {})
      /\ UNCHANGED <<access, guided, provided, unfounded, remote, rules, neighbour, meddled, verifier, faults>>
  BY DEF Adopt, Holds, cloudVars
<1>2. /\ task \in [Requests -> Tasks] /\ task[q] \in Tasks /\ rules \in SUBSET {"own", "other"}
      /\ access \in AccessRows /\ guided \in GuidedStages
      /\ TaskOK(q) /\ Disabling(q) /\ Enabling(q)
      /\ known \in [Ids -> {"none", "active", "cleanup_pending"}]
  BY HolderTypes
<1>3. PICK i \in task[q].found :
        /\ Note(q, i, "active")
        /\ task' = [task EXCEPT ![q].found = @ \ {i},
                                ![q].todo = IF task[q].enabled THEN @ ELSE {i}]
  BY DEF Adopt
<1> DEFINE todo == IF task[q].enabled THEN task[q].todo ELSE {i}
           x == [task[q] EXCEPT !.found = @ \ {i}, !.todo = todo]
<1>4. task' = [task EXCEPT ![q] = x]
  BY <1>2, <1>3
<1>5. i \in Ids /\ todo \in SUBSET Ids /\ todo \subseteq task[q].todo \cup task[q].found
  BY <1>2 DEF Tasks
<1>6. /\ task[q].enabled => todo = task[q].todo
      /\ ~task[q].enabled => task[q].found \cup task[q].todo \subseteq (task[q].found \ {i}) \cup todo
  BY <1>1
<1> HIDE DEF todo
<1>7. /\ x \in Tasks /\ x.at = "records" /\ x.made = task[q].made /\ x.found = task[q].found \ {i}
      /\ x.todo = todo /\ x.missing = task[q].missing /\ x.rev = task[q].rev
      /\ x.enabled = task[q].enabled /\ x.got = task[q].got /\ x.original = task[q].original
  BY <1>1, <1>2, <1>5 DEF Tasks
<1> HIDE DEF x
<1>8. task' \in [Requests -> Tasks] /\ task'[q] = x /\ \A p \in Requests \ {q} : task'[p] = task[p]
  BY <1>2, <1>4, <1>7, OneTask
<1>9. known' \in [Ids -> {"none", "active", "cleanup_pending"}] /\ \A j \in Ids : j # i => known'[j] = known[j]
  BY <1>2, <1>3, <1>5, RowNoted
<1>10. RecordsKept /\ remote' \in SUBSET Records
  <2>1. \A r \in remote : r.mark = "theirs" => r.id # i
    BY OwnIds
  <2> QED
    BY <1>1, <1>5, <1>9, <2>1, RecordsLost
<1>11. Marked' = Marked
  BY <1>1 DEF Marked
<1>12. TypesOK'
  BY <1>1, <1>2, <1>8, <1>9, <1>10, TypesStep
<1>13. OthersKept(q)
  BY <1>1, <1>8 DEF OthersKept, SameRow
<1>14. \A r \in remote : r.mark = "theirs" =>
          r.id \notin task'[q].made \cup task'[q].todo \cup task'[q].found
  BY <1>5, <1>7, <1>8, OwnIds
<1>15. TaskOK(q)'
  BY <1>1, <1>2, <1>7, <1>8 DEF TaskOK, Holds, Current, Tunnel
<1>16. Disabling(q)'
  BY <1>1, <1>2, <1>6, <1>7, <1>8, <1>11 DEF Disabling
<1>17. Enabling(q)'
  BY <1>1, <1>2, <1>6, <1>7, <1>8, <1>11 DEF Enabling, Desired, Tunnel
<1>18. Marked = {} /\ "own" \notin rules /\ ~task[q].enabled =>
         Marked' = {} /\ "own" \notin rules' /\ (Holds(q)' => ~task'[q].enabled)
  BY <1>1, <1>7, <1>8, <1>11
<1>19. ASSUME Served, Harmless(q) PROVE Served' /\ Harmless(q)'
  <2>1. Served'
    BY <1>1, <1>11, <1>19 DEF Served, Desired, Tunnel
  <2>2. Harmless(q)'
    BY <1>1, <1>7, <1>8, <1>19 DEF Harmless
  <2> QED
    BY <2>1, <2>2
<1> QED
  BY <1>1, <1>10, <1>12, <1>13, <1>14, <1>15, <1>16, <1>17, <1>18, <1>19, HolderStep

LEMMA Dropped ==
  ASSUME IInv, NEW q \in Requests, Drop(q), Current(q)
  PROVE  IInv' /\ ForeignStep
<1>1. /\ Holds(q) /\ task[q].at \in {"owned", "records"}
      /\ UNCHANGED <<access, guided, provided, unfounded, rules, neighbour, meddled, verifier, faults>>
  BY DEF Drop, Dropping, Holds
<1>2. /\ task \in [Requests -> Tasks] /\ task[q] \in Tasks /\ rules \in SUBSET {"own", "other"}
      /\ access \in AccessRows /\ guided \in GuidedStages
      /\ TaskOK(q) /\ Disabling(q) /\ Enabling(q)
      /\ known \in [Ids -> {"none", "active", "cleanup_pending"}]
  BY HolderTypes
<1>3. PICK i \in task[q].todo :
        Forget(i) /\ Note(q, i, "none") /\ task' = [task EXCEPT ![q].todo = @ \ {i}]
  BY DEF Drop
<1> DEFINE x == [task[q] EXCEPT !.todo = @ \ {i}]
<1>4. task' = [task EXCEPT ![q] = x]
  BY <1>2, <1>3
<1>5. i \in Ids
  BY <1>2 DEF Tasks
<1>6. /\ x \in Tasks /\ x.at = task[q].at /\ x.made = task[q].made /\ x.found = task[q].found
      /\ x.todo = task[q].todo \ {i} /\ x.missing = task[q].missing /\ x.rev = task[q].rev
      /\ x.enabled = task[q].enabled /\ x.got = task[q].got /\ x.original = task[q].original
  BY <1>2 DEF Tasks
<1> HIDE DEF x
<1>7. task' \in [Requests -> Tasks] /\ task'[q] = x /\ \A p \in Requests \ {q} : task'[p] = task[p]
  BY <1>2, <1>4, <1>6, OneTask
<1>8. known' \in [Ids -> {"none", "active", "cleanup_pending"}] /\ \A j \in Ids : j # i => known'[j] = known[j]
  BY <1>2, <1>3, <1>5, RowNoted
<1>9. RecordsKept /\ remote' \in SUBSET Records
  <2>1. \A r \in remote : r.mark = "theirs" => r.id # i
    BY OwnIds
  <2> QED
    BY <1>3, <1>5, <1>8, <2>1, RecordsLost
<1>10. /\ Marked' \subseteq Marked /\ (\A r \in Marked' : r.id # i)
       /\ task[q].enabled => Marked' = Marked
  <2>1. /\ Marked' \subseteq Marked /\ (\A r \in Marked' : r.id # i)
        /\ \A r \in Marked : r.id # i => r \in Marked'
    BY <1>3, RecordForgotten
  <2>2. ASSUME task[q].enabled PROVE \A r \in Marked : r.id # i
    <3>1. i \notin IdsOf(Marked)
      BY <1>1, <1>2, <2>2 DEF Enabling
    <3> QED
      BY <3>1 DEF IdsOf
  <2> QED
    BY <2>1, <2>2
<1>11. TypesOK'
  BY <1>1, <1>2, <1>7, <1>8, <1>9, TypesStep
<1>12. OthersKept(q)
  BY <1>1, <1>7 DEF OthersKept, SameRow
<1>13. \A r \in remote : r.mark = "theirs" =>
          r.id \notin task'[q].made \cup task'[q].todo \cup task'[q].found
  BY <1>6, <1>7, OwnIds
<1>14. TaskOK(q)'
  BY <1>1, <1>2, <1>6, <1>7 DEF TaskOK, Holds, Current, Tunnel
<1>15. Disabling(q)'
  <2> SUFFICES ASSUME ~task[q].enabled, task[q].at = "records"
               PROVE  \A r \in Marked' : r.id \in x.found \cup x.todo
    BY <1>1, <1>2, <1>6, <1>7 DEF Disabling, IdsOf
  <2>1. \A r \in Marked : r.id \in task[q].found \cup task[q].todo
    BY <1>1, <1>2 DEF Disabling, IdsOf
  <2> QED
    BY <1>6, <1>10, <2>1
<1>16. Enabling(q)'
  BY <1>1, <1>2, <1>6, <1>7, <1>10 DEF Enabling, Desired, Tunnel
<1>17. Marked = {} /\ "own" \notin rules /\ ~task[q].enabled =>
         Marked' = {} /\ "own" \notin rules' /\ (Holds(q)' => ~task'[q].enabled)
  BY <1>1, <1>6, <1>7, <1>10
<1>18. ASSUME Served, Harmless(q) PROVE Served' /\ Harmless(q)'
  <2>1. Harmless(q)' /\ task[q].enabled
    BY <1>1, <1>6, <1>7, <1>18 DEF Harmless
  <2>2. Served'
    BY <1>1, <1>10, <1>18, <2>1 DEF Served, Desired, Tunnel
  <2> QED
    BY <2>1, <2>2
<1> QED
  BY <1>1, <1>9, <1>11, <1>12, <1>13, <1>14, <1>15, <1>16, <1>17, <1>18, HolderStep

\* Only a request that enables creates records; one of an id nobody knows.
LEMMA Created ==
  ASSUME IInv, NEW q \in Requests, Create(q), Current(q)
  PROVE  IInv' /\ ForeignStep
<1>1. /\ Holds(q) /\ task[q].at = "create"
      /\ UNCHANGED <<access, guided, provided, unfounded, rules, neighbour, meddled, verifier, faults>>
  BY DEF Create, Holds
<1>2. /\ task \in [Requests -> Tasks] /\ task[q] \in Tasks /\ rules \in SUBSET {"own", "other"}
      /\ access \in AccessRows /\ guided \in GuidedStages
      /\ TaskOK(q) /\ Disabling(q) /\ Enabling(q)
      /\ known \in [Ids -> {"none", "active", "cleanup_pending"}]
  BY HolderTypes
<1>3. PICK t \in task[q].missing, i \in Fresh :
        /\ remote' = remote \cup {NewRecord(i, t)} /\ Note(q, i, "active")
        /\ task' = [task EXCEPT ![q].made = task[q].made \cup {i}, ![q].missing = @ \ {t}]
  BY DEF Create
<1> DEFINE x == [task[q] EXCEPT !.made = @ \cup {i}, !.missing = @ \ {t}]
<1>4. task' = [task EXCEPT ![q] = x]
  BY <1>2, <1>3
<1>5. /\ i \in Ids /\ \A r \in remote : r.id # i
      /\ i \notin task[q].made \cup task[q].todo \cup task[q].found
  BY FreshId
<1>6. /\ x \in Tasks /\ x.at = "create" /\ x.made = task[q].made \cup {i}
      /\ x.found = task[q].found /\ x.todo = task[q].todo /\ x.missing = task[q].missing \ {t}
      /\ x.rev = task[q].rev /\ x.enabled = task[q].enabled
      /\ x.got = task[q].got /\ x.original = task[q].original
  BY <1>1, <1>2, <1>5 DEF Tasks
<1> HIDE DEF x
<1>7. task' \in [Requests -> Tasks] /\ task'[q] = x /\ \A p \in Requests \ {q} : task'[p] = task[p]
  BY <1>2, <1>4, <1>6, OneTask
<1>8. known' \in [Ids -> {"none", "active", "cleanup_pending"}] /\ \A j \in Ids : j # i => known'[j] = known[j]
  BY <1>2, <1>3, <1>5, RowNoted
<1>9. RecordsKept /\ remote' \in SUBSET Records
  BY <1>3, <1>8, RecordsMade
<1>10. task[q].enabled
  BY <1>1, <1>2, <1>3 DEF Disabling
<1>11. /\ Marked' = Marked \cup {NewRecord(i, t)}
       /\ NewRecord(i, t).id = i /\ NewRecord(i, t).item = t
  BY <1>3, RecordMade
<1>12. TypesOK'
  BY <1>1, <1>2, <1>7, <1>8, <1>9, TypesStep
<1>13. OthersKept(q)
  BY <1>1, <1>7 DEF OthersKept, SameRow
<1>14. \A r \in remote : r.mark = "theirs" =>
          r.id \notin task'[q].made \cup task'[q].todo \cup task'[q].found
  <2>1. \A r \in remote : r.mark = "theirs" => r.id \notin task[q].made \cup task[q].todo \cup task[q].found
    BY OwnIds
  <2> QED
    BY <1>5, <1>6, <1>7, <2>1
<1>15. TaskOK(q)'
  BY <1>1, <1>2, <1>6, <1>7 DEF TaskOK, Holds, Current, Tunnel
<1>16. Disabling(q)'
  BY <1>6, <1>7, <1>10 DEF Disabling
<1>17. Enabling(q)'
  <2>1. x.todo \cap IdsOf(Marked') = {}
    <3>1. \A r \in Marked' : r.id \in IdsOf(Marked) \cup {i}
      BY <1>11 DEF IdsOf
    <3>2. IdsOf(Marked') \subseteq IdsOf(Marked) \cup {i}
      BY <3>1 DEF IdsOf
    <3>3. task[q].todo \cap IdsOf(Marked) = {}
      BY <1>1, <1>2, <1>10 DEF Enabling
    <3> QED
      BY <1>5, <1>6, <3>2, <3>3
  <2>2. IF q \in meddled' THEN "access" \in meddled'
        ELSE \A u \in Desired' \ x.missing : \E r \in Marked' : r.item = u
    <3>1. Desired' = Desired /\ meddled' = meddled
      BY <1>1 DEF Desired, Tunnel
    <3>2. IF q \in meddled THEN "access" \in meddled
          ELSE \A u \in Desired \ task[q].missing : \E r \in Marked : r.item = u
      BY <1>1, <1>2, <1>10 DEF Enabling
    <3>3. ASSUME NEW u \in Desired \ x.missing, q \notin meddled
          PROVE  \E r \in Marked' : r.item = u
      <4>1. CASE u = t
        BY <1>11, <4>1
      <4>2. CASE u # t
        BY <1>6, <1>11, <3>2, <3>3, <4>2
      <4> QED
        BY <4>1, <4>2
    <3> QED
      BY <3>1, <3>2, <3>3
  <2>3. Tunnel' => "own" \in rules'
    BY <1>1, <1>2, <1>10 DEF Enabling, Tunnel
  <2> QED
    BY <1>6, <1>7, <2>1, <2>2, <2>3 DEF Enabling
<1>18. ~(Harmless(q) \/ ~task[q].enabled)
  BY <1>1, <1>3, <1>10 DEF Harmless
<1> QED
  BY <1>1, <1>9, <1>12, <1>13, <1>14, <1>15, <1>16, <1>17, <1>18, HolderStep

LEMMA CreateGivenUp ==
  ASSUME IInv, NEW q \in Requests, CreateFails(q) \/ (Create(q) /\ ~Current(q))
  PROVE  IInv' /\ ForeignStep
<1>1. /\ Holds(q) /\ task[q].at = "create" /\ (faults' = faults \/ Fault)
      /\ UNCHANGED <<access, guided, provided, unfounded, rules, neighbour, meddled, verifier>>
  BY DEF CreateFails, Create, Holds
<1>2. /\ task \in [Requests -> Tasks] /\ task[q] \in Tasks /\ rules \in SUBSET {"own", "other"}
      /\ access \in AccessRows /\ guided \in GuidedStages /\ Disabling(q)
      /\ known \in [Ids -> {"none", "active", "cleanup_pending"}]
  BY HolderTypes
<1>3. PICK t \in task[q].missing : TRUE
  BY DEF CreateFails, Create
<1>4. task[q].enabled /\ ~Harmless(q)
  BY <1>1, <1>2, <1>3 DEF Disabling, Harmless
<1> DEFINE Undoing(made) ==
      /\ task' \in [Requests -> Tasks] /\ \A p \in Requests \ {q} : task'[p] = task[p]
      /\ task'[q].at = "undo" /\ task'[q].found = {} /\ task'[q].todo = {}
      /\ task'[q].missing = {} /\ task'[q].made = made
      /\ task'[q].rev = task[q].rev /\ task'[q].enabled = task[q].enabled
      /\ task'[q].got = task[q].got /\ task'[q].original = task[q].original
<1>5. ASSUME NEW s \in BOOLEAN, task' = Throw(q, s) PROVE Undoing(task[q].made)
  BY <1>2, <1>5, Thrown
<1>6. ASSUME NEW s \in BOOLEAN, NEW i \in Fresh, task' = [Throw(q, s) EXCEPT ![q].made = task[q].made \cup {i}]
      PROVE  Undoing(task[q].made \cup {i})
  <2> DEFINE y == Throw(q, s)
             x == [y[q] EXCEPT !.made = task[q].made \cup {i}]
  <2>1. /\ y \in [Requests -> Tasks] /\ \A p \in Requests \ {q} : y[p] = task[p]
        /\ y[q].at = "undo" /\ y[q].found = {} /\ y[q].todo = {} /\ y[q].missing = {}
        /\ y[q].rev = task[q].rev /\ y[q].enabled = task[q].enabled
        /\ y[q].got = task[q].got /\ y[q].original = task[q].original
    BY <1>2, Thrown
  <2>2. task' = [y EXCEPT ![q].made = task[q].made \cup {i}]
    BY <1>6
  <2> HIDE DEF y
  <2>3. task' = [y EXCEPT ![q] = x] /\ y[q] \in Tasks
    BY <2>1, <2>2
  <2>4. i \in Ids
    BY FreshId
  <2> DEFINE made == task[q].made \cup {i}
  <2>5. /\ x \in Tasks /\ x.at = "undo" /\ x.found = {} /\ x.todo = {} /\ x.missing = {}
        /\ x.made = task[q].made \cup {i} /\ x.rev = task[q].rev /\ x.enabled = task[q].enabled
        /\ x.got = task[q].got /\ x.original = task[q].original
    <3>1. made \in SUBSET Ids
      <4>1. task[q].made \in SUBSET Ids
        BY <1>2 DEF Tasks
      <4> QED
        BY <2>4, <4>1
    <3> HIDE DEF made
    <3>2. x = [y[q] EXCEPT !.made = made]
      BY DEF made
    <3> HIDE DEF x
    <3>3. x \in Tasks
      BY <2>3, <3>1, <3>2 DEF Tasks
    <3>4. /\ x.at = y[q].at /\ x.found = y[q].found /\ x.todo = y[q].todo /\ x.made = made
          /\ x.missing = y[q].missing /\ x.rev = y[q].rev /\ x.enabled = y[q].enabled
          /\ x.got = y[q].got /\ x.original = y[q].original
      BY <2>3, <3>2 DEF Tasks
    <3> QED
      BY <2>1, <3>3, <3>4 DEF made
  <2> HIDE DEF x
  <2>6. task' \in [Requests -> Tasks] /\ task'[q] = x /\ \A p \in Requests \ {q} : task'[p] = task[p]
    BY <2>1, <2>3, <2>5
  <2> QED
    BY <2>5, <2>6
<1> HIDE DEF Undoing
<1> DEFINE Over == /\ RecordsKept /\ remote' \in SUBSET Records
                   /\ known' \in [Ids -> {"none", "active", "cleanup_pending"}]
                   /\ \E made : /\ Undoing(made)
                                /\ \A r \in remote : r.mark = "theirs" => r.id \notin made
<1>7. \A r \in remote : r.mark = "theirs" => r.id \notin task[q].made
  BY OwnIds
<1>8. ASSUME UNCHANGED <<remote, known>>, task' = Throw(q, FALSE) PROVE Over
  BY <1>5, <1>7, <1>8, RecordsSame
<1>9. ASSUME NEW u \in task[q].missing, NEW i \in Fresh, remote' = remote \cup {NewRecord(i, u)},
             (Note(q, i, "active") \/ UNCHANGED known),
             \/ task' = Throw(q, FALSE)
             \/ \E s \in BOOLEAN : task' = [Throw(q, s) EXCEPT ![q].made = task[q].made \cup {i}]
      PROVE  Over
  <2>1. i \in Ids /\ \A r \in remote : r.id # i
    BY FreshId
  <2>2. /\ known' \in [Ids -> {"none", "active", "cleanup_pending"}]
        /\ \A j \in Ids : j # i => known'[j] = known[j]
    <3>1. CASE UNCHANGED known
      BY <1>2, <3>1
    <3>2. CASE Note(q, i, "active")
      BY <1>2, <2>1, <3>2, RowNoted
    <3> QED
      BY <1>9, <3>1, <3>2
  <2>3. RecordsKept /\ remote' \in SUBSET Records
    BY <1>9, <2>2, RecordsMade
  <2>4. \E made : Undoing(made) /\ \A r \in remote : r.mark = "theirs" => r.id \notin made
    <3>1. CASE task' = Throw(q, FALSE)
      <4>1. Undoing(task[q].made)
        BY <1>5, <3>1
      <4> QED
        BY <1>7, <4>1
    <3>2. ASSUME NEW s \in BOOLEAN, task' = [Throw(q, s) EXCEPT ![q].made = task[q].made \cup {i}]
          PROVE  \E made : Undoing(made) /\ \A r \in remote : r.mark = "theirs" => r.id \notin made
      <4>1. Undoing(task[q].made \cup {i})
        BY <1>6, <3>2
      <4>2. \A r \in remote : r.mark = "theirs" => r.id \notin task[q].made \cup {i}
        BY <1>7, <2>1
      <4> QED
        BY <4>1, <4>2
    <3> QED
      BY <1>9, <3>1, <3>2
  <2> QED
    BY <2>2, <2>3, <2>4
<1>10. Over
  <2>1. CASE CreateFails(q)
    <3>1. CASE task' = Throw(q, FALSE) /\ UNCHANGED <<remote, known>>
      BY <1>8, <3>1
    <3>2. ASSUME NEW u \in task[q].missing, NEW i \in Fresh, remote' = remote \cup {NewRecord(i, u)},
                 \/ task' = Throw(q, FALSE) /\ UNCHANGED known
                 \/ /\ Note(q, i, "active")
                    /\ task' = [Throw(q, FALSE) EXCEPT ![q].made = @ \cup {i}]
          PROVE  Over
      <4>1. CASE task' = Throw(q, FALSE) /\ UNCHANGED known
        BY <1>9, <3>2, <4>1
      <4>2. CASE Note(q, i, "active") /\ task' = [Throw(q, FALSE) EXCEPT ![q].made = @ \cup {i}]
        <5>1. Throw(q, FALSE) \in [Requests -> Tasks] /\ Throw(q, FALSE)[q].made = task[q].made
          BY <1>2, Thrown
        <5>2. task' = [Throw(q, FALSE) EXCEPT ![q].made = task[q].made \cup {i}]
          BY <4>2, <5>1
        <5> QED
          BY <1>9, <3>2, <4>2, <5>2
      <4> QED
        BY <3>2, <4>1, <4>2
    <3> QED
      BY <2>1, <3>1, <3>2 DEF CreateFails
  <2>2. CASE Create(q) /\ ~Current(q)
    <3>1. PICK u \in task[q].missing, i \in Fresh :
            /\ remote' = remote \cup {NewRecord(i, u)} /\ Note(q, i, "active")
            /\ task' = [Throw(q, TRUE) EXCEPT ![q].made = task[q].made \cup {i}]
      BY <2>2 DEF Create
    <3> QED
      BY <1>9, <3>1
  <2> QED
    BY <2>1, <2>2
<1>11. PICK made : Undoing(made) /\ \A r \in remote : r.mark = "theirs" => r.id \notin made
  BY <1>10
<1>12. TypesOK'
  BY <1>1, <1>2, <1>10, <1>11, TypesStep DEF Undoing
<1>13. OthersKept(q)
  BY <1>1, <1>11 DEF OthersKept, SameRow, Undoing
<1> QED
  BY <1>1, <1>4, <1>10, <1>11, <1>12, <1>13, BackOut DEF Undoing

-----------------------------------------------------------------------------
(* The end of a reconciliation *)

\* What it was asked for is there, or what it has found is what was asked for: the
\* row shows the outcome of the revision it has.
LEMMA Reconciled ==
  ASSUME IInv, NEW q \in Requests, Outcome(q), Current(q)
  PROVE  IInv' /\ ForeignStep
<1>1. /\ Holds(q) /\ task[q].at = "create" /\ task[q].missing = {}
      /\ SetStatus(q, Reached(q)) /\ Ends(q, "waiting")
      /\ meddled' = (IF q \notin meddled THEN meddled \ {"access"} ELSE meddled)
      /\ UNCHANGED <<known, remote, rules, neighbour, verifier, faults>>
  BY DEF Outcome, Holds
<1>2. unfounded' = FALSE /\ provided' = task[q].enabled
  BY DEF Outcome
<1>3. /\ task \in [Requests -> Tasks] /\ task[q] \in Tasks /\ rules \in SUBSET {"own", "other"}
      /\ access \in AccessRows /\ guided \in GuidedStages
      /\ TaskOK(q) /\ Disabling(q) /\ Enabling(q) /\ GoneOK /\ StatusOK /\ LockOK /\ IdsOK
      /\ \A p \in Requests : TaskOK(p)
  BY HolderTypes DEF IInv
<1>4. Reached(q) \in {"pending", "active", "disabled"}
      /\ (Reached(q) = "disabled" => ~task[q].enabled) /\ (Reached(q) = "active" => task[q].enabled)
  BY DEF Reached
<1>5. /\ access' \in AccessRows /\ access'.method = access.method /\ access'.rev = access.rev
      /\ access'.enabled = access.enabled /\ access'.status = Reached(q)
  BY <1>1, <1>3, <1>4, StatusSet
<1>6. task[q].enabled = access.enabled
  BY <1>1, <1>3 DEF TaskOK
<1>7. /\ task' \in [Requests -> Tasks] /\ \A p \in Requests \ {q} : task'[p] = task[p]
      /\ task'[q].at = "idle" /\ task'[q].todo = {} /\ task'[q].found = {}
      /\ task'[q].missing = {} /\ task'[q].made = {} /\ ~task'[q].got /\ guided' \in GuidedStages
  <2>1. "waiting" \in GuidedStages
    BY DEF GuidedStages
  <2> QED
    BY <1>1, <2>1, Ended
<1>8. /\ RecordsKept /\ Marked' = Marked /\ (Tunnel' = Tunnel) /\ Desired' = Desired /\ (Served' = Served)
      /\ remote' \in SUBSET Records /\ known' \in [Ids -> {"none", "active", "cleanup_pending"}]
  <2>1. RecordsKept /\ Marked' = Marked /\ remote' \in SUBSET Records
        /\ known' \in [Ids -> {"none", "active", "cleanup_pending"}]
    BY <1>1, RecordsSame
  <2> QED
    BY <1>1, <1>5, <2>1 DEF Tunnel, Desired, Served
<1>9. TypesOK'
  <2>1. meddled' \in SUBSET ({"access"} \cup Requests) /\ faults' \in 0..MaxFaults
        /\ neighbour' \in [on : BOOLEAN, got : BOOLEAN, original : SUBSET {"own", "other"}]
        /\ verifier' \in Verifications
    BY <1>1 DEF IInv, TypesOK, TypeOK
  <2>2. {provided, unfounded}' \subseteq BOOLEAN
    BY <1>2, <1>3 DEF Tasks
  <2> QED
    BY <1>1, <1>3, <1>5, <1>7, <1>8, <2>1, <2>2 DEF TypesOK, TypeOK, AccessRows, GuidedStages
<1>10. \A p \in Requests : ~Holds(p)'
  <2> SUFFICES ASSUME NEW p \in Requests PROVE ~Holds(p)'
    OBVIOUS
  <2>1. CASE p = q
    BY <1>7, <2>1 DEF Holds
  <2>2. CASE p # q
    <3>1. ~Holds(p) /\ task'[p] = task[p]
      BY <1>1, <1>3, <1>7, <2>2 DEF LockOK
    <3> QED
      BY <3>1 DEF Holds
  <2> QED
    BY <2>1, <2>2
<1>11. \A p \in Requests : TaskOK(p)' /\ Disabling(p)' /\ Enabling(p)' /\ Harmless(p)'
  <2> SUFFICES ASSUME NEW p \in Requests PROVE TaskOK(p)' /\ Disabling(p)' /\ Enabling(p)' /\ Harmless(p)'
    OBVIOUS
  <2>1. /\ ~Holds(p)' /\ task'[p].todo = {} /\ task'[p].made = {} /\ task'[p].found = {}
        /\ task'[p].missing = {} /\ ~task'[p].got
    <3>1. CASE p = q
      BY <1>7, <1>10, <3>1
    <3>2. CASE p # q
      <4>1. task'[p] = task[p] /\ ~Holds(p) /\ ~Holds(p)'
        BY <1>7, <1>10, <3>2 DEF Holds
      <4> QED
        BY <1>3, <4>1 DEF TaskOK
    <3> QED
      BY <3>1, <3>2
  <2>2. task'[p].at \notin {"put", "undo", "fail"}
    BY <2>1 DEF Holds
  <2> QED
    BY <2>1, <2>2 DEF TaskOK, Disabling, Enabling, Harmless
<1>12. LockOK' /\ NeighbourKept'
  BY <1>1, <1>8, <1>10 DEF LockOK, NeighbourKept, IInv
<1>13. IdsOK'
  <2> SUFFICES ASSUME NEW r \in remote', r.mark = "theirs", NEW p \in Requests
               PROVE  r.id \notin task'[p].made \cup task'[p].todo \cup task'[p].found
    BY <1>8 DEF IdsOK, RecordsKept, ForeignStep
  <2>1. CASE p = q
    BY <1>7, <2>1
  <2>2. CASE p # q
    BY <1>1, <1>3, <1>7, <2>2 DEF IdsOK
  <2> QED
    BY <2>1, <2>2
<1>14. ServedOK'
  <2> SUFFICES ASSUME Trusted', "access" \notin meddled' PROVE Served
    BY <1>8, <1>11 DEF ServedOK
  <2>1. access.enabled
    BY <1>2, <1>4, <1>5, <1>6 DEF Trusted
  <2>2. IF q \in meddled THEN "access" \in meddled
        ELSE \A t \in Desired \ task[q].missing : \E r \in Marked : r.item = t
    BY <1>1, <1>3, <1>6, <2>1 DEF Enabling
  <2>3. q \notin meddled
    BY <1>1, <2>2
  <2>4. \A t \in Desired : \E r \in Marked : r.item = t
    BY <1>1, <2>2, <2>3
  <2>5. Tunnel => "own" \in rules
    BY <1>1, <1>3, <1>6, <2>1 DEF Enabling
  <2> QED
    BY <2>4, <2>5 DEF Served
<1>15. GoneOK'
  <2>1. Reached(q) = "disabled" => ~access.enabled /\ Marked = {} /\ "own" \notin rules
    BY <1>1, <1>3, <1>4, <1>6 DEF Disabling
  <2> QED
    BY <1>1, <1>3, <1>5, <1>8, <1>10, <2>1 DEF GoneOK
<1>16. StatusOK'
  BY <1>1, <1>3, <1>4, <1>5, <1>6 DEF StatusOK
<1> QED
  BY <1>8, <1>9, <1>11, <1>12, <1>13, <1>14, <1>15, <1>16 DEF IInv, RecordsKept

LEMMA OutcomeStep ==
  ASSUME IInv, NEW q \in Requests, Outcome(q)
  PROVE  IInv' /\ ForeignStep
<1>1. CASE Current(q)
  BY <1>1, Reconciled
<1>2. CASE ~Current(q)
  <2>1. Holds(q) /\ UNCHANGED <<access, known, guided, cloudVars, verifier, faults>>
    BY <1>2 DEF Outcome, Holds, SetStatus, cloudVars
  <2>2. task' = Throw(q, TRUE)
    BY <1>2 DEF Outcome
  <2>3. UNCHANGED <<provided, unfounded>>
    BY <1>2, HolderTypes DEF Outcome
  <2> QED
    BY <2>1, <2>2, <2>3, Failing
<1> QED
  BY <1>1, <1>2

-----------------------------------------------------------------------------
(* Interference and crashes *)

\* From here on the access may not be served, and every request has missed it.
LEMMA Meddled ==
  ASSUME IInv, NEW m \in remote, Meddle(m)
  PROVE  IInv' /\ ForeignStep
<1> USE DEF IInv
<1>1. /\ m.mark = "ours" /\ meddled' = {"access"} \cup Requests /\ Fault
      /\ UNCHANGED <<access, known, guided, provided, unfounded, rules, neighbour, task, verifier>>
  BY DEF Meddle, rowVars
<1> DEFINE c == [m EXCEPT !.mark = "changed"]
<1>2. remote \in SUBSET Records /\ m \in Records /\ IdsOK
  BY DEF TypesOK, TypeOK
<1>3. c \in Records /\ c.id = m.id /\ c.mark = "changed"
  BY <1>2 DEF Records
<1>4. remote' \subseteq (remote \ {m}) \cup {c} /\ remote \ {m} \subseteq remote'
  BY DEF Meddle
<1> HIDE DEF c
<1>5. Marked' \subseteq Marked
  BY <1>3, <1>4 DEF Marked
<1>6. ForeignStep
  BY <1>1, <1>2, <1>4 DEF ForeignStep, IdsOK
<1>7. IdsOK'
  <2>1. \A r, s \in remote' : r.id = s.id => r = s
    BY <1>2, <1>3, <1>4 DEF IdsOK
  <2>2. \A r \in remote' : r.mark = "theirs" => r \in remote
    BY <1>3, <1>4
  <2> QED
    BY <1>1, <1>2, <2>1, <2>2 DEF IdsOK
<1>8. TypesOK'
  <2>1. remote' \in SUBSET Records
    BY <1>2, <1>3, <1>4
  <2>2. faults' \in 0..MaxFaults
    BY <1>1 DEF Fault, TypesOK, TypeOK
  <2>3. meddled' \in SUBSET ({"access"} \cup Requests)
    BY <1>1
  <2> QED
    BY <1>1, <2>1, <2>2, <2>3 DEF TypesOK, TypeOK
<1>9. LockOK' /\ NeighbourKept' /\ StatusOK'
  BY <1>1 DEF LockOK, Holds, Tunnel, NeighbourKept, StatusOK
<1>10. ServedOK'
  BY <1>1 DEF ServedOK
<1>11. GoneOK'
  BY <1>1, <1>5 DEF GoneOK, Holds, Tunnel
<1>12. ASSUME NEW q \in Requests PROVE TaskOK(q)' /\ Disabling(q)' /\ Enabling(q)'
  <2>1. TaskOK(q) /\ Disabling(q) /\ Enabling(q)
    OBVIOUS
  <2>2. IdsOf(Marked') \subseteq IdsOf(Marked)
    BY <1>5 DEF IdsOf
  <2>3. TaskOK(q)'
    BY <1>1, <2>1 DEF TaskOK, Holds, Current, Tunnel
  <2>4. Disabling(q)'
    BY <1>1, <1>5, <2>1, <2>2 DEF Disabling, Holds
  <2>5. Enabling(q)'
    BY <1>1, <2>1, <2>2 DEF Enabling, Holds, Tunnel
  <2> QED
    BY <2>3, <2>4, <2>5
<1> QED
  BY <1>6, <1>7, <1>8, <1>9, <1>10, <1>11, <1>12

\* The call a request was at when the server crashed: it takes nothing from an access
\* that is served, and leaves nothing with one that is gone.
LEMMA CallMade ==
  ASSUME IInv, NEW q \in Requests, Effect(q), UNCHANGED <<known, access>>
  PROVE  /\ RecordsKept /\ remote' \in SUBSET Records /\ rules' \in SUBSET {"own", "other"}
         /\ ("other" \in rules') = ("other" \in rules)
         /\ Tunnel \/ rules' = rules
         /\ Holds(q)
         /\ Marked = {} /\ "own" \notin rules /\ ~task[q].enabled => Marked' = {} /\ "own" \notin rules'
         /\ Served /\ Harmless(q) => Served'
<1>1. /\ task[q] \in Tasks /\ known \in [Ids -> {"none", "active", "cleanup_pending"}]
      /\ rules \in SUBSET {"own", "other"} /\ TaskOK(q) /\ Disabling(q) /\ Enabling(q)
  BY HolderTypes
<1>2. Desired' = Desired /\ (Tunnel' = Tunnel)
  BY DEF Desired, Tunnel
<1>3. Holds(q)
  BY DEF Effect, Dropping, Holds
<1>4. ASSUME NEW i \in Ids, (i \in task[q].todo \/ i \in task[q].made), Forget(i), UNCHANGED rules
      PROVE  /\ RecordsKept /\ remote' \in SUBSET Records /\ Marked' \subseteq Marked
             /\ Served /\ Harmless(q) => Served'
  <2>1. \A r \in remote : r.mark = "theirs" => r.id # i
    BY <1>4, OwnIds
  <2>2. RecordsKept /\ remote' \in SUBSET Records /\ Marked' \subseteq Marked
    BY <1>1, <1>4, <2>1, RecordsLost
  <2>3. ASSUME Served, Harmless(q) PROVE Served'
    <3>1. i \in task[q].todo /\ task[q].enabled
      BY <1>3, <1>4, <2>3 DEF Harmless
    <3>2. i \notin IdsOf(Marked)
      BY <1>1, <1>3, <3>1 DEF Enabling
    <3>3. \A r \in Marked : r.id # i
      BY <3>2 DEF IdsOf
    <3>4. Marked \subseteq Marked'
      BY <1>4, <3>3, RecordForgotten
    <3> QED
      BY <1>2, <1>4, <2>3, <3>4 DEF Served
  <2> QED
    BY <2>2, <2>3
<1>5. ASSUME NEW t \in task[q].missing, NEW i \in Fresh, remote' = remote \cup {NewRecord(i, t)}
      PROVE  RecordsKept /\ remote' \in SUBSET Records /\ task[q].enabled /\ ~Harmless(q)
  <2>1. RecordsKept /\ remote' \in SUBSET Records
    BY <1>1, <1>5, RecordsMade
  <2> QED
    BY <1>1, <1>3, <1>5, <2>1 DEF Disabling, Harmless
<1>6. CASE task[q].at = "put" /\ rules' = Ingress(q) /\ UNCHANGED remote
  <2>1. /\ Tunnel /\ rules' \in SUBSET {"own", "other"} /\ ("other" \in rules') = ("other" \in rules)
        /\ ("own" \in rules') = task[q].enabled
    BY <1>1, <1>6, IngressRules DEF TaskOK
  <2>2. RecordsKept /\ remote' \in SUBSET Records /\ Marked' = Marked
    BY <1>6, RecordsSame
  <2>3. Served /\ Harmless(q) => Served'
    BY <1>2, <1>3, <2>1, <2>2 DEF Served, Harmless
  <2> QED
    BY <1>3, <2>1, <2>2, <2>3
<1>7. CASE \E i \in Ids : (i \in task[q].todo \/ i \in task[q].made) /\ Forget(i) /\ UNCHANGED rules
  BY <1>1, <1>3, <1>4, <1>7
<1>8. CASE \E t \in task[q].missing, i \in Fresh : remote' = remote \cup {NewRecord(i, t)} /\ UNCHANGED rules
  BY <1>1, <1>3, <1>5, <1>8
<1> QED
  BY <1>6, <1>7, <1>8 DEF Effect

\* After a crash there is no request and no verification, and the call that was under
\* way may have had its effect.
LEMMA Crashed ==
  ASSUME IInv, Crash
  PROVE  IInv' /\ ForeignStep
<1> USE DEF IInv
<1>1. /\ UNCHANGED <<access, known, guided, provided, unfounded, meddled>> /\ Fault
      /\ task' = [q \in Requests |-> Idle] /\ verifier' = NoVerification
      /\ neighbour' = [neighbour EXCEPT !.got = FALSE, !.original = {}]
  BY DEF Crash, rowVars
<1> DEFINE Kept ==
        /\ RecordsKept /\ remote' \in SUBSET Records /\ rules' \in SUBSET {"own", "other"}
        /\ ("other" \in rules') = ("other" \in rules)
        /\ Tunnel \/ rules' = rules
        /\ (Marked = {} /\ "own" \notin rules /\ (\A q \in Requests : Holds(q) => ~task[q].enabled)
              => Marked' = {} /\ "own" \notin rules')
        /\ (Served /\ (\A q \in Requests : Harmless(q)) => Served')
<1>2. Kept
  <2>1. CASE UNCHANGED <<remote, rules>>
    <3>1. RecordsKept /\ remote' \in SUBSET Records /\ Marked' = Marked
      BY <1>1, <2>1, RecordsSame
    <3>2. rules \in SUBSET {"own", "other"} /\ (Served' = Served)
      BY <1>1, <2>1, <3>1 DEF TypesOK, TypeOK, Served, Desired, Tunnel
    <3> QED
      BY <2>1, <3>1, <3>2
  <2>2. ASSUME NEW q \in Requests, Effect(q) PROVE Kept
    BY <1>1, <2>2, CallMade
  <2> QED
    BY <2>1, <2>2 DEF Crash
<1>3. neighbour' \in [on : BOOLEAN, got : BOOLEAN, original : SUBSET {"own", "other"}]
      /\ neighbour'.on = neighbour.on /\ ~neighbour'.got
  BY <1>1 DEF TypesOK, TypeOK
<1>4. /\ verifier' \in Verifications /\ verifier'.at = "idle" /\ verifier'.rev = 0
  BY <1>1 DEF NoVerification, Verifications
<1>5. \A q \in Requests :
        /\ task'[q].at = "idle" /\ task'[q].todo = {} /\ task'[q].made = {} /\ task'[q].found = {}
        /\ task'[q].missing = {} /\ ~task'[q].got /\ ~Holds(q)'
  BY <1>1, IdleFields DEF Holds
<1>6. TypesOK'
  <2>1. task' \in [Requests -> Tasks]
    BY <1>1, IdleTask
  <2>2. faults' \in 0..MaxFaults
    BY <1>1 DEF Fault, TypesOK, TypeOK
  <2> QED
    BY <1>1, <1>2, <1>3, <1>4, <2>1, <2>2 DEF TypesOK, TypeOK, RecordsKept
<1>7. LockOK' /\ NeighbourKept'
  BY <1>2, <1>3, <1>5 DEF LockOK, NeighbourKept
<1>8. IdsOK'
  BY <1>2, <1>5 DEF IdsOK, RecordsKept, ForeignStep
<1>9. \A q \in Requests : TaskOK(q)' /\ Disabling(q)' /\ Enabling(q)' /\ Harmless(q)'
  BY <1>5 DEF TaskOK, Disabling, Enabling, Harmless
<1>10. ServedOK'
  BY <1>1, <1>2, <1>4, <1>9 DEF ServedOK, Trusted
<1>11. GoneOK'
  BY <1>1, <1>2, <1>5 DEF GoneOK, Tunnel
<1>12. StatusOK'
  BY <1>1, <1>4 DEF StatusOK, TypesOK, TypeOK
<1> QED
  BY <1>2, <1>6, <1>7, <1>8, <1>9, <1>10, <1>11, <1>12 DEF RecordsKept

-----------------------------------------------------------------------------
(* The theorems *)

LEMMA ReconcileStep ==
  ASSUME IInv, NEW q \in Requests, Reconcile(q)
  PROVE  IInv' /\ ForeignStep
<1>1. CASE GiveUp(q)
  BY <1>1, GivenUp
<1>2. CASE Read(q)
  BY <1>2, Locked
<1>3. CASE Unfit(q) \/ Clash(q) \/ Fail(q)
  BY <1>3, FailingSteps
<1>4. CASE List(q)
  BY <1>4, RecordsListed
<1>5. CASE Adopt(q)
  BY <1>5, Adopted, DropGivenUp
<1>6. CASE Drop(q) \/ DropFails(q)
  BY <1>6, Dropped, DropGivenUp
<1>7. CASE GetConfig(q)
  BY <1>7, ConfigGot
<1>8. CASE PutConfig(q)
  BY <1>8, ConfigPut
<1>9. CASE PutFails(q) \/ RestoreConfig(q)
  BY <1>9, ConfigGivenUp
<1>10. CASE Create(q) \/ CreateFails(q)
  BY <1>10, Created, CreateGivenUp
<1>11. CASE Outcome(q)
  BY <1>11, OutcomeStep
<1>12. CASE Undo(q) \/ UndoFails(q)
  BY <1>12, Undone
<1> QED
  BY <1>1, <1>2, <1>3, <1>4, <1>5, <1>6, <1>7, <1>8, <1>9, <1>10, <1>11, <1>12 DEF Reconcile

LEMMA StepInvariant ==
  ASSUME IInv, [Next]_vars
  PROVE  IInv' /\ ForeignStep
<1>1. CASE UNCHANGED vars
  BY <1>1, Stuttered
<1>2. ASSUME NEW q \in Requests, NEW e \in BOOLEAN, Change(q, e) PROVE IInv' /\ ForeignStep
  BY <1>2, Changed
<1>3. ASSUME NEW q \in Requests, Continue(q) PROVE IInv' /\ ForeignStep
  BY <1>3, Continued
<1>4. ASSUME NEW q \in Requests, Reconcile(q) PROVE IInv' /\ ForeignStep
  BY <1>4, ReconcileStep
<1>5. CASE NeighbourGets \/ \E on \in BOOLEAN : NeighbourPuts(on)
  BY <1>5, NeighbourStep
<1>6. CASE VerifyRead \/ VerifyObserve \/ VerifyValid \/ VerifyInvalid
  BY <1>6, Verified
<1>7. ASSUME NEW m \in remote, Meddle(m) PROVE IInv' /\ ForeignStep
  BY <1>7, Meddled
<1>8. CASE Crash
  BY <1>8, Crashed
<1> QED
  BY <1>1, <1>2, <1>3, <1>4, <1>5, <1>6, <1>7, <1>8 DEF Next

\* Every state a sequence of requests, reconciliations, verifications, faults and
\* crashes reaches satisfies the invariant.
THEOREM AccessInvariance == Spec => []IInv
<1>1. Init => IInv
  BY InitInvariant
<1>2. IInv /\ [Next]_vars => IInv'
  BY StepInvariant
<1> QED
  BY <1>1, <1>2, PTL DEF Spec

\* The row, the records, the rules, the requests and the verification keep their types
\* (the columns and their checks, the union types of the reconciliation).
THEOREM AccessTypeCorrect == Spec => [](TypeOK /\ task \in [Requests -> Tasks] /\ verifier \in Verifications)
<1>1. IInv => TypeOK /\ task \in [Requests -> Tasks] /\ verifier \in Verifications
  BY DEF IInv, TypesOK
<1> QED
  BY <1>1, AccessInvariance, PTL

\* reconcileDomainAccess: what is shown as active is enabled and served, as far as the
\* server can know.
THEOREM ActiveAccessServed == Spec => []ActiveIsServed
<1>1. IInv => ActiveIsServed
  BY DEF IInv, ActiveIsServed, ServedOK, Trusted, StatusOK
<1> QED
  BY <1>1, AccessInvariance, PTL

\* reconcileDomainAccess: what is shown as disabled has left nothing at Cloudflare, not
\* even a record that never had its row.
THEOREM DisabledAccessGone == Spec => []DisabledIsGone
<1>1. IInv => DisabledIsGone
  BY DEF IInv, DisabledIsGone, GoneOK
<1> QED
  BY <1>1, AccessInvariance, PTL

\* withDomainAccessLock, getTunnelConfig, putTunnelConfig: the configuration, read and
\* put back as a whole, keeps the rule of the tunnel's other access as it is.
THEOREM NeighbourRuleKept == Spec => []NeighbourKept
<1>1. IInv => NeighbourKept
  BY DEF IInv
<1> QED
  BY <1>1, AccessInvariance, PTL

\* listDnsRecordsExact, deleteOwnedRecord: no step, of whichever request, and no crash
\* touches a record that is someone else's or gives it a row.
THEOREM ForeignRecordsKept == Spec => ForeignKept
<1>1. IInv /\ [Next]_vars => [\A r \in remote : r.mark = "theirs" => r \in remote' /\ known'[r.id] = "none"]_vars
  BY StepInvariant DEF ForeignStep
<1> QED
  BY <1>1, AccessInvariance, PTL DEF Spec, ForeignKept
=============================================================================
