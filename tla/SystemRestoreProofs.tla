------------------------ MODULE SystemRestoreProofs ------------------------
(***************************************************************************)
(* Machine-checked proofs about SystemRestore, for any number of calls of  *)
(* stageRestore and any number of crashes and failures.                    *)
(***************************************************************************)
EXTENDS SystemRestore, TLAPS

USE RestoreAssumption DEF RestoreAssumption, StagePlaces, RestorePlaces, RecoverPlaces, Maybe, MarkerNames

-----------------------------------------------------------------------------
(* The inductive invariant *)

LEMMA InitInvariant == Init => IInv
<1> SUFFICES ASSUME Init PROVE IInv
  OBVIOUS
<1> USE DEF Init, NoMarker
<1>1. TypeOK
  <2>1. writer \in BOOLEAN /\ linking \in BOOLEAN
    OBVIOUS
  <2> QED
    BY <2>1 DEF TypeOK
<1>2. StageOK
  BY DEF StageOK
<1>3. MarkerOK
  BY DEF MarkerOK
<1>4. RecOK
  BY DEF RecOK
<1>5. EffectOK
  BY DEF EffectOK
<1> QED
  BY <1>1, <1>2, <1>3, <1>4, <1>5 DEF IInv

\* The steps of stageRestore that leave the marker alone.
LEMMA StagingStep ==
  ASSUME IInv, NEW a \in Attempts,
         \/ TakeLock(a) \/ LockTaken(a) \/ CopyDump(a) \/ MarkerSeen(a) \/ Refuse(a) \/ Record(a)
         \/ MarkStaged(a) \/ UndoDump(a) \/ UndoRow(a) \/ UndoLock(a)
  PROVE  IInv'
<1> USE DEF IInv, TakeLock, LockTaken, CopyDump, MarkerSeen, Refuse, Record, MarkStaged, UndoDump, UndoRow,
            UndoLock, Stage, Move, OwnLockRemoved, requestVars, hostVars, recVars
<1>1. TypeOK'
  BY DEF TypeOK
<1>2. StageOK'
  BY DEF StageOK, NoMarker, Only, TypeOK
<1>3. MarkerOK'
  <2>1. marker' = marker
    OBVIOUS
  <2>2. CASE marker = NoMarker
    BY <2>1, <2>2 DEF MarkerOK
  <2>3. CASE marker # NoMarker
    <3>1. PICK b \in dumps : \/ marker \in {Only("pending", b), Only("applying", b)} /\ lock = b
                           \/ marker = Only("applied", b)
      BY <2>3 DEF MarkerOK
    <3>2. b \in dumps'
      BY <2>3, <3>1 DEF StageOK
    <3>3. marker \in {Only("pending", b), Only("applying", b)} /\ lock = b => lock' = b
      BY <3>1, <2>3 DEF StageOK, EffectOK, Only, TypeOK
    <3> QED
      BY <2>1, <3>1, <3>2, <3>3 DEF MarkerOK, Only
  <2> QED
    BY <2>2, <2>3
<1>4. RecOK'
  BY DEF RecOK, TypeOK
<1>5. EffectOK'
  BY DEF EffectOK, NoMarker, TypeOK
<1> QED
  BY <1>1, <1>2, <1>3, <1>4, <1>5

\* The steps of stageRestore that change the marker.
LEMMA PublishStep ==
  ASSUME IInv, NEW a \in Attempts, Publish(a) \/ UndoMarker(a)
  PROVE  IInv'
<1> USE DEF IInv, Publish, UndoMarker, Stage, Move, requestVars, hostVars, recVars
<1>0. /\ Publish(a) => marker' = Only("pending", a)
      /\ UndoMarker(a) => marker' = NoMarker
  BY DEF StageOK, NoMarker, Only, TypeOK
<1>1. TypeOK'
  BY DEF TypeOK
<1>2. StageOK'
  BY <1>0 DEF StageOK, TypeOK
<1>3. MarkerOK'
  BY <1>0 DEF MarkerOK, StageOK
<1>4. RecOK'
  BY DEF RecOK, TypeOK, StageOK
<1>5. EffectOK'
  BY <1>0 DEF EffectOK, StageOK, TypeOK, NoMarker, Only
<1> QED
  BY <1>1, <1>2, <1>3, <1>4, <1>5

LEMMA StagingFailure ==
  ASSUME IInv, NEW a \in Attempts, StagingFails(a)
  PROVE  IInv'
<1> USE DEF IInv, StagingFails, Fault, Move, requestVars, hostVars, recVars
<1>1. TypeOK'
  BY DEF TypeOK
<1>2. StageOK'
  BY DEF StageOK, TypeOK
<1>3. MarkerOK'
  BY DEF MarkerOK
<1>4. RecOK'
  BY DEF RecOK, TypeOK
<1>5. EffectOK'
  BY DEF EffectOK, TypeOK
<1> QED
  BY <1>1, <1>2, <1>3, <1>4, <1>5

\* The handler of an apply request touches the request only.
LEMMA RequestStep ==
  ASSUME IInv, Requests \/ LinkFails
  PROVE  IInv'
<1> USE DEF IInv, Requests, RequestApply, NoneActive, RequestFails, LinkRequest, LinkRefused, LinkFails, Fault,
            stageVars, hostVars, recVars
<1>1. TypeOK'
  <2>1. linking' \in BOOLEAN /\ writer' \in BOOLEAN
    BY DEF TypeOK
  <2>2. /\ at' \in [Attempts -> StagePlaces]
        /\ faults' \in 0..MaxFaults
        /\ asked' \in Maybe /\ pending' \in Maybe
        /\ (linking' => asked' # None /\ writer')
    BY DEF TypeOK
  <2> QED
    BY <2>1, <2>2 DEF TypeOK
<1>2. StageOK' /\ MarkerOK' /\ RecOK' /\ EffectOK'
  BY DEF StageOK, MarkerOK, RecOK, EffectOK
<1> QED
  BY <1>1, <1>2

\* What ends the control plane's process, with everything it was doing.
LEMMA KilledStep ==
  ASSUME IInv, StopWriter \/ ServerDies
  PROVE  IInv'
<1> USE DEF IInv, Killed, StopWriter, ServerDies, Recover, Fault, hostVars, recVars
<1>1. TypeOK'
  <2>1. linking' \in BOOLEAN /\ writer' \in BOOLEAN
    BY DEF TypeOK
  <2>2. /\ at' \in [Attempts -> StagePlaces]
        /\ faults' \in 0..MaxFaults
        /\ asked' \in Maybe /\ pending' \in Maybe
        /\ (linking' => asked' # None /\ writer')
    BY DEF TypeOK
  <2> QED
    BY <2>1, <2>2 DEF TypeOK
<1>2. StageOK'
  BY DEF StageOK, TypeOK
<1>3. MarkerOK'
  BY DEF MarkerOK
<1>4. RecOK'
  BY DEF RecOK
<1>5. EffectOK'
  BY DEF EffectOK, TypeOK
<1> QED
  BY <1>1, <1>2, <1>3, <1>4, <1>5

\* Steps that move recover.sh and the supervisor, and start or touch nothing.
LEMMA HostStep ==
  ASSUME IInv,
         \/ CheckRefused \/ ManualRecovery \/ ManualEnd \/ Claim \/ BeginRecovery \/ EndRecovery \/ Archive
         \/ RecoverFails \/ SupervisorDies
  PROVE  IInv'
<1> USE DEF IInv, CheckRefused, ManualRecovery, ManualEnd, Claim, BeginRecovery, EndRecovery, Archive,
            RecoverFails, SupervisorDies, Recover, Fault, stageVars, requestVars, hostVars, recVars
<1>1. TypeOK'
  BY DEF TypeOK
<1>2. StageOK' /\ MarkerOK' /\ EffectOK'
  BY DEF StageOK, MarkerOK, EffectOK
<1>3. RecOK'
  BY DEF RecOK
<1> QED
  BY <1>1, <1>2, <1>3

LEMMA RecoveryStep ==
  ASSUME IInv,
         \/ \E n \in MarkerNames : CheckMarker(n)
         \/ BeginRestore \/ RestoreDatabase \/ FinalizeBackup \/ ConcludeRestore
         \/ RemoveLock \/ RemoveMarker \/ RemoveDump
  PROVE  IInv'
<1> USE DEF IInv, CheckMarker, Accepts, FirstStep, BeginRestore, RestoreDatabase, FinalizeBackup, ConcludeRestore,
            RemoveLock, RemoveMarker, RemoveDump, Recover, stageVars, requestVars, hostVars
<1>1. /\ BeginRestore => marker' = Only("applying", job)
      /\ ConcludeRestore => marker' = Only("applied", job)
      /\ RemoveMarker => marker' = NoMarker
  BY DEF RecOK, Only, NoMarker, TypeOK
<1>2. ~writer
  BY DEF RecOK
<1>3. TypeOK'
  <2>1. linking' \in BOOLEAN /\ writer' \in BOOLEAN
    BY DEF TypeOK
  <2>2. /\ rec' \in RecoverPlaces /\ job' \in Maybe
        /\ rec' \in RestorePlaces \ {"check"} => job' # None
    BY DEF TypeOK
  <2>3. /\ row' \in [Attempts -> {"none", "staging", "staged", "failed"}]
        /\ asked' \in Maybe /\ (linking' => asked' # None /\ writer')
        /\ lock' \in Maybe /\ marker' \in [MarkerNames -> Maybe] /\ dumps' \subseteq Attempts
        /\ effect' \in [Attempts -> {"none", "restored", "finalized", "served"}]
    BY <1>2 DEF TypeOK
  <2> QED
    BY <2>1, <2>2, <2>3 DEF TypeOK
<1>4. StageOK'
  BY <1>2 DEF StageOK
<1>5. MarkerOK'
  BY <1>1 DEF MarkerOK, RecOK, NoMarker, Only, TypeOK
<1>6. RecOK'
  BY <1>1, <1>2 DEF RecOK, TypeOK
<1>7. EffectOK'
  <2>1. CASE RestoreDatabase \/ FinalizeBackup
    <3>1. \A a \in Attempts : a # job => effect'[a] = effect[a] /\ effect[a] # "restored"
      BY <2>1 DEF EffectOK, RecOK, Only, TypeOK
    <3>2. job \in Attempts /\ effect'[job] \in {"restored", "finalized"}
      BY <2>1 DEF TypeOK
    <3>3. marker' = Only("applying", job) /\ writer' = FALSE
      BY <2>1, <1>2 DEF RecOK, TypeOK
    <3>4. at' = at /\ at[job] = "ended"
      BY <2>1, <1>2 DEF EffectOK, RecOK, StageOK, Only, TypeOK
    <3> QED
      BY <3>1, <3>2, <3>3, <3>4 DEF EffectOK, Only
  <2>2. CASE BeginRestore \/ ConcludeRestore \/ RemoveMarker
    BY <1>1, <1>2, <2>2 DEF EffectOK, RecOK, NoMarker, Only, TypeOK
  <2>3. CASE RemoveLock \/ RemoveDump \/ \E n \in MarkerNames : CheckMarker(n)
    BY <1>2, <2>3 DEF EffectOK
  <2> QED
    BY <2>1, <2>2, <2>3
<1> QED
  BY <1>3, <1>4, <1>5, <1>6, <1>7

\* What starts the control plane, on a database that is served from then on.
LEMMA ServeStep ==
  ASSUME IInv, StartWriter \/ NotReady \/ OperatorStart
  PROVE  IInv'
<1> USE DEF IInv, StartWriter, NotReady, OperatorStart, Serve, Recover, Fault, stageVars, requestVars, hostVars
<1>1. TypeOK'
  <2>1. linking' \in BOOLEAN /\ writer' \in BOOLEAN
    BY DEF TypeOK
  <2>2. faults' \in 0..MaxFaults /\ effect' \in [Attempts -> {"none", "restored", "finalized", "served"}]
    BY DEF TypeOK
  <2>3. rec' \in RecoverPlaces /\ (sup' = "run" => rec' # "idle") /\ (rec' \notin RestorePlaces)
    BY DEF TypeOK
  <2> QED
    BY <2>1, <2>2, <2>3 DEF TypeOK
<1>2. StageOK'
  BY DEF StageOK
<1>3. MarkerOK'
  BY DEF MarkerOK
<1>4. RecOK'
  BY DEF RecOK
<1>5. EffectOK'
  BY DEF EffectOK, RecOK, NoMarker, TypeOK
<1> QED
  BY <1>1, <1>2, <1>3, <1>4, <1>5

LEMMA StepInvariant == IInv /\ [Next]_vars => IInv'
<1> SUFFICES ASSUME IInv, [Next]_vars PROVE IInv'
  OBVIOUS
<1>1. CASE \E a \in Attempts : Staging(a)
  BY <1>1, StagingStep, PublishStep DEF Staging
<1>2. CASE Requests
  BY <1>2, RequestStep
<1>3. CASE Recovery
  BY <1>3, KilledStep, HostStep, RecoveryStep, ServeStep DEF Recovery
<1>4. CASE Supervisor \/ Operator
  BY <1>4, HostStep, ServeStep DEF Supervisor, Operator
<1>5. CASE Failures
  BY <1>5, StagingFailure, RequestStep, ServeStep, HostStep, KilledStep DEF Failures
<1>6. CASE UNCHANGED vars
  BY <1>6 DEF vars, stageVars, requestVars, hostVars, recVars, IInv, TypeOK, StageOK, MarkerOK, RecOK, EffectOK
<1> QED
  BY <1>1, <1>2, <1>3, <1>4, <1>5, <1>6 DEF Next

\* The inductive invariant behind the safety of staging, restoring and
\* starting again, whatever fails and whoever dies.
THEOREM RestoreInvariance == Spec => []IInv
  BY InitInvariant, StepInvariant, PTL DEF Spec

\* Every value stays in its type.
THEOREM RestoreTypes == Spec => []TypeOK
<1>1. IInv => TypeOK
  BY DEF IInv
<1> QED
  BY <1>1, RestoreInvariance, PTL

\* A marker that is left in the staging directory can be applied or resumed,
\* but for the lock of a call that found a restore applied.
THEOREM RestoreResumable == Spec => []AlwaysApplicable
<1>1. IInv => AlwaysApplicable
  BY DEF IInv, TypeOK, MarkerOK, AlwaysApplicable, ForeignLock, Accepts, Only, NoMarker
<1> QED
  BY <1>1, RestoreInvariance, PTL

\* The control plane never runs on a database that was replaced and not
\* finalized.
THEOREM RestoreWhole == Spec => []WholeRestoreOnly
<1>1. ASSUME IInv, writer, NEW a \in Attempts
      PROVE  effect[a] \notin {"restored", "finalized"}
  <2>1. marker["applying"] = None /\ effect[a] # "finalized"
    BY <1>1 DEF IInv, EffectOK
  <2> QED
    BY <1>1, <2>1 DEF IInv, EffectOK
<1>2. IInv => WholeRestoreOnly
  BY <1>1 DEF WholeRestoreOnly
<1> QED
  BY <1>2, RestoreInvariance, PTL

\* A restore the control plane has run on is never restored again.
THEOREM RestoreNeverReplayed == Spec => NeverReplayed
<1>1. ASSUME IInv, [Next]_vars, NEW a \in Attempts, effect[a] = "served"
      PROVE  effect'[a] = "served"
  <2>1. CASE RestoreDatabase \/ FinalizeBackup
    <3>1. job # a
      BY <1>1, <2>1 DEF IInv, RecOK, EffectOK, Only, TypeOK, RestoreDatabase, FinalizeBackup, Recover
    <3> QED
      BY <1>1, <2>1, <3>1 DEF IInv, TypeOK, RestoreDatabase, FinalizeBackup
  <2>2. CASE StartWriter \/ NotReady \/ OperatorStart
    BY <1>1, <2>2 DEF IInv, TypeOK, StartWriter, NotReady, OperatorStart, Serve
  <2>3. CASE UNCHANGED effect
    BY <1>1, <2>3
  <2> QED
    BY <1>1, <2>1, <2>2, <2>3
    DEF Next, Staging, TakeLock, LockTaken, CopyDump, MarkerSeen, Refuse, Record, Publish, MarkStaged, UndoMarker,
        UndoDump, UndoRow, UndoLock, Stage, Move, Requests, RequestApply, LinkRequest, LinkRefused, Recovery, StopWriter,
        NoneActive, RequestFails,
        CheckRefused, CheckMarker, BeginRestore, ConcludeRestore, RemoveLock, RemoveMarker, RemoveDump, ManualEnd,
        Supervisor, Claim, BeginRecovery, EndRecovery, Archive, Operator, ManualRecovery, Failures, StagingFails,
        LinkFails, RecoverFails, SupervisorDies, ServerDies, vars, recVars
<1>2. IInv /\ [Next]_vars => \A a \in Attempts : effect[a] = "served" => effect'[a] = "served"
  BY <1>1
<1> QED
  BY <1>2, RestoreInvariance, PTL DEF Spec, NeverReplayed
=============================================================================
