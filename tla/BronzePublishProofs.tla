-------------------------- MODULE BronzePublishProofs --------------------------
(***************************************************************************)
(* Safety of BronzePublish for any number of publishers, runs and hours.   *)
(* The inductive invariant ties a publisher's program counter to what it   *)
(* owns under the destination; everything else follows from it.            *)
(***************************************************************************)
EXTENDS BronzePublish, TLAPS

(* Where a publisher holds the claim of its run.                           *)
Holding == {"parent", "folder", "object", "check", "manifest", "cleanup"}

(* Where it has published every hour below made[p] completely.             *)
Building == Holding \ {"cleanup"}

ClaimInv ==
    /\ \A p \in Publishers : pc[p] \in Holding => claim[run[p]] = p
    /\ \A p \in Publishers, r \in Runs : claim[r] = p =>
          run[p] = r /\ pc[p] \notin {"stage", "claim"}

(* The owned list of a publisher is exactly the directories it made.       *)
OwnedInv ==
    \A p \in Publishers, h \in Hours : pc[p] \in Holding =>
        (folder[run[p]][h] = p <=> h <= made[p])

CountInv ==
    \A p \in Publishers :
        /\ pc[p] \in {"stage", "claim"} => made[p] = 0
        /\ pc[p] = "folder" => made[p] < HourCount
        /\ pc[p] = "object" => made[p] > 0
        /\ pc[p] \in {"check", "manifest"} => made[p] = HourCount

ObjectInv ==
    \A p \in Publishers, h \in Hours :
        /\ pc[p] \in Building /\ h < made[p] => object[run[p]][h] = p
        /\ pc[p] \in Building \ {"object"} /\ h <= made[p] => object[run[p]][h] = p

ManifestInv ==
    \A p \in Publishers, r \in Runs : manifest[r] = p =>
        /\ claim[r] = p
        /\ pc[p] \in {"unstage", "done", "crashed"}
        /\ outcome[p] \notin CleanCodes
        /\ \A h \in Hours : object[r][h] = p

OutcomeInv ==
    \A p \in Publishers :
        pc[p] \in {"unstage", "done"} /\ outcome[p] \in CleanCodes => claim[run[p]] # p

IInv == /\ TypeOK
        /\ ClaimInv
        /\ EvidenceIsClaimed
        /\ OwnedInv
        /\ CountInv
        /\ ObjectInv
        /\ ManifestInv
        /\ OutcomeInv
        /\ ReturnedIsVisible

-----------------------------------------------------------------------------
(* Initially nobody holds, owns or published anything.                     *)
LEMMA Initially == Init => IInv
  BY PublishersAssumption, HourCountAssumption
     DEF Init, IInv, Holding, Building, TypeOK, Labels, Outcomes, CleanCodes, Anyone,
         Hours, ClaimInv, EvidenceIsClaimed, OwnedInv, CountInv, ObjectInv,
         ManifestInv, OutcomeInv, ReturnedIsVisible

(* Each publisher's step preserves the invariant.                          *)
LEMMA StepKeeps ==
    ASSUME IInv, NEW q \in Publishers, Step(q)
    PROVE  IInv'
  <1> USE PublishersAssumption, HourCountAssumption
      DEF IInv, Holding, Building, TypeOK, Labels, Outcomes, CleanCodes, Anyone, Hours,
          ClaimInv, EvidenceIsClaimed, OwnedInv, CountInv, ObjectInv, ManifestInv,
          OutcomeInv, ReturnedIsVisible, Goto, Leave, Fail, fileVars, publisherVars
  <1>1. CASE Stage(q)
    BY <1>1 DEF Stage
  <1>2. CASE Claim(q)
    BY <1>2 DEF Claim
  <1>3. CASE ClaimTaken(q)
    BY <1>3 DEF ClaimTaken
  <1>4. CASE EnsureParent(q)
    BY <1>4 DEF EnsureParent
  <1>5. CASE MakeFolder(q)
    BY <1>5 DEF MakeFolder
  <1>6. CASE FolderTaken(q)
    BY <1>6 DEF FolderTaken
  <1>7. CASE LinkObject(q)
    BY <1>7 DEF LinkObject
  <1>8. CASE CheckManifest(q)
    BY <1>8 DEF CheckManifest
  <1>9. CASE LinkManifest(q)
    <2>1. claim[run[q]] = q /\ \A h \in Hours : object[run[q]][h] = q
      BY <1>9 DEF LinkManifest
    <2>2. TypeOK'
      BY <1>9 DEF LinkManifest
    <2>3. ClaimInv' /\ EvidenceIsClaimed' /\ OwnedInv' /\ CountInv' /\ ObjectInv'
      BY <1>9, <2>2 DEF LinkManifest
    <2>4. ManifestInv'
      <3> SUFFICES ASSUME NEW p \in Publishers, NEW r \in Runs, manifest'[r] = p
                   PROVE  /\ claim'[r] = p
                          /\ pc'[p] \in {"unstage", "done", "crashed"}
                          /\ outcome'[p] \notin CleanCodes
                          /\ \A h \in Hours : object'[r][h] = p
        OBVIOUS
      <3>1. CASE r = run[q]
        BY <1>9, <2>1, <3>1 DEF LinkManifest
      <3>2. CASE r # run[q]
        BY <1>9, <3>2 DEF LinkManifest
      <3>. QED
        BY <3>1, <3>2
    <2>5. OutcomeInv' /\ ReturnedIsVisible'
      BY <1>9, <2>2 DEF LinkManifest
    <2>. QED
      BY <2>2, <2>3, <2>4, <2>5
  <1>10. CASE ManifestTaken(q)
    BY <1>10 DEF ManifestTaken
  <1>11. CASE RemoveObject(q)
    BY <1>11 DEF RemoveObject
  <1>12. CASE RemoveFolder(q)
    BY <1>12 DEF RemoveFolder
  <1>13. CASE RemoveClaim(q)
    BY <1>13 DEF RemoveClaim
  <1>14. CASE Unstage(q)
    BY <1>14 DEF Unstage
  <1>. QED
    BY ONLY Step(q), <1>1, <1>2, <1>3, <1>4, <1>5, <1>6, <1>7, <1>8, <1>9, <1>10, <1>11, <1>12, <1>13, <1>14 DEF Step

(* Faults never touch a file: they only choose where the publisher goes.   *)
LEMMA FaultKeeps ==
    ASSUME IInv, NEW q \in Publishers, Fault(q)
    PROVE  IInv'
  <1> USE DEF IInv, Holding, Building, TypeOK, Labels, Outcomes, CleanCodes, ClaimInv,
              EvidenceIsClaimed, OwnedInv, CountInv, ObjectInv, ManifestInv, OutcomeInv,
              ReturnedIsVisible, Goto, Leave, Fail, fileVars
  <1>1. CASE StageError(q)
    BY <1>1 DEF StageError
  <1>2. CASE CallError(q)
    BY <1>2 DEF CallError
  <1>3. CASE UnsafeParent(q)
    BY <1>3 DEF UnsafeParent
  <1>4. CASE UnhandledError(q)
    BY <1>4 DEF UnhandledError
  <1>5. CASE CleanupError(q)
    BY <1>5 DEF CleanupError
  <1>6. CASE UnstageError(q)
    BY <1>6 DEF UnstageError
  <1>7. CASE Crash(q)
    BY <1>7 DEF Crash
  <1>. QED
    BY ONLY Fault(q), <1>1, <1>2, <1>3, <1>4, <1>5, <1>6, <1>7 DEF Fault

(* A Silver manifest that takes a run's name is no publisher's.            *)
LEMMA ForeignManifestKeeps ==
    ASSUME IInv, NEW r \in Runs, ForeignManifest(r)
    PROVE  IInv'
  BY PublishersAssumption
     DEF ForeignManifest, publisherVars, IInv, TypeOK, Anyone, ClaimInv,
         EvidenceIsClaimed, OwnedInv, CountInv, ObjectInv, ManifestInv, OutcomeInv,
         ReturnedIsVisible

(* A stutter keeps the invariant.                                          *)
LEMMA IdleKeeps ==
    ASSUME IInv, UNCHANGED vars
    PROVE  IInv'
  BY DEF vars, IInv, TypeOK, ClaimInv, EvidenceIsClaimed, OwnedInv, CountInv,
         ObjectInv, ManifestInv, OutcomeInv, ReturnedIsVisible

(* The inductive invariant holds in every reachable state: whatever the    *)
(* order of the system calls of any number of publishers, and whichever of *)
(* them fail or die, what is on disk is what the owners' counters say.     *)
THEOREM Invariance == Spec => []IInv
  <1>1. IInv /\ [Next]_vars => IInv'
    BY StepKeeps, FaultKeeps, ForeignManifestKeeps, IdleKeeps DEF Next, Rest
  <1>. QED
    BY Initially, <1>1, PTL DEF Spec

-----------------------------------------------------------------------------
(* Type correctness of the publication protocol.                           *)
THEOREM TypeCorrect == Spec => []TypeOK
  BY Invariance, PTL DEF IInv

(* A visible Bronze manifest never names a missing object or one of        *)
(* another publisher's making.                                             *)
THEOREM AcceptedManifestIsComplete == Spec => []AcceptedIsComplete
  <1>1. IInv => AcceptedIsComplete
    BY DEF IInv, ManifestInv, AcceptedIsComplete
  <1>. QED
    BY <1>1, Invariance, PTL

(* Whatever is found under a run is guarded by the claim of its maker.     *)
THEOREM EvidenceStaysClaimed == Spec => []EvidenceIsClaimed
  BY Invariance, PTL DEF IInv

(* A handled error leaves nothing behind.                                  *)
THEOREM CleanFailure == Spec => []FailureLeavesNothing
  <1>1. IInv => FailureLeavesNothing
    <2> SUFFICES ASSUME IInv, NEW p \in Publishers, pc[p] = "done",
                        outcome[p] \in CleanCodes, NEW r \in Runs
                 PROVE  /\ claim[r] # p
                        /\ manifest[r] # p
                        /\ \A h \in Hours : folder[r][h] # p /\ object[r][h] # p
      BY DEF FailureLeavesNothing
    <2>1. claim[r] # p
      BY DEF IInv, OutcomeInv, ClaimInv
    <2>2. manifest[r] # p
      BY DEF IInv, ManifestInv
    <2>3. \A h \in Hours : folder[r][h] # p /\ object[r][h] # p
      BY <2>1 DEF IInv, EvidenceIsClaimed
    <2>. QED
      BY <2>1, <2>2, <2>3
  <1>. QED
    BY <1>1, Invariance, PTL

(* A returned manifest path is that of the publisher's own visible         *)
(* manifest.                                                               *)
THEOREM ReturnIsTruthful == Spec => []ReturnedIsVisible
  BY Invariance, PTL DEF IInv
-----------------------------------------------------------------------------
(* Nothing visible is ever withdrawn, replaced or cleaned up by another    *)
(* publisher, and no directory of another program is removed.              *)
THEOREM NoStepClobbers == Spec => NoClobber
  <1>1. IInv /\ [Next]_vars => [KeepsPublished]_vars
    <2> SUFFICES ASSUME IInv, Next
                 PROVE  KeepsPublished
      BY DEF vars
    <2> USE PublishersAssumption
        DEF KeepsPublished, IInv, TypeOK, Anyone, ManifestInv, Holding, fileVars,
            publisherVars
    <2>1. ASSUME NEW q \in Publishers, Step(q)
          PROVE  KeepsPublished
      <3>0. ASSUME pc[q] \in Holding
            PROVE  manifest[run[q]] \notin Publishers
        BY <3>0 DEF ClaimInv
      <3>1. CASE RemoveObject(q) \/ LinkObject(q)
        BY <3>0, <3>1 DEF RemoveObject, LinkObject
      <3>2. CASE RemoveFolder(q) \/ MakeFolder(q)
        <4>1. UNCHANGED <<object, manifest>>
          BY <3>2 DEF RemoveFolder, MakeFolder
        <4>2. CASE RemoveFolder(q)
          <5>1. made[q] \in Hours /\ folder[run[q]][made[q]] # Foreign
            BY <4>2, HourCountAssumption DEF RemoveFolder, OwnedInv, Hours
          <5>. QED
            BY <4>1, <4>2, <5>1 DEF RemoveFolder
        <4>3. CASE MakeFolder(q)
          BY <4>1, <4>3 DEF MakeFolder
        <4>. QED
          BY <3>2, <4>2, <4>3
      <3>3. CASE \/ Stage(q) \/ Claim(q) \/ ClaimTaken(q) \/ EnsureParent(q)
                 \/ FolderTaken(q) \/ CheckManifest(q) \/ ManifestTaken(q)
                 \/ LinkManifest(q) \/ RemoveClaim(q) \/ Unstage(q)
        BY <3>3 DEF Stage, Claim, ClaimTaken, EnsureParent, FolderTaken, LinkManifest,
                    CheckManifest, ManifestTaken, RemoveClaim, Unstage
      <3>. QED
        BY ONLY <2>1, <3>1, <3>2, <3>3 DEF Step
    <2>2. ASSUME NEW q \in Publishers, Fault(q)
          PROVE  KeepsPublished
      BY <2>2 DEF Fault, StageError, CallError, UnsafeParent, UnhandledError,
                  CleanupError, UnstageError, Crash
    <2>3. ASSUME NEW r \in Runs, ForeignManifest(r)
          PROVE  KeepsPublished
      BY <2>3 DEF ForeignManifest
    <2>4. CASE Rest
      BY <2>4 DEF Rest, vars
    <2>. QED
      BY ONLY Next, <2>1, <2>2, <2>3, <2>4 DEF Next
  <1>. QED
    BY <1>1, Invariance, PTL DEF Spec, NoClobber
-----------------------------------------------------------------------------
(* A publisher holding its claim is at work on its run in the contract.    *)
LEMMA HolderIsWorking ==
    ASSUME IInv, NEW q \in Publishers, pc[q] \in Holding
    PROVE  Contract!Working(q, run[q])
  <1>1. run[q] \in Runs /\ claim[run[q]] = q
    BY DEF IInv, TypeOK, ClaimInv
  <1>2. manifest[run[q]] # q
    BY <1>1 DEF IInv, ManifestInv, Holding
  <1>. QED
    BY <1>1, <1>2, PublishersAssumption DEF Contract!Working

(* Every step of a publisher is a step of the contract or invisible in it. *)
LEMMA StepRefines ==
    ASSUME IInv, NEW q \in Publishers, Step(q)
    PROVE  [Contract!Next]_(Contract!vars)
  <1>t. run[q] \in Runs /\ Nobody \notin Publishers /\ Foreign \notin Publishers
    BY PublishersAssumption DEF IInv, TypeOK
  <1>1. CASE Claim(q)
    <2>1. Contract!Claim(q, run[q])
      BY <1>1 DEF Claim, Contract!Claim
    <2>. QED
      BY ONLY <2>1, <1>t, q \in Publishers DEF Contract!Next
  <1>2. CASE LinkObject(q)
    <2>1. made[q] \in Hours
      BY <1>2, HourCountAssumption DEF LinkObject, IInv, TypeOK, CountInv, Hours
    <2>2. Contract!Store(q, run[q], made[q])
      BY <1>2, HolderIsWorking DEF LinkObject, Holding, Contract!Store
    <2>. QED
      BY ONLY <2>1, <2>2, <1>t, q \in Publishers DEF Contract!Next
  <1>3. CASE RemoveObject(q)
    <2>1. made[q] \in Hours
      BY <1>3, HourCountAssumption DEF RemoveObject, IInv, TypeOK, Hours
    <2>2. Contract!Discard(q, run[q], made[q])
      BY <1>3, HolderIsWorking
         DEF RemoveObject, publisherVars, Holding, Contract!Discard
    <2>. QED
      BY ONLY <2>1, <2>2, <1>t, q \in Publishers DEF Contract!Next
  <1>4. CASE LinkManifest(q)
    <2>1. \A h \in Hours : object[run[q]][h] = q
      BY <1>4, HourCountAssumption
         DEF LinkManifest, IInv, CountInv, ObjectInv, Building, Holding, Hours
    <2>2. Contract!Accept(q, run[q])
      <3>1. pc[q] \in Holding
        BY <1>4 DEF LinkManifest, Holding
      <3>2. Contract!Working(q, run[q])
        BY <3>1, HolderIsWorking
      <3>3. manifest \in [Runs -> Anyone] /\ manifest[run[q]] = Nobody
        BY <1>4 DEF LinkManifest, IInv, TypeOK
      <3>4. manifest' = [manifest EXCEPT ![run[q]] = q]
        BY <1>4 DEF LinkManifest
      <3>. QED
        BY <1>4, <1>t, <2>1, <3>2, <3>3, <3>4 DEF LinkManifest, Contract!Accept
    <2>3. \E p \in Publishers, r \in Runs : Contract!Accept(p, r)
      BY ONLY <2>2, <1>t, q \in Publishers DEF Contract!Accept
    <2>. QED
      BY ONLY <2>3 DEF Contract!Next
  <1>5. CASE RemoveClaim(q)
    <2>1. \A h \in Hours : folder[run[q]][h] # q
      BY <1>5 DEF RemoveClaim, IInv, OwnedInv, Holding, Hours
    <2>2. \A h \in Hours : object[run[q]][h] # q
      BY <2>1, <1>t DEF IInv, EvidenceIsClaimed
    <2>3. Contract!Release(q, run[q])
      BY <1>5, <2>2, HolderIsWorking DEF RemoveClaim, Holding, Contract!Release
    <2>. QED
      BY ONLY <2>3, <1>t, q \in Publishers DEF Contract!Next
  <1>6. CASE \/ Stage(q) \/ ClaimTaken(q) \/ EnsureParent(q) \/ MakeFolder(q)
             \/ FolderTaken(q) \/ CheckManifest(q) \/ ManifestTaken(q)
             \/ RemoveFolder(q) \/ Unstage(q)
    BY <1>6 DEF Stage, ClaimTaken, EnsureParent, MakeFolder, FolderTaken,
                CheckManifest, ManifestTaken, RemoveFolder, Unstage, fileVars,
                Contract!vars
  <1>. QED
    BY ONLY Step(q), <1>1, <1>2, <1>3, <1>4, <1>5, <1>6 DEF Step

(* A foreign manifest is invisible in the contract.                        *)
LEMMA ForeignRefines ==
    ASSUME IInv, NEW r \in Runs, ForeignManifest(r)
    PROVE  UNCHANGED Contract!vars
  <1>1. manifest \in [Runs -> Anyone] /\ manifest[r] = Nobody
        /\ manifest' = [manifest EXCEPT ![r] = Foreign]
    BY DEF IInv, TypeOK, ForeignManifest
  <1>2. [s \in Runs |-> IF manifest'[s] = Foreign THEN Nobody ELSE manifest'[s]]
      = [s \in Runs |-> IF manifest[s] = Foreign THEN Nobody ELSE manifest[s]]
    BY <1>1, PublishersAssumption
  <1>. QED
    BY <1>2 DEF ForeignManifest, Contract!vars

(* The detailed publisher implements the publication contract.             *)
THEOREM BronzeImplementsContract == Spec => ImplementsContract
  <1>1. Init => Contract!Init
    BY PublishersAssumption DEF Init, Contract!Init, Contract!Nothing
  <1>2. IInv /\ [Next]_vars => [Contract!Next]_(Contract!vars)
    <2> SUFFICES ASSUME IInv, [Next]_vars
                 PROVE  [Contract!Next]_(Contract!vars)
      OBVIOUS
    <2>1. ASSUME NEW q \in Publishers, Fault(q)
          PROVE  UNCHANGED Contract!vars
      BY <2>1 DEF Fault, StageError, CallError, UnsafeParent, UnhandledError,
                  CleanupError, UnstageError, Crash, fileVars, Contract!vars
    <2>2. CASE UNCHANGED vars
      BY <2>2 DEF vars, Contract!vars
    <2>. QED
      BY StepRefines, ForeignRefines, <2>1, <2>2 DEF Next, Rest
  <1>. QED
    BY <1>1, <1>2, Invariance, PTL DEF Spec, ImplementsContract, Contract!Spec

=============================================================================
