-------------------------- MODULE SilverPublishProofs --------------------------
(***************************************************************************)
(* Safety of SilverPublish for any number of publishers, runs, hours and   *)
(* inputs.  Two groups of invariants: what lies in the Silver directories  *)
(* is tied to the program counter of its maker, as for Bronze and Gold,    *)
(* and what lies in quarantine to the rejection its maker is recording.    *)
(***************************************************************************)
EXTENDS SilverPublish, TLAPS

(* Before a publisher tries to claim its run.                              *)
Outside == {"validate", "transform", "claim"}

(* Where it holds the claim, and has published every hour below made[p].   *)
Building == {"parent", "folder", "object", "check", "manifest", "settle"}
Holding == Building \cup {"cleanup"}

(* Where it owns the quarantine of its run, and where it is in the handler *)
(* of an error.                                                            *)
Recording == {"evidence", "seal", "drop"}
Rejecting == Recording \cup {"reject", "compare", "dropped"}

ClaimInv ==
    /\ \A p \in Publishers : pc[p] \in Holding => claim[run[p]] = p
    /\ \A p \in Publishers, r \in Runs : claim[r] = p =>
          run[p] = r /\ pc[p] \notin Outside

(* The list of run directories of a holder is what it made, in order.      *)
OwnedInv ==
    /\ \A p \in Publishers, h \in Hours : pc[p] \in Holding =>
          (folder[run[p]][h] = p <=> h <= made[p])
    /\ \A p \in Publishers, r \in Runs, h \in Hours :
          /\ folder[r][h] = p => claim[r] = p
          /\ object[r][h] = p => folder[r][h] = p

CountInv ==
    \A p \in Publishers :
        /\ pc[p] \in Outside => made[p] = 0
        /\ pc[p] = "folder" => made[p] < HourCount
        /\ pc[p] = "object" => made[p] > 0
        /\ pc[p] \in {"check", "manifest", "settle"} => made[p] = HourCount

ObjectInv ==
    \A p \in Publishers, h \in Hours :
        /\ pc[p] \in Building /\ h < made[p] => object[run[p]][h] = p
        /\ pc[p] \in Building \ {"object"} /\ h <= made[p] => object[run[p]][h] = p

(* A visible manifest is complete unless its publisher has failed since.   *)
ManifestInv ==
    /\ \A p \in Publishers : pc[p] = "settle" => manifest[run[p]] = p
    /\ \A p \in Publishers, r \in Runs : manifest[r] = p =>
          /\ run[p] = r
          /\ pc[p] \in {"settle", "cleanup", "unstage", "done", "crashed"} \cup Rejecting
          /\ error[p] = "none" => claim[r] = p /\ \A h \in Hours : object[r][h] = p

ErrorInv ==
    \A p \in Publishers :
        /\ pc[p] \in Outside \cup Building => error[p] = "none"
        /\ pc[p] \in {"cleanup"} \cup Rejecting => error[p] # "none"
        /\ pc[p] = "cleanup" => error[p] \in CleanCodes
        /\ pc[p] \in {"unstage", "done"} \cup Rejecting /\ error[p] \in CleanCodes =>
              claim[run[p]] # p
        /\ outcome[p] # "none" => pc[p] = "done"

PublicationInv == ClaimInv /\ OwnedInv /\ CountInv /\ ObjectInv /\ ManifestInv /\ ErrorInv

(* A quarantine directory belongs to the one publisher that made it, and   *)
(* its rejection.json records that publisher's own input.                  *)
QuarantineInv ==
    /\ \A p \in Publishers :
          /\ pc[p] \in Recording => quarantine[run[p]] = p
          /\ pc[p] = "seal" => rejection[run[p]] = p
    /\ \A q \in Publishers, r \in Runs :
          /\ quarantine[r] = q =>
                run[q] = r /\ pc[q] \in Recording \cup {"done", "crashed"}
          /\ rejection[r] = q => quarantine[r] = q /\ pc[q] # "evidence"

IInv == TypeOK /\ PublicationInv /\ QuarantineInv /\ RaisedIsRecorded

-----------------------------------------------------------------------------
(* Initially nobody holds, made, published or rejected anything.           *)
LEMMA Initially == Init => IInv
  BY PublishersAssumption, HourCountAssumption
     DEF Init, IInv, PublicationInv, TypeOK, Labels, ErrorCodes, CleanCodes, Anyone, Hours,
         Outside, Building, Holding, Recording, Rejecting, ClaimInv, OwnedInv, CountInv,
         ObjectInv, ManifestInv, ErrorInv, QuarantineInv, RaisedIsRecorded

QuarantineTyped == /\ quarantine \in [Runs -> Publishers \cup {Nobody}]
                   /\ rejection \in [Runs -> Publishers \cup {Nobody}]

(* A publisher that stops building leaves everyone's files as its label    *)
(* says they are: it cleans up what it held, or is out of the way.         *)
LEMMA StoppingKeeps ==
    ASSUME TypeOK, PublicationInv, NEW q \in Publishers,
           UNCHANGED <<run, made, silverVars>>,
           \A p \in Publishers \ {q} : pc'[p] = pc[p] /\ error'[p] = error[p],
           \/ pc[q] \in Building /\ pc'[q] = "cleanup"
           \/ pc'[q] \in {"unstage", "done", "crashed"} \cup Rejecting,
           error'[q] = "none" => error[q] = "none"
    PROVE  ClaimInv' /\ OwnedInv' /\ CountInv' /\ ObjectInv' /\ ManifestInv'
  <1> USE DEF PublicationInv, Outside, Building, Holding, Rejecting, Recording, silverVars
  <1>1. ClaimInv'
    BY DEF ClaimInv
  <1>2. OwnedInv'
    BY DEF OwnedInv
  <1>3. CountInv' /\ ObjectInv'
    BY DEF CountInv, ObjectInv
  <1>4. ManifestInv'
    BY DEF ManifestInv
  <1>. QED
    BY <1>1, <1>2, <1>3, <1>4

(* An error raised inside the try block touches no file: before the claim  *)
(* it leads out of the block, after it to the cleanup.                     *)
LEMMA RaiseKeeps ==
    ASSUME TypeOK, PublicationInv, NEW q \in Publishers, NEW code \in CleanCodes,
           \/ pc[q] \in Outside /\ Raise(q, "unstage", code)
           \/ pc[q] \in Building /\ Raise(q, "cleanup", code),
           UNCHANGED <<silverVars, quarantineVars>>
    PROVE  TypeOK' /\ PublicationInv'
  <1> USE DEF TypeOK, Labels, ErrorCodes, CleanCodes, Outside, Building, Holding,
              Rejecting, Recording, Raise, Goto, silverVars, quarantineVars
  <1>1. TypeOK'
    OBVIOUS
  <1>2. ClaimInv' /\ OwnedInv' /\ CountInv' /\ ObjectInv' /\ ManifestInv'
    BY StoppingKeeps
  <1>3. ErrorInv'
    BY DEF PublicationInv, ErrorInv, ClaimInv
  <1>. QED
    BY <1>1, <1>2, <1>3 DEF PublicationInv

(* The end of a call, and the handler of a rejection, touch no Silver file.*)
LEMMA FinishKeeps ==
    ASSUME TypeOK, PublicationInv, NEW q \in Publishers, QuarantineTyped',
           UNCHANGED silverVars, pc[q] \in Outside \cup {"unstage"} \cup Rejecting,
           NEW code \in ErrorCodes \cup {"accepted", "os_error",
                                         "quarantine_publication_failure"},
           Finish(q, code)
    PROVE  TypeOK' /\ PublicationInv'
  <1> USE DEF TypeOK, Labels, Outside, Building, Holding, Rejecting, Recording, Finish,
              Goto, silverVars
  <1>1. TypeOK'
    BY DEF QuarantineTyped
  <1>2. ClaimInv' /\ OwnedInv' /\ CountInv' /\ ObjectInv' /\ ManifestInv'
    BY StoppingKeeps
  <1>3. ErrorInv'
    BY DEF PublicationInv, ErrorInv, CleanCodes
  <1>. QED
    BY <1>1, <1>2, <1>3 DEF PublicationInv

(* From one label of the rejection to another, or into it, no Silver file  *)
(* is touched.                                                             *)
LEMMA HandlerKeeps ==
    ASSUME TypeOK, PublicationInv, NEW q \in Publishers, QuarantineTyped',
           UNCHANGED silverVars, pc[q] \in {"unstage"} \cup Rejecting,
           error[q] # "none", NEW label \in Rejecting, Move(q, label)
    PROVE  TypeOK' /\ PublicationInv'
  <1> USE DEF TypeOK, Labels, Outside, Building, Holding, Rejecting, Recording, Move,
              Goto, silverVars
  <1>1. TypeOK'
    BY DEF QuarantineTyped
  <1>2. ClaimInv' /\ OwnedInv' /\ CountInv' /\ ObjectInv' /\ ManifestInv'
    BY StoppingKeeps
  <1>3. ErrorInv'
    BY DEF PublicationInv, ErrorInv, CleanCodes
  <1>. QED
    BY <1>1, <1>2, <1>3 DEF PublicationInv

(* The steps of _publish_accepted up to its errors.                        *)
LEMMA AcceptingKeeps ==
    ASSUME TypeOK, PublicationInv, NEW q \in Publishers,
           \/ Validate(q)
           \/ Transform(q) /\ input[q] \notin Defective
           \/ Claim(q) \/ EnsureParent(q) \/ MakeFolder(q) \/ LinkObject(q)
           \/ CheckManifest(q) /\ manifest[run[q]] = Nobody
           \/ LinkManifest(q) \/ Settle(q) \/ RemoveFolder(q) \/ RemoveClaim(q)
    PROVE  TypeOK' /\ PublicationInv'
  <1> USE PublishersAssumption, HourCountAssumption
      DEF PublicationInv, TypeOK, Labels, ErrorCodes, CleanCodes, Anyone, Hours, Outside,
          Building, Holding, Recording, Rejecting, ClaimInv, OwnedInv, CountInv,
          ObjectInv, ManifestInv, ErrorInv, Goto, Raise, Finish, Move, silverVars,
          publisherVars, quarantineVars
  <1>1. CASE Validate(q)
    BY <1>1 DEF Validate
  <1>2. CASE Transform(q) /\ input[q] \notin Defective
    <2>1. Move(q, "claim") /\ UNCHANGED <<silverVars, quarantineVars>> /\ pc[q] = "transform"
      BY <1>2 DEF Transform
    <2>. QED
      BY <2>1
  <1>3. CASE Claim(q)
    BY <1>3 DEF Claim
  <1>4. CASE EnsureParent(q)
    BY <1>4 DEF EnsureParent
  <1>5. CASE MakeFolder(q)
    BY <1>5 DEF MakeFolder
  <1>6. CASE LinkObject(q)
    BY <1>6 DEF LinkObject
  <1>7. CASE CheckManifest(q) /\ manifest[run[q]] = Nobody
    <2>1. Move(q, "manifest") /\ UNCHANGED <<silverVars, quarantineVars>> /\ pc[q] = "check"
      BY <1>7 DEF CheckManifest
    <2>. QED
      BY <2>1
  <1>8. CASE LinkManifest(q)
    BY <1>8 DEF LinkManifest
  <1>9. CASE Settle(q)
    BY <1>9 DEF Settle
  <1>10. CASE RemoveFolder(q)
    BY <1>10 DEF RemoveFolder
  <1>11. CASE RemoveClaim(q)
    BY <1>11 DEF RemoveClaim
  <1>. QED
    BY ONLY <1>1, <1>2, <1>3, <1>4, <1>5, <1>6, <1>7, <1>8, <1>9, <1>10, <1>11,
            \/ Validate(q)
            \/ Transform(q) /\ input[q] \notin Defective
            \/ Claim(q) \/ EnsureParent(q) \/ MakeFolder(q) \/ LinkObject(q)
            \/ CheckManifest(q) /\ manifest[run[q]] = Nobody
            \/ LinkManifest(q) \/ Settle(q) \/ RemoveFolder(q) \/ RemoveClaim(q)

(* What ties the Silver directories to their makers survives every step.   *)
LEMMA StepKeepsPublication ==
    ASSUME TypeOK, PublicationInv, NEW q \in Publishers, Step(q)
    PROVE  TypeOK' /\ PublicationInv'
  <1>t. error[q] \in ErrorCodes \cup {"none"}
    BY DEF TypeOK
  <1>1. CASE \/ Transform(q) /\ input[q] \in Defective
             \/ ClaimTaken(q) \/ FolderTaken(q) \/ ManifestTaken(q)
             \/ CheckManifest(q) /\ manifest[run[q]] # Nobody
    BY <1>1, RaiseKeeps DEF Transform, ClaimTaken, FolderTaken, ManifestTaken,
                            CheckManifest, Outside, Building, CleanCodes
  <1>2. CASE \/ Unstage(q) \/ RejectionTaken(q) \/ CompareRejection(q) \/ SealRejection(q)
             \/ OpenRejection(q) \/ LinkRejection(q) \/ UnlinkRejection(q)
             \/ RemoveRejection(q) \/ RaiseDropped(q)
    <2>1. QuarantineTyped'
      BY <1>2 DEF TypeOK, QuarantineTyped, Unstage, RejectionTaken, CompareRejection,
                  SealRejection, OpenRejection, LinkRejection, UnlinkRejection,
                  RemoveRejection, RaiseDropped, quarantineVars
    <2> USE <1>t, <2>1 DEF PublicationInv, ErrorInv, Rejecting, Recording, ErrorCodes,
                           CleanCodes
    <2>2. CASE Unstage(q) /\ error[q] = "none"
      BY <2>2, FinishKeeps DEF Unstage
    <2>3. CASE CompareRejection(q) \/ SealRejection(q) \/ RaiseDropped(q)
      BY <2>3, FinishKeeps DEF CompareRejection, SealRejection, RaiseDropped
    <2>4. CASE Unstage(q) /\ error[q] # "none"
      BY <2>4, HandlerKeeps DEF Unstage
    <2>5. CASE RejectionTaken(q) \/ OpenRejection(q) \/ LinkRejection(q) \/ RemoveRejection(q)
      BY <2>5, HandlerKeeps DEF RejectionTaken, OpenRejection, LinkRejection, RemoveRejection
    <2>6. CASE UnlinkRejection(q)
      BY <2>6 DEF UnlinkRejection, publisherVars, silverVars, QuarantineTyped, TypeOK,
                  ClaimInv, OwnedInv, CountInv, ObjectInv, ManifestInv
    <2>. QED
      BY ONLY <1>2, <2>2, <2>3, <2>4, <2>5, <2>6
  <1>3. CASE \/ Validate(q)
             \/ Transform(q) /\ input[q] \notin Defective
             \/ Claim(q) \/ EnsureParent(q) \/ MakeFolder(q) \/ LinkObject(q)
             \/ CheckManifest(q) /\ manifest[run[q]] = Nobody
             \/ LinkManifest(q) \/ Settle(q) \/ RemoveFolder(q) \/ RemoveClaim(q)
    BY <1>3, AcceptingKeeps
  <1>. QED
    BY ONLY Step(q), <1>1, <1>2, <1>3 DEF Step

(* ... and every fault, whichever handler catches it.                      *)
LEMMA FaultKeepsPublication ==
    ASSUME TypeOK, PublicationInv, NEW q \in Publishers, Fault(q)
    PROVE  TypeOK' /\ PublicationInv'
  <1>q. QuarantineTyped'
    BY DEF TypeOK, QuarantineTyped, Fault, ReadError, CallError, SettleError, CleanupError,
           UnhandledError, RejectionError, CompareError, DropError, Crash, quarantineVars
  <1>1. CASE ReadError(q) \/ CallError(q) \/ SettleError(q)
    BY <1>1, RaiseKeeps DEF ReadError, CallError, SettleError, Outside, Building, CleanCodes
  <1>2. CASE UnhandledError(q) \/ CompareError(q) \/ DropError(q)
    BY <1>2, <1>q, FinishKeeps
       DEF UnhandledError, CompareError, DropError, Outside, Rejecting, Recording,
           ErrorCodes, CleanCodes
  <1>3. CASE RejectionError(q)
    BY <1>3, <1>q, HandlerKeeps
       DEF RejectionError, Rejecting, Recording, PublicationInv, ErrorInv
  <1>4. CASE CleanupError(q) \/ Crash(q)
    <2> USE <1>4 DEF CleanupError, Crash, TypeOK, Labels, ErrorCodes, CleanCodes, Outside,
            Building, Holding, Rejecting, Recording, Raise, Move, Goto, silverVars,
            quarantineVars
    <2>1. TypeOK'
      OBVIOUS
    <2>2. ClaimInv' /\ OwnedInv' /\ CountInv' /\ ObjectInv' /\ ManifestInv'
      BY StoppingKeeps
    <2>3. ErrorInv'
      BY DEF PublicationInv, ErrorInv
    <2>. QED
      BY <2>1, <2>2, <2>3 DEF PublicationInv
  <1>. QED
    BY ONLY Fault(q), <1>1, <1>2, <1>3, <1>4 DEF Fault

-----------------------------------------------------------------------------
(* The quarantine directories stay with their makers.                      *)
LEMMA QuarantineKeeps ==
    ASSUME TypeOK, QuarantineInv, NEW q \in Publishers, Step(q) \/ Fault(q)
    PROVE  QuarantineInv'
  <1> USE PublishersAssumption
      DEF TypeOK, QuarantineInv, Rejecting, Recording, Goto, Raise, Finish, Move,
          silverVars, publisherVars, quarantineVars
  <1>1. CASE OpenRejection(q)
    BY <1>1 DEF OpenRejection
  <1>2. CASE LinkRejection(q)
    BY <1>2 DEF LinkRejection
  <1>3. CASE UnlinkRejection(q) \/ RemoveRejection(q)
    <2>1. CASE UnlinkRejection(q)
      BY <2>1 DEF UnlinkRejection
    <2>2. CASE RemoveRejection(q)
      BY <2>2 DEF RemoveRejection
    <2>. QED
      BY <1>3, <2>1, <2>2
  <1>4. CASE SealRejection(q) \/ DropError(q) \/ RejectionError(q)
    <2>1. CASE SealRejection(q) \/ DropError(q)
      BY <2>1 DEF SealRejection, DropError
    <2>2. CASE RejectionError(q)
      BY <2>2 DEF RejectionError
    <2>. QED
      BY <1>4, <2>1, <2>2
  <1>5. CASE Crash(q)
    BY <1>5 DEF Crash
  <1>6. ASSUME pc[q] \notin Recording \cup {"done", "crashed"},
               pc'[q] \notin Recording,
               \A p \in Publishers \ {q} : pc'[p] = pc[p],
               UNCHANGED <<run, quarantine, rejection>>
        PROVE  QuarantineInv'
    BY <1>6
  <1>7. CASE ReadError(q) \/ CallError(q) \/ SettleError(q) \/ CleanupError(q)
             \/ UnhandledError(q) \/ CompareError(q)
    BY <1>7, <1>6 DEF ReadError, CallError, SettleError, CleanupError, UnhandledError,
                      CompareError
  <1>8. CASE \/ Validate(q) \/ Transform(q) \/ Claim(q) \/ ClaimTaken(q) \/ EnsureParent(q)
             \/ MakeFolder(q) \/ FolderTaken(q) \/ LinkObject(q) \/ CheckManifest(q)
             \/ LinkManifest(q) \/ ManifestTaken(q) \/ Settle(q) \/ RemoveFolder(q)
             \/ RemoveClaim(q) \/ Unstage(q) \/ RejectionTaken(q) \/ CompareRejection(q)
             \/ RaiseDropped(q)
    BY <1>8, <1>6 DEF Validate, Transform, Claim, ClaimTaken, EnsureParent, MakeFolder,
                      FolderTaken, LinkObject, CheckManifest, LinkManifest, ManifestTaken,
                      Settle, RemoveFolder, RemoveClaim, Unstage, RejectionTaken,
                      CompareRejection, RaiseDropped
  <1>. QED
    BY ONLY Step(q) \/ Fault(q), <1>1, <1>2, <1>3, <1>4, <1>5, <1>7, <1>8 DEF Step, Fault

(* Only a publisher that has not ended takes a step.  It changes nobody    *)
(* else, no input, and knows a manifest id for good.                       *)
LEMMA OthersStay ==
    ASSUME TypeOK, NEW q \in Publishers, Step(q) \/ Fault(q)
    PROVE  /\ pc[q] \notin {"done", "crashed"}
           /\ \A p \in Publishers \ {q} :
                  pc'[p] = pc[p] /\ outcome'[p] = outcome[p] /\ error'[p] = error[p]
           /\ \A p \in Publishers : pc[p] # "validate" => known'[p] = known[p]
           /\ run' = run /\ input' = input
  <1> USE DEF TypeOK, Raise, Finish, Move, Goto, publisherVars
  <1>1. CASE Step(q)
    BY <1>1 DEF Step, Validate, Transform, Claim, ClaimTaken, EnsureParent, MakeFolder,
                FolderTaken, LinkObject, CheckManifest, LinkManifest, ManifestTaken,
                Settle, RemoveFolder, RemoveClaim, Unstage, OpenRejection,
                RejectionTaken, CompareRejection, LinkRejection, SealRejection,
                UnlinkRejection, RemoveRejection, RaiseDropped
  <1>2. CASE Fault(q)
    BY <1>2 DEF Fault, ReadError, CallError, SettleError, CleanupError, UnhandledError,
                RejectionError, CompareError, DropError, Crash
  <1>. QED
    BY <1>1, <1>2

(* Evidence that matches a rejected input goes on matching it: only its    *)
(* owner can take it away, and is then in the handler that does.           *)
LEMMA EvidenceStays ==
    ASSUME TypeOK, PublicationInv, QuarantineInv, NEW q \in Publishers, Step(q) \/ Fault(q),
           NEW p \in Publishers, pc[p] = "done", Matches(p)
    PROVE  Matches(p)' \/ \E o \in Publishers : Withdrew(o, p)'
  <1> DEFINE owner == rejection[run[p]]
  <1> USE PublishersAssumption
  <1>1. /\ owner \in Publishers /\ run[p] \in Runs
        /\ run[owner] = run[p] /\ pc[owner] \notin {"validate", "evidence"}
        /\ quarantine[run[p]] = owner
    <2>1. run[p] \in Runs
      BY DEF TypeOK
    <2>2. owner \in Publishers
      BY <2>1 DEF TypeOK, Matches
    <2>. QED
      BY <2>1, <2>2 DEF QuarantineInv, Recording
  <1>2. input' = input /\ run' = run
    BY OthersStay
  <1>3. known'[p] = known[p] /\ known'[owner] = known[owner]
    BY <1>1, OthersStay
  <1>4. CASE UnlinkRejection(q)
    <2>1. CASE run[q] = run[p]
      <3>1. q = owner /\ pc'[q] = "drop"
        BY <1>1, <1>4, <2>1 DEF UnlinkRejection, publisherVars, QuarantineInv, Recording
      <3>2. Withdrew(q, p)'
        BY <1>2, <1>3, <2>1, <3>1 DEF Withdrew, Matches
      <3>. QED
        BY <3>2
    <2>2. CASE run[q] # run[p]
      BY <1>1, <1>2, <1>3, <1>4, <2>2 DEF UnlinkRejection, TypeOK, Matches
    <2>. QED
      BY <2>1, <2>2
  <1>5. CASE LinkRejection(q)
    <2>1. run[q] # run[p]
      BY <1>1, <1>5 DEF LinkRejection, QuarantineInv, Recording
    <2>. QED
      BY <1>1, <1>2, <1>3, <1>5, <2>1 DEF LinkRejection, TypeOK, Matches
  <1>6. CASE ~UnlinkRejection(q) /\ ~LinkRejection(q)
    <2>1. rejection' = rejection
      BY <1>6 DEF Step, Fault, Validate, Transform, Claim, ClaimTaken, EnsureParent,
             MakeFolder, FolderTaken, LinkObject, CheckManifest, LinkManifest,
             ManifestTaken, Settle, RemoveFolder, RemoveClaim, Unstage, OpenRejection,
             RejectionTaken, CompareRejection, SealRejection, RemoveRejection,
             RaiseDropped, ReadError, CallError,
             SettleError, CleanupError, UnhandledError, RejectionError, CompareError,
             DropError, Crash, quarantineVars
    <2>. QED
      BY <1>1, <1>2, <1>3, <2>1 DEF Matches
  <1>. QED
    BY <1>4, <1>5, <1>6

(* An error is raised as it is only by a publisher that has linked its own *)
(* rejection or has found one that matches.                                *)
LEMMA RaisingMatches ==
    ASSUME TypeOK, QuarantineInv, NEW q \in Publishers, Step(q) \/ Fault(q),
           outcome[q] = "none", outcome'[q] \in {"invalid_input", "publication_failure"}
    PROVE  Matches(q)'
  <1> USE PublishersAssumption DEF TypeOK, Finish, Goto, quarantineVars
  <1>1. CASE CompareRejection(q)
    <2>1. Matches(q) /\ UNCHANGED <<run, input, known, rejection>>
      BY <1>1 DEF CompareRejection
    <2>. QED
      BY <2>1 DEF Matches
  <1>2. CASE SealRejection(q)
    <2>1. rejection[run[q]] = q /\ UNCHANGED <<run, input, known, rejection>>
      BY <1>2 DEF SealRejection, QuarantineInv
    <2>. QED
      BY <2>1 DEF Matches
  <1>3. CASE ~CompareRejection(q) /\ ~SealRejection(q)
    <2>1. CASE Step(q)
      BY <1>3, <2>1 DEF Step, Validate, Transform, Claim, ClaimTaken, EnsureParent,
                MakeFolder, FolderTaken, LinkObject, CheckManifest, LinkManifest,
                ManifestTaken, Settle, RemoveFolder, RemoveClaim, Unstage, OpenRejection,
                RejectionTaken, LinkRejection, UnlinkRejection, RemoveRejection,
                RaiseDropped, Raise, Move, publisherVars
    <2>2. CASE Fault(q)
      BY <2>2 DEF Fault, ReadError, CallError, SettleError, CleanupError, UnhandledError,
                  RejectionError, CompareError, DropError, Crash, Raise, Move
    <2>. QED
      BY <2>1, <2>2
  <1>. QED
    BY <1>1, <1>2, <1>3

(* Whoever has taken its record back, or died in the handler, stays that   *)
(* way to its end.                                                         *)
LEMMA WithdrewStays ==
    ASSUME TypeOK, ErrorInv, NEW q \in Publishers, Step(q) \/ Fault(q),
           NEW o \in Publishers, NEW p \in Publishers, pc[p] = "done", Withdrew(o, p)
    PROVE  Withdrew(o, p)'
  <1>1. pc[o] # "validate" /\ run' = run /\ input' = input
    BY OthersStay DEF Withdrew, ErrorInv
  <1>2. known'[o] = known[o] /\ known'[p] = known[p]
    BY <1>1, OthersStay
  <1>3. CASE o # q
    BY <1>1, <1>2, <1>3, OthersStay DEF Withdrew
  <1>4. CASE o = q
    <2>1. pc[q] \in {"drop", "dropped"} /\ error[q] # "none"
      BY <1>4, OthersStay DEF Withdrew, ErrorInv, Rejecting, Recording
    <2>2. \/ pc'[q] \in {"drop", "dropped"}
          \/ outcome'[q] \in {"quarantine_publication_failure", "publication_cleanup_failure"}
          \/ pc'[q] = "crashed" /\ error'[q] # "none"
      BY <2>1 DEF Step, Fault, Validate, Transform, Claim, ClaimTaken, EnsureParent,
         MakeFolder, FolderTaken, LinkObject, CheckManifest, LinkManifest, ManifestTaken,
         Settle, RemoveFolder, RemoveClaim, Unstage, OpenRejection, RejectionTaken,
         CompareRejection, LinkRejection, SealRejection, UnlinkRejection, RemoveRejection,
         RaiseDropped, ReadError, CallError, SettleError, CleanupError, UnhandledError,
         RejectionError, CompareError, DropError, Crash, Finish, Move, Goto,
         publisherVars, TypeOK
    <2>. QED
      BY <1>1, <1>2, <1>4, <2>2 DEF Withdrew
  <1>. QED
    BY <1>3, <1>4

(* An error is raised only when it is on record, and stays on record after *)
(* that unless the record is taken back.                                   *)
LEMMA RecordKeeps ==
    ASSUME IInv, NEW q \in Publishers, Step(q) \/ Fault(q)
    PROVE  RaisedIsRecorded'
  <1> USE DEF IInv
  <1>1. SUFFICES ASSUME NEW p \in Publishers, pc'[p] = "done",
                        outcome'[p] \in {"invalid_input", "publication_failure"}
                 PROVE  Matches(p)' \/ \E o \in Publishers : Withdrew(o, p)'
    BY DEF RaisedIsRecorded
  <1>2. CASE pc[p] = "done"
    <2>1. outcome[p] \in {"invalid_input", "publication_failure"}
      BY <1>1, <1>2, OthersStay
    <2>2. CASE Matches(p)
      BY <1>2, <2>2, EvidenceStays
    <2>3. ASSUME NEW o \in Publishers, Withdrew(o, p)
          PROVE  Withdrew(o, p)'
      BY <1>2, <2>3, WithdrewStays DEF PublicationInv
    <2>. QED
      BY <1>2, <2>1, <2>2, <2>3 DEF RaisedIsRecorded
  <1>3. CASE pc[p] # "done"
    <2>1. p = q
      BY <1>1, <1>3, OthersStay
    <2>2. outcome[p] = "none"
      BY <1>3 DEF PublicationInv, ErrorInv
    <2>. QED
      BY <1>1, <2>1, <2>2, RaisingMatches
  <1>. QED
    BY <1>2, <1>3

(* A manifest of the same name by another program ties nobody.             *)
LEMMA ForeignManifestKeeps ==
    ASSUME IInv, NEW r \in Runs, ForeignManifest(r)
    PROVE  IInv'
  <1> USE PublishersAssumption
      DEF IInv, PublicationInv, ForeignManifest, publisherVars, quarantineVars
  <1>1. TypeOK'
    BY DEF TypeOK, Anyone
  <1>2. ClaimInv' /\ OwnedInv' /\ CountInv' /\ ObjectInv' /\ ErrorInv'
    BY DEF ClaimInv, OwnedInv, CountInv, ObjectInv, ErrorInv
  <1>3. ManifestInv'
    BY DEF ManifestInv, TypeOK
  <1>4. QuarantineInv' /\ RaisedIsRecorded'
    BY DEF QuarantineInv, RaisedIsRecorded, Matches, Withdrew
  <1>. QED
    BY <1>1, <1>2, <1>3, <1>4

(* A stutter keeps everything.                                             *)
LEMMA IdleKeeps ==
    ASSUME IInv, UNCHANGED vars
    PROVE  IInv'
  BY DEF vars, publisherVars, silverVars, quarantineVars, IInv, PublicationInv, TypeOK,
         ClaimInv, OwnedInv, CountInv, ObjectInv, ManifestInv, ErrorInv, QuarantineInv,
         RaisedIsRecorded, Matches, Withdrew

(* The inductive invariant holds in every reachable state.                 *)
THEOREM Invariance == Spec => []IInv
  <1>1. IInv /\ [Next]_vars => IInv'
    <2>1. ASSUME IInv, NEW q \in Publishers, Step(q) \/ Fault(q)
          PROVE  IInv'
      BY <2>1, StepKeepsPublication, FaultKeepsPublication, QuarantineKeeps, RecordKeeps
         DEF IInv
    <2>. QED
      BY <2>1, ForeignManifestKeeps, IdleKeeps DEF Next, Rest
  <1>. QED
    BY Initially, <1>1, PTL DEF Spec

-----------------------------------------------------------------------------
(* Type correctness of the Silver publishers.                              *)
THEOREM TypeCorrect == Spec => []TypeOK
  BY Invariance, PTL DEF IInv

(* A publisher that ends with an error of its own leaves no claim,         *)
(* directory or object behind.                                             *)
THEOREM CleanFailure == Spec => []FailureLeavesNothing
  <1>1. IInv => FailureLeavesNothing
    <2> SUFFICES ASSUME IInv, NEW p \in Publishers, pc[p] = "done",
                        error[p] \in CleanCodes, NEW r \in Runs
                 PROVE  claim[r] # p /\ \A h \in Hours : folder[r][h] # p /\ object[r][h] # p
      BY DEF FailureLeavesNothing
    <2>1. claim[r] # p
      BY DEF IInv, PublicationInv, ErrorInv, ClaimInv
    <2>. QED
      BY <2>1 DEF IInv, PublicationInv, OwnedInv
  <1>. QED
    BY <1>1, Invariance, PTL

(* An error of the validation or of the publication is on record when it   *)
(* is raised, and its record is lost only to the handler of its maker.     *)
THEOREM RejectionIsRecorded == Spec => []RaisedIsRecorded
  BY Invariance, PTL DEF IInv

-----------------------------------------------------------------------------
(* The contract's view of the Silver manifests.                            *)
AcceptedView == [r \in Runs |-> Accepted(r)]

(* A publisher holding its claim is at work on its run in the contract.    *)
LEMMA HolderIsWorking ==
    ASSUME IInv, NEW q \in Publishers, pc[q] \in Holding
    PROVE  /\ run[q] \in Runs
           /\ Contract!Working(q, run[q])
  <1>1. run[q] \in Runs /\ claim[run[q]] = q
    BY DEF IInv, TypeOK, PublicationInv, ClaimInv
  <1>2. ASSUME manifest[run[q]] = q
        PROVE  pc[q] = "settle" \/ error[q] # "none"
    BY <1>1, <1>2 DEF IInv, PublicationInv, ManifestInv, ErrorInv, Holding, Building,
                      Rejecting, Recording
  <1>3. Accepted(run[q]) # q
    BY <1>2, PublishersAssumption DEF Accepted
  <1>. QED
    BY <1>1, <1>3 DEF Contract!Working

(* What others see of q: its error, and whether it may yet fail over its   *)
(* manifest.  Where neither changes, no manifest becomes or ceases to be   *)
(* accepted.                                                               *)
LEMMA AcceptedStays ==
    ASSUME IInv, NEW q \in Publishers, manifest' = manifest,
           \A p \in Publishers \ {q} : pc'[p] = pc[p] /\ error'[p] = error[p],
           \/ pc[q] \in Outside \cup (Building \ {"settle"})
           \/ error'[q] # "none" /\ (pc[q] = "settle" \/ error[q] # "none")
           \/ pc[q] # "settle" /\ pc'[q] # "settle" /\ error'[q] = error[q]
    PROVE  AcceptedView' = AcceptedView
  <1>1. ASSUME NEW r \in Runs
        PROVE  Accepted(r)' = Accepted(r)
    <2>1. CASE manifest[r] = q
      BY <2>1 DEF Accepted, IInv, PublicationInv, ManifestInv, Outside, Building,
                  Rejecting, Recording
    <2>2. CASE manifest[r] # q
      BY <2>2 DEF Accepted
    <2>. QED
      BY <2>1, <2>2
  <1>. QED
    BY <1>1 DEF AcceptedView

(* The exit of the manifest's temporary directory, or death before it, is  *)
(* the acceptance.                                                         *)
LEMMA SettlingAccepts ==
    ASSUME IInv, NEW q \in Publishers, pc[q] = "settle",
           NEW label \in {"unstage", "crashed"},
           Move(q, label), UNCHANGED silverVars
    PROVE  [Contract!Next]_(Contract!vars)
  <1> USE PublishersAssumption DEF IInv, TypeOK, PublicationInv
  <1>1. /\ run[q] \in Runs /\ Contract!Working(q, run[q])
        /\ manifest[run[q]] = q /\ error[q] = "none"
    BY HolderIsWorking DEF Holding, Building, ManifestInv, ErrorInv
  <1>2. \A h \in Hours : object[run[q]][h] = q
    BY <1>1 DEF ManifestInv
  <1>3. ASSUME NEW r \in Runs, r = run[q]
        PROVE  Accepted(r) = Nobody /\ Accepted(r)' = q
    BY <1>1, <1>3 DEF Accepted, Move, Goto, silverVars
  <1>4. \A r \in Runs : r # run[q] => Accepted(r)' = Accepted(r)
    BY DEF Accepted, Move, Goto, silverVars, ManifestInv
  <1>5. AcceptedView' = [AcceptedView EXCEPT ![run[q]] = q]
    BY <1>1, <1>3, <1>4 DEF AcceptedView
  <1>6. Contract!Accept(q, run[q])
    BY <1>1, <1>2, <1>3, <1>5 DEF Contract!Accept, AcceptedView, silverVars
  <1>7. \E p \in Publishers, r \in Runs : Contract!Accept(p, r)
    BY ONLY <1>1, <1>6, q \in Publishers DEF Contract!Accept
  <1>. QED
    BY ONLY <1>7 DEF Contract!Next

(* The steps under the claim: each is the contract's own.                  *)
LEMMA HoldingRefines ==
    ASSUME IInv, NEW q \in Publishers,
           Claim(q) \/ LinkObject(q) \/ RemoveFolder(q) \/ RemoveClaim(q)
    PROVE  Contract!Next
  <1> USE PublishersAssumption, HourCountAssumption
      DEF IInv, TypeOK, PublicationInv, Move, Goto, Hours
  <1>t. run[q] \in Runs
    OBVIOUS
  <1>a. AcceptedView' = AcceptedView
    BY AcceptedStays DEF Claim, LinkObject, RemoveFolder, RemoveClaim, Outside, Building,
                         ErrorInv
  <1>1. CASE Claim(q)
    <2>1. Contract!Claim(q, run[q])
      BY <1>1, <1>a DEF Claim, Contract!Claim, AcceptedView
    <2>. QED
      BY ONLY <1>t, <2>1, q \in Publishers DEF Contract!Next
  <1>2. CASE LinkObject(q)
    <2>1. made[q] \in Hours
      BY <1>2 DEF LinkObject, CountInv
    <2>2. Contract!Store(q, run[q], made[q])
      BY <1>2, <1>a, HolderIsWorking
         DEF LinkObject, Holding, Building, Contract!Store, AcceptedView
    <2>. QED
      BY ONLY <1>t, <2>1, <2>2, q \in Publishers DEF Contract!Next
  <1>3. CASE RemoveFolder(q)
    <2>1. made[q] \in Hours
      BY <1>3 DEF RemoveFolder
    <2>2. Contract!Discard(q, run[q], made[q])
      BY <1>3, <1>a, HolderIsWorking
         DEF RemoveFolder, Holding, Contract!Discard, AcceptedView
    <2>. QED
      BY ONLY <1>t, <2>1, <2>2, q \in Publishers DEF Contract!Next
  <1>4. CASE RemoveClaim(q)
    <2>1. \A h \in Hours : object[run[q]][h] # q
      BY <1>4 DEF RemoveClaim, OwnedInv, Holding
    <2>2. Contract!Release(q, run[q])
      BY <1>4, <1>a, <2>1, HolderIsWorking
         DEF RemoveClaim, Holding, Contract!Release, AcceptedView
    <2>. QED
      BY ONLY <1>t, <2>2, q \in Publishers DEF Contract!Next
  <1>. QED
    BY <1>1, <1>2, <1>3, <1>4

(* The link of a manifest whose publisher may yet fail is invisible.       *)
LEMMA LinkingIsInvisible ==
    ASSUME IInv, NEW q \in Publishers, LinkManifest(q)
    PROVE  UNCHANGED Contract!vars
  <1> USE PublishersAssumption
      DEF IInv, TypeOK, PublicationInv, LinkManifest, Move, Goto
  <1>1. ASSUME NEW r \in Runs
        PROVE  Accepted(r)' = Accepted(r)
    <2>1. CASE r = run[q]
      BY <2>1 DEF Accepted
    <2>2. CASE r # run[q]
      BY <2>2 DEF Accepted, ManifestInv
    <2>. QED
      BY <2>1, <2>2
  <1>. QED
    BY <1>1 DEF Contract!vars

(* Every step of a publisher is a step of the contract or invisible in it. *)
LEMMA StepRefines ==
    ASSUME IInv, NEW q \in Publishers, Step(q)
    PROVE  [Contract!Next]_(Contract!vars)
  <1> USE DEF IInv, TypeOK, PublicationInv, Goto, Move, Raise, Finish
  <1>1. CASE Claim(q) \/ LinkObject(q) \/ RemoveFolder(q) \/ RemoveClaim(q)
    BY <1>1, HoldingRefines
  <1>2. CASE Settle(q)
    BY <1>2, SettlingAccepts DEF Settle
  <1>3. CASE LinkManifest(q)
    BY <1>3, LinkingIsInvisible
  <1>4. CASE \/ Validate(q) \/ Transform(q) \/ ClaimTaken(q) \/ EnsureParent(q)
             \/ MakeFolder(q) \/ FolderTaken(q) \/ CheckManifest(q) \/ ManifestTaken(q)
    <2>1. /\ pc[q] \in Outside \cup (Building \ {"settle"})
          /\ claim' = claim /\ object' = object /\ manifest' = manifest
          /\ \A p \in Publishers \ {q} : pc'[p] = pc[p] /\ error'[p] = error[p]
      BY <1>4 DEF Validate, Transform, ClaimTaken, EnsureParent, MakeFolder, FolderTaken,
                  CheckManifest, ManifestTaken, Outside, Building, silverVars
    <2>2. AcceptedView' = AcceptedView
      BY <2>1, AcceptedStays
    <2>. QED
      BY <2>1, <2>2 DEF Contract!vars, AcceptedView
  <1>5. CASE \/ Unstage(q) \/ OpenRejection(q) \/ RejectionTaken(q) \/ CompareRejection(q)
             \/ LinkRejection(q) \/ SealRejection(q) \/ UnlinkRejection(q)
             \/ RemoveRejection(q) \/ RaiseDropped(q)
    <2>1. /\ pc[q] # "settle" /\ pc'[q] # "settle" /\ error' = error
          /\ UNCHANGED silverVars
          /\ \A p \in Publishers \ {q} : pc'[p] = pc[p]
      BY <1>5 DEF Unstage, OpenRejection, RejectionTaken, CompareRejection, LinkRejection,
                  SealRejection, UnlinkRejection, RemoveRejection, RaiseDropped,
                  publisherVars
    <2>2. AcceptedView' = AcceptedView
      BY <2>1, AcceptedStays DEF silverVars
    <2>. QED
      BY <2>1, <2>2 DEF Contract!vars, AcceptedView, silverVars
  <1>. QED
    BY ONLY Step(q), <1>1, <1>2, <1>3, <1>4, <1>5 DEF Step

(* A fault accepts only what a dying publisher had made visible.           *)
LEMMA FaultRefines ==
    ASSUME IInv, NEW q \in Publishers, Fault(q)
    PROVE  [Contract!Next]_(Contract!vars)
  <1>1. CASE Crash(q) /\ pc[q] = "settle"
    BY <1>1, SettlingAccepts DEF Crash
  <1>2. CASE ~(Crash(q) /\ pc[q] = "settle")
    <2>1. UNCHANGED silverVars
      BY DEF Fault, ReadError, CallError, SettleError, CleanupError, UnhandledError,
             RejectionError, CompareError, DropError, Crash
    <2>2. AcceptedView' = AcceptedView
      BY <1>2, <2>1, AcceptedStays
         DEF Fault, ReadError, CallError, SettleError, CleanupError, UnhandledError,
             RejectionError, CompareError, DropError, Crash, Raise, Finish, Move, Goto,
             Outside, Building, silverVars, IInv, TypeOK, PublicationInv, ErrorInv
    <2>. QED
      BY <2>1, <2>2 DEF silverVars, Contract!vars, AcceptedView
  <1>. QED
    BY <1>1, <1>2

(* The accepted path of Silver implements the publication contract,        *)
(* although a manifest can be visible whose publisher then fails.          *)
THEOREM SilverImplementsContract == Spec => ImplementsContract
  <1>1. Init => Contract!Init
    BY PublishersAssumption DEF Init, Contract!Init, Contract!Nothing, Accepted
  <1>2. IInv /\ [Next]_vars => [Contract!Next]_(Contract!vars)
    <2>1. ASSUME IInv, UNCHANGED vars
          PROVE  UNCHANGED Contract!vars
      BY <2>1 DEF vars, publisherVars, silverVars, Accepted, Contract!vars
    <2>2. ASSUME IInv, NEW r \in Runs, ForeignManifest(r)
          PROVE  UNCHANGED Contract!vars
      <3>1. \A s \in Runs : Accepted(s)' = Accepted(s)
        BY <2>2, PublishersAssumption
           DEF ForeignManifest, publisherVars, Accepted, IInv, TypeOK
      <3>. QED
        BY <2>2, <3>1 DEF ForeignManifest, Contract!vars
    <2>. QED
      BY StepRefines, FaultRefines, <2>1, <2>2 DEF Next, Rest
  <1>. QED
    BY <1>1, <1>2, Invariance, PTL DEF Spec, ImplementsContract, Contract!Spec
=============================================================================
