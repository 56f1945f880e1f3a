------------------------------ MODULE GoldProofs ------------------------------
(***************************************************************************)
(* Gold for any number of publishers, runs, adapter calls and sessions.    *)
(*                                                                         *)
(* The first part is the safety of GoldPublish, traffic and freshness      *)
(* alike, and that it implements Publication.  As for Bronze, the          *)
(* inductive invariant ties what lies under a run to the program counter   *)
(* of its maker; a manifest whose publisher has failed since is tied to    *)
(* nothing.                                                                *)
(*                                                                         *)
(* The second part is what readers may rely on (GoldQuery).  They change   *)
(* no file, so the publishers' invariant still holds; on top of it, what a *)
(* reader knows of a manifest stays true, because manifests are final and  *)
(* a publisher that has settled meets no more errors.                      *)
(***************************************************************************)
EXTENDS GoldQuery, TLAPS

(* Before the claim of its run is a publisher's.                           *)
Outside == {"materialize", "look", "find", "claim"}

(* Where it holds the claim, and where it may raise no error any more.     *)
Holding == {"check", "folder", "object", "manifest", "settle", "undo"}

Ending == {"unstage", "done", "crashed"}

ClaimInv ==
    /\ \A p \in Publishers : pc[p] \in Holding => claim[run[p]] = p
    /\ \A p \in Publishers, r \in Runs : claim[r] = p =>
          run[p] = r /\ pc[p] \notin Outside

(* What lies under a run belongs to the holder of its claim, who knows it. *)
OwnedInv ==
    /\ \A p \in Publishers, r \in Runs :
          /\ folder[r] = p => claim[r] = p /\ owned[p]
          /\ object[r] = p => folder[r] = p
    /\ \A p \in Publishers :
          /\ pc[p] \in Outside => ~owned[p]
          /\ pc[p] \in Holding /\ owned[p] => folder[run[p]] = p
          /\ pc[p] \in {"object", "manifest", "settle"} => owned[p]
          /\ pc[p] \in {"manifest", "settle"} => object[run[p]] = p

ErrorInv ==
    \A p \in Publishers :
        /\ pc[p] \in Outside \cup (Holding \ {"undo"}) => error[p] = "none"
        /\ pc[p] = "undo" => error[p] \in CleanCodes
        /\ pc[p] \in {"unstage", "done"} /\ Clean(p) => claim[run[p]] # p

ManifestInv ==
    /\ \A p \in Publishers : pc[p] = "settle" => manifest[run[p]] = p
    /\ \A p \in Publishers, r \in Runs : manifest[r] = p =>
          /\ run[p] = r
          /\ pc[p] \in {"settle", "undo"} \cup Ending
          /\ error[p] = "none" => claim[r] = p /\ object[r] = p

IInv == TypeOK /\ ClaimInv /\ OwnedInv /\ ErrorInv /\ ManifestInv

-----------------------------------------------------------------------------
(* Initially nobody holds, owns or published anything.                     *)
LEMMA Initially == Init => IInv
  BY PublishersAssumption
     DEF Init, IInv, TypeOK, Labels, CleanCodes, ErrorCodes, Clean, Outside, Holding,
         Ending, ClaimInv, OwnedInv, ErrorInv, ManifestInv

(* Each publisher's step preserves the invariant.                          *)
LEMMA StepKeeps ==
    ASSUME IInv, NEW q \in Publishers, Step(q)
    PROVE  IInv'
  <1> USE PublishersAssumption
      DEF IInv, TypeOK, Labels, CleanCodes, ErrorCodes, Clean, Outside, Holding, Ending,
          ClaimInv, OwnedInv, ErrorInv, ManifestInv, Goto, Move, Leave, Fail, fileVars,
          publisherVars
  <1>1. CASE Materialize(q)
    BY <1>1 DEF Materialize
  <1>2. CASE LookForFolder(q) \/ LookForManifest(q) \/ CheckManifest(q)
    BY <1>2 DEF LookForFolder, LookForManifest, CheckManifest
  <1>3. CASE FolderSeen(q) \/ ManifestSeen(q)
    BY <1>3 DEF FolderSeen, ManifestSeen
  <1>4. CASE Claim(q)
    BY <1>4 DEF Claim
  <1>5. CASE ClaimTaken(q)
    BY <1>5 DEF ClaimTaken
  <1>6. CASE MakeFolder(q)
    BY <1>6 DEF MakeFolder
  <1>7. CASE FolderTaken(q) \/ ManifestTaken(q)
    BY <1>7 DEF FolderTaken, ManifestTaken
  <1>8. CASE LinkObject(q)
    BY <1>8 DEF LinkObject
  <1>9. CASE LinkManifest(q)
    BY <1>9 DEF LinkManifest
  <1>10. CASE Settle(q)
    BY <1>10 DEF Settle
  <1>11. CASE RemoveObject(q)
    BY <1>11 DEF RemoveObject
  <1>12. CASE RemoveFolder(q)
    BY <1>12 DEF RemoveFolder
  <1>13. CASE RemoveClaim(q)
    BY <1>13 DEF RemoveClaim
  <1>14. CASE Return(q) \/ Raise(q)
    <2> USE <1>14 DEF Return, Raise, Finish
    <2>1. TypeOK' /\ ClaimInv' /\ OwnedInv'
      OBVIOUS
    <2>2. ErrorInv'
      OBVIOUS
    <2>3. ManifestInv'
      OBVIOUS
    <2>. QED
      BY <2>1, <2>2, <2>3
  <1>. QED
    BY ONLY Step(q), <1>1, <1>2, <1>3, <1>4, <1>5, <1>6, <1>7, <1>8, <1>9, <1>10,
            <1>11, <1>12, <1>13, <1>14 DEF Step

(* Faults never touch a file: they only choose where the publisher goes.   *)
LEMMA FaultKeeps ==
    ASSUME IInv, NEW q \in Publishers, Fault(q)
    PROVE  IInv'
  <1> USE PublishersAssumption
      DEF IInv, TypeOK, Labels, CleanCodes, ErrorCodes, Clean, Outside, Holding, Ending,
          ClaimInv, OwnedInv, ErrorInv, ManifestInv, Goto, Move, Leave, Fail, fileVars
  <1>1. CASE InputError(q)
    BY <1>1 DEF InputError
  <1>2. CASE UnsafeParent(q)
    BY <1>2 DEF UnsafeParent
  <1>3. CASE UnhandledError(q)
    BY <1>3 DEF UnhandledError
  <1>4. CASE CallError(q)
    BY <1>4 DEF CallError
  <1>5. CASE CleanupError(q)
    BY <1>5 DEF CleanupError
  <1>6. CASE UnstageError(q)
    BY <1>6 DEF UnstageError, Finish
  <1>7. CASE Crash(q)
    BY <1>7 DEF Crash
  <1>8. CASE DigestError(q)
    BY <1>8 DEF DigestError
  <1>. QED
    BY ONLY Fault(q), <1>1, <1>2, <1>3, <1>4, <1>5, <1>6, <1>7, <1>8 DEF Fault

(* A stutter keeps the invariant.                                          *)
LEMMA IdleKeeps ==
    ASSUME IInv, UNCHANGED vars
    PROVE  IInv'
  BY DEF vars, IInv, TypeOK, ClaimInv, OwnedInv, ErrorInv, ManifestInv, Clean

(* The invariant is inductive.                                             *)
LEMMA NextKeeps == IInv /\ [Next]_vars => IInv'
  BY StepKeeps, FaultKeeps, IdleKeeps DEF Next, Rest

(* The inductive invariant holds in every reachable state, whatever the    *)
(* order in which any number of publishers look, claim, link and clean up, *)
(* and whichever of their calls fail.                                      *)
THEOREM Invariance == Spec => []IInv
  BY Initially, NextKeeps, PTL DEF Spec

-----------------------------------------------------------------------------
(* Type correctness of the Gold publishers.                                *)
THEOREM TypeCorrect == Spec => []TypeOK
  BY Invariance, PTL DEF IInv

(* A publisher that fails with a code leaves nothing behind but, at most,  *)
(* its manifest; the one exception is the freshness publisher that cannot  *)
(* read its staged object again.                                           *)
THEOREM CleanFailure == Spec => []FailureLeavesNothing
  <1>1. IInv => FailureLeavesNothing
    BY DEF IInv, ClaimInv, OwnedInv, ErrorInv, FailureLeavesNothing
  <1>. QED
    BY <1>1, Invariance, PTL
-----------------------------------------------------------------------------
(* The contract's view of a Gold manifest.                                 *)
Accepted == [r \in Runs |-> IF Settled(r) THEN manifest[r] ELSE Nobody]

(* A publisher holding its claim is at work on its run in the contract.    *)
LEMMA HolderIsWorking ==
    ASSUME IInv, NEW q \in Publishers, pc[q] \in Holding
    PROVE  /\ run[q] \in Runs
           /\ Contract!Working(q, run[q])
  BY PublishersAssumption
     DEF IInv, TypeOK, ClaimInv, ErrorInv, ManifestInv, Holding, Ending, CleanCodes,
         Settled, Contract!Working

(* The exit of the manifest's temporary directory, or death before it, is  *)
(* the acceptance.                                                         *)
LEMMA SettlingAccepts ==
    ASSUME IInv, NEW q \in Publishers, pc[q] = "settle",
           NEW label \in {"unstage", "crashed"},
           Move(q, label), UNCHANGED fileVars
    PROVE  Contract!Accept(q, run[q])
  <1> USE PublishersAssumption DEF IInv, TypeOK
  <1>1. /\ run[q] \in Runs /\ Contract!Working(q, run[q])
        /\ manifest[run[q]] = q /\ object[run[q]] = q /\ error[q] = "none"
    BY HolderIsWorking DEF Holding, ManifestInv, OwnedInv, ErrorInv
  <1>2. ASSUME NEW r \in Runs, r = run[q]
        PROVE  ~Settled(r) /\ Settled(r)'
    BY <1>1, <1>2 DEF Settled, Move, Goto, fileVars
  <1>3. \A r \in Runs : r # run[q] => (Settled(r)' <=> Settled(r))
    BY DEF Settled, Move, Goto, fileVars, ManifestInv
  <1>4. Accepted' = [Accepted EXCEPT ![run[q]] = q]
    BY <1>1, <1>2, <1>3 DEF Accepted, fileVars
  <1>. QED
    BY <1>1, <1>2, <1>4 DEF Contract!Accept, Accepted, fileVars

(* What other publishers see of q: its error, and whether it may yet fail  *)
(* over its manifest.                                                      *)
LEMMA AcceptedStays ==
    ASSUME IInv, NEW q \in Publishers, manifest' = manifest,
           \A p \in Publishers \ {q} : pc'[p] = pc[p] /\ error'[p] = error[p],
           \/ pc[q] # "settle" /\ pc'[q] # "settle" /\ error'[q] = error[q]
           \/ pc[q] = "settle" /\ error'[q] # "none"
           \/ pc[q] = "undo" /\ error'[q] # "none"
           \/ pc[q] \in Outside \cup {"check", "folder", "object", "manifest"}
    PROVE  Accepted' = Accepted
  <1>1. ASSUME NEW r \in Runs
        PROVE  Settled(r)' <=> Settled(r)
    <2>1. CASE manifest[r] = q
      BY <2>1 DEF Settled, IInv, TypeOK, ManifestInv, ErrorInv, Outside, Ending,
                  CleanCodes
    <2>2. CASE manifest[r] # q
      BY <2>2 DEF Settled, IInv, TypeOK
    <2>. QED
      BY <2>1, <2>2
  <1>. QED
    BY <1>1 DEF Accepted

(* Every step of a publisher is a step of the contract or invisible in it. *)
LEMMA StepRefines ==
    ASSUME IInv, NEW q \in Publishers, Step(q)
    PROVE  [Contract!Next]_(Contract!vars)
  <1> USE PublishersAssumption DEF IInv, TypeOK, Goto, Move
  <1>t. run[q] \in Runs
    OBVIOUS
  <1>1. CASE Claim(q)
    <2>1. Accepted' = Accepted
      BY <1>1, AcceptedStays DEF Claim, Outside
    <2>2. Contract!Claim(q, run[q])
      BY <1>1, <2>1 DEF Claim, Contract!Claim, Accepted
    <2>. QED
      BY ONLY <1>t, <2>2, q \in Publishers DEF Contract!Next
  <1>2. CASE LinkObject(q)
    <2>1. Accepted' = Accepted
      BY <1>2, AcceptedStays DEF LinkObject
    <2>2. Contract!Store(q, run[q], "object")
      BY <1>2, <2>1, HolderIsWorking DEF LinkObject, Holding, Contract!Store, Accepted
    <2>3. \E p \in Publishers, r \in Runs, o \in {"object"} : Contract!Store(p, r, o)
      BY ONLY <1>t, <2>2, q \in Publishers DEF Contract!Store
    <2>. QED
      BY ONLY <2>3 DEF Contract!Next
  <1>3. CASE RemoveObject(q)
    <2>1. Accepted' = Accepted
      BY <1>3, AcceptedStays DEF RemoveObject, publisherVars
    <2>2. Contract!Discard(q, run[q], "object")
      BY <1>3, <2>1, HolderIsWorking
         DEF RemoveObject, Holding, Contract!Discard, Accepted
    <2>3. \E p \in Publishers, r \in Runs, o \in {"object"} : Contract!Discard(p, r, o)
      BY ONLY <1>t, <2>2, q \in Publishers DEF Contract!Discard
    <2>. QED
      BY ONLY <2>3 DEF Contract!Next
  <1>4. CASE RemoveClaim(q)
    <2>1. Accepted' = Accepted
      BY <1>4, AcceptedStays DEF RemoveClaim
    <2>2. object[run[q]] # q
      BY <1>4 DEF RemoveClaim, OwnedInv
    <2>3. Contract!Release(q, run[q])
      BY <1>4, <2>1, <2>2, HolderIsWorking
         DEF RemoveClaim, Holding, Contract!Release, Accepted
    <2>. QED
      BY ONLY <1>t, <2>3, q \in Publishers DEF Contract!Next
  <1>5. CASE Settle(q)
    <2>1. Contract!Accept(q, run[q])
      BY <1>5, SettlingAccepts DEF Settle
    <2>2. \E p \in Publishers, r \in Runs : Contract!Accept(p, r)
      BY ONLY <1>t, <2>1, q \in Publishers DEF Contract!Accept
    <2>. QED
      BY ONLY <2>2 DEF Contract!Next
  <1>6. CASE LinkManifest(q)
    <2>1. \A r \in Runs : r # run[q] => (Settled(r)' <=> Settled(r))
      BY <1>6 DEF LinkManifest, Settled, ManifestInv
    <2>2. ASSUME NEW r \in Runs, r = run[q]
          PROVE  ~Settled(r) /\ ~Settled(r)'
      BY <1>6, <2>2 DEF LinkManifest, Settled
    <2>3. Accepted' = Accepted
      BY <1>6, <2>1, <2>2 DEF Accepted, LinkManifest
    <2>. QED
      BY <1>6, <2>3 DEF LinkManifest, Contract!vars, Accepted
  <1>7. CASE \/ Materialize(q) \/ LookForFolder(q) \/ FolderSeen(q)
             \/ LookForManifest(q) \/ ManifestSeen(q) \/ ClaimTaken(q)
             \/ CheckManifest(q) \/ MakeFolder(q) \/ FolderTaken(q)
             \/ ManifestTaken(q)
    <2>1. pc[q] \in Outside \cup {"check", "folder", "object", "manifest"}
      BY <1>7 DEF Materialize, LookForFolder, FolderSeen, LookForManifest,
                  ManifestSeen, ClaimTaken, CheckManifest, MakeFolder, FolderTaken,
                  ManifestTaken, Outside
    <2>2. /\ claim' = claim /\ object' = object /\ manifest' = manifest
          /\ \A p \in Publishers \ {q} : pc'[p] = pc[p] /\ error'[p] = error[p]
      BY <1>7 DEF Materialize, LookForFolder, FolderSeen, LookForManifest,
                  ManifestSeen, ClaimTaken, CheckManifest, MakeFolder, FolderTaken,
                  ManifestTaken, Leave, Fail, fileVars
    <2>3. Accepted' = Accepted
      BY <2>1, <2>2, AcceptedStays
    <2>. QED
      BY <2>2, <2>3 DEF Contract!vars, Accepted
  <1>8. CASE RemoveFolder(q) \/ Return(q) \/ Raise(q)
    <2>1. Accepted' = Accepted
      BY <1>8, AcceptedStays DEF RemoveFolder, Return, Raise, Finish, fileVars
    <2>. QED
      BY <1>8, <2>1 DEF RemoveFolder, Return, Raise, Finish, fileVars, Contract!vars,
                        Accepted
  <1>. QED
    BY ONLY Step(q), <1>1, <1>2, <1>3, <1>4, <1>5, <1>6, <1>7, <1>8 DEF Step

(* A fault accepts only what a dying publisher had made visible.           *)
LEMMA FaultRefines ==
    ASSUME IInv, NEW q \in Publishers, Fault(q)
    PROVE  [Contract!Next]_(Contract!vars)
  <1> USE DEF IInv, TypeOK, Goto, Move
  <1>1. CASE Crash(q) /\ pc[q] = "settle"
    <2>1. Contract!Accept(q, run[q])
      BY <1>1, SettlingAccepts DEF Crash
    <2>2. run[q] \in Runs
      OBVIOUS
    <2>3. \E p \in Publishers, r \in Runs : Contract!Accept(p, r)
      BY ONLY <2>1, <2>2, q \in Publishers DEF Contract!Accept
    <2>. QED
      BY ONLY <2>3 DEF Contract!Next
  <1>2. CASE ~(Crash(q) /\ pc[q] = "settle")
    <2>1. UNCHANGED fileVars
      BY DEF Fault, InputError, UnsafeParent, UnhandledError, CallError, DigestError,
             CleanupError, UnstageError, Finish, Crash
    <2>2. Accepted' = Accepted
      BY <1>2, <2>1, AcceptedStays
         DEF Fault, InputError, UnsafeParent, UnhandledError, CallError, DigestError,
             CleanupError, UnstageError, Finish, Crash, Leave, Fail, Outside, fileVars
    <2>. QED
      BY <2>1, <2>2 DEF fileVars, Contract!vars, Accepted
  <1>. QED
    BY <1>1, <1>2

(* The Gold publishers implement the publication contract, although a      *)
(* manifest can be visible whose publisher then fails and takes back its   *)
(* object: such a manifest was never accepted.                             *)
THEOREM GoldImplementsContract == Spec => ImplementsContract
  <1>1. Init => Contract!Init
    BY PublishersAssumption DEF Init, Contract!Init, Contract!Nothing, Settled
  <1>2. IInv /\ [Next]_vars => [Contract!Next]_(Contract!vars)
    <2>1. ASSUME IInv, UNCHANGED vars
          PROVE  UNCHANGED Contract!vars
      <3>1. \A r \in Runs : Settled(r)' <=> Settled(r)
        BY <2>1 DEF vars, Settled
      <3>. QED
        BY <2>1, <3>1 DEF vars, Contract!vars
    <2>. QED
      BY StepRefines, FaultRefines, <2>1 DEF Next, Rest
  <1>. QED
    BY <1>1, <1>2, Invariance, PTL DEF Spec, ImplementsContract, Contract!Spec

-----------------------------------------------------------------------------
(* The manifest of a run, once accepted for good.                          *)
SettledInv ==
    \A q \in Readers : ~early[q] =>
        /\ Settled(asked[q])
        /\ failure[q] \notin DataErrors

(* What a reader has read is still there.                                  *)
CitedInv ==
    \A q \in Readers :
        /\ cited[q] # Nobody => manifest[asked[q]] = cited[q]
        /\ at[q] \notin {"waiting", "exists", "read", "done"} => cited[q] # Nobody

FreshInv == \A q \in Readers : at[q] = "waiting" => early[q] /\ failure[q] = "none"

QueryInv == /\ IInv
            /\ QueryTypeOK
            /\ CitedInv
            /\ FreshInv
            /\ SettledInv
            /\ AnswerIsCited

-----------------------------------------------------------------------------
(* Initially no reader has begun, so none knows anything.                  *)
LEMMA QueryInitially == QueryInit => QueryInv
  <1> SUFFICES ASSUME QueryInit
               PROVE  QueryInv
    OBVIOUS
  <1>1. IInv
    BY Initially DEF QueryInit
  <1>. QED
    BY <1>1 DEF QueryInit, QueryInv, IInv, QueryTypeOK, CitedInv, FreshInv, SettledInv,
                AnswerIsCited, DataErrors, OtherErrors

(* A manifest is final, and so is the state of the publisher behind an     *)
(* accepted one; an error once met never goes away.                        *)
LEMMA PublishersKeepWord ==
    ASSUME IInv, [Next]_vars, NEW r \in Runs
    PROVE  /\ manifest[r] # Nobody => manifest'[r] = manifest[r]
           /\ Settled(r) => Settled(r)'
           /\ \A p \in Publishers : error[p] # "none" => error'[p] # "none"
  <1> USE PublishersAssumption
      DEF IInv, TypeOK, ManifestInv, ErrorInv, Ending, Outside, Holding, CleanCodes,
          Settled, Goto, Move, Leave, Fail, Finish, fileVars, publisherVars
  <1>1. ASSUME NEW q \in Publishers, Step(q)
        PROVE  /\ manifest[r] # Nobody => manifest'[r] = manifest[r]
               /\ Settled(r) => Settled(r)'
               /\ \A p \in Publishers : error[p] # "none" => error'[p] # "none"
    <2>1. CASE \/ Materialize(q) \/ LookForFolder(q) \/ FolderSeen(q)
               \/ LookForManifest(q) \/ ManifestSeen(q) \/ ClaimTaken(q)
      BY <2>1 DEF Materialize, LookForFolder, FolderSeen, LookForManifest, ManifestSeen,
                  ClaimTaken
    <2>2. CASE Claim(q)
      BY <2>2 DEF Claim
    <2>3. CASE \/ CheckManifest(q) \/ MakeFolder(q) \/ FolderTaken(q) \/ LinkObject(q)
               \/ ManifestTaken(q)
      BY <2>3 DEF CheckManifest, MakeFolder, FolderTaken, LinkObject, ManifestTaken
    <2>4. CASE LinkManifest(q)
      BY <2>4 DEF LinkManifest
    <2>5. CASE Settle(q) \/ RemoveObject(q) \/ RemoveFolder(q) \/ RemoveClaim(q)
      BY <2>5 DEF Settle, RemoveObject, RemoveFolder, RemoveClaim
    <2>6. CASE Return(q) \/ Raise(q)
      BY <2>6 DEF Return, Raise
    <2>. QED
      BY ONLY <1>1, <2>1, <2>2, <2>3, <2>4, <2>5, <2>6 DEF Step
  <1>2. ASSUME NEW q \in Publishers, Fault(q)
        PROVE  /\ manifest[r] # Nobody => manifest'[r] = manifest[r]
               /\ Settled(r) => Settled(r)'
               /\ \A p \in Publishers : error[p] # "none" => error'[p] # "none"
    BY <1>2 DEF Fault, InputError, UnsafeParent, UnhandledError, CallError, DigestError,
                CleanupError, UnstageError, Crash
  <1>3. CASE UNCHANGED vars
    BY <1>3 DEF vars
  <1>. QED
    BY <1>1, <1>2, <1>3 DEF Next, Rest

-----------------------------------------------------------------------------
(* What publishers do leaves the readers' knowledge true.                  *)
LEMMA PublishKeeps ==
    ASSUME QueryInv, [Next]_vars, UNCHANGED readerVars
    PROVE  QueryInv'
  <1>1. IInv'
    BY NextKeeps DEF QueryInv
  <1>2. QueryTypeOK'
    BY <1>1 DEF QueryInv, QueryTypeOK, IInv, readerVars
  <1>3. \A r \in Runs :
           /\ manifest[r] # Nobody => manifest'[r] = manifest[r]
           /\ Settled(r) => Settled(r)'
           /\ \A p \in Publishers : error[p] # "none" => error'[p] # "none"
    BY PublishersKeepWord DEF QueryInv
  <1>4. CitedInv' /\ FreshInv'
    BY <1>3, PublishersAssumption
       DEF QueryInv, CitedInv, FreshInv, QueryTypeOK, readerVars
  <1>5. SettledInv'
    BY <1>3 DEF QueryInv, SettledInv, QueryTypeOK, readerVars
  <1>6. AnswerIsCited'
    <2> SUFFICES ASSUME NEW q \in Readers, rows[q] # Nobody, rows[q] # cited[q]
                 PROVE  cited[q] \in Publishers /\ error'[cited[q]] # "none"
      BY DEF AnswerIsCited, readerVars
    <2>. QED
      BY <1>3 DEF QueryInv, QueryTypeOK, AnswerIsCited
  <1>. QED
    BY <1>1, <1>2, <1>4, <1>5, <1>6 DEF QueryInv

(* A reader that began after the acceptance finds the object of its        *)
(* manifest, and it is the one the manifest it has read names.             *)
LEMMA SettledIsThere ==
    ASSUME QueryInv, NEW q \in Readers
    PROVE  /\ ~early[q] => /\ manifest[asked[q]] # Nobody
                           /\ TheObject(q) # Nobody
                           /\ cited[q] # Nobody => TheObject(q) = cited[q]
           /\ cited[q] # Nobody /\ error[cited[q]] = "none" => TheObject(q) = cited[q]
  BY PublishersAssumption
     DEF QueryInv, QueryTypeOK, IInv, TypeOK, SettledInv, CitedInv, ManifestInv, Settled,
         TheObject

(* A call that succeeds: the reader has read a manifest by the time it     *)
(* leaves the first calls.                                                 *)
LEMMA ProceedKeeps ==
    ASSUME QueryInv, NEW q \in Readers, NEW from, NEW to,
           Proceed(q, from, to), cited' = cited,
           from # "waiting",
           to \in {"read", "digest", "parquet", "bind", "run", "register", "ready", "done"},
           to \in {"read", "done"} \/ from \notin {"exists", "read", "done"}
    PROVE  QueryInv'
  <1> USE DEF QueryInv, Proceed, vars
  <1>1. IInv'
    BY IdleKeeps
  <1>2. QueryTypeOK'
    BY <1>1 DEF IInv, QueryTypeOK
  <1>3. CitedInv' /\ FreshInv'
    BY DEF QueryTypeOK, CitedInv, FreshInv
  <1>4. SettledInv' /\ AnswerIsCited'
    BY DEF SettledInv, AnswerIsCited, Settled
  <1>. QED
    BY <1>1, <1>2, <1>3, <1>4

(* A call that fails: on the files only if the reader began too early.     *)
LEMMA RefuseKeeps ==
    ASSUME QueryInv, NEW q \in Readers, NEW from, NEW code,
           Refuse(q, from, code),
           code \in DataErrors \cup OtherErrors,
           code \in DataErrors => early[q],
           from # "waiting"
    PROVE  QueryInv'
  <1> USE DEF QueryInv, Refuse, vars
  <1>1. IInv'
    BY IdleKeeps
  <1>2. QueryTypeOK'
    BY <1>1 DEF IInv, QueryTypeOK
  <1>3. CitedInv' /\ FreshInv'
    BY DEF QueryTypeOK, CitedInv, FreshInv
  <1>4. SettledInv' /\ AnswerIsCited'
    BY DEF QueryTypeOK, SettledInv, AnswerIsCited, Settled
  <1>. QED
    BY <1>1, <1>2, <1>3, <1>4

(* Rows come from the object of the manifest that was read, unless the     *)
(* publisher of that manifest has failed.                                  *)
LEMMA AnswerKeeps ==
    ASSUME QueryInv, NEW q \in Readers, NEW from, NEW to,
           Answer(q, from, to),
           from \in {"run", "ready"}, to \in {"ready", "done"}
    PROVE  QueryInv'
  <1> USE DEF QueryInv, Answer, vars
  <1>1. IInv'
    BY IdleKeeps
  <1>2. TheObject(q) \in Publishers \cup {Nobody}
    BY DEF IInv, TypeOK, QueryTypeOK, TheObject
  <1>3. QueryTypeOK'
    BY <1>1, <1>2 DEF IInv, QueryTypeOK
  <1>4. CitedInv' /\ FreshInv'
    BY DEF QueryTypeOK, CitedInv, FreshInv
  <1>5. SettledInv'
    BY DEF QueryTypeOK, SettledInv, Settled, DataErrors
  <1>6. cited[q] \in Publishers /\ (error[cited[q]] = "none" => TheObject(q) = cited[q])
    BY SettledIsThere DEF QueryTypeOK, CitedInv
  <1>7. AnswerIsCited'
    BY <1>6 DEF QueryTypeOK, AnswerIsCited
  <1>. QED
    BY <1>1, <1>3, <1>4, <1>5, <1>7

(* No reader's call spoils what another reader knows, and none of them     *)
(* sees an accepted object missing or changed.                             *)
LEMMA ReadKeeps ==
    ASSUME QueryInv, Read
    PROVE  QueryInv'
  <1>0. PICK q \in Readers : Begin(q) \/ Validate(q) \/ AdapterStep(q) \/ SessionStep(q)
    BY DEF Read, Readers
  <1>1. ~early[q] => /\ manifest[asked[q]] # Nobody
                     /\ TheObject(q) # Nobody
                     /\ cited[q] # Nobody => TheObject(q) = cited[q]
    BY SettledIsThere
  <1>2. at[q] \notin {"waiting", "exists", "read", "done"} => cited[q] # Nobody
    BY DEF QueryInv, CitedInv
  <1>3. CASE Begin(q)
    <2>1. IInv'
      BY <1>3, IdleKeeps DEF QueryInv, Begin, vars
    <2>2. QueryTypeOK'
      BY <1>3, <2>1 DEF QueryInv, QueryTypeOK, IInv, Begin, First
    <2>3. CitedInv' /\ FreshInv'
      BY <1>3 DEF QueryInv, QueryTypeOK, CitedInv, FreshInv, Begin, First, vars
    <2>4. SettledInv' /\ AnswerIsCited'
      BY <1>3 DEF QueryInv, QueryTypeOK, SettledInv, FreshInv, AnswerIsCited, Settled,
                  DataErrors, Begin, vars
    <2>. QED
      BY <2>1, <2>2, <2>3, <2>4 DEF QueryInv
  <1>4. CASE ReadManifest(q)
    <2>1. IInv'
      BY <1>4, IdleKeeps DEF QueryInv, ReadManifest, Proceed, vars
    <2>2. manifest[asked[q]] \in Publishers \cup {Nobody}
      BY DEF QueryInv, QueryTypeOK, TypeOK
    <2>3. QueryTypeOK'
      BY <1>4, <2>1, <2>2 DEF QueryInv, QueryTypeOK, IInv, ReadManifest, Proceed
    <2>4. CitedInv' /\ FreshInv'
      BY <1>4 DEF QueryInv, QueryTypeOK, CitedInv, FreshInv, ReadManifest, Proceed, vars
    <2>5. SettledInv'
      BY <1>4 DEF QueryInv, QueryTypeOK, SettledInv, Settled, ReadManifest, Proceed, vars
    <2>6. AnswerIsCited'
      <3> SUFFICES ASSUME NEW x \in Readers, rows[x] # Nobody, rows[x] # cited'[x]
                   PROVE  cited'[x] \in Publishers /\ error[cited'[x]] # "none"
        BY <1>4 DEF AnswerIsCited, ReadManifest, Proceed, vars
      <3>1. CASE x # q
        BY <1>4, <3>1 DEF QueryInv, QueryTypeOK, AnswerIsCited, ReadManifest
      <3>2. CASE x = q
        BY <1>4, <3>2, PublishersAssumption
           DEF QueryInv, QueryTypeOK, CitedInv, AnswerIsCited, ReadManifest, Proceed
      <3>. QED
        BY <3>1, <3>2
    <2>. QED
      BY <2>1, <2>3, <2>4, <2>5, <2>6 DEF QueryInv
  <1>5. CASE \/ Exists(q) \/ CheckObject(q) \/ DigestMatches(q) \/ ReadParquet(q)
             \/ Bind(q) \/ Register(q) \/ Close(q)
    BY <1>5, ProceedKeeps
       DEF Exists, CheckObject, DigestMatches, ReadParquet, Bind, Register, Close
  <1>6. CASE \/ Missing(q) \/ NoManifest(q) \/ NoObject(q) \/ ObjectVanished(q)
             \/ NoParquet(q) \/ NothingToBind(q) \/ RunFails(q) \/ RegisterFails(q)
    BY <1>1, <1>6, RefuseKeeps
       DEF Missing, NoManifest, NoObject, ObjectVanished, NoParquet, NothingToBind,
           RunFails, RegisterFails, DataErrors
  <1>7. CASE DigestDiffers(q)
    BY <1>1, <1>2, <1>7, RefuseKeeps DEF DigestDiffers, DataErrors, Refuse
  <1>8. CASE StalePartition(q) \/ Declined(q) \/ NotPrepared(q)
    BY <1>8, RefuseKeeps DEF StalePartition, Declined, NotPrepared, DataErrors, OtherErrors
  <1>9. CASE Run(q) \/ FieldQuery(q)
    BY <1>9, AnswerKeeps DEF Run, FieldQuery
  <1>10. CASE FieldQueryFails(q)
    <2>1. early[q]
      BY <1>1, <1>10 DEF FieldQueryFails
    <2>2. IInv'
      BY <1>10, IdleKeeps DEF QueryInv, FieldQueryFails, vars
    <2>3. QueryTypeOK'
      BY <1>10, <2>2 DEF QueryInv, QueryTypeOK, IInv, FieldQueryFails, DataErrors
    <2>4. CitedInv' /\ FreshInv'
      BY <1>10 DEF QueryInv, QueryTypeOK, CitedInv, FreshInv, FieldQueryFails, vars
    <2>5. SettledInv' /\ AnswerIsCited'
      BY <1>10, <2>1 DEF QueryInv, QueryTypeOK, SettledInv, AnswerIsCited, Settled,
                         FieldQueryFails, vars
    <2>. QED
      BY <2>2, <2>3, <2>4, <2>5 DEF QueryInv
  <1>11. CASE FieldQueryRefused(q)
    <2>1. IInv'
      BY <1>11, IdleKeeps DEF QueryInv, FieldQueryRefused, vars
    <2>2. QueryTypeOK'
      BY <1>11, <2>1 DEF QueryInv, QueryTypeOK, IInv, FieldQueryRefused, OtherErrors
    <2>3. CitedInv' /\ FreshInv'
      BY <1>11 DEF QueryInv, QueryTypeOK, CitedInv, FreshInv, FieldQueryRefused, vars
    <2>4. SettledInv' /\ AnswerIsCited'
      BY <1>11 DEF QueryInv, QueryTypeOK, SettledInv, AnswerIsCited, Settled, DataErrors,
                   FieldQueryRefused, vars
    <2>. QED
      BY <2>1, <2>2, <2>3, <2>4 DEF QueryInv
  <1>. QED
    BY ONLY <1>0, <1>3, <1>4, <1>5, <1>6, <1>7, <1>8, <1>9, <1>10, <1>11
       DEF Validate, AdapterStep, SessionStep

(* Publishers and readers together keep the invariant.                     *)
THEOREM QueryInvariance == QuerySpec => []QueryInv
  <1>1. QueryInv /\ [QueryNext]_queryVars => QueryInv'
    <2>1. ASSUME QueryInv, UNCHANGED queryVars
          PROVE  QueryInv'
      BY <2>1, PublishKeeps DEF queryVars, vars
    <2>2. ASSUME QueryInv, Publish
          PROVE  QueryInv'
      BY <2>2, PublishKeeps DEF Publish
    <2>. QED
      BY <2>1, <2>2, ReadKeeps DEF QueryNext
  <1>. QED
    BY QueryInitially, <1>1, PTL DEF QuerySpec

-----------------------------------------------------------------------------
(* Type correctness of publishers and readers.                             *)
THEOREM QueryTypeCorrect == QuerySpec => []QueryTypeOK
  BY QueryInvariance, PTL DEF QueryInv

(* The rows of an answer are those of the evidence it cites, unless the    *)
(* publication failed after its manifest had become visible.               *)
THEOREM AnswersAreCited == QuerySpec => []AnswerIsCited
  BY QueryInvariance, PTL DEF QueryInv

(* What was accepted when a reader began is there for it.                  *)
THEOREM AcceptedStaysReadable == QuerySpec => []AcceptedIsAnswered
  <1>1. QueryInv => AcceptedIsAnswered
    BY DEF QueryInv, SettledInv, AcceptedIsAnswered
  <1>. QED
    BY <1>1, QueryInvariance, PTL
=============================================================================
