-------------------------- MODULE BatchPipelineProofs --------------------------
(***************************************************************************)
(* Safety of BatchPipeline for any number of coordinators, through faults  *)
(* and a power loss.  The invariant says who may still touch the evidence  *)
(* of a stage: nobody, once it is accepted, but the publisher that accepts *)
(* it; and that the batch manifest is linked only over evidence that was   *)
(* found whole and forced to disk.                                         *)
(***************************************************************************)
EXTENDS BatchPipeline, TLAPS

(* Where a coordinator's stage publisher holds the claim of its stage,     *)
(* where it has stored all its objects, and where it may still write.      *)
Held == {"store", "accept", "settle", "withdraw", "yield", "discard", "release", "retract",
         "forgo"}
Stocked == {"accept", "settle", "withdraw", "discard", "retract"}
Engaging == {"claim"} \cup (Held \ {"settle", "retract", "forgo"})

Engaged(c, s) == stage[c] = s /\ pc[c] \in Engaging

(* What the manifest of s names is there, unless its publisher took it.    *)
Kept(s) == Joined(s) /\ (Lost(s) \/ stored[s]["objects"] = accepted[s])

AllKept == \A s \in StageIds : Kept(s)

OwnInv ==
    \A c \in Coordinators :
        /\ pc[c] \in Held => claim[stage[c]] = c
        /\ pc[c] \in Stocked => stored[stage[c]]["objects"] = c
        /\ pc[c] \in {"settle", "retract", "forgo"} => accepted[stage[c]] = c
        /\ pc[c] = "forgo" => c \in retracted
        /\ c \in retracted => pc[c] \in {"forgo", "done", "crashed"}
        /\ outcome[c] # "none" => pc[c] \in {"done", "crashed"}

(* Accepted evidence is guarded by its claim, until power is lost; then    *)
(* nobody is left who set out to write it.                                 *)
EvidenceInv ==
    \A s \in StageIds : accepted[s] # Nobody /\ ~Lost(s) =>
        /\ claim[s] = accepted[s] \/ \A c \in Coordinators : ~Engaged(c, s)
        /\ stored[s]["objects"] \in {accepted[s], Nobody}

FinalInv ==
    /\ \A c \in Coordinators :
          /\ pc[c] \in {"barrier", "check", "link"} => AllKept
          /\ pc[c] \in {"check", "link"} => synced = StageIds
    /\ final # Nobody => synced = StageIds /\ AllKept

(* A linked batch manifest is taken away by a handler, which is remembered *)
(* in unlinked, and by a power loss; by nothing else.                      *)
WinnerInv ==
    \A c \in Coordinators :
        (pc[c] = "sync" \/ outcome[c] = "accepted") /\ ~outage /\ c \notin unlinked => final = c

IInv == /\ TypeOK
        /\ OwnInv
        /\ EvidenceInv
        /\ FinalInv
        /\ FailedRunPublishesNothing
        /\ WinnerInv

-----------------------------------------------------------------------------
(* Whatever an interrupted run left, nobody has touched it yet.            *)
LEMMA Initially == Init => IInv
  <1> SUFFICES ASSUME Init
               PROVE  IInv
    OBVIOUS
  <1> USE CoordinatorsAssumption DEF Init, StageIds, StageCount, Upstream
  <1>1. Stages!TypeOK
    BY DEF Stages!TypeOK
  <1>2. TypeOK
    <2>1. \A s \in StageIds : Upstream(s) \in {Earlier, Nobody}
      <3> SUFFICES ASSUME NEW s \in StageIds
                   PROVE  Upstream(s) \in {Earlier, Nobody}
        OBVIOUS
      <3>1. CASE s # 1
        <4>1. s - 1 \in StageIds /\ accepted[s - 1] \in {Earlier, Nobody}
          BY <3>1
        <4>. QED
          BY <4>1
      <3>. QED
        BY <3>1
    <2>2. source \in [StageIds -> Coordinators \cup {Earlier, Nobody}]
      BY ONLY <2>1, Init DEF Init
    <2>3. /\ pc \in [Coordinators -> Labels] /\ stage \in [Coordinators -> StageIds]
          /\ outcome \in [Coordinators -> Outcomes]
      BY DEF Labels, Outcomes
    <2>4. /\ synced \subseteq StageIds /\ final \in Coordinators \cup {Nobody}
          /\ retracted \subseteq Coordinators /\ unlinked \subseteq Coordinators
          /\ outage \in BOOLEAN
      OBVIOUS
    <2>. QED
      BY ONLY <1>1, <2>2, <2>3, <2>4 DEF TypeOK
  <1>3. OwnInv
    BY DEF OwnInv, Held, Stocked
  <1>4. EvidenceInv
    BY DEF EvidenceInv
  <1>5. FinalInv /\ FailedRunPublishesNothing /\ WinnerInv
    BY DEF FinalInv, FailedRunPublishesNothing, WinnerInv
  <1>. QED
    BY <1>2, <1>3, <1>4, <1>5 DEF IInv

(* The steps that change the evidence of a stage, and those that do not.   *)
Writes(c) == \/ ClaimStage(c) \/ StoreObjects(c) \/ AcceptStage(c) \/ DiscardObjects(c)
             \/ YieldStage(c) \/ ReleaseStage(c) \/ RetractObjects(c) \/ RetractClaim(c)

Reads(c) == \/ Start(c) \/ Reuse(c) \/ RunStage(c) \/ RefuseInput(c) \/ StageConflict(c)
            \/ Recheck(c) \/ StoreTaken(c) \/ SettleStage(c) \/ ManifestTaken(c)
            \/ Validate(c) \/ RefuseEvidence(c) \/ Barrier(c) \/ RefuseBarrier(c)
            \/ CheckFinal(c) \/ LinkFinal(c) \/ FinalTaken(c) \/ Sync(c)
            \/ UnlinkFinal(c) \/ NothingToUnlink(c) \/ RaiseUndone(c)

(* A step is one coordinator's, who has not ended; it gives it a label, at *)
(* most the next stage, and at the end an outcome.                         *)
LEMMA StepMoves ==
    ASSUME TypeOK, NEW c \in Coordinators, Step(c) \/ Fault(c)
    PROVE  \E label \in Labels, next \in StageIds, code \in Outcomes :
              /\ pc' = [pc EXCEPT ![c] = label]
              /\ stage' = [stage EXCEPT ![c] = next]
              /\ outcome' = [outcome EXCEPT ![c] = code]
  <1> USE DEF TypeOK, Labels, Outcomes, Goto, Move, Finish
  <1>1. CASE Writes(c)
    BY <1>1 DEF Writes, ClaimStage, StoreObjects, AcceptStage, DiscardObjects, YieldStage,
                ReleaseStage, RetractObjects, RetractClaim
  <1>2. CASE Reads(c)
    <2>1. CASE Reuse(c) \/ Recheck(c) \/ SettleStage(c)
      BY <2>1 DEF Reuse, Recheck, SettleStage, Obtained, StageIds, StageCount
    <2>2. CASE ~(Reuse(c) \/ Recheck(c) \/ SettleStage(c))
      BY <1>2, <2>2 DEF Reads, Start, RunStage, RefuseInput, StageConflict, StoreTaken,
             ManifestTaken, Validate, RefuseEvidence, Barrier, RefuseBarrier, CheckFinal,
             LinkFinal, FinalTaken, Sync, UnlinkFinal, NothingToUnlink, RaiseUndone
    <2>. QED
      BY <2>1, <2>2
  <1>3. CASE Fault(c)
    BY <1>3 DEF Fault, StageError, HandledStageError, LateStageError, SettleError,
                BarrierError, PublishError, UndoError, Crash
  <1>. QED
    BY <1>1, <1>2, <1>3 DEF Step, Reads, Writes

(* What a coordinator that only reads evidence must respect: it engages in *)
(* a stage only while that is not accepted, and gains no claim.            *)
LEMMA ReadingKeeps ==
    ASSUME TypeOK, OwnInv, EvidenceInv, NEW c \in Coordinators,
           UNCHANGED <<stageVars, retracted>>,
           \A d \in Coordinators \ {c} :
               pc'[d] = pc[d] /\ stage'[d] = stage[d] /\ outcome'[d] = outcome[d],
           \/ pc'[c] \notin Held \cup {"claim"}
           \/ pc[c] = "look" /\ pc'[c] = "claim" /\ stage'[c] = stage[c]
              /\ accepted[stage[c]] = Nobody
           \/ pc[c] = "store" /\ pc'[c] \in {"release", "yield"} /\ stage'[c] = stage[c]
           \/ pc[c] = "accept" /\ pc'[c] \in {"withdraw", "discard"} /\ stage'[c] = stage[c]
           \/ pc[c] = "settle" /\ pc'[c] = "retract" /\ stage'[c] = stage[c],
           outcome[c] = "none", outcome'[c] # "none" => pc'[c] \in {"done", "crashed"},
           c \in retracted => pc'[c] \in {"done", "crashed"} /\ stage'[c] = stage[c]
    PROVE  OwnInv' /\ EvidenceInv' /\ (AllKept => AllKept')
  <1> USE DEF stageVars, Held, Stocked
  <1>1. OwnInv'
    BY DEF OwnInv
  <1>2. \A s \in StageIds : Lost(s) => Lost(s)'
    BY DEF Lost, TypeOK
  <1>3. \A s \in StageIds, d \in Coordinators :
            Engaged(d, s)' => Engaged(d, s) \/ (d = c /\ accepted[s] = Nobody)
    BY DEF Engaged, Engaging
  <1>4. EvidenceInv'
    BY <1>2, <1>3 DEF EvidenceInv
  <1>5. AllKept => AllKept'
    BY <1>2 DEF AllKept, Kept, Joined, Upstream
  <1>. QED
    BY <1>1, <1>4, <1>5

(* Steps that only read leave the evidence of every stage as it is.        *)
LEMMA ReadsKeepEvidence ==
    ASSUME TypeOK, OwnInv, EvidenceInv, NEW c \in Coordinators, Reads(c) \/ Fault(c)
    PROVE  OwnInv' /\ EvidenceInv' /\ (AllKept => AllKept')
  <1>1. outcome[c] = "none" /\ UNCHANGED <<stageVars, retracted>>
    BY DEF Reads, Fault, Start, Reuse, RunStage, RefuseInput, StageConflict, Recheck,
           StoreTaken, SettleStage, ManifestTaken, Validate, RefuseEvidence, Barrier,
           RefuseBarrier, CheckFinal, LinkFinal, FinalTaken, Sync, UnlinkFinal,
           NothingToUnlink, RaiseUndone, StageError, HandledStageError, LateStageError,
           SettleError, BarrierError, PublishError, UndoError, Crash, historyVars, OwnInv
  <1>2. \A d \in Coordinators \ {c} :
            pc'[d] = pc[d] /\ stage'[d] = stage[d] /\ outcome'[d] = outcome[d]
    BY StepMoves DEF Step, Reads, TypeOK
  <1>r. c \in retracted => pc[c] \in {"forgo", "done", "crashed"}
    BY DEF OwnInv
  <1> USE <1>1, <1>2, <1>r, ReadingKeeps DEF TypeOK, Goto, Move, Finish, Obtained, Held
  <1>3. CASE RunStage(c)
    BY <1>3 DEF RunStage
  <1>4. CASE StoreTaken(c) \/ ManifestTaken(c) \/ HandledStageError(c) \/ SettleError(c)
    BY <1>4 DEF StoreTaken, ManifestTaken, HandledStageError, SettleError
  <1>5. CASE \/ Start(c) \/ Reuse(c) \/ RefuseInput(c) \/ StageConflict(c) \/ Recheck(c)
             \/ SettleStage(c) \/ Validate(c) \/ RefuseEvidence(c) \/ Barrier(c)
             \/ RefuseBarrier(c)
    BY <1>5 DEF Start, Reuse, RefuseInput, StageConflict, Recheck, SettleStage, Validate,
                RefuseEvidence, Barrier, RefuseBarrier
  <1>6. CASE \/ CheckFinal(c) \/ LinkFinal(c) \/ FinalTaken(c) \/ Sync(c)
             \/ UnlinkFinal(c) \/ NothingToUnlink(c) \/ RaiseUndone(c)
    BY <1>6 DEF CheckFinal, LinkFinal, FinalTaken, Sync, UnlinkFinal, NothingToUnlink,
                RaiseUndone
  <1>7. CASE \/ StageError(c) \/ LateStageError(c) \/ BarrierError(c) \/ PublishError(c)
             \/ UndoError(c) \/ Crash(c)
    BY <1>7 DEF StageError, LateStageError, BarrierError, PublishError, UndoError, Crash
  <1>. QED
    BY ONLY Reads(c) \/ Fault(c), <1>3, <1>4, <1>5, <1>6, <1>7 DEF Reads, Fault

(* The steps of a stage publisher: only the holder of a claim touches the  *)
(* evidence, and evidence that is accepted only to take back its own.      *)
LEMMA WritesKeepEvidence ==
    ASSUME TypeOK, OwnInv, EvidenceInv, NEW c \in Coordinators, Writes(c)
    PROVE  /\ Stages!TypeOK'
           /\ source' \in [StageIds -> Coordinators \cup {Earlier, Nobody}]
           /\ OwnInv'
           /\ EvidenceInv'
           /\ (AllKept => AllKept')
  <1> DEFINE s0 == stage[c]
  <1> USE CoordinatorsAssumption
      DEF TypeOK, Stages!TypeOK, Stages!Working, Goto, Move, Finish, Held, Stocked,
          historyVars
  <1>t. s0 \in StageIds
    OBVIOUS
  <1>1. CASE ClaimStage(c)
    <2> USE <1>1 DEF ClaimStage, Stages!Claim
    <2>1. Stages!TypeOK' /\ source' = source
      OBVIOUS
    <2>2. OwnInv'
      BY DEF OwnInv
    <2>3. EvidenceInv'
      BY DEF EvidenceInv, Engaged, Engaging, Lost
    <2>4. AllKept => AllKept'
      BY DEF AllKept, Kept, Joined, Upstream, Lost
    <2>. QED
      BY <2>1, <2>2, <2>3, <2>4
  <1>2. CASE StoreObjects(c)
    <2> USE <1>2 DEF StoreObjects, Stages!Store
    <2>1. Stages!TypeOK' /\ source' = source
      OBVIOUS
    <2>2. OwnInv'
      BY DEF OwnInv
    <2>3. accepted[s0] # Nobody => Lost(s0)
      BY DEF EvidenceInv, Engaged, Engaging, OwnInv
    <2>4. EvidenceInv'
      BY <2>3 DEF EvidenceInv, Engaged, Engaging, Lost
    <2>5. AllKept => AllKept'
      BY <2>3 DEF AllKept, Kept, Joined, Upstream, Lost
    <2>. QED
      BY <2>1, <2>2, <2>4, <2>5
  <1>3. CASE AcceptStage(c)
    <2> USE <1>3 DEF AcceptStage, Stages!Accept
    <2>1. Upstream(s0) \in Coordinators \cup {Earlier, Nobody}
      BY <1>t DEF Upstream, StageIds, StageCount
    <2>2. Stages!TypeOK' /\ source' \in [StageIds -> Coordinators \cup {Earlier, Nobody}]
      BY <2>1
    <2>3. OwnInv'
      BY DEF OwnInv
    <2>4. EvidenceInv'
      BY DEF EvidenceInv, Engaged, Engaging, Lost, OwnInv
    <2>5. AllKept => AllKept'
      BY DEF AllKept, Kept, Joined, Upstream, Lost, StageIds, StageCount
    <2>. QED
      BY <2>2, <2>3, <2>4, <2>5
  <1>4. CASE DiscardObjects(c)
    <2> USE <1>4 DEF DiscardObjects, Stages!Discard
    <2>1. Stages!TypeOK' /\ source' = source
      OBVIOUS
    <2>2. OwnInv'
      BY DEF OwnInv
    <2>3. accepted[s0] # Nobody => Lost(s0)
      BY DEF EvidenceInv, Engaged, Engaging, OwnInv
    <2>4. EvidenceInv'
      BY <2>3 DEF EvidenceInv, Engaged, Engaging, Lost
    <2>5. AllKept => AllKept'
      BY <2>3 DEF AllKept, Kept, Joined, Upstream, Lost
    <2>. QED
      BY <2>1, <2>2, <2>4, <2>5
  <1>5. CASE YieldStage(c) \/ ReleaseStage(c)
    <2> USE <1>5 DEF YieldStage, ReleaseStage, Stages!Release
    <2>1. Stages!TypeOK' /\ source' = source
      OBVIOUS
    <2>2. OwnInv'
      BY DEF OwnInv
    <2>3. accepted[s0] # Nobody => Lost(s0)
      BY DEF EvidenceInv, Engaged, Engaging, OwnInv
    <2>4. EvidenceInv'
      BY <2>3 DEF EvidenceInv, Engaged, Engaging, Lost, OwnInv
    <2>5. AllKept => AllKept'
      BY <2>3 DEF AllKept, Kept, Joined, Upstream, Lost, OwnInv
    <2>. QED
      BY <2>1, <2>2, <2>4, <2>5
  <1>6. CASE RetractObjects(c)
    <2> USE <1>6 DEF RetractObjects
    <2>1. Stages!TypeOK' /\ source' = source
      OBVIOUS
    <2>2. OwnInv'
      BY DEF OwnInv
    <2>3. accepted[s0] = c /\ c \in retracted'
      BY DEF OwnInv
    <2>4. EvidenceInv'
      BY <2>3 DEF EvidenceInv, Engaged, Engaging, Lost
    <2>5. AllKept => AllKept'
      BY <2>3 DEF AllKept, Kept, Joined, Upstream, Lost
    <2>. QED
      BY <2>1, <2>2, <2>4, <2>5
  <1>7. CASE RetractClaim(c)
    <2> USE <1>7 DEF RetractClaim
    <2>1. Stages!TypeOK' /\ source' = source
      OBVIOUS
    <2>2. OwnInv'
      BY DEF OwnInv
    <2>3. Lost(s0)
      BY DEF OwnInv, Lost
    <2>4. EvidenceInv'
      BY <2>3 DEF EvidenceInv, Engaged, Engaging, Lost
    <2>5. AllKept => AllKept'
      BY DEF AllKept, Kept, Joined, Upstream, Lost
    <2>. QED
      BY <2>1, <2>2, <2>4, <2>5
  <1>. QED
    BY ONLY Writes(c), <1>1, <1>2, <1>3, <1>4, <1>5, <1>6, <1>7, TypeOK DEF Writes, TypeOK

(* Evidence that passes validation is whole, unless its publisher has      *)
(* taken its objects back: equal checksums are those of one publisher.     *)
LEMMA ValidatedIsKept ==
    ASSUME EvidenceInv, \A s \in StageIds : Plausible(s)
    PROVE  AllKept
  BY DEF EvidenceInv, Plausible, Joined, AllKept, Kept

(* The batch manifest is linked over kept evidence only, by a coordinator  *)
(* that has forced it to disk.                                             *)
LEMMA FinalKeeps ==
    ASSUME TypeOK, OwnInv, EvidenceInv, FinalInv, NEW c \in Coordinators,
           Step(c) \/ Fault(c)
    PROVE  FinalInv'
  <1>1. AllKept => AllKept'
    BY ReadsKeepEvidence, WritesKeepEvidence DEF Step, Reads, Writes
  <1>2. PICK label \in Labels : pc' = [pc EXCEPT ![c] = label]
    BY StepMoves
  <1>3. ASSUME pc'[c] \notin {"barrier", "check", "link"}, synced' = synced,
               final' \in {final, Nobody}
        PROVE  FinalInv'
    BY <1>1, <1>2, <1>3 DEF FinalInv, TypeOK
  <1> USE DEF TypeOK, Goto, Move, Finish, Obtained
  <1>4. CASE Validate(c)
    BY <1>1, <1>4, ValidatedIsKept DEF Validate, FinalInv
  <1>5. CASE Barrier(c)
    BY <1>1, <1>5 DEF Barrier, FinalInv
  <1>6. CASE CheckFinal(c)
    BY <1>1, <1>6 DEF CheckFinal, FinalInv
  <1>7. CASE LinkFinal(c)
    BY <1>1, <1>7 DEF LinkFinal, FinalInv
  <1>8. CASE Writes(c)
    BY <1>3, <1>8 DEF Writes, ClaimStage, StoreObjects, AcceptStage, DiscardObjects,
                      YieldStage, ReleaseStage, RetractObjects, RetractClaim
  <1>9. CASE \/ Start(c) \/ Reuse(c) \/ RunStage(c) \/ RefuseInput(c) \/ StageConflict(c)
             \/ Recheck(c) \/ StoreTaken(c) \/ SettleStage(c) \/ ManifestTaken(c)
    BY <1>3, <1>9 DEF Start, Reuse, RunStage, RefuseInput, StageConflict, Recheck,
                      StoreTaken, SettleStage, ManifestTaken
  <1>10. CASE \/ RefuseEvidence(c) \/ RefuseBarrier(c) \/ FinalTaken(c) \/ Sync(c)
              \/ UnlinkFinal(c) \/ NothingToUnlink(c) \/ RaiseUndone(c)
    BY <1>3, <1>10 DEF RefuseEvidence, RefuseBarrier, FinalTaken, Sync, UnlinkFinal,
                       NothingToUnlink, RaiseUndone
  <1>11. CASE Fault(c)
    BY <1>3, <1>11 DEF Fault, StageError, HandledStageError, LateStageError, SettleError,
                       BarrierError, PublishError, UndoError, Crash
  <1>. QED
    BY ONLY Step(c) \/ Fault(c), <1>4, <1>5, <1>6, <1>7, <1>8, <1>9, <1>10, <1>11
       DEF Step, Writes

(* Who may see its batch manifest, and who must.                           *)
LEMMA WinnerKeeps ==
    ASSUME TypeOK, OwnInv, FailedRunPublishesNothing, WinnerInv, NEW c \in Coordinators,
           Step(c) \/ Fault(c)
    PROVE  FailedRunPublishesNothing' /\ WinnerInv'
  <1> USE CoordinatorsAssumption
      DEF TypeOK, OwnInv, FailedRunPublishesNothing, WinnerInv, Goto, Move, Finish, historyVars
  <1>1. CASE LinkFinal(c)
    BY <1>1 DEF LinkFinal
  <1>2. CASE Sync(c)
    BY <1>2 DEF Sync
  <1>3. CASE UnlinkFinal(c) \/ NothingToUnlink(c) \/ RaiseUndone(c)
    <2>1. CASE UnlinkFinal(c)
      BY <2>1 DEF UnlinkFinal
    <2>2. CASE NothingToUnlink(c)
      BY <2>2 DEF NothingToUnlink
    <2>3. CASE RaiseUndone(c)
      BY <2>3 DEF RaiseUndone
    <2>. QED
      BY <1>3, <2>1, <2>2, <2>3
  <1>4. CASE PublishError(c) \/ UndoError(c) \/ Crash(c)
    <2>1. CASE PublishError(c)
      BY <2>1 DEF PublishError
    <2>2. CASE UndoError(c)
      BY <2>2 DEF UndoError
    <2>3. CASE Crash(c)
      BY <2>3 DEF Crash
    <2>. QED
      BY <1>4, <2>1, <2>2, <2>3
  <1>5. ASSUME pc[c] \notin {"sync", "undo", "done", "crashed"}, pc'[c] # "sync",
               outcome'[c] # "accepted", UNCHANGED <<final, unlinked, outage>>
        PROVE  FailedRunPublishesNothing' /\ WinnerInv'
    <2>1. /\ \A d \in Coordinators \ {c} : pc'[d] = pc[d] /\ outcome'[d] = outcome[d]
          /\ outcome[c] = "none"
      BY <1>5, StepMoves
    <2>2. FailedRunPublishesNothing'
      BY <1>5, <2>1
    <2>3. WinnerInv'
      BY ONLY <1>5, <2>1, WinnerInv DEF WinnerInv
    <2>. QED
      BY <2>2, <2>3
  <1>6. CASE Writes(c)
    BY <1>5, <1>6 DEF Writes, ClaimStage, StoreObjects, AcceptStage, DiscardObjects,
                      YieldStage, ReleaseStage, RetractObjects, RetractClaim
  <1>7. CASE \/ Start(c) \/ Reuse(c) \/ RunStage(c) \/ RefuseInput(c) \/ StageConflict(c)
             \/ Recheck(c) \/ StoreTaken(c) \/ SettleStage(c) \/ ManifestTaken(c)
    BY <1>5, <1>7 DEF Start, Reuse, RunStage, RefuseInput, StageConflict, Recheck,
                      StoreTaken, SettleStage, ManifestTaken, Obtained
  <1>8. CASE \/ Validate(c) \/ RefuseEvidence(c) \/ Barrier(c) \/ RefuseBarrier(c)
             \/ CheckFinal(c) \/ FinalTaken(c)
    BY <1>5, <1>8 DEF Validate, RefuseEvidence, Barrier, RefuseBarrier, CheckFinal,
                      FinalTaken
  <1>9. CASE \/ StageError(c) \/ HandledStageError(c) \/ LateStageError(c)
             \/ SettleError(c) \/ BarrierError(c)
    BY <1>5, <1>9 DEF StageError, HandledStageError, LateStageError, SettleError,
                      BarrierError
  <1>. QED
    BY ONLY Step(c) \/ Fault(c), <1>1, <1>2, <1>3, <1>4, <1>6, <1>7, <1>8, <1>9
       DEF Step, Fault, Writes

(* What a reading step does to the shared state besides the labels.        *)
LEMMA SharedTyped ==
    ASSUME TypeOK, NEW c \in Coordinators, Reads(c) \/ Fault(c)
    PROVE  /\ UNCHANGED <<stageVars, retracted, outage>>
           /\ synced' \subseteq StageIds
           /\ final' \in Coordinators \cup {Nobody}
           /\ unlinked' \subseteq Coordinators
  <1> USE DEF TypeOK, historyVars
  <1>1. CASE Barrier(c)
    BY <1>1 DEF Barrier
  <1>2. CASE LinkFinal(c) \/ UnlinkFinal(c)
    BY <1>2 DEF LinkFinal, UnlinkFinal
  <1>3. CASE ~Barrier(c) /\ ~LinkFinal(c) /\ ~UnlinkFinal(c)
    BY <1>3 DEF Reads, Fault, Start, Reuse, RunStage, RefuseInput, StageConflict, Recheck,
           StoreTaken, SettleStage, ManifestTaken, Validate, RefuseEvidence, RefuseBarrier,
           CheckFinal, FinalTaken, Sync, NothingToUnlink, RaiseUndone, StageError,
           HandledStageError, LateStageError, SettleError, BarrierError, PublishError,
           UndoError, Crash
  <1>. QED
    BY <1>1, <1>2, <1>3

(* A step of a coordinator, and a fault of one, keeps the invariant.       *)
LEMMA StepKeeps ==
    ASSUME IInv, NEW c \in Coordinators, Step(c) \/ Fault(c)
    PROVE  IInv'
  <1> USE DEF IInv
  <1>1. /\ pc' \in [Coordinators -> Labels] /\ stage' \in [Coordinators -> StageIds]
        /\ outcome' \in [Coordinators -> Outcomes]
    BY StepMoves DEF TypeOK
  <1>2. FinalInv' /\ FailedRunPublishesNothing' /\ WinnerInv'
    BY FinalKeeps, WinnerKeeps
  <1>3. CASE Writes(c)
    <2>1. UNCHANGED <<synced, final, unlinked, outage>> /\ retracted' \subseteq Coordinators
      BY <1>3 DEF TypeOK, historyVars, Writes, ClaimStage, StoreObjects, AcceptStage,
                  DiscardObjects, YieldStage, ReleaseStage, RetractObjects, RetractClaim
    <2>2. /\ Stages!TypeOK' /\ OwnInv' /\ EvidenceInv'
          /\ source' \in [StageIds -> Coordinators \cup {Earlier, Nobody}]
      BY <1>3, WritesKeepEvidence
    <2>. QED
      BY <1>1, <1>2, <2>1, <2>2 DEF TypeOK
  <1>4. CASE Reads(c) \/ Fault(c)
    <2>1. /\ UNCHANGED <<stageVars, retracted, outage>>
          /\ synced' \subseteq StageIds
          /\ final' \in Coordinators \cup {Nobody}
          /\ unlinked' \subseteq Coordinators
      BY <1>4, SharedTyped
    <2>2. Stages!TypeOK' /\ source' = source
      BY <2>1 DEF TypeOK, Stages!TypeOK, stageVars
    <2>3. TypeOK'
      BY <1>1, <2>1, <2>2 DEF TypeOK
    <2>. QED
      BY <1>2, <1>4, <2>3, ReadsKeepEvidence
  <1>. QED
    BY ONLY <1>3, <1>4, Step(c) \/ Fault(c) DEF Step, Reads, Writes

(* A power loss takes claims and unsynced evidence, and with them every    *)
(* coordinator that relied on them.                                        *)
LEMMA PowerLossKeeps ==
    ASSUME IInv, PowerLoss
    PROVE  IInv'
  <1> USE CoordinatorsAssumption DEF IInv, TypeOK
  <1>1. PICK manifests, objects \in SUBSET (StageIds \ synced), claims \in SUBSET StageIds :
          /\ accepted' = [s \in StageIds |-> IF s \in manifests THEN Nobody ELSE accepted[s]]
          /\ stored' = [s \in StageIds |->
                IF s \in objects THEN [o \in {"objects"} |-> Nobody] ELSE stored[s]]
          /\ claim' = [s \in StageIds |-> IF s \in claims THEN Nobody ELSE claim[s]]
    BY DEF PowerLoss
  <1>2. /\ pc' = [c \in Coordinators |-> IF pc[c] = "start" THEN "start" ELSE "crashed"]
        /\ outage' = TRUE /\ final' \in {final, Nobody}
        /\ UNCHANGED <<stage, outcome, source, synced, retracted, unlinked>>
    BY DEF PowerLoss, historyVars
  <1>3. Stages!TypeOK'
    BY <1>1 DEF Stages!TypeOK
  <1>4. TypeOK'
    BY <1>2, <1>3 DEF Labels
  <1>5. OwnInv'
    BY <1>2 DEF OwnInv, Held, Stocked
  <1>6. EvidenceInv'
    <2>1. \A c \in Coordinators, s \in StageIds : ~Engaged(c, s)'
      BY <1>2 DEF Engaged, Engaging, Held
    <2>2. \A s \in StageIds : accepted'[s] # Nobody =>
              accepted'[s] = accepted[s] /\ (Lost(s) => Lost(s)')
      BY <1>1, <1>2 DEF Lost
    <2>3. \A s \in StageIds : stored'[s]["objects"] \in {stored[s]["objects"], Nobody}
      BY <1>1
    <2>. QED
      BY <2>1, <2>2, <2>3 DEF EvidenceInv
  <1>7. FinalInv'
    <2>1. CASE final' = Nobody
      BY <1>2, <2>1 DEF FinalInv
    <2>2. CASE final' # Nobody
      <3>1. synced = StageIds /\ AllKept
        BY <1>2, <2>2 DEF FinalInv
      <3>2. \A s \in StageIds : accepted'[s] = accepted[s] /\ stored'[s] = stored[s]
        BY <1>1, <3>1
      <3>3. AllKept'
        BY <1>2, <3>1, <3>2 DEF AllKept, Kept, Joined, Lost, Upstream, StageIds, StageCount
      <3>. QED
        BY <1>2, <3>1, <3>3 DEF FinalInv
    <2>. QED
      BY <2>1, <2>2
  <1>8. FailedRunPublishesNothing' /\ WinnerInv'
    BY <1>2 DEF FailedRunPublishesNothing, WinnerInv, OwnInv
  <1>. QED
    BY <1>4, <1>5, <1>6, <1>7, <1>8

(* A stutter keeps it.                                                     *)
LEMMA IdleKeeps ==
    ASSUME IInv, UNCHANGED vars
    PROVE  IInv'
  BY DEF vars, coordinatorVars, stageVars, historyVars, IInv, TypeOK, Stages!TypeOK,
         OwnInv, EvidenceInv, FinalInv, AllKept, Kept, Joined, Upstream, Lost, Engaged,
         FailedRunPublishesNothing, WinnerInv

(* The inductive invariant holds in every reachable state.                 *)
THEOREM Invariance == Spec => []IInv
  <1>1. IInv /\ [Next]_vars => IInv'
    BY StepKeeps, PowerLossKeeps, IdleKeeps DEF Next, Rest
  <1>. QED
    BY Initially, <1>1, PTL DEF Spec

-----------------------------------------------------------------------------
(* Type correctness of the coordinators and of what they share.            *)
THEOREM TypeCorrect == Spec => []TypeOK
  BY Invariance, PTL DEF IInv

(* A visible batch manifest refers to whole evidence, through faults, a    *)
(* power loss and recovery, save the objects that the publisher of a stage *)
(* manifest takes back after linking it.                                   *)
THEOREM AcceptedRunIsWhole == Spec => []AcceptedIsWhole
  <1>1. IInv => AcceptedIsWhole
    BY DEF IInv, FinalInv, AllKept, Kept, Intact, AcceptedIsWhole
  <1>. QED
    BY <1>1, Invariance, PTL

(* A coordinator that raises an error of its own has published nothing.    *)
THEOREM FailurePublishesNothing == Spec => []FailedRunPublishesNothing
  BY Invariance, PTL DEF IInv

(* Of any number of concurrent coordinators at most one returns, and its   *)
(* manifest stays unless the handler of another one unlinks it.            *)
THEOREM WinnerIsUnique == Spec => []WinnerStays
  <1>1. IInv => WinnerStays
    BY DEF IInv, WinnerInv, WinnerStays
  <1>. QED
    BY <1>1, Invariance, PTL

(* Whoever holds the claim of an accepted stage without having accepted it *)
(* finds its publisher's objects taken back already.                       *)
LEMMA EngagedFindsLost ==
    ASSUME IInv, NEW c \in Coordinators, Stages!Working(c, stage[c]), Engaged(c, stage[c]),
           accepted[stage[c]] # Nobody
    PROVE  Lost(stage[c])
  BY DEF IInv, TypeOK, EvidenceInv, Stages!Working

(* Steps that write touch no accepted evidence but their own, which they   *)
(* retract.                                                                *)
LEMMA WritesKeepAccepted ==
    ASSUME IInv, NEW c \in Coordinators, Writes(c)
    PROVE  KeepsEvidence
  <1> USE DEF IInv, TypeOK, Stages!TypeOK, KeepsEvidence, Goto, Move, Finish
  <1>1. CASE ClaimStage(c) \/ YieldStage(c) \/ ReleaseStage(c)
    BY <1>1 DEF ClaimStage, YieldStage, ReleaseStage, Stages!Claim, Stages!Release
  <1>2. CASE AcceptStage(c)
    BY <1>2 DEF AcceptStage, Stages!Accept
  <1>3. CASE StoreObjects(c) \/ DiscardObjects(c)
    <2>1. Stages!Working(c, stage[c]) /\ Engaged(c, stage[c])
      BY <1>3 DEF StoreObjects, DiscardObjects, Stages!Store, Stages!Discard, Engaged,
                  Engaging, Held
    <2>2. accepted[stage[c]] # Nobody => Lost(stage[c])
      BY <2>1, EngagedFindsLost
    <2>3. /\ UNCHANGED <<accepted, source, stage, retracted>>
          /\ \A s \in StageIds : s # stage[c] => stored'[s] = stored[s]
      BY <1>3 DEF historyVars, StoreObjects, DiscardObjects, Stages!Store, Stages!Discard
    <2>. QED
      BY <2>2, <2>3 DEF Lost
  <1>4. CASE RetractObjects(c)
    <2>1. accepted[stage[c]] = c
      BY <1>4 DEF RetractObjects, OwnInv
    <2>. QED
      BY <1>4, <2>1 DEF RetractObjects, Lost
  <1>5. CASE RetractClaim(c)
    BY <1>5 DEF RetractClaim
  <1>. QED
    BY ONLY Writes(c), <1>1, <1>2, <1>3, <1>4, <1>5 DEF Writes

(* Recovery and concurrent coordinators rewrite nothing that is accepted.  *)
THEOREM NothingIsRewritten == Spec => RecoveryRewritesNothing
  <1>1. IInv /\ [Next]_vars => [KeepsEvidence]_vars
    <2> SUFFICES ASSUME IInv, Next
                 PROVE  KeepsEvidence \/ UNCHANGED vars
      BY DEF vars
    <2>1. ASSUME NEW c \in Coordinators, Step(c) \/ Fault(c)
          PROVE  KeepsEvidence
      <3>1. CASE Reads(c) \/ Fault(c)
        BY <3>1, SharedTyped DEF IInv, stageVars, KeepsEvidence
      <3>2. CASE Writes(c)
        BY <3>2, WritesKeepAccepted
      <3>. QED
        BY ONLY <2>1, <3>1, <3>2 DEF Step, Reads, Writes
    <2>2. CASE PowerLoss
      BY <2>2 DEF PowerLoss, KeepsEvidence
    <2>. QED
      BY <2>1, <2>2 DEF Next, Rest
  <1>. QED
    BY <1>1, Invariance, PTL DEF Spec, RecoveryRewritesNothing
=============================================================================
