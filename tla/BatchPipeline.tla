----------------------------- MODULE BatchPipeline -----------------------------
(***************************************************************************)
(* run_batch_pipeline of pipelines/batch/local.py: coordinators of one     *)
(* batch identity obtain the Bronze, Silver and Gold manifests (reusing    *)
(* those that exist), validate the evidence, force it to disk and publish  *)
(* the authoritative batch manifest.                                       *)
(*                                                                         *)
(* What a stage publisher does to its run identity is the publication      *)
(* contract, Stages!Claim .. Stages!Release; BronzePublish, SilverPublish  *)
(* and GoldPublish show that the code implements it.  Its many objects are *)
(* one here: "objects", present only when all of them are.                 *)
(*                                                                         *)
(* A coordinator is one invocation.  A rerun after an interruption is      *)
(* another one, that finds on disk what the earlier ones left there.       *)
(***************************************************************************)
EXTENDS Integers, FiniteSets

CONSTANTS Coordinators,  \* invocations of run_batch_pipeline
          Earlier,       \* an interrupted run before them
          Nobody         \* an absent file or directory

ASSUME CoordinatorsAssumption ==
    /\ Earlier \notin Coordinators
    /\ Nobody \notin Coordinators
    /\ Earlier # Nobody

StageCount == 3     \* Bronze, Silver and Gold, in this order
StageIds == 1 .. StageCount

VARIABLES pc, stage, outcome,
          claim,     \* claim[s]: who holds the claim of stage s's run identity
          stored,    \* stored[s]["objects"]: whose objects of s are intact
          accepted,  \* accepted[s]: whose manifest of s is visible
          source,    \* source[s]: whose manifest of s - 1 that manifest joins
          synced,    \* the stages whose evidence has been forced to disk
          final,     \* whose batch manifest is visible
          retracted, \* history; who took back the objects of an accepted manifest
          unlinked,  \* history; whose batch manifest a handler removed
          outage     \* power was lost

coordinatorVars == <<pc, stage, outcome>>
stageVars == <<claim, stored, accepted, source>>
historyVars == <<retracted, unlinked>>
vars == <<coordinatorVars, stageVars, synced, final, historyVars, outage>>

Stages == INSTANCE Publication WITH
    Publishers <- Coordinators \cup {Earlier},
    Runs <- StageIds,
    Objects <- {"objects"}

Upstream(s) == IF s = 1 THEN Nobody ELSE accepted[s - 1]

Joined(s) == accepted[s] # Nobody /\ source[s] = Upstream(s)

(* The evidence of stage s is whole.                                       *)
Intact(s) == Joined(s) /\ stored[s]["objects"] = accepted[s]

(* The evidence of stage s may pass validation, which compares checksums:  *)
(* another publisher's objects of the same run may hold the same bytes.    *)
Plausible(s) == Joined(s) /\ stored[s]["objects"] # Nobody

(* An interrupted run has accepted the first k stages, and may have died   *)
(* in the next one; one accepted object may have been damaged since.       *)
Init == /\ pc = [c \in Coordinators |-> "start"]
        /\ stage = [c \in Coordinators |-> 1]
        /\ outcome = [c \in Coordinators |-> "none"]
        /\ \E k \in 0 .. StageCount, orphan \in BOOLEAN, damaged \in 0 .. StageCount :
              /\ accepted = [s \in StageIds |-> IF s <= k THEN Earlier ELSE Nobody]
              /\ claim = [s \in StageIds |->
                    IF s <= k \/ (orphan /\ s = k + 1) THEN Earlier ELSE Nobody]
              /\ stored = [s \in StageIds |-> [o \in {"objects"} |->
                    IF s <= k /\ s # damaged THEN Earlier ELSE Nobody]]
        /\ source = [s \in StageIds |-> IF accepted[s] = Nobody THEN Nobody ELSE Upstream(s)]
        /\ synced = {}
        /\ final = Nobody
        /\ retracted = {}
        /\ unlinked = {}
        /\ outage = FALSE

-----------------------------------------------------------------------------
Goto(c, label) == pc' = [pc EXCEPT ![c] = label]

Move(c, label) == Goto(c, label) /\ UNCHANGED <<stage, outcome>>

Finish(c, code) == /\ Goto(c, "done")
                   /\ outcome' = [outcome EXCEPT ![c] = code]
                   /\ UNCHANGED stage

(* Mutant: the stage counter runs past Gold.                               *)
ObtainedTooMany(c) ==
    /\ Goto(c, IF stage[c] < StageCount THEN "look" ELSE "validate")
    /\ stage' = [stage EXCEPT ![c] = @ + 1]
    /\ UNCHANGED outcome

(* The manifest of the current stage is in hand: on to the next one.       *)
Obtained(c) ==
    /\ Goto(c, IF stage[c] < StageCount THEN "look" ELSE "validate")
    /\ stage' = [stage EXCEPT ![c] = IF @ < StageCount THEN @ + 1 ELSE @]
    /\ UNCHANGED outcome

(* An already accepted batch run is refused before any stage starts.       *)
Start(c) ==
    /\ pc[c] = "start"
    /\ IF final = Nobody THEN Move(c, "look") ELSE Finish(c, "publication_conflict")
    /\ UNCHANGED <<stageVars, synced, final, historyVars, outage>>

(* Mutant: only the coordinator's own manifest is reused.                  *)
ReuseOwn(c) ==
    /\ pc[c] = "look"
    /\ accepted[stage[c]] = c
    /\ Obtained(c)
    /\ UNCHANGED <<stageVars, synced, final, historyVars, outage>>

(* _obtain_stage: an existing manifest is reused, whoever made it.         *)
Reuse(c) ==
    /\ pc[c] = "look"
    /\ accepted[stage[c]] # Nobody
    /\ Obtained(c)
    /\ UNCHANGED <<stageVars, synced, final, historyVars, outage>>

(* Otherwise the stage runs; it begins by validating the manifest it reads *)
(* and the objects of that manifest.                                       *)
RunStage(c) ==
    /\ pc[c] = "look"
    /\ accepted[stage[c]] = Nobody
    /\ stage[c] > 1 => Plausible(stage[c] - 1)
    /\ Move(c, "claim")
    /\ UNCHANGED <<stageVars, synced, final, historyVars, outage>>

RefuseInput(c) ==
    /\ pc[c] = "look"
    /\ accepted[stage[c]] = Nobody
    /\ stage[c] > 1
    /\ ~Intact(stage[c] - 1)
    /\ Finish(c, "stage_failure")
    /\ UNCHANGED <<stageVars, synced, final, historyVars, outage>>

ClaimStage(c) ==
    /\ pc[c] = "claim"
    /\ Stages!Claim(c, stage[c])
    /\ Move(c, "store")
    /\ UNCHANGED <<source, synced, final, historyVars, outage>>

StageConflict(c) ==
    /\ pc[c] = "claim"
    /\ claim[stage[c]] # Nobody
    /\ Move(c, "conflict")
    /\ UNCHANGED <<stageVars, synced, final, historyVars, outage>>

(* The stage raised publication_conflict: its manifest may exist by now.   *)
Recheck(c) ==
    /\ pc[c] = "conflict"
    /\ IF accepted[stage[c]] # Nobody
         THEN Obtained(c)
         ELSE Finish(c, "publication_conflict")
    /\ UNCHANGED <<stageVars, synced, final, historyVars, outage>>

StoreObjects(c) ==
    /\ pc[c] = "store"
    /\ stored[stage[c]]["objects"] = Nobody
    /\ Stages!Store(c, stage[c], "objects")
    /\ Move(c, "accept")
    /\ UNCHANGED <<source, synced, final, historyVars, outage>>

(* A power loss took a claim and not the run directory it guarded: mkdir   *)
(* finds it and leaves it alone.  To Silver this is an OSError like any.   *)
StoreTaken(c) ==
    /\ pc[c] = "store"
    /\ stored[stage[c]]["objects"] # Nobody
    /\ Move(c, IF stage[c] = 2 THEN "release" ELSE "yield")
    /\ UNCHANGED <<stageVars, synced, final, historyVars, outage>>

(* Mutant: the stage replaces a manifest that is already there.            *)
AcceptStageReplacing(c) ==
    /\ pc[c] = "accept"
    /\ accepted' = [accepted EXCEPT ![stage[c]] = c]
    /\ source' = [source EXCEPT ![stage[c]] = Upstream(stage[c])]
    /\ Move(c, "settle")
    /\ UNCHANGED <<claim, stored, synced, final, historyVars, outage>>

(* The stage links its manifest, which joins the upstream one it read.     *)
AcceptStage(c) ==
    /\ pc[c] = "accept"
    /\ Stages!Accept(c, stage[c])
    /\ source' = [source EXCEPT ![stage[c]] = Upstream(stage[c])]
    /\ Move(c, "settle")
    /\ UNCHANGED <<synced, final, historyVars, outage>>

SettleStage(c) ==
    /\ pc[c] = "settle"
    /\ Obtained(c)
    /\ UNCHANGED <<stageVars, synced, final, historyVars, outage>>

(* There is a manifest already, of a publisher that lost its claim.        *)
ManifestTaken(c) ==
    /\ pc[c] = "accept"
    /\ accepted[stage[c]] # Nobody
    /\ Move(c, "withdraw")
    /\ UNCHANGED <<stageVars, synced, final, historyVars, outage>>

(* The stage's own cleanup, after a conflict and after an error.           *)
DiscardObjects(c) ==
    /\ pc[c] \in {"withdraw", "discard"}
    /\ Stages!Discard(c, stage[c], "objects")
    /\ Move(c, IF pc[c] = "withdraw" THEN "yield" ELSE "release")
    /\ UNCHANGED <<source, synced, final, historyVars, outage>>

YieldStage(c) ==
    /\ pc[c] = "yield"
    /\ Stages!Release(c, stage[c])
    /\ Move(c, "conflict")
    /\ UNCHANGED <<source, synced, final, historyVars, outage>>

ReleaseStage(c) ==
    /\ pc[c] = "release"
    /\ Stages!Release(c, stage[c])
    /\ Finish(c, "stage_failure")
    /\ UNCHANGED <<source, synced, final, historyVars, outage>>

(* Silver and Gold, unable to remove the directory their manifest was      *)
(* written in, remove their objects, then the claim, and leave the visible *)
(* manifest.                                                               *)
RetractObjects(c) ==
    /\ pc[c] = "retract"
    /\ stored' = [stored EXCEPT ![stage[c]]["objects"] = Nobody]
    /\ retracted' = retracted \cup {c}
    /\ Move(c, "forgo")
    /\ UNCHANGED <<claim, accepted, source, synced, final, unlinked, outage>>

RetractClaim(c) ==
    /\ pc[c] = "forgo"
    /\ claim' = [claim EXCEPT ![stage[c]] = Nobody]
    /\ Finish(c, "stage_failure")
    /\ UNCHANGED <<stored, accepted, source, synced, final, historyVars, outage>>

(* Mutant: reused evidence is trusted.                                     *)
ValidateNothing(c) ==
    /\ pc[c] = "validate"
    /\ Move(c, "barrier")
    /\ UNCHANGED <<stageVars, synced, final, historyVars, outage>>

(* _validate_pipeline_evidence: identity, lineage, checksums and counts of *)
(* the three manifests and all their objects, as they are at one moment: a *)
(* stage of another coordinator may take objects back before or after it.  *)
Validate(c) ==
    /\ pc[c] = "validate"
    /\ \A s \in StageIds : Plausible(s)
    /\ Move(c, "barrier")
    /\ UNCHANGED <<stageVars, synced, final, historyVars, outage>>

RefuseEvidence(c) ==
    /\ pc[c] = "validate"
    /\ \E s \in StageIds : ~Intact(s)
    /\ Finish(c, "broken_evidence")
    /\ UNCHANGED <<stageVars, synced, final, historyVars, outage>>

(* _durability_barrier: fsync of every manifest, object and directory,     *)
(* each looked for again.                                                  *)
AllThere == \A s \in StageIds : stored[s]["objects"] # Nobody

Barrier(c) ==
    /\ pc[c] = "barrier"
    /\ AllThere
    /\ synced' = StageIds
    /\ Move(c, "check")
    /\ UNCHANGED <<stageVars, final, historyVars, outage>>

RefuseBarrier(c) ==
    /\ pc[c] = "barrier"
    /\ ~AllThere
    /\ Finish(c, "broken_evidence")
    /\ UNCHANGED <<stageVars, synced, final, historyVars, outage>>

(* _publish_pipeline_manifest: an early check, then os.link.               *)
CheckFinal(c) ==
    /\ pc[c] = "check"
    /\ final = Nobody
    /\ Move(c, "link")
    /\ UNCHANGED <<stageVars, synced, final, historyVars, outage>>

(* Mutant: os.replace instead of os.link.                                  *)
LinkFinalReplacing(c) ==
    /\ pc[c] = "link"
    /\ final' = c
    /\ Move(c, "sync")
    /\ UNCHANGED <<stageVars, synced, historyVars, outage>>

LinkFinal(c) ==
    /\ pc[c] = "link"
    /\ final = Nobody
    /\ final' = c
    /\ Move(c, "sync")
    /\ UNCHANGED <<stageVars, synced, historyVars, outage>>

FinalTaken(c) ==
    /\ pc[c] \in {"check", "link"}
    /\ final # Nobody
    /\ Finish(c, "publication_conflict")
    /\ UNCHANGED <<stageVars, synced, final, historyVars, outage>>

(* The temporary directory is removed and the parent directory synced.     *)
Sync(c) ==
    /\ pc[c] = "sync"
    /\ Finish(c, "accepted")
    /\ UNCHANGED <<stageVars, synced, final, historyVars, outage>>

(* Mutant: the handler leaves the manifest where it is.                    *)
UnlinkNothing(c) ==
    /\ pc[c] = "undo"
    /\ final # Nobody
    /\ Move(c, "undone")
    /\ UNCHANGED <<stageVars, synced, final, historyVars, outage>>

(* The handler of OSError unlinks the manifest if there is one, ...        *)
UnlinkFinal(c) ==
    /\ pc[c] = "undo"
    /\ final # Nobody
    /\ final' = Nobody
    /\ unlinked' = unlinked \cup {final}
    /\ Move(c, "undone")
    /\ UNCHANGED <<stageVars, synced, retracted, outage>>

NothingToUnlink(c) ==
    /\ pc[c] = "undo"
    /\ final = Nobody
    /\ Move(c, "undone")
    /\ UNCHANGED <<stageVars, synced, final, historyVars, outage>>

(* ... and then raises.                                                    *)
RaiseUndone(c) ==
    /\ pc[c] = "undone"
    /\ Finish(c, "publication_failure")
    /\ UNCHANGED <<stageVars, synced, final, historyVars, outage>>

Step(c) == \/ Start(c)
           \/ Reuse(c) \/ RunStage(c) \/ RefuseInput(c)
           \/ ClaimStage(c) \/ StageConflict(c) \/ Recheck(c)
           \/ StoreObjects(c) \/ StoreTaken(c) \/ AcceptStage(c) \/ SettleStage(c)
           \/ ManifestTaken(c) \/ DiscardObjects(c) \/ YieldStage(c) \/ ReleaseStage(c)
           \/ RetractObjects(c) \/ RetractClaim(c)
           \/ Validate(c) \/ RefuseEvidence(c) \/ Barrier(c) \/ RefuseBarrier(c)
           \/ CheckFinal(c) \/ LinkFinal(c) \/ FinalTaken(c) \/ Sync(c)
           \/ UnlinkFinal(c) \/ NothingToUnlink(c) \/ RaiseUndone(c)

-----------------------------------------------------------------------------
(* Faults                                                                  *)

(* A stage fails before claiming, or with an error that leaves behind its  *)
(* claim and what it has not removed yet of its objects.                   *)
StageError(c) ==
    /\ pc[c] \in {"claim", "store", "accept", "withdraw", "yield", "discard", "release",
                  "retract", "forgo"}
    /\ Finish(c, "stage_failure")
    /\ UNCHANGED <<stageVars, synced, final, historyVars, outage>>

(* A stage fails with an error it cleans up after.                         *)
HandledStageError(c) ==
    /\ pc[c] \in {"store", "accept"}
    /\ Move(c, IF pc[c] = "store" THEN "release" ELSE "discard")
    /\ UNCHANGED <<stageVars, synced, final, historyVars, outage>>

(* A stage links its manifest and then fails to remove its private         *)
(* directory: the evidence stays, the coordinator gives up.                *)
LateStageError(c) ==
    /\ pc[c] = "settle"
    /\ Finish(c, "stage_failure")
    /\ UNCHANGED <<stageVars, synced, final, historyVars, outage>>

(* Silver and Gold treat a failure after their link like one before it.    *)
SettleError(c) ==
    /\ pc[c] = "settle"
    /\ stage[c] > 1
    /\ Move(c, "retract")
    /\ UNCHANGED <<stageVars, synced, final, historyVars, outage>>

(* An fsync of the barrier fails, or the clock moved backwards.            *)
BarrierError(c) ==
    /\ pc[c] \in {"barrier", "check"}
    /\ Finish(c, "durability_failure")
    /\ UNCHANGED <<stageVars, synced, final, historyVars, outage>>

(* An OSError of _publish_pipeline_manifest, before or after its link.     *)
PublishError(c) ==
    /\ pc[c] \in {"link", "sync"}
    /\ Move(c, "undo")
    /\ UNCHANGED <<stageVars, synced, final, historyVars, outage>>

UndoError(c) ==
    /\ pc[c] = "undo"
    /\ Finish(c, "os_error")
    /\ UNCHANGED <<stageVars, synced, final, historyVars, outage>>

Crash(c) ==
    /\ pc[c] \notin {"start", "done", "crashed"}
    /\ Move(c, "crashed")
    /\ UNCHANGED <<stageVars, synced, final, historyVars, outage>>

Fault(c) == \/ StageError(c) \/ HandledStageError(c) \/ LateStageError(c)
            \/ SettleError(c) \/ BarrierError(c) \/ PublishError(c) \/ UndoError(c) \/ Crash(c)

(* Power is lost once.  Stages write without fsync: of what was not forced *)
(* to disk any manifest or object may be gone, and claims are never forced *)
(* to disk.  Nor are the directories above that of the batch manifest.     *)
PowerLoss ==
    /\ ~outage
    /\ outage' = TRUE
    /\ pc' = [c \in Coordinators |-> IF pc[c] = "start" THEN "start" ELSE "crashed"]
    /\ \E manifests, objects \in SUBSET (StageIds \ synced), claims \in SUBSET StageIds :
          /\ accepted' = [s \in StageIds |-> IF s \in manifests THEN Nobody ELSE accepted[s]]
          /\ stored' = [s \in StageIds |->
                IF s \in objects THEN [o \in {"objects"} |-> Nobody] ELSE stored[s]]
          /\ claim' = [s \in StageIds |-> IF s \in claims THEN Nobody ELSE claim[s]]
    /\ final' \in {final, Nobody}
    /\ UNCHANGED <<stage, outcome, source, synced, historyVars>>

Stopped(c) == pc[c] \in {"done", "crashed"}

Rest == (\A c \in Coordinators : Stopped(c)) /\ UNCHANGED vars

Next == \/ \E c \in Coordinators : Step(c) \/ Fault(c)
        \/ PowerLoss
        \/ Rest

(* The operating system keeps a coordinator running; no fault is obliged.  *)
Spec == Init /\ [][Next]_vars /\ \A c \in Coordinators : WF_vars(Step(c))
-----------------------------------------------------------------------------
Labels == {"start", "look", "claim", "conflict", "store", "accept", "settle",
           "withdraw", "yield", "discard", "release", "retract", "forgo", "validate",
           "barrier", "check", "link", "sync", "undo", "undone", "done", "crashed"}

Outcomes == {"none", "accepted", "publication_conflict", "stage_failure",
             "broken_evidence", "durability_failure", "publication_failure", "os_error"}

TypeOK == /\ pc \in [Coordinators -> Labels]
          /\ stage \in [Coordinators -> StageIds]
          /\ outcome \in [Coordinators -> Outcomes]
          /\ Stages!TypeOK
          /\ source \in [StageIds -> Coordinators \cup {Earlier, Nobody}]
          /\ synced \subseteq StageIds
          /\ final \in Coordinators \cup {Nobody}
          /\ retracted \subseteq Coordinators
          /\ unlinked \subseteq Coordinators
          /\ outage \in BOOLEAN

(* The publisher of s's manifest has begun to take its objects back.       *)
Lost(s) == accepted[s] \in retracted /\ stage[accepted[s]] = s

(* A visible batch manifest refers to three joined stage manifests with    *)
(* all their objects, also when the evidence was left by an interrupted    *)
(* run or part of it vanished in a power loss.  The one exception are the  *)
(* objects that a Silver or Gold stage retracts after its manifest has     *)
(* become visible.                                                         *)
AcceptedIsWhole ==
    final # Nobody => \A s \in StageIds : Intact(s) \/ (Joined(s) /\ Lost(s))

(* A coordinator that raises an error of its own has no batch manifest     *)
(* visible.                                                                *)
FailedRunPublishesNothing ==
    \A c \in Coordinators :
        final = c => \/ pc[c] \in {"sync", "undo", "crashed"}
                     \/ outcome[c] \in {"accepted", "os_error"}

(* While power stays on, the manifest path a coordinator returned stays    *)
(* its own manifest, unless the handler of another one unlinks it: of      *)
(* concurrent coordinators at most one returns.                            *)
WinnerStays ==
    \A c \in Coordinators :
        outcome[c] = "accepted" /\ ~outage /\ c \notin unlinked => final = c

(* Recovery rewrites nothing: short of a power loss, accepted evidence     *)
(* stays what it is, whoever reuses it and whoever fails around it, save   *)
(* the objects that their own publisher retracts.                          *)
KeepsEvidence ==
    outage' = outage =>
        \A s \in StageIds : accepted[s] # Nobody =>
            /\ accepted'[s] = accepted[s]
            /\ source'[s] = source[s]
            /\ stored'[s] = stored[s] \/ Lost(s)'

RecoveryRewritesNothing == [][KeepsEvidence]_vars

(* Coordinators that meet no fault never defeat one another: one of them   *)
(* is accepted, also when it starts from what an interrupted run left      *)
(* between two stages.                                                     *)
Undisturbed ==
    /\ ~outage
    /\ \A s \in StageIds : claim[s] = Earlier => Intact(s)
    /\ \A c \in Coordinators :
           /\ pc[c] \notin {"crashed", "discard", "release", "retract", "undo"}
           /\ outcome[c] \in {"none", "accepted", "publication_conflict"}

UndisturbedRunIsAccepted ==
    []Undisturbed => <>(\E c \in Coordinators : outcome[c] = "accepted" /\ final = c)

-----------------------------------------------------------------------------
(* Promises of the documentation that the code does not keep in every      *)
(* interleaving.                                                           *)

(* Another coordinator's failure never removes an accepted batch manifest. *)
AcceptedRunStays ==
    \A c \in Coordinators : outcome[c] = "accepted" /\ ~outage => final = c

(* An accepted Bronze manifest has its objects on disk whatever happens to *)
(* the power, when nothing else damaged them.                              *)
BronzeIsDurable == accepted[1] \in Coordinators => Intact(1)
=============================================================================
