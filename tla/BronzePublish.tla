----------------------------- MODULE BronzePublish -----------------------------
(***************************************************************************)
(* ingest_pageviews of pipelines/batch/bronze.py: one publisher stages its *)
(* source objects in a private directory and _publish makes them visible.  *)
(* Each file system call that another process can observe is one action:   *)
(*                                                                         *)
(*   stage -> claim -> parent -> folder -> object -+                       *)
(*                       ^-------------------------+   (once per hour)     *)
(*                       parent -> check -> manifest -> unstage -> done    *)
(*                                                                         *)
(* A BronzeIngestionError raised inside _publish goes to "cleanup", any    *)
(* other OSError leaves _publish without cleaning anything, and a process  *)
(* may be killed between any two calls.                                    *)
(*                                                                         *)
(* A publisher is one invocation; a rerun under the same identity is       *)
(* another publisher.  A run is a (partition_date, run_id) pair.  A file   *)
(* or directory is represented by the publisher that created it, because   *)
(* its bytes (checksums, timestamps) differ from publisher to publisher.   *)
(***************************************************************************)
EXTENDS Integers

CONSTANTS Publishers,  \* invocations of ingest_pageviews
          Runs,        \* (partition_date, run_id) identities
          HourCount,   \* source objects of the profile: 1, 6 or 24
          Foreign,     \* whatever another program left under the destination
          Nobody       \* an absent file or directory

ASSUME PublishersAssumption ==
    /\ Foreign \notin Publishers
    /\ Nobody \notin Publishers
    /\ Foreign # Nobody

ASSUME HourCountAssumption == HourCount \in Nat \ {0}

Hours == 1 .. HourCount

VARIABLES pc,        \* pc[p]: the next call of publisher p
          run,       \* run[p]: the identity p publishes under
          made,      \* made[p]: Len(published_run_directories), hours 1..made[p]
          outcome,   \* outcome[p]: "none", "accepted" or the error code raised
          claim,     \* claim[r]: who made .runs/run_id=r
          folder,    \* folder[r][h]: who made hour=h/run_id=r
          object,    \* object[r][h]: whose staged bytes hour=h/run_id=r holds
          manifest   \* manifest[r]: whose manifest is visible at {run_id}.json

publisherVars == <<pc, run, made, outcome>>
fileVars == <<claim, folder, object, manifest>>
vars == <<pc, run, made, outcome, claim, folder, object, manifest>>

(* Nothing is claimed or accepted yet.  A run directory of the same name   *)
(* may already be there, left by some other program: _publish has a branch *)
(* for it.                                                                 *)
Init == /\ pc = [p \in Publishers |-> "stage"]
        /\ run \in [Publishers -> Runs]
        /\ made = [p \in Publishers |-> 0]
        /\ outcome = [p \in Publishers |-> "none"]
        /\ claim = [r \in Runs |-> Nobody]
        /\ folder \in [Runs -> [Hours -> {Foreign, Nobody}]]
        /\ object = [r \in Runs |-> [h \in Hours |-> Nobody]]
        /\ manifest = [r \in Runs |-> Nobody]

-----------------------------------------------------------------------------
Goto(p, label) == pc' = [pc EXCEPT ![p] = label]

(* Leave the TemporaryDirectory block of ingest_pageviews, with a result   *)
(* or an exception pending.                                                *)
Leave(p, code) == /\ Goto(p, "unstage")
                  /\ outcome' = [outcome EXCEPT ![p] = code]
                  /\ UNCHANGED <<run, made>>

(* Raise a BronzeIngestionError inside _publish once the claim is held.    *)
Fail(p, code) == /\ Goto(p, "cleanup")
                 /\ outcome' = [outcome EXCEPT ![p] = code]
                 /\ UNCHANGED <<run, made>>

(* Download, validation and staging touch only the private directory.      *)
Stage(p) ==
    /\ pc[p] = "stage"
    /\ Goto(p, "claim")
    /\ UNCHANGED <<run, made, outcome, fileVars>>

(* Mutant: mkdir(exist_ok=True) lets a second publisher through.           *)
ClaimExistOk(p) ==
    /\ pc[p] = "claim"
    /\ claim' = [claim EXCEPT ![run[p]] = p]
    /\ Goto(p, "parent")
    /\ UNCHANGED <<run, made, outcome, folder, object, manifest>>

(* run_claim.mkdir(): the exclusive step of the protocol.                  *)
Claim(p) ==
    /\ pc[p] = "claim"
    /\ claim[run[p]] = Nobody
    /\ claim' = [claim EXCEPT ![run[p]] = p]
    /\ Goto(p, "parent")
    /\ UNCHANGED <<run, made, outcome, folder, object, manifest>>

(* FileExistsError before anything was claimed: there is nothing to clean. *)
ClaimTaken(p) ==
    /\ pc[p] = "claim"
    /\ claim[run[p]] # Nobody
    /\ Leave(p, "publication_conflict")
    /\ UNCHANGED fileVars

(* _ensure_directory of the next hour's parent, or of the manifest's once  *)
(* every hour is published.  These shared parents are never removed.       *)
EnsureParent(p) ==
    /\ pc[p] = "parent"
    /\ Goto(p, IF made[p] < HourCount THEN "folder" ELSE "check")
    /\ UNCHANGED <<run, made, outcome, fileVars>>

(* final_run.mkdir(); the directory joins the owned list only when made.   *)
MakeFolder(p) ==
    /\ pc[p] = "folder"
    /\ folder[run[p]][made[p] + 1] = Nobody
    /\ folder' = [folder EXCEPT ![run[p]][made[p] + 1] = p]
    /\ made' = [made EXCEPT ![p] = made[p] + 1]
    /\ Goto(p, "object")
    /\ UNCHANGED <<run, outcome, claim, object, manifest>>

FolderTaken(p) ==
    /\ pc[p] = "folder"
    /\ folder[run[p]][made[p] + 1] # Nobody
    /\ Fail(p, "publication_conflict")
    /\ UNCHANGED fileVars

LinkObject(p) ==
    /\ pc[p] = "object"
    /\ object' = [object EXCEPT ![run[p]][made[p]] = p]
    /\ Goto(p, "parent")
    /\ UNCHANGED <<run, made, outcome, claim, folder, manifest>>

(* Mutant: the existence check is inverted.                                *)
CheckManifestInverted(p) ==
    /\ pc[p] = "check"
    /\ manifest[run[p]] # Nobody
    /\ Goto(p, "manifest")
    /\ UNCHANGED <<run, made, outcome, fileVars>>

CheckManifest(p) ==
    /\ pc[p] = "check"
    /\ manifest[run[p]] = Nobody
    /\ Goto(p, "manifest")
    /\ UNCHANGED <<run, made, outcome, fileVars>>

(* Mutant: os.replace instead of os.link.                                  *)
LinkManifestReplacing(p) ==
    /\ pc[p] = "manifest"
    /\ manifest' = [manifest EXCEPT ![run[p]] = p]
    /\ Leave(p, "accepted")
    /\ UNCHANGED <<claim, folder, object>>

LinkManifest(p) ==
    /\ pc[p] = "manifest"
    /\ manifest[run[p]] = Nobody
    /\ manifest' = [manifest EXCEPT ![run[p]] = p]
    /\ Leave(p, "accepted")
    /\ UNCHANGED <<claim, folder, object>>

(* The manifest exists: seen by the check, or it appeared since and        *)
(* os.link, which never replaces its target, raises FileExistsError.       *)
ManifestTaken(p) ==
    /\ pc[p] \in {"check", "manifest"}
    /\ manifest[run[p]] # Nobody
    /\ Fail(p, "publication_conflict")
    /\ UNCHANGED fileVars

-----------------------------------------------------------------------------
(* The handler of BronzeIngestionError: _remove_owned_directory on every   *)
(* directory of the owned list, the last one first, then on the claim.     *)
(* shutil.rmtree removes whatever it finds there, the contents first.      *)
RemoveObject(p) ==
    /\ pc[p] = "cleanup"
    /\ made[p] > 0
    /\ object[run[p]][made[p]] # Nobody
    /\ object' = [object EXCEPT ![run[p]][made[p]] = Nobody]
    /\ UNCHANGED <<publisherVars, claim, folder, manifest>>

RemoveFolder(p) ==
    /\ pc[p] = "cleanup"
    /\ made[p] > 0
    /\ object[run[p]][made[p]] = Nobody
    /\ folder' = [folder EXCEPT ![run[p]][made[p]] = Nobody]
    /\ made' = [made EXCEPT ![p] = made[p] - 1]
    /\ UNCHANGED <<pc, run, outcome, claim, object, manifest>>

(* Mutant: the claim is removed before the directories it guards.          *)
RemoveClaimFirst(p) ==
    /\ pc[p] = "cleanup"
    /\ claim[run[p]] = p
    /\ claim' = [claim EXCEPT ![run[p]] = Nobody]
    /\ UNCHANGED <<publisherVars, folder, object, manifest>>

(* Mutant: the claim is popped off the list of run directories.            *)
RemoveClaimPopping(p) ==
    /\ pc[p] = "cleanup"
    /\ made[p] = 0
    /\ claim' = [claim EXCEPT ![run[p]] = Nobody]
    /\ made' = [made EXCEPT ![p] = made[p] - 1]
    /\ Goto(p, "unstage")
    /\ UNCHANGED <<run, outcome, folder, object, manifest>>

RemoveClaim(p) ==
    /\ pc[p] = "cleanup"
    /\ made[p] = 0
    /\ claim' = [claim EXCEPT ![run[p]] = Nobody]
    /\ Goto(p, "unstage")
    /\ UNCHANGED <<run, made, outcome, folder, object, manifest>>

(* The exit of the TemporaryDirectory block, then ingest_pageviews returns *)
(* or raises.                                                              *)
Unstage(p) ==
    /\ pc[p] = "unstage"
    /\ Goto(p, "done")
    /\ UNCHANGED <<run, made, outcome, fileVars>>

Step(p) == \/ Stage(p)
           \/ Claim(p)
           \/ ClaimTaken(p)
           \/ EnsureParent(p)
           \/ MakeFolder(p)
           \/ FolderTaken(p)
           \/ LinkObject(p)
           \/ CheckManifest(p)
           \/ LinkManifest(p)
           \/ ManifestTaken(p)
           \/ RemoveObject(p)
           \/ RemoveFolder(p)
           \/ RemoveClaim(p)
           \/ Unstage(p)

-----------------------------------------------------------------------------
(* Failures: nothing in the code excludes one at any call.                 *)

(* A download or validation error: nothing was published.                  *)
StageError(p) ==
    /\ pc[p] = "stage"
    /\ Leave(p, "source_failure")
    /\ UNCHANGED fileVars

(* Mutant: the error is converted outside the handler that cleans up.      *)
CallErrorUnclean(p) ==
    /\ pc[p] \in {"folder", "object", "manifest"}
    /\ Leave(p, "publication_failure")
    /\ UNCHANGED fileVars

(* An OSError of mkdir or os.link that _publish converts.                  *)
CallError(p) ==
    /\ pc[p] \in {"folder", "object", "manifest"}
    /\ Fail(p, "publication_failure")
    /\ UNCHANGED fileVars

(* _ensure_directory finds a symlink or a file in the way.                 *)
UnsafeParent(p) ==
    /\ pc[p] = "parent"
    /\ Fail(p, "unsafe_destination")
    /\ UNCHANGED fileVars

(* An OSError nothing in _publish converts: claim and directories stay.    *)
UnhandledError(p) ==
    /\ pc[p] \in {"claim", "parent", "check"}
    /\ Leave(p, "local_io_failure")
    /\ UNCHANGED fileVars

(* _remove_owned_directory raises: the rest of the cleanup is skipped.     *)
CleanupError(p) ==
    /\ pc[p] = "cleanup"
    /\ Leave(p, "publication_cleanup_failure")
    /\ UNCHANGED fileVars

(* Removing the private directory fails: the OSError replaces a pending    *)
(* result or exception.                                                    *)
UnstageError(p) ==
    /\ pc[p] = "unstage"
    /\ Goto(p, "done")
    /\ outcome' = [outcome EXCEPT ![p] = "local_io_failure"]
    /\ UNCHANGED <<run, made, fileVars>>

Crash(p) ==
    /\ pc[p] \notin {"done", "crashed"}
    /\ Goto(p, "crashed")
    /\ UNCHANGED <<run, made, outcome, fileVars>>

Fault(p) == \/ StageError(p)
            \/ CallError(p)
            \/ UnsafeParent(p)
            \/ UnhandledError(p)
            \/ CleanupError(p)
            \/ UnstageError(p)
            \/ Crash(p)

(* Silver writes accepted manifests to the same directory, under its own   *)
(* run id: one of the same name may appear at any moment.                  *)
ForeignManifest(r) ==
    /\ manifest[r] = Nobody
    /\ manifest' = [manifest EXCEPT ![r] = Foreign]
    /\ UNCHANGED <<publisherVars, claim, folder, object>>

Stopped(p) == pc[p] \in {"done", "crashed"}

(* All publishers have stopped: the system is at rest.                     *)
Rest == /\ \A p \in Publishers : Stopped(p)
        /\ UNCHANGED vars

Next == \/ \E p \in Publishers : Step(p) \/ Fault(p)
        \/ \E r \in Runs : ForeignManifest(r)
        \/ Rest

Spec == Init /\ [][Next]_vars

(* A publisher is a process the operating system keeps running: it takes   *)
(* its next step or fails in it.  Nothing obliges a fault to happen.       *)
Fairness == \A p \in Publishers : WF_vars(Step(p))

FairSpec == Spec /\ Fairness

-----------------------------------------------------------------------------
Labels == {"stage", "claim", "parent", "folder", "object", "check", "manifest",
           "cleanup", "unstage", "done", "crashed"}

(* The errors after which _publish has undone all it did.                  *)
CleanCodes == {"source_failure", "publication_conflict", "publication_failure",
               "unsafe_destination"}

Outcomes == CleanCodes \cup
            {"none", "accepted", "local_io_failure", "publication_cleanup_failure"}

Anyone == Publishers \cup {Foreign, Nobody}

TypeOK == /\ pc \in [Publishers -> Labels]
          /\ run \in [Publishers -> Runs]
          /\ made \in [Publishers -> 0 .. HourCount]
          /\ outcome \in [Publishers -> Outcomes]
          /\ claim \in [Runs -> Publishers \cup {Nobody}]
          /\ folder \in [Runs -> [Hours -> Anyone]]
          /\ object \in [Runs -> [Hours -> Publishers \cup {Nobody}]]
          /\ manifest \in [Runs -> Anyone]

(* A visible Bronze manifest finds every hour's object in place, holding   *)
(* the bytes of the publisher that wrote the manifest: its checksums are   *)
(* right whatever other publishers of the identity did meanwhile.          *)
AcceptedIsComplete ==
    \A r \in Runs : manifest[r] \in Publishers =>
        \A h \in Hours : object[r][h] = manifest[r]

(* Whatever a publisher has put under a run is guarded by its own claim,   *)
(* also half way through cleanup, after an unhandled OSError and after a   *)
(* crash: no second publisher can ever mix its objects with leftovers.     *)
EvidenceIsClaimed ==
    \A r \in Runs, h \in Hours :
        /\ folder[r][h] \in Publishers => claim[r] = folder[r][h]
        /\ object[r][h] \in Publishers => folder[r][h] = object[r][h]

(* A publisher that reports one of the errors handled in _publish has left *)
(* neither claim, directory, object nor manifest behind.                   *)
FailureLeavesNothing ==
    \A p \in Publishers : pc[p] = "done" /\ outcome[p] \in CleanCodes =>
        \A r \in Runs :
            /\ claim[r] # p
            /\ manifest[r] # p
            /\ \A h \in Hours : folder[r][h] # p /\ object[r][h] # p

(* A publisher that returns a manifest path has that very manifest         *)
(* visible, so of the publishers of one run at most one returns.           *)
ReturnedIsVisible ==
    \A p \in Publishers : outcome[p] = "accepted" => manifest[run[p]] = p

(* No step withdraws or replaces a visible manifest (Bronze's or that of   *)
(* another program), an object an accepted manifest names, or a directory  *)
(* the publishers did not make.                                            *)
KeepsPublished ==
    \A r \in Runs :
        /\ manifest[r] # Nobody => manifest'[r] = manifest[r]
        /\ manifest[r] \in Publishers => object'[r] = object[r]
        /\ \A h \in Hours : folder[r][h] = Foreign => folder'[r][h] = Foreign

NoClobber == [][KeepsPublished]_vars

(* Publishers of one run that meet no fault and no foreign directory never *)
(* defeat each other: one of them ends with its manifest visible, unless a *)
(* foreign manifest took the name.                                         *)
Undisturbed(r) ==
    /\ \E p \in Publishers : run[p] = r
    /\ \A p \in Publishers : run[p] = r =>
           pc[p] # "crashed" /\ outcome[p] \in {"none", "accepted", "publication_conflict"}
    /\ \A h \in Hours : folder[r][h] # Foreign

UndisturbedRunIsPublished ==
    \A r \in Runs : []Undisturbed(r) => <>(manifest[r] # Nobody)

(* The publication contract, with paths and error codes abstracted away.   *)
Contract == INSTANCE Publication WITH
    Objects <- Hours,
    stored <- object,
    accepted <- [r \in Runs |-> IF manifest[r] = Foreign THEN Nobody ELSE manifest[r]]

ImplementsContract == Contract!Spec
=============================================================================
