----------------------------- MODULE SilverPublish -----------------------------
(***************************************************************************)
(* normalize_pageviews of pipelines/batch/silver.py: a Bronze manifest is  *)
(* validated and transformed, then either _publish_accepted makes the      *)
(* Silver objects and manifest visible, or the error raised on the way is  *)
(* recorded by _publish_rejection under quarantine/ and raised again.      *)
(*                                                                         *)
(*   validate -> transform -> claim -> parent -> folder -> object          *)
(*                                       ^---------------------+           *)
(*     parent -> check -> manifest -> settle -> unstage -> done            *)
(*   any SilverNormalizationError: (cleanup ->) unstage -> reject          *)
(*     reject -> evidence -> seal -> done    the first rejection of a run  *)
(*     reject -> compare -> done             there is one already          *)
(*                                                                         *)
(* Files stand for the publisher that made them, as in BronzePublish.      *)
(***************************************************************************)
EXTENDS Integers

CONSTANTS Publishers,    \* invocations of normalize_pageviews
          Runs,          \* (partition_date, run_id) identities
          HourCount,     \* source objects of the Bronze manifest
          Inputs,        \* Bronze manifests a publisher may be given
          Defective,     \* the inputs the validation rejects
          Foreign,       \* whatever another program left under the destination
          Nobody         \* an absent file or directory

ASSUME PublishersAssumption ==
    /\ Foreign \notin Publishers
    /\ Nobody \notin Publishers
    /\ Foreign # Nobody

ASSUME HourCountAssumption == HourCount \in Nat \ {0}

ASSUME InputsAssumption == Defective \subseteq Inputs

Hours == 1 .. HourCount

VARIABLES pc, run, input, made,
          known,      \* known[p]: manifest_id was set before the error
          error,      \* error[p]: the code raised inside the try block, or "none"
          outcome,    \* outcome[p]: "none", "accepted" or the code finally raised
          claim,      \* claim[r]: who made .runs/run_id=r
          folder,     \* folder[r][h]: who made hour=h/run_id=r
          object,     \* object[r][h]: whose Parquet file it holds
          manifest,   \* manifest[r]: whose manifest is visible
          quarantine, \* quarantine[r]: who made quarantine/.../run_id=r
          rejection   \* rejection[r]: whose rejection.json it holds, or Nobody

publisherVars == <<pc, run, input, made, known, error, outcome>>
silverVars == <<claim, folder, object, manifest>>
quarantineVars == <<quarantine, rejection>>
vars == <<publisherVars, silverVars, quarantineVars>>

Init == /\ pc = [p \in Publishers |-> "validate"]
        /\ run \in [Publishers -> Runs]
        /\ input \in [Publishers -> Inputs]
        /\ made = [p \in Publishers |-> 0]
        /\ known = [p \in Publishers |-> FALSE]
        /\ error = [p \in Publishers |-> "none"]
        /\ outcome = [p \in Publishers |-> "none"]
        /\ claim = [r \in Runs |-> Nobody]
        /\ folder \in [Runs -> [Hours -> {Foreign, Nobody}]]
        /\ object = [r \in Runs |-> [h \in Hours |-> Nobody]]
        /\ manifest = [r \in Runs |-> Nobody]
        /\ quarantine = [r \in Runs |-> Nobody]
        /\ rejection = [r \in Runs |-> Nobody]

-----------------------------------------------------------------------------
Goto(p, label) == pc' = [pc EXCEPT ![p] = label]

(* Raise a SilverNormalizationError inside the try block.                  *)
Raise(p, label, code) == /\ Goto(p, label)
                         /\ error' = [error EXCEPT ![p] = code]
                         /\ UNCHANGED <<run, input, made, known, outcome>>

(* Return, or raise for good: nothing is recorded after this.              *)
Finish(p, code) == /\ Goto(p, "done")
                   /\ outcome' = [outcome EXCEPT ![p] = code]
                   /\ UNCHANGED <<run, input, made, known, error>>

Move(p, label) == Goto(p, label) /\ UNCHANGED <<run, input, made, known, error, outcome>>

(* _validate_bronze_manifest: from here on the manifest id is known.       *)
Validate(p) ==
    /\ pc[p] = "validate"
    /\ Goto(p, "transform")
    /\ known' = [known EXCEPT ![p] = TRUE]
    /\ UNCHANGED <<run, input, made, error, outcome, silverVars, quarantineVars>>

(* _stage_normalized_records, _assert_no_duplicate_primary_keys and        *)
(* _write_and_validate_parquet work in the private staging directory.      *)
Transform(p) ==
    /\ pc[p] = "transform"
    /\ IF input[p] \in Defective THEN Raise(p, "unstage", "invalid_input")
                                 ELSE Move(p, "claim")
    /\ UNCHANGED <<silverVars, quarantineVars>>

(* Mutant: mkdir(exist_ok=True) lets a second publisher through.           *)
ClaimExistOk(p) ==
    /\ pc[p] = "claim"
    /\ claim' = [claim EXCEPT ![run[p]] = p]
    /\ Move(p, "parent")
    /\ UNCHANGED <<folder, object, manifest, quarantineVars>>

Claim(p) ==
    /\ pc[p] = "claim"
    /\ claim[run[p]] = Nobody
    /\ claim' = [claim EXCEPT ![run[p]] = p]
    /\ Move(p, "parent")
    /\ UNCHANGED <<folder, object, manifest, quarantineVars>>

ClaimTaken(p) ==
    /\ pc[p] = "claim"
    /\ claim[run[p]] # Nobody
    /\ Raise(p, "unstage", "publication_conflict")
    /\ UNCHANGED <<silverVars, quarantineVars>>

EnsureParent(p) ==
    /\ pc[p] = "parent"
    /\ Move(p, IF made[p] < HourCount THEN "folder" ELSE "check")
    /\ UNCHANGED <<silverVars, quarantineVars>>

MakeFolder(p) ==
    /\ pc[p] = "folder"
    /\ folder[run[p]][made[p] + 1] = Nobody
    /\ folder' = [folder EXCEPT ![run[p]][made[p] + 1] = p]
    /\ made' = [made EXCEPT ![p] = made[p] + 1]
    /\ Goto(p, "object")
    /\ UNCHANGED <<run, input, known, error, outcome, claim, object, manifest,
                   quarantineVars>>

(* The FileExistsError of mkdir and os.link is an OSError like any other.  *)
FolderTaken(p) ==
    /\ pc[p] = "folder"
    /\ folder[run[p]][made[p] + 1] # Nobody
    /\ Raise(p, "cleanup", "publication_failure")
    /\ UNCHANGED <<silverVars, quarantineVars>>

LinkObject(p) ==
    /\ pc[p] = "object"
    /\ object' = [object EXCEPT ![run[p]][made[p]] = p]
    /\ Move(p, "parent")
    /\ UNCHANGED <<claim, folder, manifest, quarantineVars>>

(* Mutant: the existence check is inverted.                                *)
CheckManifestInverted(p) ==
    /\ pc[p] = "check"
    /\ IF manifest[run[p]] # Nobody
         THEN Move(p, "manifest")
         ELSE Raise(p, "cleanup", "publication_conflict")
    /\ UNCHANGED <<silverVars, quarantineVars>>

CheckManifest(p) ==
    /\ pc[p] = "check"
    /\ IF manifest[run[p]] = Nobody
         THEN Move(p, "manifest")
         ELSE Raise(p, "cleanup", "publication_conflict")
    /\ UNCHANGED <<silverVars, quarantineVars>>

LinkManifest(p) ==
    /\ pc[p] = "manifest"
    /\ manifest[run[p]] = Nobody
    /\ manifest' = [manifest EXCEPT ![run[p]] = p]
    /\ Move(p, "settle")
    /\ UNCHANGED <<claim, folder, object, quarantineVars>>

ManifestTaken(p) ==
    /\ pc[p] = "manifest"
    /\ manifest[run[p]] # Nobody
    /\ Raise(p, "cleanup", "publication_failure")
    /\ UNCHANGED <<silverVars, quarantineVars>>

(* The manifest is visible; its temporary directory is removed.            *)
Settle(p) ==
    /\ pc[p] = "settle"
    /\ Move(p, "unstage")
    /\ UNCHANGED <<silverVars, quarantineVars>>

(* _cleanup_owned: the run directories, the last one first, then the claim *)
(* with rmdir.                                                             *)
RemoveFolder(p) ==
    /\ pc[p] = "cleanup"
    /\ made[p] > 0
    /\ folder' = [folder EXCEPT ![run[p]][made[p]] = Nobody]
    /\ object' = [object EXCEPT ![run[p]][made[p]] = Nobody]
    /\ made' = [made EXCEPT ![p] = made[p] - 1]
    /\ UNCHANGED <<pc, run, input, known, error, outcome, claim, manifest, quarantineVars>>

(* Mutant: the claim is popped off the list of run directories.            *)
RemoveClaimPopping(p) ==
    /\ pc[p] = "cleanup"
    /\ made[p] = 0
    /\ claim' = [claim EXCEPT ![run[p]] = Nobody]
    /\ made' = [made EXCEPT ![p] = made[p] - 1]
    /\ Goto(p, "unstage")
    /\ UNCHANGED <<run, input, known, error, outcome, folder, object, manifest,
                   quarantineVars>>

RemoveClaim(p) ==
    /\ pc[p] = "cleanup"
    /\ made[p] = 0
    /\ claim' = [claim EXCEPT ![run[p]] = Nobody]
    /\ Move(p, "unstage")
    /\ UNCHANGED <<folder, object, manifest, quarantineVars>>

(* Leave the staging directory's block: return, or enter the handler of    *)
(* SilverNormalizationError.                                               *)
Unstage(p) ==
    /\ pc[p] = "unstage"
    /\ IF error[p] = "none" THEN Finish(p, "accepted") ELSE Move(p, "reject")
    /\ UNCHANGED <<silverVars, quarantineVars>>

-----------------------------------------------------------------------------
(* _publish_rejection: final_run.mkdir() admits one rejection per run.     *)
OpenRejection(p) ==
    /\ pc[p] = "reject"
    /\ quarantine[run[p]] = Nobody
    /\ quarantine' = [quarantine EXCEPT ![run[p]] = p]
    /\ Move(p, "evidence")
    /\ UNCHANGED <<silverVars, rejection>>

(* Mutant: an existing rejection is taken for this one, unread.            *)
RejectionTakenUnread(p) ==
    /\ pc[p] = "reject"
    /\ quarantine[run[p]] # Nobody
    /\ Finish(p, error[p])
    /\ UNCHANGED <<silverVars, quarantineVars>>

RejectionTaken(p) ==
    /\ pc[p] = "reject"
    /\ quarantine[run[p]] # Nobody
    /\ Move(p, "compare")
    /\ UNCHANGED <<silverVars, quarantineVars>>

(* _matches_existing_rejection reads rejection.json: it must record the    *)
(* same input manifest, with the same manifest id if one was known.        *)
Matches(p) ==
    LET q == rejection[run[p]]
    IN  q # Nobody /\ input[q] = input[p] /\ known[q] = known[p]

CompareRejection(p) ==
    /\ pc[p] = "compare"
    /\ Finish(p, IF Matches(p) THEN error[p] ELSE "publication_conflict")
    /\ UNCHANGED <<silverVars, quarantineVars>>

LinkRejection(p) ==
    /\ pc[p] = "evidence"
    /\ rejection' = [rejection EXCEPT ![run[p]] = p]
    /\ Move(p, "seal")
    /\ UNCHANGED <<silverVars, quarantine>>

SealRejection(p) ==
    /\ pc[p] = "seal"
    /\ Finish(p, error[p])
    /\ UNCHANGED <<silverVars, quarantineVars>>

(* _cleanup_owned([final_run], None) after an OSError: rmtree unlinks      *)
(* rejection.json if it was linked, and then removes the directory; only   *)
(* then is the failure raised.                                             *)
UnlinkRejection(p) ==
    /\ pc[p] = "drop"
    /\ rejection[run[p]] # Nobody
    /\ rejection' = [rejection EXCEPT ![run[p]] = Nobody]
    /\ UNCHANGED <<publisherVars, silverVars, quarantine>>

RemoveRejection(p) ==
    /\ pc[p] = "drop"
    /\ rejection[run[p]] = Nobody
    /\ quarantine' = [quarantine EXCEPT ![run[p]] = Nobody]
    /\ Move(p, "dropped")
    /\ UNCHANGED <<silverVars, rejection>>

RaiseDropped(p) ==
    /\ pc[p] = "dropped"
    /\ Finish(p, "quarantine_publication_failure")
    /\ UNCHANGED <<silverVars, quarantineVars>>

Step(p) == \/ Validate(p) \/ Transform(p)
           \/ Claim(p) \/ ClaimTaken(p)
           \/ EnsureParent(p) \/ MakeFolder(p) \/ FolderTaken(p) \/ LinkObject(p)
           \/ CheckManifest(p) \/ LinkManifest(p) \/ ManifestTaken(p) \/ Settle(p)
           \/ RemoveFolder(p) \/ RemoveClaim(p) \/ Unstage(p)
           \/ OpenRejection(p) \/ RejectionTaken(p) \/ CompareRejection(p)
           \/ LinkRejection(p) \/ SealRejection(p)
           \/ UnlinkRejection(p) \/ RemoveRejection(p) \/ RaiseDropped(p)

-----------------------------------------------------------------------------
(* Reading a source object fails, or the manifest itself is defective.     *)
ReadError(p) ==
    /\ pc[p] \in {"validate", "transform"}
    /\ Raise(p, "unstage", "invalid_input")
    /\ UNCHANGED <<silverVars, quarantineVars>>

(* Mutant: the error is converted outside the handler that cleans up.      *)
CallErrorUnclean(p) ==
    /\ pc[p] \in {"parent", "folder", "object", "check", "manifest"}
    /\ Raise(p, "unstage", "publication_failure")
    /\ UNCHANGED <<silverVars, quarantineVars>>

(* Any OSError of a call in _publish_accepted once the claim is held.      *)
CallError(p) ==
    /\ pc[p] \in {"parent", "folder", "object", "check", "manifest"}
    /\ Raise(p, "cleanup", "publication_failure")
    /\ UNCHANGED <<silverVars, quarantineVars>>

(* The exit of the manifest's temporary directory raises after the link.   *)
SettleError(p) ==
    /\ pc[p] = "settle"
    /\ Raise(p, "cleanup", "publication_failure")
    /\ UNCHANGED <<silverVars, quarantineVars>>

CleanupError(p) ==
    /\ pc[p] = "cleanup"
    /\ Raise(p, "unstage", "publication_cleanup_failure")
    /\ UNCHANGED <<silverVars, quarantineVars>>

(* An OSError no handler of normalize_pageviews converts.                  *)
UnhandledError(p) ==
    /\ pc[p] \in {"validate", "transform", "claim", "unstage", "reject"}
    /\ Finish(p, "os_error")
    /\ UNCHANGED <<silverVars, quarantineVars>>

(* An OSError on the way to the link of rejection.json, or from the exit   *)
(* of its temporary directory.                                             *)
RejectionError(p) ==
    /\ pc[p] \in {"evidence", "seal"}
    /\ Move(p, "drop")
    /\ UNCHANGED <<silverVars, quarantineVars>>

(* rejection.json cannot be read or decoded: it does not match.            *)
CompareError(p) ==
    /\ pc[p] = "compare"
    /\ Finish(p, "publication_conflict")
    /\ UNCHANGED <<silverVars, quarantineVars>>

(* rmtree fails before or after it has unlinked rejection.json.            *)
DropError(p) ==
    /\ pc[p] = "drop"
    /\ Finish(p, "publication_cleanup_failure")
    /\ UNCHANGED <<silverVars, quarantineVars>>

Crash(p) ==
    /\ pc[p] \notin {"done", "crashed"}
    /\ Move(p, "crashed")
    /\ UNCHANGED <<silverVars, quarantineVars>>

Fault(p) == \/ ReadError(p) \/ CallError(p) \/ SettleError(p) \/ CleanupError(p)
            \/ UnhandledError(p) \/ RejectionError(p) \/ CompareError(p)
            \/ DropError(p) \/ Crash(p)

(* Bronze writes accepted manifests to the same directory, under its own   *)
(* run id: one of the same name may appear at any moment.                  *)
ForeignManifest(r) ==
    /\ manifest[r] = Nobody
    /\ manifest' = [manifest EXCEPT ![r] = Foreign]
    /\ UNCHANGED <<publisherVars, claim, folder, object, quarantineVars>>

Stopped(p) == pc[p] \in {"done", "crashed"}

Rest == (\A p \in Publishers : Stopped(p)) /\ UNCHANGED vars

Next == \/ \E p \in Publishers : Step(p) \/ Fault(p)
        \/ \E r \in Runs : ForeignManifest(r)
        \/ Rest

(* The operating system keeps a publisher running; no fault is obliged.    *)
Spec == Init /\ [][Next]_vars /\ \A p \in Publishers : WF_vars(Step(p))

-----------------------------------------------------------------------------
Labels == {"validate", "transform", "claim", "parent", "folder", "object", "check",
           "manifest", "settle", "cleanup", "unstage", "reject", "compare",
           "evidence", "seal", "drop", "dropped", "done", "crashed"}

(* Errors raised after _publish_accepted has undone all it did.            *)
CleanCodes == {"invalid_input", "publication_conflict", "publication_failure"}

ErrorCodes == CleanCodes \cup {"publication_cleanup_failure"}

Anyone == Publishers \cup {Foreign, Nobody}

TypeOK == /\ pc \in [Publishers -> Labels]
          /\ run \in [Publishers -> Runs]
          /\ input \in [Publishers -> Inputs]
          /\ made \in [Publishers -> 0 .. HourCount]
          /\ known \in [Publishers -> BOOLEAN]
          /\ error \in [Publishers -> ErrorCodes \cup {"none"}]
          /\ outcome \in [Publishers -> ErrorCodes \cup
                {"none", "accepted", "os_error", "quarantine_publication_failure"}]
          /\ claim \in [Runs -> Publishers \cup {Nobody}]
          /\ folder \in [Runs -> [Hours -> Anyone]]
          /\ object \in [Runs -> [Hours -> Publishers \cup {Nobody}]]
          /\ manifest \in [Runs -> Anyone]
          /\ quarantine \in [Runs -> Publishers \cup {Nobody}]
          /\ rejection \in [Runs -> Publishers \cup {Nobody}]

(* A publisher that ends with an error of its own validation or of         *)
(* publication leaves no Silver claim, directory or object behind.         *)
FailureLeavesNothing ==
    \A p \in Publishers : pc[p] = "done" /\ error[p] \in CleanCodes =>
        \A r \in Runs :
            /\ claim[r] # p
            /\ \A h \in Hours : folder[r][h] # p /\ object[r][h] # p

(* q ran, or was killed in, the handler that takes back a record it had    *)
(* linked, and rejected what p did.                                        *)
Withdrew(q, p) ==
    /\ run[q] = run[p] /\ input[q] = input[p] /\ known[q] = known[p]
    /\ \/ pc[q] \in {"drop", "dropped"}
       \/ outcome[q] \in {"quarantine_publication_failure", "publication_cleanup_failure"}
       \/ pc[q] = "crashed" /\ error[q] # "none"

(* An error of the validation or of the publication is raised only with    *)
(* its evidence in quarantine: this publisher's record, or that of another *)
(* that rejected the same input.  The record is lost after that only if    *)
(* its maker runs the handler of a failure after the link, and so ends     *)
(* itself with another error or is killed.                                 *)
RaisedIsRecorded ==
    \A p \in Publishers :
        pc[p] = "done" /\ outcome[p] \in {"invalid_input", "publication_failure"} =>
            Matches(p) \/ \E q \in Publishers : Withdrew(q, p)

(* Of publishers of one valid input that meet no fault, one is accepted.   *)
Undisturbed(r) ==
    /\ \E p \in Publishers : run[p] = r
    /\ \A p \in Publishers : run[p] = r =>
           /\ input[p] \notin Defective
           /\ pc[p] # "crashed"
           /\ error[p] \in {"none", "publication_conflict"}
           /\ outcome[p] # "os_error"
    /\ \A h \in Hours : folder[r][h] # Foreign

UndisturbedRunIsPublished ==
    \A r \in Runs : []Undisturbed(r) => <>(manifest[r] # Nobody)

(* The accepted path implements the publication contract when a manifest   *)
(* counts as accepted once its publisher can no longer fail: it has got    *)
(* past the exit of the manifest's temporary directory, or it is dead.     *)
Accepted(r) ==
    IF /\ manifest[r] \in Publishers
       /\ pc[manifest[r]] # "settle"
       /\ error[manifest[r]] = "none"
    THEN manifest[r]
    ELSE Nobody

Contract == INSTANCE Publication WITH
    Objects <- Hours,
    stored <- object,
    accepted <- [r \in Runs |-> Accepted(r)]

ImplementsContract == Contract!Spec

-----------------------------------------------------------------------------
(* Promises of the documentation and the tests that the code does not keep *)
(* in every interleaving.                                                  *)

(* Every object a visible Silver manifest names exists.                    *)
VisibleIsComplete ==
    \A r \in Runs : manifest[r] \in Publishers =>
        \A h \in Hours : object[r][h] = manifest[r]

(* Repeating the rejection of one input raises the current failure, not a  *)
(* conflict with the evidence of the earlier attempt.                      *)
FailureIsNotMasked ==
    \A p \in Publishers :
        /\ pc[p] = "done"
        /\ error[p] = "invalid_input"
        /\ \A q \in Publishers : run[q] = run[p] => input[q] = input[p]
        => outcome[p] # "publication_conflict"
=============================================================================
