------------------------------ MODULE GoldPublish ------------------------------
(***************************************************************************)
(* The publishers of pipelines/batch/gold.py: _publish_gold makes the      *)
(* daily traffic of one Silver manifest visible, _publish_freshness the    *)
(* completeness evidence of a fixture.  Both publish one object.  They     *)
(* share claim, links and handlers, and look at what is there already at   *)
(* different moments:                                                      *)
(*                                                                         *)
(*   traffic:    materialize -> look -> find -> claim -> folder            *)
(*   freshness:  materialize -> claim -> check -> folder                   *)
(*   both:       folder -> object -> manifest -> settle -> unstage -> done *)
(*   an error once the claim is held: undo -> unstage -> done              *)
(*                                                                         *)
(* A publisher is one invocation, and files stand for the publisher that   *)
(* made them, as in BronzePublish.                                         *)
(***************************************************************************)
CONSTANTS Publishers,  \* invocations of a Gold publisher
          Runs,        \* (dataset, partition_date, run_id) identities
          Freshness,   \* the runs of dataset ingestion_freshness
          Foreign,     \* what another program left under the destination
          Nobody       \* an absent file or directory

ASSUME PublishersAssumption ==
    /\ Foreign \notin Publishers
    /\ Nobody \notin Publishers
    /\ Foreign # Nobody

ASSUME FreshnessAssumption == Freshness \subseteq Runs

VARIABLES pc,        \* pc[p]: the next call of publisher p
          run,       \* run[p]: the identity p publishes under
          owned,     \* owned[p]: run_owned
          error,     \* error[p]: the error on its way out, or "none"
          outcome,   \* outcome[p]: "none", "accepted" or the error raised
          claim,     \* claim[r]: who made .claims/run_id=r
          folder,    \* folder[r]: who made run_id=r
          object,    \* object[r]: whose Parquet file it holds
          manifest   \* manifest[r]: whose manifest is visible at {run_id}.json

publisherVars == <<pc, run, owned, error, outcome>>
fileVars == <<claim, folder, object, manifest>>
vars == <<pc, run, owned, error, outcome, claim, folder, object, manifest>>

(* A run directory of another program's making may be there.               *)
Init == /\ pc = [p \in Publishers |-> "materialize"]
        /\ run \in [Publishers -> Runs]
        /\ owned = [p \in Publishers |-> FALSE]
        /\ error = [p \in Publishers |-> "none"]
        /\ outcome = [p \in Publishers |-> "none"]
        /\ claim = [r \in Runs |-> Nobody]
        /\ folder \in [Runs -> {Foreign, Nobody}]
        /\ object = [r \in Runs |-> Nobody]
        /\ manifest = [r \in Runs |-> Nobody]

-----------------------------------------------------------------------------
Goto(p, label) == pc' = [pc EXCEPT ![p] = label]

Move(p, label) == Goto(p, label) /\ UNCHANGED <<run, owned, error, outcome>>

(* Raise through the exit of the staging directory.                        *)
Leave(p, code) == /\ Goto(p, "unstage")
                  /\ error' = [error EXCEPT ![p] = code]
                  /\ UNCHANGED <<run, owned, outcome>>

(* An OSError inside the try block: its handler removes what is owned.     *)
Fail(p, code) == /\ Goto(p, "undo")
                 /\ error' = [error EXCEPT ![p] = code]
                 /\ UNCHANGED <<run, owned, outcome>>

(* The Silver input is validated and aggregated, or the fixture's counts   *)
(* written, in a private staging directory.                                *)
Materialize(p) ==
    /\ pc[p] = "materialize"
    /\ \/ run[p] \in Freshness /\ Move(p, "claim")
       \/ run[p] \notin Freshness /\ Move(p, "look")
    /\ UNCHANGED fileVars

(* _publish_gold: the run directory must not be there, ...                 *)
LookForFolder(p) ==
    /\ pc[p] = "look"
    /\ folder[run[p]] = Nobody
    /\ Move(p, "find")
    /\ UNCHANGED fileVars

FolderSeen(p) ==
    /\ pc[p] = "look"
    /\ folder[run[p]] # Nobody
    /\ Leave(p, "publication_conflict")
    /\ UNCHANGED fileVars

(* ... nor the manifest.  Both are looked at before the claim is taken.    *)
LookForManifest(p) ==
    /\ pc[p] = "find"
    /\ manifest[run[p]] = Nobody
    /\ Move(p, "claim")
    /\ UNCHANGED fileVars

ManifestSeen(p) ==
    /\ pc[p] = "find"
    /\ manifest[run[p]] # Nobody
    /\ Leave(p, "publication_conflict")
    /\ UNCHANGED fileVars

(* Mutant: mkdir(exist_ok=True) lets a second publisher through.           *)
ClaimExistOk(p) ==
    /\ pc[p] = "claim"
    /\ claim' = [claim EXCEPT ![run[p]] = p]
    /\ \/ run[p] \in Freshness /\ Move(p, "check")
       \/ run[p] \notin Freshness /\ Move(p, "folder")
    /\ UNCHANGED <<folder, object, manifest>>

Claim(p) ==
    /\ pc[p] = "claim"
    /\ claim[run[p]] = Nobody
    /\ claim' = [claim EXCEPT ![run[p]] = p]
    /\ \/ run[p] \in Freshness /\ Move(p, "check")
       \/ run[p] \notin Freshness /\ Move(p, "folder")
    /\ UNCHANGED <<folder, object, manifest>>

ClaimTaken(p) ==
    /\ pc[p] = "claim"
    /\ claim[run[p]] # Nobody
    /\ Leave(p, "publication_conflict")
    /\ UNCHANGED fileVars

(* Mutant: the existence check is inverted.                                *)
CheckManifestInverted(p) ==
    /\ pc[p] = "check"
    /\ manifest[run[p]] # Nobody
    /\ Move(p, "folder")
    /\ UNCHANGED fileVars

(* _publish_freshness looks for the manifest once it holds the claim.      *)
CheckManifest(p) ==
    /\ pc[p] = "check"
    /\ manifest[run[p]] = Nobody
    /\ Move(p, "folder")
    /\ UNCHANGED fileVars

(* Mutant: the manifest is linked without its object.                      *)
MakeFolderOnly(p) ==
    /\ pc[p] = "folder"
    /\ folder[run[p]] = Nobody
    /\ folder' = [folder EXCEPT ![run[p]] = p]
    /\ owned' = [owned EXCEPT ![p] = TRUE]
    /\ Goto(p, "manifest")
    /\ UNCHANGED <<run, error, outcome, claim, object, manifest>>

MakeFolder(p) ==
    /\ pc[p] = "folder"
    /\ folder[run[p]] = Nobody
    /\ folder' = [folder EXCEPT ![run[p]] = p]
    /\ owned' = [owned EXCEPT ![p] = TRUE]
    /\ Goto(p, "object")
    /\ UNCHANGED <<run, error, outcome, claim, object, manifest>>

(* Mutant: the FileExistsError is raised again as it is.                   *)
FolderTakenUnconverted(p) ==
    /\ pc[p] = "folder"
    /\ folder[run[p]] # Nobody
    /\ Fail(p, "file_exists_error")
    /\ UNCHANGED fileVars

FolderTaken(p) ==
    /\ pc[p] = "folder"
    /\ folder[run[p]] # Nobody
    /\ Fail(p, "publication_conflict")
    /\ UNCHANGED fileVars

LinkObject(p) ==
    /\ pc[p] = "object"
    /\ object' = [object EXCEPT ![run[p]] = p]
    /\ Move(p, "manifest")
    /\ UNCHANGED <<claim, folder, manifest>>

LinkManifest(p) ==
    /\ pc[p] = "manifest"
    /\ manifest[run[p]] = Nobody
    /\ manifest' = [manifest EXCEPT ![run[p]] = p]
    /\ Move(p, "settle")
    /\ UNCHANGED <<claim, folder, object>>

(* Both the check of _publish_freshness and os.link raise FileExistsError. *)
ManifestTaken(p) ==
    /\ pc[p] \in {"check", "manifest"}
    /\ manifest[run[p]] # Nobody
    /\ Fail(p, "publication_conflict")
    /\ UNCHANGED fileVars

(* Mutant: the cleanup is in a finally clause, not in the handlers.        *)
SettleThenUndo(p) ==
    /\ pc[p] = "settle"
    /\ Move(p, "undo")
    /\ UNCHANGED fileVars

(* The manifest is visible; its temporary directory is removed.            *)
Settle(p) ==
    /\ pc[p] = "settle"
    /\ Move(p, "unstage")
    /\ UNCHANGED fileVars

-----------------------------------------------------------------------------
(* The handlers: shutil.rmtree of the run directory, if this publisher     *)
(* made it, then rmdir of the claim.                                       *)
RemoveObject(p) ==
    /\ pc[p] = "undo"
    /\ owned[p]
    /\ object[run[p]] # Nobody
    /\ object' = [object EXCEPT ![run[p]] = Nobody]
    /\ UNCHANGED <<publisherVars, claim, folder, manifest>>

RemoveFolder(p) ==
    /\ pc[p] = "undo"
    /\ owned[p]
    /\ object[run[p]] = Nobody
    /\ folder' = [folder EXCEPT ![run[p]] = Nobody]
    /\ owned' = [owned EXCEPT ![p] = FALSE]
    /\ UNCHANGED <<pc, run, error, outcome, claim, object, manifest>>

(* Mutant: the claim is given up and the run directory left there.         *)
RemoveClaimOnly(p) ==
    /\ pc[p] = "undo"
    /\ claim' = [claim EXCEPT ![run[p]] = Nobody]
    /\ Move(p, "unstage")
    /\ UNCHANGED <<folder, object, manifest>>

RemoveClaim(p) ==
    /\ pc[p] = "undo"
    /\ ~owned[p]
    /\ claim' = [claim EXCEPT ![run[p]] = Nobody]
    /\ Move(p, "unstage")
    /\ UNCHANGED <<folder, object, manifest>>

(* The exit of the staging directory, then the function returns or raises. *)
Finish(p, code) == /\ pc[p] = "unstage"
                   /\ Goto(p, "done")
                   /\ outcome' = [outcome EXCEPT ![p] = code]
                   /\ UNCHANGED <<run, owned, error, fileVars>>

Return(p) == error[p] = "none" /\ Finish(p, "accepted")

Raise(p) == error[p] # "none" /\ Finish(p, error[p])

Step(p) == \/ Materialize(p)
           \/ LookForFolder(p)
           \/ FolderSeen(p)
           \/ LookForManifest(p)
           \/ ManifestSeen(p)
           \/ Claim(p)
           \/ ClaimTaken(p)
           \/ CheckManifest(p)
           \/ MakeFolder(p)
           \/ FolderTaken(p)
           \/ LinkObject(p)
           \/ LinkManifest(p)
           \/ ManifestTaken(p)
           \/ Settle(p)
           \/ RemoveObject(p)
           \/ RemoveFolder(p)
           \/ RemoveClaim(p)
           \/ Return(p)
           \/ Raise(p)

-----------------------------------------------------------------------------
(* Faults                                                                  *)

(* The input is refused, or DuckDB fails: nothing was published.           *)
InputError(p) ==
    /\ pc[p] = "materialize"
    /\ Leave(p, "invalid_input")
    /\ UNCHANGED fileVars

(* _ensure_directory, always called before the claim is taken, finds a     *)
(* symlink or a file in the way.                                           *)
UnsafeParent(p) ==
    /\ pc[p] \in {"look", "find", "claim"}
    /\ Leave(p, "unsafe_destination")
    /\ UNCHANGED fileVars

(* An OSError outside the try block: nobody converts it.                   *)
UnhandledError(p) ==
    /\ pc[p] \in {"materialize", "look", "find", "claim"}
    /\ Leave(p, "os_error")
    /\ UNCHANGED fileVars

(* An OSError inside it, before the link of the manifest or, when its      *)
(* temporary directory cannot be removed, after it.                        *)
CallError(p) ==
    /\ pc[p] \in {"check", "folder", "object", "manifest", "settle"}
    /\ Fail(p, "publication_failure")
    /\ UNCHANGED fileVars

(* _sha256 cannot read the staged object again.  It raises no OSError but  *)
(* a GoldMaterializationError of its own, which no handler catches.        *)
(* _publish_gold calls it before it takes the claim, _publish_freshness    *)
(* inside the try block, with claim, directory and object in place.        *)
DigestError(p) ==
    /\ \/ pc[p] = "claim" /\ run[p] \notin Freshness
       \/ pc[p] = "manifest" /\ run[p] \in Freshness
    /\ Leave(p, "input_read_failure")
    /\ UNCHANGED fileVars

(* rmtree or rmdir raises in the handler: its OSError replaces the error   *)
(* being handled and the rest of the cleanup is skipped.                   *)
CleanupError(p) ==
    /\ pc[p] = "undo"
    /\ Leave(p, "os_error")
    /\ UNCHANGED fileVars

UnstageError(p) == Finish(p, "os_error")

Crash(p) ==
    /\ pc[p] \notin {"done", "crashed"}
    /\ Move(p, "crashed")
    /\ UNCHANGED fileVars

Fault(p) == \/ InputError(p)
            \/ UnsafeParent(p)
            \/ UnhandledError(p)
            \/ CallError(p)
            \/ DigestError(p)
            \/ CleanupError(p)
            \/ UnstageError(p)
            \/ Crash(p)

Stopped(p) == pc[p] \in {"done", "crashed"}

Rest == /\ \A p \in Publishers : Stopped(p)
        /\ UNCHANGED vars

Next == \/ \E p \in Publishers : Step(p) \/ Fault(p)
        \/ Rest

(* The operating system keeps a publisher running; no fault is obliged.    *)
Fairness == \A p \in Publishers : WF_vars(Step(p))

Spec == Init /\ [][Next]_vars /\ Fairness

-----------------------------------------------------------------------------
Labels == {"materialize", "look", "find", "claim", "check", "folder", "object",
           "manifest", "settle", "undo", "unstage", "done", "crashed"}

(* The codes raised by the handlers or before there is anything to undo.   *)
CleanCodes == {"invalid_input", "unsafe_destination", "publication_conflict",
               "publication_failure"}

ErrorCodes == CleanCodes \cup {"input_read_failure", "os_error"}

(* Every failure has a code of its own or is an OSError nobody converted.  *)
TypeOK == /\ pc \in [Publishers -> Labels]
          /\ run \in [Publishers -> Runs]
          /\ owned \in [Publishers -> BOOLEAN]
          /\ error \in [Publishers -> ErrorCodes \cup {"none"}]
          /\ outcome \in [Publishers -> ErrorCodes \cup {"none", "accepted"}]
          /\ claim \in [Runs -> Publishers \cup {Nobody}]
          /\ folder \in [Runs -> Publishers \cup {Foreign, Nobody}]
          /\ object \in [Runs -> Publishers \cup {Nobody}]
          /\ manifest \in [Runs -> Publishers \cup {Nobody}]

(* The failures of p after which nothing of p's is left but, at most, its  *)
(* manifest: every one with a code, except that a freshness publisher that *)
(* cannot read its staged object again walks away from what it has made.   *)
Clean(p) == \/ error[p] \in CleanCodes
            \/ error[p] = "input_read_failure" /\ run[p] \notin Freshness

(* A publisher that reports one of these has left neither claim nor        *)
(* directory nor object behind, whether it looked at the destination       *)
(* before taking the claim, as a traffic run does, or under it.            *)
FailureLeavesNothing ==
    \A p \in Publishers : pc[p] = "done" /\ Clean(p) =>
        \A r \in Runs : claim[r] # p /\ folder[r] # p /\ object[r] # p

(* A manifest counts as accepted once its publisher can no longer fail: it *)
(* has got past the exit of the manifest's temporary directory, or is dead.*)
Settled(r) == /\ manifest[r] # Nobody
              /\ pc[manifest[r]] # "settle"
              /\ error[manifest[r]] = "none"

(* Publishers of one run that meet no fault and no foreign directory never *)
(* defeat each other: one of them is accepted.                             *)
Undisturbed(r) ==
    /\ folder[r] # Foreign
    /\ \E p \in Publishers : run[p] = r
    /\ \A p \in Publishers : run[p] = r =>
           /\ pc[p] # "crashed"
           /\ error[p] \in {"none", "publication_conflict"}

UndisturbedRunIsPublished ==
    \A r \in Runs : []Undisturbed(r) => <>Settled(r)

(* Gold implements the publication contract.                               *)
Contract == INSTANCE Publication WITH
    Objects <- {"object"},
    stored <- [r \in Runs |-> [o \in {"object"} |-> object[r]]],
    accepted <- [r \in Runs |-> IF Settled(r) THEN manifest[r] ELSE Nobody]

ImplementsContract == Contract!Spec
=============================================================================
