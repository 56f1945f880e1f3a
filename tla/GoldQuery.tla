------------------------------- MODULE GoldQuery -------------------------------
(***************************************************************************)
(* Readers of the manifests GoldPublish makes visible, in processes of     *)
(* their own: GovernedSqlAdapter.execute of agent/query_adapter.py, and    *)
(* the field query sessions of open_governed_query in                      *)
(* pipelines/batch/gold.py.  Nothing locks publishers and readers out; a   *)
(* reader validates a manifest and its object, and opens the object again  *)
(* later by its path.                                                      *)
(*                                                                         *)
(*   both:     read -> check -> digest -> parquet                          *)
(*   adapter:  exists -> (both) -> bind -> run -> done                     *)
(*   session:  (both) -> register -> ready -> done                         *)
(*                                                                         *)
(* The Silver input of a Gold manifest is accepted and stays as it is, the *)
(* catalog was validated before, and the policy and the limits of the SQL  *)
(* worker are those of SqlExecutor: here they refuse a query or let it run.*)
(***************************************************************************)
EXTENDS GoldPublish

CONSTANTS Adapters,  \* calls of GovernedSqlAdapter.execute
          Sessions   \* sessions of open_governed_query

ASSUME ReadersAssumption == Adapters \cap Sessions = {}

Readers == Adapters \cup Sessions

VARIABLES at,         \* at[q]: the next call of reader q
          asked,      \* asked[q]: the run whose manifest q was given
          cited,      \* cited[q]: whose manifest q has read
          rows,       \* rows[q]: from whose object the rows of q's last answer are
          failure,    \* failure[q]: the error of q's last answer, or "none"
          early       \* early[q]: history; q began before the manifest was settled

readerVars == <<at, asked, cited, rows, failure, early>>
queryVars == <<vars, readerVars>>

First(q) == IF q \in Adapters THEN "exists" ELSE "read"

QueryInit == /\ Init
             /\ at = [q \in Readers |-> "waiting"]
             /\ asked \in [Readers -> Runs]
             /\ cited = [q \in Readers |-> Nobody]
             /\ rows = [q \in Readers |-> Nobody]
             /\ failure = [q \in Readers |-> "none"]
             /\ early = [q \in Readers |-> TRUE]

-----------------------------------------------------------------------------
TheObject(q) == object[asked[q]]

Proceed(q, from, to) == /\ at[q] = from
                        /\ at' = [at EXCEPT ![q] = to]
                        /\ UNCHANGED <<vars, asked, rows, failure, early>>

Refuse(q, from, code) == /\ at[q] = from
                         /\ at' = [at EXCEPT ![q] = "done"]
                         /\ failure' = [failure EXCEPT ![q] = code]
                         /\ UNCHANGED <<vars, asked, cited, rows, early>>

Begin(q) ==
    /\ at[q] = "waiting"
    /\ at' = [at EXCEPT ![q] = First(q)]
    /\ early' = [early EXCEPT ![q] = ~Settled(asked[q])]
    /\ UNCHANGED <<vars, asked, cited, rows, failure>>

Exists(q) ==
    /\ manifest[asked[q]] # Nobody
    /\ Proceed(q, "exists", "read")
    /\ UNCHANGED cited

Missing(q) ==
    /\ manifest[asked[q]] = Nobody
    /\ Refuse(q, "exists", "missing_data")

(* _read_canonical_manifest.  It is read once more while it is validated;  *)
(* no code removes or replaces a Gold manifest, so one reading stands for  *)
(* both.                                                                   *)
ReadManifest(q) ==
    /\ manifest[asked[q]] # Nobody
    /\ Proceed(q, "read", "check")
    /\ cited' = [cited EXCEPT ![q] = manifest[asked[q]]]

NoManifest(q) ==
    /\ manifest[asked[q]] = Nobody
    /\ Refuse(q, "read", "unsafe_input")

(* _contained_regular_file, then _sha256, then _validate_dataset_parquet   *)
(* open the object one after the other.                                    *)
CheckObject(q) ==
    /\ TheObject(q) # Nobody
    /\ Proceed(q, "check", "digest")
    /\ UNCHANGED cited

NoObject(q) ==
    /\ TheObject(q) = Nobody
    /\ Refuse(q, "check", "broken_join")

(* The object of another publisher may hold the same bytes: those of a     *)
(* freshness run are the fixture's counts, and computed_at tells two       *)
(* traffic runs apart only by the second.                                  *)
DigestMatches(q) ==
    /\ TheObject(q) # Nobody
    /\ Proceed(q, "digest", "parquet")
    /\ UNCHANGED cited

DigestDiffers(q) ==
    /\ TheObject(q) \notin {Nobody, cited[q]}
    /\ Refuse(q, "digest", "broken_join")

ObjectVanished(q) ==
    /\ TheObject(q) = Nobody
    /\ Refuse(q, "digest", "input_read_failure")

ReadParquet(q) ==
    /\ TheObject(q) # Nobody
    /\ Proceed(q, "parquet", IF q \in Adapters THEN "bind" ELSE "register")
    /\ UNCHANGED cited

NoParquet(q) ==
    /\ TheObject(q) = Nobody
    /\ Refuse(q, "parquet", "broken_join")

-----------------------------------------------------------------------------
(* The adapter compares the partition with the one it is required to       *)
(* answer for, and takes the size of the object.                           *)
Bind(q) ==
    /\ TheObject(q) # Nobody
    /\ Proceed(q, "bind", "run")
    /\ UNCHANGED cited

NothingToBind(q) ==
    /\ TheObject(q) = Nobody
    /\ Refuse(q, "bind", "input_read_failure")

StalePartition(q) == Refuse(q, "bind", "stale_data")

(* The worker's view opens the path; the rows are whatever is there.       *)
Answer(q, from, to) ==
    /\ at[q] = from
    /\ TheObject(q) # Nobody
    /\ at' = [at EXCEPT ![q] = to]
    /\ rows' = [rows EXCEPT ![q] = TheObject(q)]
    /\ failure' = [failure EXCEPT ![q] = "none"]
    /\ UNCHANGED <<vars, asked, cited, early>>

Run(q) == Answer(q, "run", "done")

(* The worker reports any error of DuckDB as query_failure: here that of   *)
(* an object that is gone, under Declined that of the query itself.        *)
RunFails(q) ==
    /\ TheObject(q) = Nobody
    /\ Refuse(q, "run", "query_failure")

(* validate_sql refuses the query before any file is looked at; once they  *)
(* are bound, the admission, a limit of the executor or DuckDB does.       *)
Declined(q) == \E from \in {"exists", "run"} : Refuse(q, from, "executor_refusal")

-----------------------------------------------------------------------------
(* The session makes a private temporary directory and registers its view; *)
(* CREATE VIEW reads the schema of the object.                             *)
Register(q) ==
    /\ TheObject(q) # Nobody
    /\ Proceed(q, "register", "ready")
    /\ UNCHANGED cited

(* open_governed_query cleans up and raises what DuckDB raised, ...        *)
RegisterFails(q) ==
    /\ TheObject(q) = Nobody
    /\ Refuse(q, "register", "duckdb_error")

(* ... or the error of a file operation.                                   *)
NotPrepared(q) == Refuse(q, "register", "not_prepared")

(* Field queries, any number of them; a failed one leaves the session.     *)
FieldQuery(q) == Answer(q, "ready", "ready")

FieldQueryFails(q) ==
    /\ at[q] = "ready"
    /\ TheObject(q) = Nobody
    /\ failure' = [failure EXCEPT ![q] = "query_failure"]
    /\ UNCHANGED <<vars, at, asked, cited, rows, early>>

(* The view or a field is not one of the catalog's.                        *)
FieldQueryRefused(q) ==
    /\ at[q] = "ready"
    /\ failure' = [failure EXCEPT ![q] = "field_refusal"]
    /\ UNCHANGED <<vars, at, asked, cited, rows, early>>

Close(q) ==
    /\ Proceed(q, "ready", "done")
    /\ UNCHANGED cited

-----------------------------------------------------------------------------
Validate(q) == \/ ReadManifest(q) \/ NoManifest(q)
               \/ CheckObject(q) \/ NoObject(q)
               \/ DigestMatches(q) \/ DigestDiffers(q) \/ ObjectVanished(q)
               \/ ReadParquet(q) \/ NoParquet(q)

AdapterStep(q) == \/ Exists(q) \/ Missing(q)
                  \/ Bind(q) \/ NothingToBind(q) \/ StalePartition(q)
                  \/ Run(q) \/ RunFails(q) \/ Declined(q)

SessionStep(q) == \/ Register(q) \/ RegisterFails(q) \/ NotPrepared(q)
                  \/ FieldQuery(q) \/ FieldQueryFails(q) \/ FieldQueryRefused(q)
                  \/ Close(q)

Read == \/ \E q \in Readers : Begin(q) \/ Validate(q)
        \/ \E q \in Adapters : AdapterStep(q)
        \/ \E q \in Sessions : SessionStep(q)

Publish == Next /\ UNCHANGED readerVars

QueryNext == Publish \/ Read

(* Publishers keep running; nobody is obliged to ask.                      *)
QuerySpec == QueryInit /\ [][QueryNext]_queryVars /\ Fairness

-----------------------------------------------------------------------------
(* What a reader reports of the files it found.                            *)
DataErrors == {"missing_data", "unsafe_input", "broken_join", "input_read_failure",
               "query_failure", "duckdb_error"}

(* What it reports of itself.                                              *)
OtherErrors == {"stale_data", "executor_refusal", "not_prepared", "field_refusal"}

QueryTypeOK ==
    /\ TypeOK
    /\ at \in [Readers -> {"waiting", "exists", "read", "check", "digest", "parquet",
                           "bind", "run", "register", "ready", "done"}]
    /\ asked \in [Readers -> Runs]
    /\ cited \in [Readers -> Publishers \cup {Nobody}]
    /\ rows \in [Readers -> Publishers \cup {Nobody}]
    /\ failure \in [Readers -> DataErrors \cup OtherErrors \cup {"none"}]
    /\ early \in [Readers -> BOOLEAN]

(* The evidence an answer cites is that of its rows: they come from the    *)
(* object whose manifest the reader validated, although it opens the path  *)
(* later.  The one exception is a publication withdrawn meanwhile: its     *)
(* publisher failed after the manifest had become visible.                 *)
AnswerIsCited ==
    \A q \in Readers : rows[q] # Nobody =>
        \/ rows[q] = cited[q]
        \/ cited[q] \in Publishers /\ error[cited[q]] # "none"

(* An accepted publication can be asked for ever after: no reader that     *)
(* began when the manifest was settled meets a missing or different file,  *)
(* whatever publishers of the run do meanwhile.                            *)
AcceptedIsAnswered ==
    \A q \in Readers : ~early[q] => failure[q] \notin DataErrors
=============================================================================
