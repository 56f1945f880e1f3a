# LakeOps: a TLA+ model of the batch publishers, their readers and their contract

This directory holds TLA+ specifications of the Python code under `pipelines/batch`, `agent` and `data`,
TLC configurations that model-check them on small instances, and proofs checked by TLAPS.
`PROJECT.json` lists every run, mutant, mapped definition, hazard and theorem.

## 1. Inventory of the system

The repository is a local analytics lake. A batch pipeline turns hourly Wikimedia Pageviews files
into Bronze, Silver and Gold datasets, each published under an immutable *run identity*
(partition date, run id), and an agent-facing executor answers SQL over the published data. All
shared state of the batch part is a directory tree; processes coordinate only through
`mkdir`, `os.link` and `exists`.

| Component | Code | State it keeps | Operations | Modelled by |
|---|---|---|---|---|
| Publication contract | `data/catalog/catalog.json:94-98` | claim, objects, manifest of each run identity | claim, store, discard, accept, release | `Publication` |
| Bronze download | `bronze.py:91-304, 424-470` | private staging directory, thread pool, attempts | request, retry, stream, validate, gather, build manifest | `BronzeDownload` |
| Bronze publication | `bronze.py:307-421` | `.runs/run_id=`, `hour=*/run_id=`, manifest | `_publish`, `_remove_owned_directory` | `BronzePublish` |
| Silver | `silver.py` | the same three, and `quarantine/` | validate, transform, `_publish_accepted`, `_publish_rejection`, `_cleanup_owned` | `SilverPublish` |
| Gold, freshness | `gold.py` | `.claims/run_id=`, `run_id=`, manifest | `_publish_gold`, `_publish_freshness` | `GoldPublish` |
| Batch coordinator | `local.py` | the authoritative batch manifest | `_obtain_stage`, validation, `_durability_barrier`, `_publish_pipeline_manifest` | `BatchPipeline` |
| SQL executor | `agent/query_safety.py` | semaphore, `_active`, a worker process and a pipe per call | `execute`, `_execute_worker`, `_query_worker` | `SqlExecutor` |
| Query adapter | `agent/query_adapter.py` | none of its own | `execute`: reads a manifest, checks its object, binds, runs | `GoldQuery` |
| Query session | `gold.py:81-118, 215-260` (`GovernedQuerySession`) | a private in-memory connection with a view | `open_governed_query`, `query`, `close` | `GoldQuery` |
| Catalog validator | `data/catalog/validator.py` | what it has checked so far | `validate_catalog` | `Catalog`, partly |
| Fixtures | `data/samples/wikimedia_fixtures.py` | none | `project_recentchange_event`; fixture manifests | `Catalog`, partly |
| API, web, evaluations, streaming | a README each | - | announced, no code | no |
| Terraform | `infra/terraform` | - | declarative | no |

How they interact. `run_batch_pipeline` calls Bronze, Silver and Gold in this order, each of which
may instead be found already published by an interrupted run; Silver reads Bronze's manifest and
objects, Gold reads Silver's. Bronze and Silver write manifests to *one* directory,
`manifests/pageviews_hourly`. Two processes, or a process and its rerun, may use one identity at the
same time. The query adapter and the query session read Gold's manifests and objects, the adapter once
more in a worker process of the executor, without taking any claim. All stages derive their datasets
from one catalog, which `_load_contract` validates; the projection of live events reads the same
file without validating it. `SqlExecutor.execute` is called from the threads of one service and starts one process
per call.

What is hard about it:

* **Interleaving.** Publishers of one identity race for the claim, while others link, clean up or
  reject. Existence checks are separate calls from the links they guard.
* **Partial failure.** Every `mkdir` and `link` can fail, and so can the cleanup after it. Some errors
  are converted and cleaned up after (`BronzeIngestionError`), others pass through handlers that
  do not catch them, and removing a temporary directory can fail after the manifest is visible.
* **Crash and recovery.** A process can be killed between two calls. A rerun meets what it left.
  Power may be lost before or after the one place that calls `fsync`.
* **Time and resources.** A worker may answer after the deadline, answer in part, hang or die; permits,
  the active count and the process must all come back whichever way a call ends. Downloads are
  retried and pooled, and several of them may fail in any order.
* **Stale reads.** A reader checks a manifest, then an object's digest, then its schema, and opens the
  object by its path in a worker later; publishers of the run may be at work all the time.
* **Data.** A catalog is refused or accepted by a walk over sets in no order; a join declares a
  cardinality that keys must bear out; private names are listed twice.

What makes each component correct:

* Publishers: a visible manifest names objects that are all there, with the bytes of the publisher
  that wrote the manifest; it is never withdrawn or replaced; a failure that was handled leaves
  nothing; somebody is published when nobody fails.
* Silver: in addition, a raised validation error has its evidence in quarantine.
* Coordinator: the batch manifest refers to three joined, complete stages; only one coordinator wins;
  recovery rewrites nothing.
* Executor: capacity bounds processes, nothing leaks, rows are whole and in time, every call ends.
* Download: only whole hours reach the manifest, the reported failure does not depend on the race,
  the burst on the source and the backoff are bounded and the staging directory outlives the threads.
* Readers: an answer cites the evidence its rows come from; what was accepted before can be read.
* Catalog: a view is accepted exactly when its joins connect its inputs, an accepted join multiplies
  no rows, and no private field is stored.

## 2. Modules

`Publication` is the abstract specification. A publisher *claims* an identity, *stores* objects,
has its manifest *accepted* when all are its own, or *discards* and *releases*. `BronzePublish`,
`SilverPublish` and `GoldPublish` are shown to implement it (property `ImplementsContract`), and `BatchPipeline` uses
its actions, through `Stages == INSTANCE Publication`, for the three stages it coordinates. So the
detailed publishers are checked once, and the coordinator is checked against their contract.

A file or directory is represented by *the process that made it*: manifests hold timestamps and
checksums, so two publishers' files differ, and "whose" is all the properties have to tell. Objects may
hold the same bytes all the same (a freshness run's counts are the fixture's; Gold's `computed_at` has
the resolution of a second), so wherever the code compares a checksum only, an object of another
publisher may pass: `DigestMatches` in `GoldQuery`, `Plausible` in `BatchPipeline`.

| Module | A process | Program counter and actions | Files |
|---|---|---|---|
| `BronzePublish` | one `ingest_pageviews` | one action for each call another process can observe: `Claim`, `EnsureParent`, `MakeFolder`, `LinkObject` (once per hour), `CheckManifest`, `LinkManifest`, `Unstage`; `RemoveObject`, `RemoveFolder`, `RemoveClaim` for the handler | `claim`, `folder`, `object`, `manifest` |
| `SilverPublish` | one `normalize_pageviews` | as above, `Validate` and `Transform` before it, `Settle` for the exit of the manifest's temporary directory, `OpenRejection` ... `SealRejection` for `_publish_rejection`, and `UnlinkRejection`, `RemoveRejection`, `RaiseDropped` for its handler | the same, `quarantine`, `rejection` |
| `GoldPublish` | one `materialize_project_traffic_daily` or `materialize_fixture_ingestion_freshness` | traffic: `LookForFolder` and `LookForManifest` before `Claim`; freshness: `CheckManifest` after it; then one object, `LinkManifest`, `Settle`; `RemoveObject`, `RemoveFolder`, `RemoveClaim` in handlers that do not guard their own calls | `claim`, `folder`, `object`, `manifest` |
| `GoldQuery` | beside those of `GoldPublish`, one `GovernedSqlAdapter.execute` or one session | one action for each opening of a file by its path: `Exists`, `ReadManifest`, `CheckObject`, `DigestMatches`, `ReadParquet`, `Bind`, `Run`; `Register`, `FieldQuery`, `Close`; and one for each way to fail there | reads `manifest`, `object` |
| `BatchPipeline` | one `run_batch_pipeline` | `Reuse`, `RunStage`, the steps of a stage, `Recheck` after a conflict, `Validate`, `Barrier`, `CheckFinal`, `LinkFinal`, `Sync`; `RetractObjects`, `RetractClaim` for a stage's handler after its link, `UnlinkFinal`, `RaiseUndone` for that of the publication | `claim`, `stored`, `accepted`, `source` per stage, `final`; history: `retracted`, `unlinked` |
| `SqlExecutor` | one `execute`, with one worker | `Acquire`/`Refuse` ... `Release` for the caller, `StartReply`, `FinishReply`, `ReplyError`, `Exit` for the worker | semaphore `slots`, `active`, `worker`, `pipe` |
| `BronzeDownload` | the caller and one task per hour | `Take`, `Respond`, `Retry`, `ReadChunk`, `EndOfBody`, `AcceptContent` ... for a task, `Gather`, `Reraise`, `Build`, `Unwind`, `Unstage` for the caller | `staged`, `staging` |
| `Catalog` | one `validate_catalog`, and events that are projected | `CheckPrivacy`, `CheckDatasets`, `CheckStream`, `CheckJoin` (once per join), `OpenSingle`/`OpenGraph`, `Visit` (once per input), `CheckFields`, `Accept`, each with its refusal; `Project` | the `catalog`, read only |

In each publisher `Step(p)` is what the code does next and `Fault(p)` what may go wrong there:
an `OSError` of that call, with the handler that really catches it, or a kill. The faults name the
handler: in Bronze, `CallError` (converted and cleaned up after), `UnhandledError` (not a
`BronzeIngestionError`, so nothing is cleaned), `CleanupError` (the cleanup fails half way) and
`UnstageError` (the private directory cannot be removed) are four different actions because the
code treats them in four ways. Gold has a fifth, `DigestError`: `_sha256` (`gold.py:804-812`) turns an
`OSError` into a `GoldMaterializationError` that neither handler catches. `_publish_gold` calls it
before its claim, `_publish_freshness` at line 617, with claim, directory and object in place.

A cleanup is as many steps as it makes calls, since a process may be killed or fail between any two
of them. Silver's handler of a failed rejection unlinks `rejection.json`, removes the directory, and
only then raises `quarantine_publication_failure`; a stage that fails after its link removes its
objects, then its claim; the coordinator's handler unlinks the batch manifest, then raises.

What is abstracted: contents, checksums and schemas (a source object is good, malformed or corrupt;
a Silver input is valid or `Defective`; a query is legal or not and has an answer), path names,
messages, and durations (a timeout is an event that may happen; a backoff is a step that counts its
seconds). A catalog is what its document says of identifiers, fields, keys, sources and joins; an event
is its top-level fields with their kinds and the names nested below them.
`BatchPipeline` treats the objects of a stage as one, present when all are. Gold has
one, Bronze and Silver have several, whose partial states are what their own modules are about.

## 3. Runs

All passing runs but `catalog` check deadlock; `Rest` is the explicit stutter of a system in which all
processes have stopped. A validation is a call that returns, so `catalog` may stop.

| Run | Instance | What it shows |
|---|---|---|
| `bronze_publish` | three publishers, one run, two hours | Any interleaving of three publishers, each failing or killed at any call, with a foreign run directory in the way and a Silver manifest that may take the name at any moment. |
| `silver_publish` | two publishers, one run, two hours, a valid and a defective input | The same for Silver, with rejections, equal or of another input, and a Bronze manifest that may take the name at any moment. |
| `gold_query` | two publishers of one traffic or freshness run, one adapter call, one session | What a publisher saw before its claim may be stale and a handler may fail or be passed by: every other failure still cleans up and the contract is implemented. Readers that begin at any moment and open the object again later get the rows they cite. |
| `batch_pipeline` | two coordinators, one identity, every prefix an interrupted run may leave, one power loss | Recovery, competition, damaged evidence, failing stages. |
| `sql_executor` | three calls, two permits | One call makes any of five requests (legal, forbidden, self-join over the scan limit, unbound view, row limit), one a good one, one takes a permit only to be rejected. |
| `bronze_download` | three hours, one or two threads, three attempts, five kinds of response, `Retry-After` within, at and beyond its limit | Serial and pooled downloads with retries, broken reads, wrong lengths, bad contents. |
| `catalog` | every view over four datasets and six joins; every join of one or two pairs of columns; some hundred catalogs with faults; events of every kind | The walk in every order, the cardinality rule on every small shape, private fields in either list. |

Why these bounds are enough. Publishers interact only through one identity's files; a run of another
identity touches none of them, so one run identity is the whole contention (the proofs cover any
number of runs). Three Bronze publishers allow a holder, a loser and one who comes after the
cleanup; with two hours there is a first and a last object, the loop runs more than once and
cleanup has an order. Two Silver publishers give every pair of phases; the third adds only a
second loser, which touches nothing but quarantine. Two Gold publishers give a manifest that is
withdrawn and made again under a reader's eyes; the proofs cover any number of publishers and
readers. The code makes four attempts per hour (`HTTP_MAX_ATTEMPTS`); three have a first, a repeated
and a last one. Four datasets give views that are paths, cycles and two separate pairs, two pairs of
columns give joins that cover a composite key in part and whole. Two coordinators and the
interrupted run before them are three generations of writers of one stage. In the executor, three
calls on two permits reach the refusal and the reuse of a permit. In the download, three hours on
two threads give a queue that is longer than the pool, and two failures in the wrong order.

Properties, in the words of the code:

* `EvidenceIsClaimed`, `FailureLeavesNothing`, `NoClobber`, `UndisturbedRunIsPublished`,
  `ImplementsContract` (Bronze).
  `EvidenceIsClaimed` is the one that explains the protocol: the claim is taken before and removed
  after everything it guards, so leftovers of a crash are never mixed with a rerun's objects.
  The price is that a crashed identity stays claimed for ever (the code has no
  recovery for it; a new run id is needed). Completeness and finality of accepted manifests are
  consequences of the contract (`PublicationProofs`).
* Silver: `FailureLeavesNothing`, `UndisturbedRunIsPublished`, `ImplementsContract` and `RaisedIsRecorded`: who
  raises a validation or publication error finds a record of this input in quarantine, its own or the
  one it compared with its own. Such a record can be taken back later by the publisher that linked it,
  if its temporary directory cannot be removed. The property then asks that this maker is in that
  handler, was killed in it, or has ended with `quarantine_publication_failure` or
  `publication_cleanup_failure`: no record vanishes in any other way. So the code does not keep a
  record for ever once somebody relied on it, although `pipelines/batch/README.md` and
  `docs/ARCHITECTURE.md` call rejection evidence immutable; the property says how far it does.
  Its mapping to the contract excludes the one case of finding *silver_dangling*: a manifest counts as
  accepted once its publisher has got past the exit of the temporary directory.
* Gold: `FailureLeavesNothing`, `UndisturbedRunIsPublished`, `ImplementsContract`, with the same exclusion as
  Silver. `FailureLeavesNothing` is about every failure that has a code but one, which `Clean` names: a
  freshness run that cannot read its staged object again (`DigestError`) raises `input_read_failure`
  past both handlers and leaves claim, directory and object, and a rerun of that identity meets
  `publication_conflict`. Nothing is accepted over them, which is what `ImplementsContract` shows.
  Its readers: `AnswerIsCited` (the rows of an answer are those of the evidence it cites, although
  the object is opened again after its digest was compared; the exception is a publication whose
  publisher fails after its manifest was visible) and `AcceptedIsAnswered` (a reader that begins when
  the manifest is settled meets no missing or different file).
* `AcceptedIsWhole`, `FailedRunPublishesNothing`, `WinnerStays`, `RecoveryRewritesNothing`,
  `UndisturbedRunIsAccepted` (coordinator). Two exceptions are histories of what really happened, not of
  what a process is about to do: `WinnerStays` excepts a coordinator whose manifest a handler has unlinked
  (`unlinked`), which is the case of finding *batch_unlink*; `AcceptedIsWhole` and
  `RecoveryRewritesNothing` except the objects of a stage whose own publisher has begun to take them
  back (`retracted`), be it killed half way or not.
* `CapacityIsKept`, `NothingLeaks`, `RowsAreWhole`, `NoLateRows`, `EveryCallEnds` (executor).
* `ManifestIsWhole`, `EarliestFailureIsRaised`, `StagingOutlivesThreads`, `BurstIsBounded`,
  `BackoffIsBounded`, `RunEnds` (download).
* `WalkDecidesConnectivity`, `JoinsKeepRows`, `PrivateFieldsStayOut` (catalog). The second is about rows,
  not about the declared key: `Rows`, `Meet` and `SameKey` say what a join does to every pair of
  tables with these keys. The third spans two programs: the projection checks the list of names in
  its own code, and only validation makes sure that the catalog's list adds nothing it would let in.

Each property of a passing run has a mutant in the modules, a changed form of one action commented
`Mutant:` (`mkdir(exist_ok=True)`, `os.replace` for `os.link`, a cleanup in the wrong order, a permit
released twice, `shutdown(wait=False)` ...), under which the same run finds that property violated.

### Disagreements found

Five runs expect a violation. Each checks one sentence of the documentation or of a test.

| Run | What happens |
|---|---|
| `batch_unlink` | `local.py:573-576` unlinks the batch manifest after any `OSError`, also when another coordinator linked it. The winner returned a path that is gone. |
| `silver_dangling` | `silver.py:567-577`: an `OSError` from removing the manifest's temporary directory, after the link, removes the objects and leaves the manifest visible. Gold has the same shape. |
| `silver_masked` | `silver.py:595-606`: the rejection directory is made before `rejection.json`; a second rejection of the same input in between, or after a crash in between, reports `publication_conflict`. |
| `bronze_durability` | Bronze accepts a manifest without any `fsync`; after a power loss the objects may be missing. Only the coordinator's barrier syncs them, later. |
| `download_diagnosis` | A corrupt deflate stream raises `zlib.error`, which no handler of `bronze.py:249-270` converts: the failure has no code. |

## 4. Fairness

`WF(Step(p))` for publishers and coordinators: the operating system runs a process that is ready, and
each call returns or fails. Faults are never required, so no liveness property needs one to happen,
and none is excluded. `UndisturbedRunIsPublished` and `UndisturbedRunIsAccepted` assume as their
premise that nobody is killed and no call fails.

Executor: the caller's thread runs (`WF(Step)`), time passes (`WF(Expire)`), and a worker that has begun
to send goes on (`WF(FinishReply)`): `recv_bytes` at `query_safety.py:180` has no deadline, so a
worker that stopped for ever *in the middle of sending* would hold its caller. Nothing is assumed
of a query that has not answered; it may run for ever, and is then killed.

Download: threads run, and every request and read ends, because `urlopen` is given a time limit.

Readers of Gold and the catalog validation are obliged to nothing: `GoldQuery` has the fairness of its
publishers only, `Catalog` has none, and no liveness is stated of them.

## 5. Proofs

`PublicationProofs`: in the contract, for any publishers, runs and objects, an accepted run has all
its objects and acceptance is final. The inductive invariant adds that the accepted publisher
still holds the claim.

`BronzePublishProofs`: for any set of publishers and runs and any positive number of hours
(`PublishersAssumption`, `HourCountAssumption`), `Spec` implies `[]TypeOK`, `[]AcceptedIsComplete`,
`[]EvidenceIsClaimed`, `[]FailureLeavesNothing`, `[]ReturnedIsVisible`, `NoClobber`
and `ImplementsContract`. No fairness is used. None of the invariants is inductive alone: that an
accepted manifest is complete needs that nobody else could have touched the objects, which needs that
everybody who touches objects holds the claim, which needs to know where in its program a claim's
owner is. `IInv` says so in parts:

* `ClaimInv`: a publisher between claim and release has its run's claim, and a claim belongs to a
  publisher of that run that has passed `claim`;
* `OwnedInv`: while it holds it, the directories it made are exactly the hours `1..made`;
* `CountInv`: how many there are at each label;
* `ObjectInv`: each but the one being linked holds its object;
* `ManifestInv`: a visible manifest's publisher is past publication, has the claim and all objects,
  and cannot be one that cleaned up;
* `OutcomeInv`: a publisher that reports a clean error has released its claim.

Each action preserves `IInv` (`StepKeeps`, `FaultKeeps`, `ForeignManifestKeeps`, `IdleKeeps`); the
properties and the step-by-step refinement (`StepRefines`, with the holder at work by
`HolderIsWorking`) follow from it. `RemoveClaim` maps to the contract's `Release` only because
`OwnedInv` with `made = 0` says that no object is left.

`SilverPublishProofs`: for any publishers, runs, inputs and hours (`PublishersAssumption`,
`HourCountAssumption`), `[]TypeOK`, `[]FailureLeavesNothing`, `[]RaisedIsRecorded` and
`ImplementsContract`. `PublicationInv` has the parts of Bronze's invariant, with Gold's twist (below) in
`ManifestInv`. `QuarantineInv` is new: a quarantine directory belongs to the one publisher that made it, and
its `rejection.json` records that publisher's input. That the exclusive `mkdir` keeps this true while others
reject, compare and drop is what makes `RaisedIsRecorded` inductive, which it is not alone. The rest of the
argument is that a record cannot vanish silently: only its maker unlinks it, in a handler that has no way
out but another error or a kill (`WithdrewStays`: once a maker has begun, this stays visible in its
state). The two paths share no file, so `StepKeepsPublication` and `QuarantineKeeps` are proved apart.

`GoldProofs`, first part: for any publishers and runs, traffic and freshness alike (`PublishersAssumption`,
`FreshnessAssumption`), `[]TypeOK`, `[]FailureLeavesNothing` and `ImplementsContract`. The invariant
has the same parts as Bronze's, with two more twists. `ErrorInv` speaks of the failures in `Clean`: the
freshness run that walks past its handlers keeps what it made, guarded by its claim. And a Gold manifest
can outlive its objects when its publisher fails after the link, so `ManifestInv` ties a manifest to
claim and object only while the publisher has met no error, and the mapping counts a run as accepted
only from `settle` on.

Its second part adds any number of adapter calls and sessions: `[]QueryTypeOK`, `[]AnswerIsCited`,
`[]AcceptedIsAnswered`. Readers change no file, so the publishers' invariant holds on; what is new is
that a reader's knowledge stays true. `PublishersKeepWord` says why: a manifest is final, a settled
publisher stays settled, an error once met stays. From it, `CitedInv` (what a reader has read is still
there) and `SettledInv` follow for steps of publishers, and `SettledIsThere` makes every failing
answer impossible for a reader that began in time.

`BatchPipelineProofs`: for any number of coordinators (`CoordinatorsAssumption`), with faults and a power
loss, `[]TypeOK`, `[]AcceptedIsWhole`, `[]FailedRunPublishesNothing`, `[]WinnerStays` and
`RecoveryRewritesNothing`. The three stages and what an interrupted run left of them are those of the code, not
parameters. `EvidenceInv` is the heart: accepted evidence is guarded by its publisher's claim until a
power loss takes the claim, and then nobody is left who set out to write it, because all the
processes went with the power. `FinalInv` carries what a coordinator found whole across the barrier to the link of the batch
manifest. `WinnerInv` needs no word about who fails: a linked manifest goes only by a handler, which records
it in `unlinked`, or with the power.

`SqlExecutorProofs`: for any set of calls, any capacity and any requests (`LimitsAssumption`;
`RequestsAssumption`: a worker answers with rows or one of its codes), `[]TypeOK`, `[]CapacityIsKept`,
`[]NothingLeaks`, `[]RowsAreWhole`, `[]NoLateRows`. The argument is a count: `PermitInv` says that the calls
between `Acquire` and `Release` are as many as the permits taken, `ActiveInv` the same of `_active` and
the calls between `CountIn` and `CountOut`. Both sets are finite because they grow one call at a
time, so the set of calls itself may be infinite. `WorkerInv` says that a process exists only where the
`finally` clause still reaps it, hence counted calls bound processes and nothing is left at the end. For the rows, `PipeInv` adds
that a worker is sending only when its answer is rows, and that a reply complete
before the deadline arrived in time.

`BronzeDownloadProofs`: for any number of hours, threads and attempts, any responses and any headers
(`HourCountAssumption`, `PoolAssumption`, `BodiesAssumption`), `[]TypeOK`, `[]ManifestIsWhole`,
`[]EarliestFailureIsRaised`, `[]StagingOutlivesThreads`, `[]BurstIsBounded` and `[]BackoffIsBounded`. The last
has an induction of its own, and only it uses `DoublingAssumption`, that 2^n for every retry allowed stays within 30; it holds of the code's
four attempts (and up to six, but of no larger number). `QueueInv` says that
the queue is taken in order and that without a pool nothing is taken beyond the hour the caller
waits for, `GatherInv` that the caller has gathered a prefix of staged hours, ended by the failure it
raises. `StagingOutlivesThreads` has two reasons: the drained pool in `DrainInv`, and, without a pool, that
prefix and `QueueInv`.

`CatalogProofs`: for every catalog and event (`CatalogsAssumption`, `EventsAssumption`: their types only),
`[]TypeOK`, `[]WalkDecidesConnectivity`, `[]JoinsKeepRows`, `[]PrivateFieldsStayOut`. `WalkInv` carries
the walk: the neighbours of what was visited have been seen, and a group of inputs that no join
crosses holds all that has been seen or none of it. At the end all of it has been visited, so a walk
that reached every input leaves no such group (`WalkConnects`), and one that did not has found one
(`WalkDisconnects`). `JoinsInv` says that the joins behind the index are sound, and `SoundKeepsRows` that
a sound join keeps its cardinality whatever its rows hold.

Model-checked only, on the instances above: the liveness properties `UndisturbedRunIsPublished`,
`UndisturbedRunIsAccepted`, `EveryCallEnds` and `RunEnds`, whose proofs need `ENABLED` of the fair actions. Every
invariant and every action property that a passing run checks is also proved. A finding is a
counterexample on an instance, and needs no more.

## 6. Not modelled

* What DuckDB computes (the aggregation of Silver into Gold, unique counts, projections), what a valid
  record or query is: functions of data that no step interleaves with.
* Of the catalog validator, the shape of single values: versions, strings, sources, volume profiles,
  storage, KPIs, terms, the scenario, and the sorting of the metadata. They keep no state and relate
  nothing to anything else.
* Of the fixtures, building and comparing the committed manifests, and `publish_fixture_bundle`, which
  looks for a manifest and links it, without claim, objects or cleanup: the last two steps of Bronze.
* Whether a view that a query names twice should count twice towards the scan limit: `RowsAreWhole` takes
  the sum of the code (`query_safety.py:159`), and shows that it is compared before rows are returned.
* Fractions of seconds, and the wall-clock time the steps take.
* The loss of the directories above the batch manifest in a power loss is modelled (`final` may be
  lost), but no document promises otherwise, so no property is stated about it.
* Streaming, API, web, evaluations: there is no code. Terraform: declarative.

## 7. Plan

Done, in this order: `Publication` and its proofs; `BronzePublish`, its run and its proofs;
`SilverPublish`; `BatchPipeline`; `SqlExecutor`; `BronzeDownload` with the delays of its retries;
`GoldPublish` and its proofs; `GoldQuery` and its proofs; `Catalog` and its proofs; the proofs of
`SqlExecutor`, `SilverPublish`, `BatchPipeline` and `BronzeDownload`.

To do next: an abstract specification of the executor (a call is admitted within the capacity or refused,
and ends with rows or a code) with `SqlExecutor` shown to implement it; and that a process which has
not ended always has an action whose guard holds, the part of the liveness arguments that needs no
`ENABLED`.
