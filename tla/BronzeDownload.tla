---------------------------- MODULE BronzeDownload -----------------------------
(***************************************************************************)
(* The download of one Bronze run, ingest_pageviews of                     *)
(* pipelines/batch/bronze.py up to the point where _publish takes over:    *)
(* every hour's object is fetched with retries, streamed to the private    *)
(* staging directory and validated, by the caller itself or by a pool of   *)
(* threads; then the manifest is built and the staging directory goes away *)
(* once _publish is through.                                               *)
(*                                                                         *)
(* A download is abstracted to the length it declares, the length it       *)
(* delivers and whether its bytes are good Pageviews records, bad ones, or *)
(* a gzip stream corrupted on the way.                                     *)
(***************************************************************************)
EXTENDS Integers, FiniteSets

CONSTANTS HourCount,    \* source objects of the profile
          MaxWorkers,   \* bound on download_workers
          MaxAttempts,  \* HTTP_MAX_ATTEMPTS
          Bodies,       \* responses: [declared, delivered, quality]
          RetryAfters   \* Retry-After headers: [number, seconds]

ASSUME HourCountAssumption == HourCount \in Nat \ {0}

ASSUME PoolAssumption == MaxWorkers \in Nat \ {0} /\ MaxAttempts \in Nat \ {0}

ASSUME BodiesAssumption ==
    Bodies \subseteq [declared : Nat, delivered : Nat, quality : {"records", "malformed", "corrupt"}]

(* Doubled for every retry allowed, a delay stays within the longest       *)
(* Retry-After obeyed: HTTP_MAX_ATTEMPTS = 4 makes it 1, 2 and 4 seconds.  *)
ASSUME DoublingAssumption == \A made \in 0 .. MaxAttempts - 2 : 2 ^ made \in 0 .. 30

(* A header is a number of seconds, or it is absent, a date, "nan", ...    *)
ASSUME RetryAftersAssumption == RetryAfters \subseteq [number : BOOLEAN, seconds : Int]

Hours == 1 .. HourCount

NoBody == [declared |-> 0, delivered |-> 0, quality |-> "none"]

VARIABLES workers,  \* download_workers
          main,     \* the caller: gathering results, draining the pool, ...
          next,     \* the hour whose result the caller waits for
          task,     \* task[h]: where the download of hour h is
          attempt,  \* attempt[h]: requests made for hour h
          waited,   \* waited[h]: seconds _http_downloader has slept for hour h
          body,     \* body[h]: the response being read
          staged,   \* staged[h]: bytes of hour h in the staging directory
          error,    \* error[h]: the exception of hour h, or "none"
          raised,   \* the exception the caller ends with, or "none"
          manifest, \* the hours the built manifest lists, in its order
          staging   \* the staging directory exists

callerVars == <<main, next, raised, manifest, staging>>
taskVars == <<task, attempt, waited, body, staged, error>>
vars == <<workers, callerVars, taskVars>>

Init == /\ workers \in 1 .. MaxWorkers
        /\ main = "gather"
        /\ next = 1
        /\ task = [h \in Hours |-> "queued"]
        /\ attempt = [h \in Hours |-> 0]
        /\ waited = [h \in Hours |-> 0]
        /\ body = [h \in Hours |-> NoBody]
        /\ staged = [h \in Hours |-> 0]
        /\ error = [h \in Hours |-> "none"]
        /\ raised = "none"
        /\ manifest = << >>
        /\ staging = TRUE

-----------------------------------------------------------------------------
Ended(h) == task[h] \in {"staged", "failed"}

Busy == {h \in Hours : task[h] # "queued" /\ ~Ended(h)}

Advance(h, label) == task' = [task EXCEPT ![h] = label]

Fail(h, code) == /\ Advance(h, "failed")
                 /\ error' = [error EXCEPT ![h] = code]

(* Mutant: one thread too many.                                            *)
TakeOneMore(h) ==
    /\ task[h] = "queued"
    /\ \A g \in 1 .. h - 1 : task[g] # "queued"
    /\ Cardinality(Busy) <= workers
    /\ workers = 1 => main = "gather" /\ next = h
    /\ Advance(h, "request")
    /\ UNCHANGED <<workers, callerVars, attempt, waited, body, staged, error>>

(* A pool thread takes the first hour of the queue; all hours have been    *)
(* submitted.  Without a pool the caller works on the hour it waits for.   *)
Take(h) ==
    /\ task[h] = "queued"
    /\ \A g \in 1 .. h - 1 : task[g] # "queued"
    /\ Cardinality(Busy) < workers
    /\ workers = 1 => main = "gather" /\ next = h
    /\ Advance(h, "request")
    /\ UNCHANGED <<workers, callerVars, attempt, waited, body, staged, error>>

(* _http_downloader: urlopen answers with a response of status 200 and all *)
(* headers, whose declared length is positive.                             *)
Respond(h, response) ==
    /\ task[h] = "request"
    /\ response.declared > 0
    /\ attempt' = [attempt EXCEPT ![h] = @ + 1]
    /\ waited' = [waited EXCEPT ![h] = 0]
    /\ body' = [body EXCEPT ![h] = response]
    /\ Advance(h, "read")
    /\ UNCHANGED <<workers, callerVars, staged, error>>

(* Mutant: the server's delay is obeyed however long.                      *)
RetryDelayUncapped(header, made) ==
    IF header.number /\ header.seconds >= 0 THEN header.seconds ELSE 2 ^ made

(* _retry_delay: Retry-After is obeyed from 0 to 30 seconds; otherwise the *)
(* delay doubles with every request made so far.                           *)
RetryDelay(header, made) ==
    IF header.number /\ header.seconds \in 0 .. 30 THEN header.seconds ELSE 2 ^ made

(* Mutant: one retry too many.                                             *)
RetryOnceMore(h, header) ==
    /\ task[h] = "request"
    /\ attempt[h] < MaxAttempts
    /\ attempt' = [attempt EXCEPT ![h] = @ + 1]
    /\ waited' = [waited EXCEPT ![h] = @ + RetryDelay(header, attempt[h])]
    /\ Advance(h, "backoff")
    /\ UNCHANGED <<workers, callerVars, body, staged, error>>

(* A retryable HTTP status: back off and ask again.                        *)
Retry(h, header) ==
    /\ task[h] = "request"
    /\ attempt[h] + 1 < MaxAttempts
    /\ attempt' = [attempt EXCEPT ![h] = @ + 1]
    /\ waited' = [waited EXCEPT ![h] = @ + RetryDelay(header, attempt[h])]
    /\ Advance(h, "backoff")
    /\ UNCHANGED <<workers, callerVars, body, staged, error>>

WakeUp(h) ==
    /\ task[h] = "backoff"
    /\ Advance(h, "request")
    /\ UNCHANGED <<workers, callerVars, attempt, waited, body, staged, error>>

(* The last retryable status, any other status, an OSError, or a response  *)
(* without the required headers ends the hour.                             *)
Unavailable(h) ==
    /\ task[h] = "request"
    /\ attempt' = [attempt EXCEPT ![h] = @ + 1]
    /\ waited' = [waited EXCEPT ![h] = 0]
    /\ Fail(h, "source_unavailable")
    /\ UNCHANGED <<workers, callerVars, body, staged>>

(* _stage_response_body streams what the server delivers.                  *)
ReadChunk(h) ==
    /\ task[h] = "read"
    /\ staged[h] < body[h].delivered
    /\ staged' = [staged EXCEPT ![h] = @ + 1]
    /\ UNCHANGED <<workers, callerVars, task, attempt, waited, body, error>>

(* Mutant: the declared length is not compared.                            *)
EndOfBodyAnyLength(h) ==
    /\ task[h] = "read"
    /\ staged[h] = body[h].delivered
    /\ Advance(h, "validate")
    /\ UNCHANGED <<workers, callerVars, attempt, waited, body, staged, error>>

(* The body has ended: its length must be the declared one.                *)
EndOfBody(h) ==
    /\ task[h] = "read"
    /\ staged[h] = body[h].delivered
    /\ body[h].delivered = body[h].declared
    /\ Advance(h, "validate")
    /\ UNCHANGED <<workers, callerVars, attempt, waited, body, staged, error>>

LengthConflict(h) ==
    /\ task[h] = "read"
    /\ staged[h] = body[h].delivered
    /\ body[h].delivered # body[h].declared
    /\ Fail(h, "conflicting_source_metadata")
    /\ UNCHANGED <<workers, callerVars, attempt, waited, body, staged>>

(* The connection breaks, or the staging file cannot be written.           *)
ReadError(h) ==
    /\ task[h] = "read"
    /\ Fail(h, "source_read_failure")
    /\ UNCHANGED <<workers, callerVars, attempt, waited, body, staged>>

(* _validate_pageviews_gzip.  The deflate decoder reports a corrupt stream *)
(* as zlib.error, which is neither an OSError nor an EOFError.             *)
ValidationCode == [records |-> "none",
                   malformed |-> "malformed_source_content",
                   corrupt |-> "zlib_error"]

AcceptContent(h) ==
    /\ task[h] = "validate"
    /\ ValidationCode[body[h].quality] = "none"
    /\ Advance(h, "staged")
    /\ UNCHANGED <<workers, callerVars, attempt, waited, body, staged, error>>

RejectContent(h) ==
    /\ task[h] = "validate"
    /\ ValidationCode[body[h].quality] # "none"
    /\ Fail(h, ValidationCode[body[h].quality])
    /\ UNCHANGED <<workers, callerVars, attempt, waited, body, staged>>

-----------------------------------------------------------------------------
(* The caller collects future.result() in the order of the hours.          *)
Gather ==
    /\ main = "gather"
    /\ next <= HourCount
    /\ task[next] = "staged"
    /\ next' = next + 1
    /\ UNCHANGED <<workers, main, raised, manifest, staging, taskVars>>

(* Mutant: results are taken as they complete.                             *)
ReraiseAny ==
    /\ main = "gather"
    /\ \E h \in Hours : task[h] = "failed" /\ raised' = error[h]
    /\ main' = "drain"
    /\ UNCHANGED <<workers, next, manifest, staging, taskVars>>

(* The first failed hour in that order ends the comprehension.             *)
Reraise ==
    /\ main = "gather"
    /\ next <= HourCount
    /\ task[next] = "failed"
    /\ raised' = error[next]
    /\ main' = "drain"
    /\ UNCHANGED <<workers, next, manifest, staging, taskVars>>

AllGathered ==
    /\ main = "gather"
    /\ next > HourCount
    /\ main' = "drain"
    /\ UNCHANGED <<workers, next, raised, manifest, staging, taskVars>>

(* Mutant: shutdown(wait=False).                                           *)
DrainedAtOnce == TRUE

(* Mutant: the pool is waited for until every hour has succeeded.          *)
DrainedOfSuccess == workers > 1 => \A h \in Hours : task[h] = "staged"

(* The exit of the executor waits for every submitted hour, queued ones    *)
(* included; there is nothing to wait for without a pool.                  *)
Drained == workers > 1 => \A h \in Hours : Ended(h)

Build ==
    /\ main = "drain"
    /\ Drained
    /\ raised = "none"
    /\ manifest' = [i \in Hours |-> body[i]]
    /\ main' = "publish"
    /\ UNCHANGED <<workers, next, raised, staging, taskVars>>

Unwind ==
    /\ main = "drain"
    /\ Drained
    /\ raised # "none"
    /\ main' = "publish"
    /\ UNCHANGED <<workers, next, raised, manifest, staging, taskVars>>

(* The publication has ended or never began: the staging directory goes.   *)
Unstage ==
    /\ main = "publish"
    /\ staging' = FALSE
    /\ main' = "done"
    /\ UNCHANGED <<workers, next, raised, manifest, taskVars>>

Caller == Gather \/ Reraise \/ AllGathered \/ Build \/ Unwind \/ Unstage

Thread(h) == \/ Take(h)
             \/ \E response \in Bodies : Respond(h, response)
             \/ \E header \in RetryAfters : Retry(h, header)
             \/ WakeUp(h) \/ Unavailable(h)
             \/ ReadChunk(h) \/ EndOfBody(h) \/ LengthConflict(h) \/ ReadError(h)
             \/ AcceptContent(h) \/ RejectContent(h)

Rest == main = "done" /\ Busy = {} /\ UNCHANGED vars

Next == Caller \/ (\E h \in Hours : Thread(h)) \/ Rest

(* Threads run; urlopen and read have time limits, so every request and    *)
(* every read comes to an end.                                             *)
Spec == Init /\ [][Next]_vars /\ WF_vars(Caller) /\ \A h \in Hours : WF_vars(Thread(h))

-----------------------------------------------------------------------------
Codes == {"source_unavailable", "source_read_failure", "conflicting_source_metadata",
          "malformed_source_content", "zlib_error"}

TypeOK == /\ workers \in 1 .. MaxWorkers
          /\ main \in {"gather", "drain", "publish", "done"}
          /\ next \in 1 .. HourCount + 1
          /\ task \in [Hours -> {"queued", "request", "backoff", "read", "validate",
                                 "staged", "failed"}]
          /\ attempt \in [Hours -> 0 .. MaxAttempts]
          /\ waited \in [Hours -> Int]
          /\ body \in [Hours -> Bodies \cup {NoBody}]
          /\ staged \in [Hours -> Nat]
          /\ error \in [Hours -> Codes \cup {"none"}]
          /\ raised \in Codes \cup {"none"}
          /\ manifest = << >> \/ manifest = [i \in Hours |-> body[i]]
          /\ staging \in BOOLEAN

(* What is handed to publication is complete: every hour of the profile,   *)
(* with all the bytes its response declared, and those are good records.   *)
ManifestIsWhole ==
    manifest # << >> =>
        /\ raised = "none"
        /\ \A h \in Hours :
              /\ manifest[h] = body[h]
              /\ body[h].quality = "records"
              /\ staged[h] = body[h].declared

(* Whatever the order in which the pool's threads end, the caller reports  *)
(* the failure of the earliest failed hour: retrying a run whose sources   *)
(* fail the same way reports the same code.                                *)
EarliestFailureIsRaised ==
    main \in {"publish", "done"} /\ raised # "none" =>
        \E h \in Hours : /\ raised = error[h]
                         /\ \A g \in 1 .. h - 1 : task[g] = "staged"

(* No thread is still at work in a staging directory that is gone.         *)
StagingOutlivesThreads == ~staging => Busy = {}

(* The burst on the source is bounded: at most download_workers hours are  *)
(* in flight, no hour is asked for more than MaxAttempts times, and        *)
(* without a pool nothing is fetched beyond the first hour that fails.     *)
BurstIsBounded ==
    /\ Cardinality(Busy) <= workers
    /\ \A h \in Hours : attempt[h] <= MaxAttempts
    /\ workers = 1 => \A g, h \in Hours :
           g < h /\ task[g] = "failed" => task[h] = "queued"

(* Whatever the server says, an hour's retries together sleep no longer    *)
(* than 30 seconds for each request made, and never a negative time, which *)
(* time.sleep refuses.                                                     *)
BackoffIsBounded == \A h \in Hours : waited[h] \in 0 .. 30 * attempt[h]

(* Every run ends, with every hour it started.                             *)
RunEnds == <>(main = "done" /\ Busy = {})

-----------------------------------------------------------------------------
(* A source object that does not decode is diagnosed with a code of its    *)
(* own, as the tests of the failure diagnostics ask.                       *)
FailuresHaveCodes == main = "done" => raised # "zlib_error"
=============================================================================
