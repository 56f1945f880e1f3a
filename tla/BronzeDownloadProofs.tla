-------------------------- MODULE BronzeDownloadProofs -------------------------
(***************************************************************************)
(* Safety of BronzeDownload for any number of hours, threads and attempts, *)
(* any responses and any Retry-After headers.  The inductive invariant     *)
(* says how far each task is, that the queue is taken in order and that    *)
(* what the caller has gathered is a staged prefix of the hours, which     *)
(* ends at the failure it raises.                                          *)
(***************************************************************************)
EXTENDS BronzeDownload, FiniteSetTheorems, TLAPS

(* The first task still queued divides the hours: all before it are taken, *)
(* and without a pool none is taken beyond the hour the caller waits for.  *)
QueueInv ==
    /\ \A g, h \in Hours : g < h /\ task[h] # "queued" => task[g] # "queued"
    /\ workers = 1 => \A h \in Hours : h > next => task[h] = "queued"

(* What a task has made by the time it gets to each of its labels.         *)
TaskInv ==
    \A h \in Hours :
        /\ task[h] \in {"queued", "request", "backoff"} => attempt[h] < MaxAttempts
        /\ task[h] \in {"read", "validate", "staged"} => body[h] \in Bodies
        /\ task[h] \in {"validate", "staged"} => staged[h] = body[h].declared
        /\ task[h] = "staged" => body[h].quality = "records"
        /\ task[h] = "failed" => error[h] # "none"

(* The caller has gathered staged hours only, and it stops at the first    *)
(* failed one or after the last.                                           *)
GatherInv ==
    /\ \A g \in Hours : g < next => task[g] = "staged"
    /\ main = "gather" => raised = "none"
    /\ main # "gather" /\ raised = "none" => next = HourCount + 1
    /\ raised # "none" => next \in Hours /\ task[next] = "failed" /\ raised = error[next]

(* The pool is drained before anything is published or removed.            *)
DrainInv ==
    /\ main \in {"publish", "done"} => Drained
    /\ staging \/ main = "done"
    /\ manifest # << >> => main \in {"publish", "done"} /\ raised = "none"

PoolInv == Cardinality(Busy) <= workers

IInv == /\ TypeOK
        /\ QueueInv
        /\ TaskInv
        /\ GatherInv
        /\ DrainInv
        /\ PoolInv

-----------------------------------------------------------------------------
(* Initially every hour is queued.                                         *)
LEMMA Initially == Init => IInv
  <1> SUFFICES ASSUME Init
               PROVE  IInv
    OBVIOUS
  <1>1. Busy = {}
    BY DEF Init, Busy
  <1>2. PoolInv
    BY <1>1, FS_EmptySet, PoolAssumption DEF Init, PoolInv
  <1>3. TypeOK
    BY HourCountAssumption, PoolAssumption DEF Init, TypeOK, Hours
  <1>4. QueueInv /\ TaskInv /\ GatherInv /\ DrainInv
    BY HourCountAssumption, PoolAssumption
       DEF Init, QueueInv, TaskInv, GatherInv, DrainInv, Hours
  <1>. QED
    BY <1>2, <1>3, <1>4 DEF IInv

(* No manifest is built while a single task is not staged.                 *)
LEMMA UnfinishedHolds ==
    ASSUME IInv, NEW h \in Hours, task[h] # "staged"
    PROVE  manifest = << >>
  BY HourCountAssumption DEF IInv, TypeOK, GatherInv, DrainInv, Hours

(* Only the take of an hour adds to the hours in flight.                   *)
LEMMA PoolKeeps ==
    ASSUME IInv, NEW h \in Hours, Thread(h)
    PROVE  PoolInv'
  <1>1. IsFiniteSet(Busy)
    <2>1. IsFiniteSet(Hours) /\ Busy \in SUBSET Hours
      BY FS_Interval, HourCountAssumption DEF Hours, Busy
    <2>. QED
      BY <2>1, FS_Subset
  <1>2. Cardinality(Busy) \in Nat /\ workers \in Nat
    BY <1>1, FS_CardinalityType, PoolAssumption DEF IInv, TypeOK
  <1>3. CASE Take(h)
    <2>1. Busy' = Busy \cup {h} /\ h \notin Busy
      BY <1>3 DEF Take, Advance, Busy, Ended, IInv, TypeOK
    <2>2. Cardinality(Busy') = Cardinality(Busy) + 1
      BY <1>1, <2>1, FS_AddElement
    <2>3. Cardinality(Busy) < workers /\ workers' = workers
      BY <1>3 DEF Take
    <2>. QED
      BY <1>2, <2>2, <2>3 DEF PoolInv
  <1>4. CASE ~Take(h)
    <2>1. Busy' \in SUBSET Busy /\ workers' = workers
      BY <1>4 DEF Thread, Respond, Retry, WakeUp, Unavailable, ReadChunk, EndOfBody,
                  LengthConflict, ReadError, AcceptContent, RejectContent, Advance,
                  Fail, Busy, Ended, IInv, TypeOK
    <2>2. Cardinality(Busy') <= Cardinality(Busy) /\ Cardinality(Busy') \in Nat
      BY <1>1, <2>1, FS_Subset, FS_CardinalityType
    <2>. QED
      BY <1>2, <2>1, <2>2 DEF IInv, PoolInv
  <1>. QED
    BY <1>3, <1>4

(* What the queue, the caller and the manifest rely on survives any step   *)
(* that moves one task forward, never out of "staged" or "failed".         *)
LEMMA MovesKeep ==
    ASSUME IInv, NEW h \in Hours, NEW label, label # "queued", ~Ended(h),
           task' = [task EXCEPT ![h] = label],
           error' = error \/ \E code : error' = [error EXCEPT ![h] = code],
           task[h] = "queued" =>
               /\ \A g \in 1 .. h - 1 : task[g] # "queued"
               /\ workers = 1 => next = h,
           UNCHANGED <<workers, callerVars>>
    PROVE  /\ QueueInv'
           /\ GatherInv'
           /\ DrainInv'
  <1> USE DEF IInv, TypeOK, Ended, Hours, callerVars
  <1>1. QueueInv'
    BY DEF QueueInv
  <1>2. GatherInv'
    BY DEF GatherInv
  <1>3. DrainInv'
    BY DEF DrainInv, Drained
  <1>. QED
    BY <1>1, <1>2, <1>3

(* A step of a thread keeps the invariant.                                 *)
LEMMA ThreadKeeps ==
    ASSUME IInv, NEW h \in Hours, Thread(h)
    PROVE  IInv'
  <1>p. PoolInv'
    BY PoolKeeps
  <1>m. task[h] # "staged" => manifest = << >>
    BY UnfinishedHolds
  <1> DEFINE Kept == QueueInv' /\ GatherInv' /\ DrainInv'
             Own == TypeOK' /\ TaskInv'
  <1>1. CASE Take(h)
    <2>1. Kept
      BY <1>1, MovesKeep DEF Take, Advance, Ended
    <2>2. Own
      BY <1>1 DEF Take, Advance, callerVars, IInv, TypeOK, TaskInv
    <2>. QED
      BY <1>p, <2>1, <2>2 DEF IInv
  <1>2. ASSUME NEW response \in Bodies, Respond(h, response)
        PROVE  IInv'
    <2>1. Kept
      BY <1>2, MovesKeep DEF Respond, Advance, Ended
    <2>2. Own
      BY <1>m, <1>2, PoolAssumption
         DEF Respond, Advance, callerVars, IInv, TypeOK, TaskInv
    <2>. QED
      BY <1>p, <2>1, <2>2 DEF IInv
  <1>3. ASSUME NEW header \in RetryAfters, Retry(h, header)
        PROVE  IInv'
    <2>1. Kept
      BY <1>3, MovesKeep DEF Retry, Advance, Ended
    <2>2. RetryDelay(header, attempt[h]) \in Int
      <3>1. 2 ^ attempt[h] \in Int
        BY DEF IInv, TypeOK
      <3>. QED
        BY <3>1 DEF RetryDelay
    <2>3. PICK delay \in Int : waited' = [waited EXCEPT ![h] = @ + delay]
      BY <1>3, <2>2 DEF Retry
    <2>4. TypeOK'
      <3>1. waited' \in [Hours -> Int]
        BY <2>3 DEF IInv, TypeOK
      <3>. QED
        BY <1>3, <3>1, PoolAssumption DEF Retry, Advance, callerVars, IInv, TypeOK
    <2>5. TaskInv'
      BY <1>3, PoolAssumption DEF Retry, Advance, IInv, TypeOK, TaskInv
    <2>. QED
      BY <1>p, <2>1, <2>4, <2>5 DEF IInv
  <1>4. CASE WakeUp(h)
    <2>1. Kept
      BY <1>4, MovesKeep DEF WakeUp, Advance, Ended
    <2>2. Own
      BY <1>4 DEF WakeUp, Advance, callerVars, IInv, TypeOK, TaskInv
    <2>. QED
      BY <1>p, <2>1, <2>2 DEF IInv
  <1>5. CASE Unavailable(h)
    <2>1. Kept
      BY <1>5, MovesKeep DEF Unavailable, Fail, Advance, Ended
    <2>2. Own
      BY <1>5, PoolAssumption
         DEF Unavailable, Fail, Advance, Codes, callerVars, IInv, TypeOK, TaskInv
    <2>. QED
      BY <1>p, <2>1, <2>2 DEF IInv
  <1>6. CASE ReadChunk(h)
    <2>1. Kept
      BY <1>6 DEF ReadChunk, callerVars, IInv, QueueInv, GatherInv, DrainInv, Drained, Ended
    <2>2. Own
      BY <1>6 DEF ReadChunk, callerVars, IInv, TypeOK, TaskInv
    <2>. QED
      BY <1>p, <2>1, <2>2 DEF IInv
  <1>7. CASE EndOfBody(h) \/ LengthConflict(h) \/ ReadError(h)
    <2>1. Kept
      BY <1>7, MovesKeep DEF EndOfBody, LengthConflict, ReadError, Fail, Advance, Ended
    <2>2. Own
      BY <1>7 DEF EndOfBody, LengthConflict, ReadError, Fail, Advance, Codes, callerVars,
                  IInv, TypeOK, TaskInv
    <2>. QED
      BY <1>p, <2>1, <2>2 DEF IInv
  <1>8. CASE AcceptContent(h) \/ RejectContent(h)
    <2>1. Kept
      BY <1>8, MovesKeep DEF AcceptContent, RejectContent, Fail, Advance, Ended
    <2>2. body[h].quality \in {"records", "malformed", "corrupt"}
      BY <1>8, BodiesAssumption DEF AcceptContent, RejectContent, IInv, TaskInv
    <2>3. CASE AcceptContent(h)
      <3>1. body[h].quality = "records"
        BY <2>2, <2>3 DEF AcceptContent, ValidationCode
      <3>. QED
        BY <1>p, <2>1, <2>3, <3>1
           DEF AcceptContent, Advance, callerVars, IInv, TypeOK, TaskInv
    <2>4. CASE RejectContent(h)
      <3>1. ValidationCode[body[h].quality] \in Codes
        BY <2>2, <2>4 DEF RejectContent, ValidationCode, Codes
      <3>. QED
        BY <1>p, <2>1, <2>4, <3>1
           DEF RejectContent, Fail, Advance, Codes, callerVars, IInv, TypeOK, TaskInv
    <2>. QED
      BY <1>8, <2>3, <2>4
  <1>. QED
    BY ONLY Thread(h), <1>1, <1>2, <1>3, <1>4, <1>5, <1>6, <1>7, <1>8 DEF Thread

(* A step of the caller moves no task.                                     *)
LEMMA CallerKeeps ==
    ASSUME IInv, Caller
    PROVE  IInv'
  <1>1. UNCHANGED <<workers, taskVars, Busy>>
    BY DEF Caller, Gather, Reraise, AllGathered, Build, Unwind, Unstage, taskVars, Busy, Ended
  <1>2. PoolInv' /\ TaskInv'
    BY <1>1 DEF taskVars, IInv, PoolInv, TaskInv
  <1> USE <1>1, <1>2, HourCountAssumption
      DEF IInv, TypeOK, QueueInv, GatherInv, DrainInv, Drained, Ended, TaskInv, Hours, taskVars
  <1>3. CASE Gather
    BY <1>3 DEF Gather
  <1>4. CASE Reraise
    BY <1>4 DEF Reraise
  <1>5. CASE AllGathered
    BY <1>5 DEF AllGathered
  <1>6. CASE Build
    BY <1>6 DEF Build
  <1>7. CASE Unwind
    BY <1>7 DEF Unwind
  <1>8. CASE Unstage
    BY <1>8 DEF Unstage
  <1>. QED
    BY ONLY Caller, <1>3, <1>4, <1>5, <1>6, <1>7, <1>8 DEF Caller

(* A stutter keeps it.                                                     *)
LEMMA IdleKeeps ==
    ASSUME IInv, UNCHANGED vars
    PROVE  IInv'
  BY DEF vars, callerVars, taskVars, IInv, TypeOK, QueueInv, TaskInv, GatherInv, DrainInv,
         Drained, Ended, PoolInv, Busy

(* The inductive invariant holds in every reachable state.                 *)
THEOREM Invariance == Spec => []IInv
  <1>1. IInv /\ [Next]_vars => IInv'
    BY ThreadKeeps, CallerKeeps, IdleKeeps DEF Next, Rest
  <1>. QED
    BY Initially, <1>1, PTL DEF Spec

-----------------------------------------------------------------------------
(* Type correctness of the download.                                       *)
THEOREM TypeCorrect == Spec => []TypeOK
  BY Invariance, PTL DEF IInv

(* Publication is handed every hour of the profile, whole and good.        *)
THEOREM HandedOverWhole == Spec => []ManifestIsWhole
  <1>1. IInv => ManifestIsWhole
    BY HourCountAssumption
       DEF IInv, TypeOK, GatherInv, DrainInv, TaskInv, ManifestIsWhole, Hours
  <1>. QED
    BY <1>1, Invariance, PTL

(* In whatever order the threads end, the caller raises the failure of the *)
(* earliest failed hour.                                                   *)
THEOREM EarliestIsRaised == Spec => []EarliestFailureIsRaised
  <1>1. IInv => EarliestFailureIsRaised
    BY HourCountAssumption DEF IInv, TypeOK, GatherInv, EarliestFailureIsRaised, Hours
  <1>. QED
    BY <1>1, Invariance, PTL

(* The staging directory outlives the threads that write to it, with a     *)
(* pool and without.                                                       *)
THEOREM StagingStays == Spec => []StagingOutlivesThreads
  <1>1. IInv => StagingOutlivesThreads
    <2> SUFFICES ASSUME IInv, main = "done", NEW h \in Hours
                 PROVE  h \notin Busy
      BY DEF IInv, DrainInv, StagingOutlivesThreads, Busy
    <2>1. CASE workers > 1
      BY <2>1 DEF IInv, DrainInv, Drained, Busy
    <2>2. CASE workers = 1
      BY <2>2, HourCountAssumption
         DEF IInv, TypeOK, QueueInv, GatherInv, Busy, Ended, Hours
    <2>. QED
      BY <2>1, <2>2, PoolAssumption DEF IInv, TypeOK
  <1>. QED
    BY <1>1, Invariance, PTL

(* The hours in flight, the requests for each and what is fetched without  *)
(* a pool after a failure stay within their bounds.                        *)
THEOREM BurstStaysBounded == Spec => []BurstIsBounded
  <1>1. IInv => BurstIsBounded
    BY PoolAssumption
       DEF IInv, TypeOK, QueueInv, GatherInv, PoolInv, BurstIsBounded, Hours
  <1>. QED
    BY <1>1, Invariance, PTL

(* A retry adds at most 30 seconds for its request: the server's delay is  *)
(* obeyed within that, and doubling stays below it.                        *)
LEMMA DelayIsBounded ==
    ASSUME NEW header, NEW made \in 0 .. MaxAttempts - 2
    PROVE  RetryDelay(header, made) \in 0 .. 30
  <1>1. 2 ^ made \in 0 .. 30
    BY DoublingAssumption
  <1>. QED
    BY <1>1 DEF RetryDelay

(* Every step keeps what an hour has slept within its requests.            *)
LEMMA BackoffKeeps ==
    ASSUME TypeOK, BackoffIsBounded, [Next]_vars
    PROVE  BackoffIsBounded'
  <1> USE DEF TypeOK, BackoffIsBounded
  <1>t. attempt \in [Hours -> Nat] /\ waited \in [Hours -> Int]
    BY PoolAssumption
  <1>1. ASSUME NEW h \in Hours, NEW header \in RetryAfters, Retry(h, header)
        PROVE  BackoffIsBounded'
    <2>1. RetryDelay(header, attempt[h]) \in 0 .. 30
      <3>1. attempt[h] \in 0 .. MaxAttempts - 2
        BY <1>1, <1>t, PoolAssumption DEF Retry
      <3>. QED
        BY <3>1, DelayIsBounded
    <2>2. PICK delay \in 0 .. 30 : waited' = [waited EXCEPT ![h] = @ + delay]
      BY <1>1, <2>1 DEF Retry
    <2>3. attempt' = [attempt EXCEPT ![h] = @ + 1]
      BY <1>1 DEF Retry
    <2>. QED
      BY ONLY <1>t, <2>2, <2>3, BackoffIsBounded DEF BackoffIsBounded
  <1>2. ASSUME NEW h \in Hours,
               Unavailable(h) \/ \E response \in Bodies : Respond(h, response)
        PROVE  BackoffIsBounded'
    <2>1. /\ waited' = [waited EXCEPT ![h] = 0]
          /\ attempt' = [attempt EXCEPT ![h] = @ + 1]
      BY <1>2 DEF Unavailable, Respond
    <2>. QED
      BY ONLY <1>t, <2>1, BackoffIsBounded DEF BackoffIsBounded
  <1>3. ASSUME NEW h \in Hours,
               \/ Take(h) \/ WakeUp(h) \/ ReadChunk(h) \/ EndOfBody(h) \/ LengthConflict(h)
               \/ ReadError(h) \/ AcceptContent(h) \/ RejectContent(h)
        PROVE  BackoffIsBounded'
    BY <1>3 DEF Take, WakeUp, ReadChunk, EndOfBody, LengthConflict, ReadError,
                AcceptContent, RejectContent
  <1>4. CASE Caller \/ UNCHANGED vars
    BY <1>4 DEF Caller, Gather, Reraise, AllGathered, Build, Unwind, Unstage, taskVars, vars
  <1>. QED
    BY <1>1, <1>2, <1>3, <1>4 DEF Next, Thread, Rest

(* No server makes an hour's retries sleep a negative time or longer than  *)
(* 30 seconds for each request made.                                       *)
THEOREM BackoffStaysBounded == Spec => []BackoffIsBounded
  <1>1. Init => BackoffIsBounded
    BY DEF Init, BackoffIsBounded
  <1>2. TypeOK /\ BackoffIsBounded /\ [Next]_vars => BackoffIsBounded'
    BY BackoffKeeps
  <1>. QED
    BY <1>1, <1>2, TypeCorrect, PTL DEF Spec
=============================================================================
