--------------------------- MODULE SqlExecutorProofs ---------------------------
(***************************************************************************)
(* Safety of SqlExecutor for any number of calls, any capacity and any     *)
(* requests.  The inductive invariant counts the calls between the permit  *)
(* and its release, and those between the increment and the decrement of   *)
(* _active, and says of each label what the worker, the pipe and the       *)
(* admitted request look like there.                                       *)
(***************************************************************************)
EXTENDS SqlExecutor, FiniteSetTheorems, TLAPS

(* The calls that have taken a permit and not yet returned it.             *)
Holders == {c \in Calls : pc[c] \notin {"idle", "done"}}

(* The calls that _active counts.                                          *)
Counting == {"validate", "spawn", "poll", "recv", "deadline", "reap", "uncount"}
Counted == {c \in Calls : pc[c] \in Counting}

(* Where a call has a process that its finally clause must still reap.     *)
Attached == {"poll", "recv", "deadline", "reap"}

(* Where the request has passed validate_sql and the limits.               *)
Admitted == Attached \cup {"spawn"}

PermitInv == /\ IsFiniteSet(Holders)
             /\ Cardinality(Holders) = MaxConcurrency - slots

ActiveInv == /\ IsFiniteSet(Counted)
             /\ Cardinality(Counted) = active

WorkerInv == \A c \in Calls : pc[c] \in Attached <=> worker[c] \notin {"none", "reaped"}

Sound(c) == /\ request[c].legal
            /\ Bound(request[c])
            /\ ScanBytes(request[c]) <= MaxScan

AdmittedInv == \A c \in Calls : pc[c] \in Admitted => Sound(c)

PipeInv ==
    \A c \in Calls :
        /\ worker[c] = "sending" => request[c].answer = "rows"
        /\ pipe[c] = "rows" => request[c].answer = "rows"
        /\ pipe[c] = "rows" /\ ~overdue[c] => punctual[c]
        /\ pc[c] = "deadline" => pipe[c] \notin {"empty", "partial"}

OutcomeInv ==
    \A c \in Calls : outcome[c] = "rows" =>
        /\ pc[c] \in {"reap", "uncount", "release", "done"}
        /\ Sound(c)
        /\ pipe[c] = "rows"
        /\ punctual[c]

IInv == /\ TypeOK
        /\ PermitInv
        /\ ActiveInv
        /\ WorkerInv
        /\ AdmittedInv
        /\ PipeInv
        /\ OutcomeInv

-----------------------------------------------------------------------------
(* Initially nothing is taken, counted or running.                         *)
LEMMA Initially == Init => IInv
  <1> SUFFICES ASSUME Init
               PROVE  IInv
    OBVIOUS
  <1>1. Holders = {} /\ Counted = {}
    BY DEF Init, Holders, Counted, Counting
  <1>2. PermitInv /\ ActiveInv
    BY <1>1, FS_EmptySet, LimitsAssumption DEF Init, PermitInv, ActiveInv
  <1>3. TypeOK
    BY LimitsAssumption DEF Init, TypeOK, Labels, Codes
  <1>4. WorkerInv /\ AdmittedInv /\ PipeInv /\ OutcomeInv
    BY DEF Init, WorkerInv, AdmittedInv, PipeInv, OutcomeInv, Attached, Admitted
  <1>. QED
    BY <1>2, <1>3, <1>4 DEF IInv

(* What a step does to one label, it does to no other call: the counted    *)
(* sets gain or lose at most the call that moves.                          *)
LEMMA MoveCounts ==
    ASSUME TypeOK, NEW c \in Calls, NEW label \in Labels,
           pc' = [pc EXCEPT ![c] = label]
    PROVE  /\ Holders' = IF label \in {"idle", "done"}
                             THEN Holders \ {c} ELSE Holders \cup {c}
           /\ Counted' = IF label \in Counting
                             THEN Counted \cup {c} ELSE Counted \ {c}
  BY DEF TypeOK, Holders, Counted

(* A counted call holds a permit, so the count stays within the capacity.  *)
LEMMA CountedHold ==
    ASSUME NEW held, IsFiniteSet(held), NEW counted \in SUBSET held,
           NEW free \in 0 .. MaxConcurrency, Cardinality(held) = MaxConcurrency - free
    PROVE  /\ IsFiniteSet(counted)
           /\ Cardinality(counted) \in 0 .. (MaxConcurrency - free)
  <1>1. IsFiniteSet(counted) /\ Cardinality(counted) <= Cardinality(held)
    BY FS_Subset
  <1>2. Cardinality(counted) \in Nat
    BY <1>1, FS_CardinalityType
  <1>. QED
    BY <1>1, <1>2, LimitsAssumption

(* The permits and the count after each kind of step of a call: a permit   *)
(* taken, one returned, the call counted, uncounted, or neither.           *)
LEMMA PermitKeeps ==
    ASSUME IInv, NEW c \in Calls, Begin(c) \/ Step(c) \/ SpawnError(c)
    PROVE  /\ slots' \in 0 .. MaxConcurrency
           /\ PermitInv'
  <1> USE DEF IInv, PermitInv, Goto, Move, Leave, Labels
  <1>t. pc \in [Calls -> Labels] /\ slots \in 0 .. MaxConcurrency
    BY DEF TypeOK
  <1>1. CASE Acquire(c)
    <2>1. Holders' = Holders \cup {c} /\ c \notin Holders
      BY <1>1, MoveCounts DEF Acquire, Holders
    <2>. QED
      BY <1>1, <1>t, <2>1, FS_AddElement, LimitsAssumption DEF Acquire
  <1>2. CASE Release(c)
    <2>1. Holders' = Holders \ {c} /\ c \in Holders
      BY <1>2, MoveCounts DEF Release, Holders
    <2>2. Cardinality(Holders') = Cardinality(Holders) - 1 /\ IsFiniteSet(Holders')
      BY <2>1, FS_RemoveElement
    <2>3. Cardinality(Holders') \in Nat
      BY <2>2, FS_CardinalityType
    <2>. QED
      BY <1>2, <1>t, <2>2, <2>3, LimitsAssumption DEF Release
  <1>3. CASE Refuse(c)
    BY <1>3, <1>t DEF Refuse, Holders
  <1>4. CASE \/ CountIn(c) \/ RejectSql(c) \/ RejectBinding(c) \/ RejectScan(c) \/ Admit(c)
             \/ Spawn(c) \/ PollReady(c) \/ GiveUp(c) \/ Receive(c) \/ ReceiveEof(c)
             \/ ReplyIsLate(c) \/ Load(c) \/ Kill(c) \/ Join(c) \/ CountOut(c)
             \/ SpawnError(c)
    <2>1. UNCHANGED <<Holders, slots>>
      BY <1>4, <1>t DEF CountIn, RejectSql, RejectBinding, RejectScan, Admit, Spawn,
                        PollReady, GiveUp, Receive, ReceiveEof, ReplyIsLate, Load, Kill,
                        Join, CountOut, SpawnError, callVars, Holders
    <2>. QED
      BY <1>t, <2>1
  <1>. QED
    BY ONLY Begin(c) \/ Step(c) \/ SpawnError(c), <1>1, <1>2, <1>3, <1>4 DEF Begin, Step

(* _active counts the calls between CountIn and CountOut.                  *)
LEMMA ActiveKeeps ==
    ASSUME IInv, NEW c \in Calls, Begin(c) \/ Step(c) \/ SpawnError(c)
    PROVE  ActiveInv'
  <1> USE DEF IInv, ActiveInv, Goto, Move, Leave, Labels, Counting
  <1>t. pc \in [Calls -> Labels] /\ active \in 0 .. MaxConcurrency
    BY DEF TypeOK
  <1>1. CASE CountIn(c)
    <2>1. Counted' = Counted \cup {c} /\ c \notin Counted
      BY <1>1, MoveCounts DEF CountIn, Counted
    <2>. QED
      BY <1>1, <1>t, <2>1, FS_AddElement, LimitsAssumption DEF CountIn
  <1>2. CASE CountOut(c)
    <2>1. Counted' = Counted \ {c} /\ c \in Counted
      BY <1>2, MoveCounts DEF CountOut, Counted
    <2>. QED
      BY <1>2, <1>t, <2>1, FS_RemoveElement, LimitsAssumption DEF CountOut
  <1>3. CASE Acquire(c) \/ Refuse(c) \/ Release(c)
    <2>1. UNCHANGED <<Counted, active>>
      BY <1>3, <1>t DEF Acquire, Refuse, Release, Counted
    <2>. QED
      BY <2>1
  <1>4. CASE \/ RejectSql(c) \/ RejectBinding(c) \/ RejectScan(c) \/ Admit(c)
             \/ Spawn(c) \/ PollReady(c) \/ GiveUp(c) \/ Receive(c) \/ ReceiveEof(c)
             \/ ReplyIsLate(c) \/ Load(c) \/ Kill(c) \/ Join(c) \/ SpawnError(c)
    <2>1. UNCHANGED <<Counted, active>>
      BY <1>4, <1>t DEF RejectSql, RejectBinding, RejectScan, Admit, Spawn,
                        PollReady, GiveUp, Receive, ReceiveEof, ReplyIsLate, Load, Kill,
                        Join, SpawnError, callVars, Counted
    <2>. QED
      BY <2>1
  <1>. QED
    BY ONLY Begin(c) \/ Step(c) \/ SpawnError(c), <1>1, <1>2, <1>3, <1>4 DEF Begin, Step

(* What the labels say of the worker, the pipe, the request and the        *)
(* outcome survives every step of the call itself ...                      *)
LEMMA StepKeeps ==
    ASSUME IInv, NEW c \in Calls, Begin(c) \/ Step(c) \/ SpawnError(c)
    PROVE  IInv'
  <1>p. slots' \in 0 .. MaxConcurrency /\ PermitInv' /\ ActiveInv'
    BY PermitKeeps, ActiveKeeps
  <1>a. active' \in 0 .. MaxConcurrency
    <2>1. Counted' \in SUBSET Holders'
      BY DEF Counted, Counting, Holders
    <2>2. Cardinality(Counted') \in 0 .. (MaxConcurrency - slots')
      BY <1>p, <2>1, CountedHold DEF PermitInv
    <2>. QED
      BY <1>p, <2>2, LimitsAssumption DEF ActiveInv
  <1> USE <1>p, <1>a, RequestsAssumption
      DEF IInv, TypeOK, Labels, Codes, WorkerInv, AdmittedInv, PipeInv, OutcomeInv,
          Attached, Admitted, Sound, Goto, Move, Leave, callVars, workerVars
  <1>1. CASE Begin(c)
    BY <1>1 DEF Begin, Acquire, Refuse
  <1>2. CASE CountIn(c) \/ CountOut(c) \/ Release(c)
    BY <1>2 DEF CountIn, CountOut, Release
  <1>3. CASE RejectSql(c) \/ RejectBinding(c) \/ RejectScan(c)
    BY <1>3 DEF RejectSql, RejectBinding, RejectScan
  <1>4. CASE Admit(c)
    BY <1>4 DEF Admit
  <1>5. CASE Spawn(c) \/ SpawnError(c)
    BY <1>5 DEF Spawn, SpawnError
  <1>6. CASE PollReady(c) \/ GiveUp(c)
    BY <1>6 DEF PollReady, GiveUp
  <1>7. CASE Receive(c) \/ ReceiveEof(c)
    BY <1>7 DEF Receive, ReceiveEof
  <1>8. CASE ReplyIsLate(c) \/ Load(c)
    BY <1>8 DEF ReplyIsLate, Load
  <1>9. CASE Kill(c) \/ Join(c)
    BY <1>9 DEF Kill, Join
  <1>. QED
    BY ONLY Begin(c) \/ Step(c) \/ SpawnError(c), <1>1, <1>2, <1>3, <1>4, <1>5, <1>6,
            <1>7, <1>8, <1>9 DEF Step

(* ... and those of its worker and of the clock, which move no call.       *)
LEMMA WorkKeeps ==
    ASSUME IInv, NEW c \in Calls, Work(c) \/ SetupError(c) \/ Die(c) \/ Expire(c)
    PROVE  IInv'
  <1>p. UNCHANGED <<Holders, Counted, slots, active>>
    BY DEF Work, StartReply, FinishReply, ReplyError, Exit, SetupError, Die, Expire,
           callVars, Holders, Counted
  <1>c. PermitInv' /\ ActiveInv'
    BY <1>p DEF IInv, PermitInv, ActiveInv
  <1> USE <1>p, <1>c, RequestsAssumption
      DEF IInv, TypeOK, Labels, Codes, WorkerCodes, WorkerInv, AdmittedInv, PipeInv,
          OutcomeInv, Attached, Admitted, Sound, Listening, callVars, workerVars
  <1>1. CASE StartReply(c)
    BY <1>1 DEF StartReply
  <1>2. CASE FinishReply(c)
    <2>1. TypeOK'
      BY <1>2 DEF FinishReply
    <2>2. WorkerInv' /\ AdmittedInv'
      BY <1>2 DEF FinishReply
    <2>3. PipeInv'
      BY <1>2 DEF FinishReply
    <2>4. OutcomeInv'
      BY <1>2 DEF FinishReply
    <2>. QED
      BY <2>1, <2>2, <2>3, <2>4
  <1>3. CASE ReplyError(c)
    BY <1>3 DEF ReplyError
  <1>4. CASE Exit(c) \/ Die(c)
    BY <1>4 DEF Exit, Die
  <1>5. CASE SetupError(c)
    BY <1>5 DEF SetupError
  <1>6. CASE Expire(c)
    BY <1>6 DEF Expire
  <1>. QED
    BY ONLY Work(c) \/ SetupError(c) \/ Die(c) \/ Expire(c), <1>1, <1>2, <1>3, <1>4,
            <1>5, <1>6 DEF Work

(* A stutter keeps the invariant.                                          *)
LEMMA IdleKeeps ==
    ASSUME IInv, UNCHANGED vars
    PROVE  IInv'
  <1>1. UNCHANGED <<Holders, Counted>>
    BY DEF vars, callVars, Holders, Counted
  <1>. QED
    <2>1. PermitInv' /\ ActiveInv'
      BY <1>1 DEF vars, IInv, PermitInv, ActiveInv
    <2>2. TypeOK' /\ WorkerInv' /\ AdmittedInv' /\ PipeInv' /\ OutcomeInv'
      BY DEF vars, callVars, workerVars, IInv, TypeOK, WorkerInv, AdmittedInv, PipeInv,
             OutcomeInv, Sound
    <2>. QED
      BY <2>1, <2>2 DEF IInv

(* The inductive invariant holds in every reachable state.                 *)
THEOREM Invariance == Spec => []IInv
  <1>1. IInv /\ [Next]_vars => IInv'
    BY StepKeeps, WorkKeeps, IdleKeeps DEF Next, Fault, Rest
  <1>. QED
    BY Initially, <1>1, PTL DEF Spec

-----------------------------------------------------------------------------
(* Type correctness of the executor, its counters within the capacity.     *)
THEOREM TypeCorrect == Spec => []TypeOK
  BY Invariance, PTL DEF IInv

(* max_concurrency bounds the worker processes that exist, not only the    *)
(* calls, at every moment of every interleaving.                           *)
THEOREM CapacityHolds == Spec => []CapacityIsKept
  <1>1. IInv => CapacityIsKept
    <2> SUFFICES ASSUME IInv
                 PROVE  CapacityIsKept
      OBVIOUS
    <2>1. Counted \in SUBSET Holders /\ Processes \in SUBSET Counted
      BY DEF IInv, WorkerInv, Attached, Counted, Counting, Holders, Processes
    <2>2. Cardinality(Counted) \in 0 .. (MaxConcurrency - slots)
      BY <2>1, CountedHold DEF IInv, TypeOK, PermitInv
    <2>3. Cardinality(Processes) <= Cardinality(Counted)
      BY <2>1, FS_Subset DEF IInv, ActiveInv
    <2>. QED
      BY <2>2, <2>3, LimitsAssumption DEF IInv, ActiveInv, CapacityIsKept
  <1>. QED
    BY <1>1, Invariance, PTL

(* However the calls end, nothing of them is left once all have ended.     *)
THEOREM NothingIsLeaked == Spec => []NothingLeaks
  <1>1. IInv => NothingLeaks
    <2> SUFFICES ASSUME IInv, \A c \in Calls : pc[c] \in {"idle", "done"}
                 PROVE  slots = MaxConcurrency /\ active = 0 /\ Processes = {}
      BY DEF NothingLeaks
    <2>1. Holders = {} /\ Counted = {}
      BY DEF Holders, Counted, Counting
    <2>2. Processes = {}
      BY DEF IInv, WorkerInv, Attached, Processes
    <2>. QED
      BY <2>1, <2>2, FS_EmptySet, LimitsAssumption
         DEF IInv, TypeOK, PermitInv, ActiveInv
  <1>. QED
    BY <1>1, Invariance, PTL

(* Rows come whole, from a legal, bound and bounded query only.            *)
THEOREM RowsComeWhole == Spec => []RowsAreWhole
  <1>1. IInv => RowsAreWhole
    BY DEF IInv, PipeInv, OutcomeInv, Sound, RowsAreWhole
  <1>. QED
    BY <1>1, Invariance, PTL

(* Rows whose transfer ended after the limit are never returned, whenever  *)
(* the limit passes between two steps of the caller or the worker.         *)
THEOREM RowsComeInTime == Spec => []NoLateRows
  <1>1. IInv => NoLateRows
    BY DEF IInv, OutcomeInv, NoLateRows
  <1>. QED
    BY <1>1, Invariance, PTL
=============================================================================
