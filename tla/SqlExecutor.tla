------------------------------ MODULE SqlExecutor ------------------------------
(***************************************************************************)
(* SqlExecutor of agent/query_safety.py: threads of one service share an   *)
(* executor that admits a bounded number of queries, validates and binds   *)
(* each, runs it in a worker process of its own, and answers before the    *)
(* wall-clock limit or kills the worker.                                   *)
(*                                                                         *)
(* A call is one invocation of execute.  The policy of validate_sql is the *)
(* "legal" field of a request; what the query does under the worker's row, *)
(* byte and memory limits is its "answer".                                 *)
(***************************************************************************)
EXTENDS Integers, Sequences, FiniteSets, SequencesExt

CONSTANTS Calls,           \* invocations of execute
          MaxConcurrency,  \* QueryLimits.max_concurrency
          MaxScan,         \* QueryLimits.max_scan_bytes
          Requests         \* Requests[c]: what call c may ask, a set of
                           \* records [legal, views, bindings, answer]

ASSUME LimitsAssumption == MaxConcurrency \in Nat \ {0} /\ MaxScan \in Nat \ {0}

WorkerCodes == {"row_limit", "result_size_limit", "memory_limit", "query_failure",
                "worker_setup_failure"}

(* What a query does in its worker is to give rows or to run into a limit. *)
ASSUME RequestsAssumption ==
    \A c \in Calls : \A r \in Requests[c] : r.answer \in WorkerCodes \cup {"rows"}

VARIABLES pc, request, outcome,
          slots,     \* free permits of the semaphore
          active,    \* _active
          overdue,   \* overdue[c]: timeout_seconds have passed since c started
          worker,    \* worker[c]: the process of call c
          pipe,      \* pipe[c]: what its pipe carries
          punctual   \* punctual[c]: the reply was complete before the limit

callVars == <<pc, request, outcome>>
workerVars == <<worker, pipe, punctual>>
vars == <<callVars, slots, active, overdue, workerVars>>

Init == /\ pc = [c \in Calls |-> "idle"]
        /\ request \in [Calls -> UNION {Requests[c] : c \in Calls}]
        /\ \A c \in Calls : request[c] \in Requests[c]
        /\ outcome = [c \in Calls |-> "none"]
        /\ slots = MaxConcurrency
        /\ active = 0
        /\ overdue = [c \in Calls |-> FALSE]
        /\ worker = [c \in Calls |-> "none"]
        /\ pipe = [c \in Calls |-> "empty"]
        /\ punctual = [c \in Calls |-> FALSE]

-----------------------------------------------------------------------------
Bound(r) == \A i \in DOMAIN r.views : r.views[i] \in DOMAIN r.bindings

(* Every reference to a view counts, also a repeated one.                  *)
ScanBytes(r) == FoldSeq(LAMBDA v, bytes : r.bindings[v] + bytes, 0, r.views)

Goto(c, label) == pc' = [pc EXCEPT ![c] = label] /\ UNCHANGED request

Move(c, label) == Goto(c, label) /\ UNCHANGED outcome

(* Raise a code, or return "rows", through the finally clause at label.    *)
Leave(c, label, code) == /\ Goto(c, label)
                         /\ outcome' = [outcome EXCEPT ![c] = code]

(* The semaphore is tried without blocking: an excess call fails at once.  *)
Acquire(c) ==
    /\ pc[c] = "idle"
    /\ slots > 0
    /\ slots' = slots - 1
    /\ Move(c, "count")
    /\ UNCHANGED <<active, overdue, workerVars>>

(* Mutant: acquire inside the try block, whose finally releases a permit.  *)
RefuseReleasing(c) ==
    /\ pc[c] = "idle"
    /\ slots = 0
    /\ slots' = slots + 1
    /\ Leave(c, "done", "concurrency_limit")
    /\ UNCHANGED <<active, overdue, workerVars>>

Refuse(c) ==
    /\ pc[c] = "idle"
    /\ slots = 0
    /\ Leave(c, "done", "concurrency_limit")
    /\ UNCHANGED <<slots, active, overdue, workerVars>>

CountIn(c) ==
    /\ pc[c] = "count"
    /\ active' = active + 1
    /\ Move(c, "validate")
    /\ UNCHANGED <<slots, overdue, workerVars>>

(* validate_sql, the lookup of the bindings and the scan limit decide on   *)
(* the call's own data.                                                    *)
RejectSql(c) ==
    /\ pc[c] = "validate"
    /\ ~request[c].legal
    /\ Leave(c, "uncount", "unsupported_sql")
    /\ UNCHANGED <<slots, active, overdue, workerVars>>

RejectBinding(c) ==
    /\ pc[c] = "validate"
    /\ request[c].legal
    /\ ~Bound(request[c])
    /\ Leave(c, "uncount", "view_unavailable")
    /\ UNCHANGED <<slots, active, overdue, workerVars>>

(* Mutant: the rejection returns before the try block.                     *)
RejectScanLeaking(c) ==
    /\ pc[c] = "validate"
    /\ request[c].legal
    /\ Bound(request[c])
    /\ ScanBytes(request[c]) > MaxScan
    /\ Leave(c, "done", "scan_limit")
    /\ UNCHANGED <<slots, active, overdue, workerVars>>

RejectScan(c) ==
    /\ pc[c] = "validate"
    /\ request[c].legal
    /\ Bound(request[c])
    /\ ScanBytes(request[c]) > MaxScan
    /\ Leave(c, "uncount", "scan_limit")
    /\ UNCHANGED <<slots, active, overdue, workerVars>>

(* Mutant: each view is compared with the limit, not their sum.            *)
AdmitEach(c) ==
    /\ pc[c] = "validate"
    /\ request[c].legal
    /\ Bound(request[c])
    /\ \A v \in DOMAIN request[c].bindings : request[c].bindings[v] <= MaxScan
    /\ Move(c, "spawn")
    /\ UNCHANGED <<slots, active, overdue, workerVars>>

Admit(c) ==
    /\ pc[c] = "validate"
    /\ request[c].legal
    /\ Bound(request[c])
    /\ ScanBytes(request[c]) <= MaxScan
    /\ Move(c, "spawn")
    /\ UNCHANGED <<slots, active, overdue, workerVars>>

-----------------------------------------------------------------------------
(* _execute_worker: the process starts, and the caller closes its own copy *)
(* of the sending end, so that the end of the worker is seen as an EOF.    *)
Spawn(c) ==
    /\ pc[c] = "spawn"
    /\ worker' = [worker EXCEPT ![c] = "running"]
    /\ Move(c, "poll")
    /\ UNCHANGED <<slots, active, overdue, pipe, punctual>>

(* poll returns on the first byte of a reply, or on EOF.                   *)
PollReady(c) ==
    /\ pc[c] = "poll"
    /\ pipe[c] # "empty" \/ worker[c] = "exited"
    /\ Move(c, "recv")
    /\ UNCHANGED <<slots, active, overdue, workerVars>>

(* Mutant: the time limit is looked at only when the worker has ended.     *)
GiveUpAfterExit(c) ==
    /\ pc[c] = "poll"
    /\ overdue[c]
    /\ worker[c] = "exited"
    /\ Leave(c, "reap", "time_limit")
    /\ UNCHANGED <<slots, active, overdue, workerVars>>

(* Nothing remains of the limit before poll is called, or poll times out.  *)
GiveUp(c) ==
    /\ pc[c] = "poll"
    /\ overdue[c]
    /\ Leave(c, "reap", "time_limit")
    /\ UNCHANGED <<slots, active, overdue, workerVars>>

(* recv_bytes blocks, with no deadline, until the whole reply is there.    *)
Receive(c) ==
    /\ pc[c] = "recv"
    /\ pipe[c] \notin {"empty", "partial"}
    /\ Move(c, "deadline")
    /\ UNCHANGED <<slots, active, overdue, workerVars>>

ReceiveEof(c) ==
    /\ pc[c] = "recv"
    /\ pipe[c] \in {"empty", "partial"}
    /\ worker[c] = "exited"
    /\ Leave(c, "reap", "worker_failure")
    /\ UNCHANGED <<slots, active, overdue, workerVars>>

ReplyIsLate(c) ==
    /\ pc[c] = "deadline"
    /\ overdue[c]
    /\ Leave(c, "reap", "time_limit")
    /\ UNCHANGED <<slots, active, overdue, workerVars>>

(* Mutant: the clock is not read again after recv_bytes.                   *)
LoadLate(c) ==
    /\ pc[c] = "deadline"
    /\ Leave(c, "reap", pipe[c])
    /\ UNCHANGED <<slots, active, overdue, workerVars>>

(* The reply is the rows or the code of an error.                          *)
Load(c) ==
    /\ pc[c] = "deadline"
    /\ ~overdue[c]
    /\ Leave(c, "reap", pipe[c])
    /\ UNCHANGED <<slots, active, overdue, workerVars>>

(* Mutant: the worker is killed and not waited for.                        *)
KillUnjoined(c) ==
    /\ pc[c] = "reap"
    /\ worker[c] # "exited"
    /\ Move(c, "uncount")
    /\ UNCHANGED <<slots, active, overdue, workerVars>>

(* The finally clauses: a live worker is killed, and every worker joined,  *)
(* before the call is uncounted and its permit returned.                   *)
Kill(c) ==
    /\ pc[c] = "reap"
    /\ worker[c] # "exited"
    /\ worker' = [worker EXCEPT ![c] = "exited"]
    /\ UNCHANGED <<callVars, slots, active, overdue, pipe, punctual>>

Join(c) ==
    /\ pc[c] = "reap"
    /\ worker[c] = "exited"
    /\ worker' = [worker EXCEPT ![c] = "reaped"]
    /\ Move(c, "uncount")
    /\ UNCHANGED <<slots, active, overdue, pipe, punctual>>

CountOut(c) ==
    /\ pc[c] = "uncount"
    /\ active' = active - 1
    /\ Move(c, "release")
    /\ UNCHANGED <<slots, overdue, workerVars>>

Release(c) ==
    /\ pc[c] = "release"
    /\ slots' = slots + 1
    /\ Move(c, "done")
    /\ UNCHANGED <<active, overdue, workerVars>>

Begin(c) == Acquire(c) \/ Refuse(c)

Step(c) == \/ CountIn(c) \/ RejectSql(c) \/ RejectBinding(c) \/ RejectScan(c) \/ Admit(c)
           \/ Spawn(c) \/ PollReady(c) \/ GiveUp(c)
           \/ Receive(c) \/ ReceiveEof(c) \/ ReplyIsLate(c) \/ Load(c)
           \/ Kill(c) \/ Join(c) \/ CountOut(c) \/ Release(c)

-----------------------------------------------------------------------------
(* _query_worker.  The caller reads until it enters its finally clause,    *)
(* which closes the pipe.                                                  *)
Listening(c) == pc[c] \in {"poll", "recv"}

(* The rows are fetched and pickled whole before the first byte is sent; a *)
(* large reply reaches the caller in parts.                                *)
StartReply(c) ==
    /\ worker[c] = "running"
    /\ request[c].answer = "rows"
    /\ Listening(c)
    /\ worker' = [worker EXCEPT ![c] = "sending"]
    /\ pipe' = [pipe EXCEPT ![c] = "partial"]
    /\ UNCHANGED <<callVars, slots, active, overdue, punctual>>

FinishReply(c) ==
    /\ worker[c] = "sending"
    /\ Listening(c)
    /\ worker' = [worker EXCEPT ![c] = "sent"]
    /\ pipe' = [pipe EXCEPT ![c] = "rows"]
    /\ punctual' = [punctual EXCEPT ![c] = ~overdue[c]]
    /\ UNCHANGED <<callVars, slots, active, overdue>>

(* A limit or an error ends the query: its code is the reply.              *)
ReplyError(c) ==
    /\ worker[c] = "running"
    /\ request[c].answer # "rows"
    /\ Listening(c)
    /\ worker' = [worker EXCEPT ![c] = "sent"]
    /\ pipe' = [pipe EXCEPT ![c] = request[c].answer]
    /\ UNCHANGED <<callVars, slots, active, overdue, punctual>>

Exit(c) ==
    /\ worker[c] = "sent"
    /\ worker' = [worker EXCEPT ![c] = "exited"]
    /\ UNCHANGED <<callVars, slots, active, overdue, pipe, punctual>>

Work(c) == StartReply(c) \/ FinishReply(c) \/ ReplyError(c) \/ Exit(c)

-----------------------------------------------------------------------------
(* Faults and time                                                         *)

(* The operating system limits or the connection cannot be set up.         *)
SetupError(c) ==
    /\ worker[c] = "running"
    /\ Listening(c)
    /\ worker' = [worker EXCEPT ![c] = "sent"]
    /\ pipe' = [pipe EXCEPT ![c] = "worker_setup_failure"]
    /\ UNCHANGED <<callVars, slots, active, overdue, punctual>>

(* The worker is killed, or dies of an error it does not report.           *)
Die(c) ==
    /\ worker[c] \in {"running", "sending"}
    /\ worker' = [worker EXCEPT ![c] = "exited"]
    /\ UNCHANGED <<callVars, slots, active, overdue, pipe, punctual>>

(* Process.start fails: there is no process to reap.                       *)
SpawnError(c) ==
    /\ pc[c] = "spawn"
    /\ Leave(c, "uncount", "os_error")
    /\ UNCHANGED <<slots, active, overdue, workerVars>>

Fault(c) == SetupError(c) \/ Die(c) \/ SpawnError(c)

(* The limit passes.  Before the worker starts nothing looks at the clock, *)
(* so a limit that passes earlier is one that passes at "spawn".           *)
Expire(c) ==
    /\ pc[c] \in {"spawn", "poll", "recv", "deadline"}
    /\ ~overdue[c]
    /\ overdue' = [overdue EXCEPT ![c] = TRUE]
    /\ UNCHANGED <<callVars, slots, active, workerVars>>

Rest == (\A c \in Calls : pc[c] = "done") /\ UNCHANGED vars

Next == \/ \E c \in Calls : Begin(c) \/ Step(c) \/ Work(c) \/ Fault(c) \/ Expire(c)
        \/ Rest

(* Threads run and time passes; a worker that has begun to send goes on,   *)
(* but a query need never end.                                             *)
Spec == /\ Init
        /\ [][Next]_vars
        /\ \A c \in Calls : WF_vars(Step(c)) /\ WF_vars(FinishReply(c)) /\ WF_vars(Expire(c))

-----------------------------------------------------------------------------
Labels == {"idle", "count", "validate", "spawn", "poll", "recv",
           "deadline", "reap", "uncount", "release", "done"}

Codes == WorkerCodes \cup
         {"concurrency_limit", "unsupported_sql", "view_unavailable", "scan_limit",
          "time_limit", "worker_failure", "os_error"}

TypeOK == /\ pc \in [Calls -> Labels]
          /\ \A c \in Calls : request[c] \in Requests[c]
          /\ outcome \in [Calls -> Codes \cup {"none", "rows"}]
          /\ slots \in 0 .. MaxConcurrency
          /\ active \in 0 .. MaxConcurrency
          /\ overdue \in [Calls -> BOOLEAN]
          /\ worker \in [Calls -> {"none", "running", "sending", "sent", "exited", "reaped"}]
          /\ pipe \in [Calls -> WorkerCodes \cup {"empty", "partial", "rows"}]
          /\ punctual \in [Calls -> BOOLEAN]

Processes == {c \in Calls : worker[c] \notin {"none", "reaped"}}

(* The worker processes that exist, dying ones included, never outnumber   *)
(* the queries reported active, and those never outnumber the permits      *)
(* taken: max_concurrency bounds processes, not only calls.                *)
CapacityIsKept == /\ Cardinality(Processes) <= active
                  /\ active <= MaxConcurrency - slots

(* However calls end, once all have ended every permit is back, none is    *)
(* counted active and no process or unjoined child is left.                *)
NothingLeaks ==
    (\A c \in Calls : pc[c] \in {"idle", "done"}) =>
        slots = MaxConcurrency /\ active = 0 /\ Processes = {}

(* Rows are returned only for a legal query with every view bound, within  *)
(* the scan limit and all the worker's limits, and then only whole.        *)
RowsAreWhole ==
    \A c \in Calls : pc[c] = "done" /\ outcome[c] = "rows" =>
        /\ request[c].legal
        /\ Bound(request[c])
        /\ ScanBytes(request[c]) <= MaxScan
        /\ request[c].answer = "rows"
        /\ pipe[c] = "rows"

(* Rows whose transfer ended after the limit are not returned, even when   *)
(* it began before.                                                        *)
NoLateRows ==
    \A c \in Calls : pc[c] = "done" /\ outcome[c] = "rows" => punctual[c]

(* Every call that begins ends, whatever its query does.                   *)
EveryCallEnds == \A c \in Calls : pc[c] # "idle" ~> pc[c] = "done"
=============================================================================
