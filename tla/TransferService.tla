--------------------------- MODULE TransferService ---------------------------
(***************************************************************************)
(* The in-memory micro-batcher of internal/services/transfer_service.go:   *)
(* callers of ProcessTransfer (one goroutine per HTTP request), the        *)
(* bounded job queue, and the single batch worker with its flush timer,    *)
(* its context filter, its sequential fallback and its shutdown drain.     *)
(*                                                                         *)
(* The database is the account book: a batch takes effect whole or not at  *)
(* all in one step (module LedgerDB shows why), fails for the reason       *)
(* process_transfer_batch finds, or fails with the connection - before the *)
(* commit, or after it with the acknowledgement lost.                      *)
(***************************************************************************)
EXTENDS Postings, FiniteSets

CONSTANTS
    Requests,       \* calls of ProcessTransfer
    TransferOf,     \* TransferOf[r]: the transfer call r asks for
    Opening,        \* balances of the open wallets
    MaxBalance,     \* the largest BIGINT
    Capacity,       \* capacity of jobQueue (5000)
    BatchSize,      \* batchSize (50)
    DbFaults,       \* subset of {"abort", "lostAck"}
    CanCancel,      \* may a caller's context end
    CanStop,        \* may Stop be called
    MaxOutside      \* bound: postings by other clients of the database

Wallets == DOMAIN Opening
Refusals == {"invalid", "notfound", "insufficient"}
Results == Refusals \cup {"ok", "error", "cancelled"}

ASSUME ConstantsAssumption ==
    /\ \A r \in Requests :
         TransferOf[r] \in [from : Int, to : Int, amount : Int]
    /\ MaxBalance \in Nat
    /\ Opening \in [Wallets -> 0 .. MaxBalance]
    /\ Capacity \in Nat \ {0}
    /\ BatchSize \in Nat \ {0}
    /\ DbFaults \subseteq {"abort", "lostAck"}
    /\ CanCancel \in BOOLEAN /\ CanStop \in BOOLEAN
    /\ MaxOutside \in Nat

VARIABLES
    caller,     \* "new", "waiting" on its select, or "returned"
    ctx,        \* "live" or "done": the request's context
    chan,       \* ResultChan: "empty" or the error in its buffer
    returned,   \* what ProcessTransfer returned
    queue,      \* jobQueue
    stopping,   \* stopChan is closed
    worker,     \* where the worker goroutine is
    phase,      \* "run" in the outer select, "drain" or "final" while stopping
    batch,      \* the slice jobs are collected in
    timer,      \* "off", "armed" or "fired"
    rest,       \* jobs the current loop of executeBatch has yet to visit
    valid,      \* validJobs
    answer,     \* the error the last repository call returned
    balance,    \* wallets.balance
    applied,    \* the jobs executed in the database, in commit order
    accepted,   \* history: the jobs that entered the queue, in order
    replies,    \* history: results sent to each job's ResultChan
    quitters,   \* history: callers who gave up before their batch was flushed
    outside     \* postings by other clients so far

callerVars == <<caller, returned>>
workerVars == <<worker, phase, batch, timer, rest, valid, answer>>
dbVars     == <<balance, applied>>
vars == <<callerVars, workerVars, dbVars, ctx, chan, queue, stopping, accepted,
          replies, quitters, outside>>

Init ==
    /\ caller = [r \in Requests |-> "new"]
    /\ ctx = [r \in Requests |-> "live"]
    /\ chan = [r \in Requests |-> "empty"]
    /\ returned = [r \in Requests |-> "none"]
    /\ queue = <<>>
    /\ stopping = FALSE
    /\ worker = "off" /\ phase = "run"
    /\ batch = <<>> /\ rest = <<>> /\ valid = <<>>
    /\ timer = "off"
    /\ answer = "none"
    /\ balance = Opening
    /\ applied = <<>>
    /\ accepted = <<>>
    /\ replies = [r \in Requests |-> 0]
    /\ quitters = {}
    /\ outside = 0

-----------------------------------------------------------------------------
(* ProcessTransfer *)

Malformed(j) == j.from <= 0 \/ j.to <= 0 \/ j.amount <= 0 \/ j.from = j.to

Return(r, result) ==
    /\ caller' = [caller EXCEPT ![r] = "returned"]
    /\ returned' = [returned EXCEPT ![r] = result]

RejectMalformed(r) ==
    /\ caller[r] = "new"
    /\ Malformed(TransferOf[r])
    /\ Return(r, "invalid")
    /\ UNCHANGED <<workerVars, dbVars, ctx, chan, queue, stopping, accepted,
                   replies, outside, quitters>>

\* Mutant: the queue has no limit.
EnqueueUnbounded(r) ==
    /\ caller[r] = "new"
    /\ ~Malformed(TransferOf[r])
    /\ queue' = Append(queue, r)
    /\ accepted' = Append(accepted, r)
    /\ caller' = [caller EXCEPT ![r] = "waiting"]
    /\ UNCHANGED <<returned, workerVars, dbVars, ctx, chan, stopping, replies,
                   outside, quitters>>

\* The send succeeds only while the buffer has room.
Enqueue(r) ==
    /\ caller[r] = "new"
    /\ ~Malformed(TransferOf[r])
    /\ Len(queue) < Capacity
    /\ queue' = Append(queue, r)
    /\ accepted' = Append(accepted, r)
    /\ caller' = [caller EXCEPT ![r] = "waiting"]
    /\ UNCHANGED <<returned, workerVars, dbVars, ctx, chan, stopping, replies,
                   outside, quitters>>

\* select default: the caller is told at once that the queue is full.
RejectFull(r) ==
    /\ caller[r] = "new"
    /\ ~Malformed(TransferOf[r])
    /\ Len(queue) >= Capacity
    /\ Return(r, "queuefull")
    /\ UNCHANGED <<workerVars, dbVars, ctx, chan, queue, stopping, accepted,
                   replies, outside, quitters>>

ReturnResult(r) ==
    /\ caller[r] = "waiting"
    /\ chan[r] # "empty"
    /\ Return(r, chan[r])
    /\ chan' = [chan EXCEPT ![r] = "empty"]
    /\ UNCHANGED <<workerVars, dbVars, ctx, queue, stopping, accepted, replies,
                   outside, quitters>>

ReturnCancelled(r) ==
    /\ caller[r] = "waiting"
    /\ ctx[r] = "done"
    /\ Return(r, "cancelled")
    /\ UNCHANGED <<workerVars, dbVars, ctx, chan, queue, stopping, accepted,
                   replies, outside, quitters>>

\* r waits in the queue or in the slice, before executeBatch has looked at it.
Unfiltered(r) ==
    \E jobs \in {queue, batch} :
        /\ \E i \in 1 .. Len(jobs) : jobs[i] = r
        /\ jobs = batch => worker \in {"select", "drain"}

\* The client goes away or its deadline passes.
Cancel(r) ==
    /\ CanCancel
    /\ ctx[r] = "live" /\ caller[r] # "returned"
    /\ ctx' = [ctx EXCEPT ![r] = "done"]
    /\ quitters' = quitters \cup (IF caller[r] = "new" \/ Unfiltered(r) THEN {r} ELSE {})
    /\ UNCHANGED <<callerVars, workerVars, dbVars, chan, queue, stopping,
                   accepted, replies, outside>>

-----------------------------------------------------------------------------
(* The worker's loop: StartBatchWorker *)

callerSide == <<callerVars, ctx, chan, stopping, accepted, replies, outside, quitters>>

Start ==
    /\ worker = "off"
    /\ worker' = "select"
    /\ UNCHANGED <<phase, batch, timer, rest, valid, answer, queue, dbVars,
                   callerSide>>

\* Where the worker goes when a flush is over.
Resume == [run |-> "select", drain |-> "drain", final |-> "stopped"][phase]

\* flush(): nothing to do on an empty batch, else executeBatch begins.
Flush(b, resume) ==
    IF b = <<>>
    THEN /\ worker' = resume
         /\ UNCHANGED <<rest, valid>>
    ELSE /\ worker' = "filter"
         /\ rest' = b
         /\ valid' = <<>>

\* Mutant: a full batch is flushed with the timer still running.
ReceiveTimerRuns ==
    /\ worker = "select" /\ queue # <<>>
    /\ queue' = Tail(queue)
    /\ batch' = Append(batch, Head(queue))
    /\ timer' = IF batch = <<>> THEN "armed" ELSE timer
    /\ IF Len(batch') >= BatchSize
       THEN Flush(batch', "select")
       ELSE UNCHANGED <<worker, rest, valid>>
    /\ UNCHANGED <<phase, answer, dbVars, callerSide>>

\* case job := <-s.jobQueue
Receive ==
    /\ worker = "select" /\ queue # <<>>
    /\ queue' = Tail(queue)
    /\ batch' = Append(batch, Head(queue))
    /\ IF Len(batch') >= BatchSize
       THEN timer' = "off" /\ Flush(batch', "select")
       ELSE /\ timer' = IF batch = <<>> THEN "armed" ELSE timer
            /\ UNCHANGED <<worker, rest, valid>>
    /\ UNCHANGED <<phase, answer, dbVars, callerSide>>

TimerFires ==
    /\ timer = "armed"
    /\ timer' = "fired"
    /\ UNCHANGED <<worker, phase, batch, rest, valid, answer, queue, dbVars,
                   callerSide>>

\* case <-timer.C
Tick ==
    /\ worker = "select" /\ timer = "fired"
    /\ timer' = "off"
    /\ Flush(batch, "select")
    /\ UNCHANGED <<phase, batch, answer, queue, dbVars, callerSide>>

\* case <-s.stopChan
SeeStop ==
    /\ worker = "select" /\ stopping
    /\ worker' = "drain"
    /\ phase' = "drain"
    /\ UNCHANGED <<batch, timer, rest, valid, answer, queue, dbVars, callerSide>>

\* Mutant: what was queued is put before what the slice already holds.
DrainJobInFront ==
    /\ worker = "drain" /\ queue # <<>>
    /\ queue' = Tail(queue)
    /\ batch' = <<Head(queue)>> \o batch
    /\ IF Len(batch') >= BatchSize
       THEN Flush(batch', "drain")
       ELSE UNCHANGED <<worker, rest, valid>>
    /\ UNCHANGED <<phase, timer, answer, dbVars, callerSide>>

\* The drain loop: take what is queued, flushing full batches ...
DrainJob ==
    /\ worker = "drain" /\ queue # <<>>
    /\ queue' = Tail(queue)
    /\ batch' = Append(batch, Head(queue))
    /\ IF Len(batch') >= BatchSize
       THEN Flush(batch', "drain")
       ELSE UNCHANGED <<worker, rest, valid>>
    /\ UNCHANGED <<phase, timer, answer, dbVars, callerSide>>

\* Mutant: the worker returns without the last flush.
DrainEndDropping ==
    /\ worker = "drain" /\ queue = <<>>
    /\ worker' = "stopped"
    /\ phase' = "final"
    /\ UNCHANGED <<batch, timer, rest, valid, answer, queue, dbVars, callerSide>>

\* Mutant: break, which leaves the select but not the loop, for return.
DrainEndLooping ==
    /\ worker = "drain" /\ queue = <<>>
    /\ Flush(batch, "drain")
    /\ UNCHANGED <<phase, batch, timer, answer, queue, dbVars, callerSide>>

\* ... until the queue is empty, then flush once more and return.
DrainEnd ==
    /\ worker = "drain" /\ queue = <<>>
    /\ phase' = "final"
    /\ Flush(batch, "stopped")
    /\ UNCHANGED <<batch, timer, answer, queue, dbVars, callerSide>>

-----------------------------------------------------------------------------
(* executeBatch *)

\* job.ResultChan <- err.  The channel holds one result; a second send while
\* the first is unread would block the worker.
Send(r, result) ==
    /\ chan[r] = "empty"
    /\ chan' = [chan EXCEPT ![r] = result]
    /\ replies' = [replies EXCEPT ![r] = @ + 1]

\* executeBatch returns and flush empties the batch.
EndFlush == /\ worker' = Resume
            /\ batch' = <<>>
            /\ valid' = <<>>
            /\ answer' = "none"

\* Mutant: no look at the context.
FilterNothing ==
    /\ worker = "filter" /\ rest # <<>>
    /\ rest' = Tail(rest)
    /\ valid' = Append(valid, Head(rest))
    /\ UNCHANGED <<worker, phase, batch, timer, answer, callerVars, ctx, queue,
                   dbVars, stopping, accepted, outside, quitters, chan, replies>>

\* The filter loop: a job whose context has ended is answered, not executed.
Filter ==
    /\ worker = "filter" /\ rest # <<>>
    /\ rest' = Tail(rest)
    /\ LET r == Head(rest)
       IN  IF ctx[r] = "done"
           THEN Send(r, "cancelled") /\ UNCHANGED valid
           ELSE valid' = Append(valid, r) /\ UNCHANGED <<chan, replies>>
    /\ UNCHANGED <<worker, phase, batch, timer, answer, callerVars, ctx, queue,
                   dbVars, stopping, accepted, outside, quitters>>

FilterEnd ==
    /\ worker = "filter" /\ rest = <<>>
    /\ IF valid = <<>>
       THEN EndFlush
       ELSE worker' = "call" /\ UNCHANGED <<batch, valid, answer>>
    /\ UNCHANGED <<phase, timer, rest, queue, dbVars, callerSide>>

\* One call of the stored procedure for the transfers of jobs.
Transfers(jobs) == [i \in 1 .. Len(jobs) |-> TransferOf[jobs[i]]]

Execute(jobs) ==
    LET transfers == Transfers(jobs)
        verdict == BatchVerdict(Wallets, balance, transfers, MaxBalance)
    IN  \/ /\ verdict = "ok"
           /\ balance' = Trail(balance, transfers)[Len(transfers)]
           /\ applied' = applied \o jobs
           /\ answer' \in {"ok"} \cup (IF "lostAck" \in DbFaults THEN {"error"} ELSE {})
        \/ /\ verdict # "ok"
           /\ answer' = verdict
           /\ UNCHANGED dbVars
        \/ /\ "abort" \in DbFaults
           /\ answer' = "error"
           /\ UNCHANGED dbVars

\* Mutant: the fallback runs after a batch that succeeded.
ExecuteBatchAndRetry ==
    /\ worker = "call"
    /\ Execute(valid)
    /\ rest' = valid
    /\ worker' = "retry"
    /\ UNCHANGED <<phase, batch, timer, valid, queue, callerSide>>

\* transferRepo.ExecuteBatch under context.Background()
ExecuteBatch ==
    /\ worker = "call"
    /\ Execute(valid)
    /\ rest' = valid
    /\ worker' = IF answer' = "ok" THEN "reply" ELSE "retry"
    /\ UNCHANGED <<phase, batch, timer, valid, queue, callerSide>>

\* The fast path: every job of the batch succeeded.
ReplyAll ==
    /\ worker = "reply"
    /\ IF rest = <<>>
       THEN EndFlush /\ UNCHANGED <<rest, chan, replies>>
       ELSE /\ Send(Head(rest), "ok")
            /\ rest' = Tail(rest)
            /\ UNCHANGED <<worker, batch, valid, answer>>
    /\ UNCHANGED <<phase, timer, callerVars, ctx, queue, dbVars,
                   stopping, accepted, outside, quitters>>

\* Mutant: no fallback, every job gets the error of the batch.
RetryCheckBatchError ==
    /\ worker = "retry" /\ rest # <<>>
    /\ worker' = "answer"
    /\ UNCHANGED <<phase, batch, timer, valid, answer, callerVars, ctx, queue,
                   dbVars, stopping, accepted, outside, quitters, rest, chan, replies>>

\* The fallback looks at the job's context again ...
RetryCheck ==
    /\ worker = "retry" /\ rest # <<>>
    /\ LET r == Head(rest)
       IN  IF ctx[r] = "done"
           THEN Send(r, "cancelled") /\ rest' = Tail(rest) /\ UNCHANGED worker
           ELSE worker' = "single" /\ UNCHANGED <<rest, chan, replies>>
    /\ UNCHANGED <<phase, batch, timer, valid, answer, callerVars, ctx, queue,
                   dbVars, stopping, accepted, outside, quitters>>

\* ... executes it on its own (ExecuteTransfer) ...
ExecuteSingle ==
    /\ worker = "single"
    /\ Execute(<<Head(rest)>>)
    /\ worker' = "answer"
    /\ UNCHANGED <<phase, batch, timer, rest, valid, queue, callerSide>>

\* Mutant: the single result is taken for a success.
AnswerSingleOk ==
    /\ worker = "answer"
    /\ Send(Head(rest), "ok")
    /\ rest' = Tail(rest)
    /\ worker' = "retry"
    /\ UNCHANGED <<phase, batch, timer, valid, answer, callerVars, ctx, queue,
                   dbVars, stopping, accepted, outside, quitters>>

\* ... and sends it its own result.
AnswerSingle ==
    /\ worker = "answer"
    /\ Send(Head(rest), answer)
    /\ rest' = Tail(rest)
    /\ worker' = "retry"
    /\ UNCHANGED <<phase, batch, timer, valid, answer, callerVars, ctx, queue,
                   dbVars, stopping, accepted, outside, quitters>>

RetryEnd ==
    /\ worker = "retry" /\ rest = <<>>
    /\ EndFlush
    /\ UNCHANGED <<phase, timer, rest, queue, dbVars, callerSide>>

-----------------------------------------------------------------------------
(* The rest of the process and of the world *)

\* Stop() closes stopChan; its wg.Wait() is over once the worker has stopped.
Stop ==
    /\ CanStop /\ ~stopping
    /\ stopping' = TRUE
    /\ UNCHANGED <<callerVars, workerVars, dbVars, ctx, chan, queue, accepted,
                   replies, outside, quitters>>

\* Other clients deposit and withdraw at any moment.
OutsidePosting ==
    /\ outside < MaxOutside
    /\ outside' = outside + 1
    /\ \E w \in Wallets, d \in {-1, 1} :
         /\ balance[w] + d \in 0 .. MaxBalance
         /\ balance' = [balance EXCEPT ![w] = @ + d]
    /\ UNCHANGED <<callerVars, workerVars, ctx, chan, queue, applied, stopping,
                   accepted, replies, quitters>>

CallerStep(r) == RejectMalformed(r) \/ Enqueue(r) \/ RejectFull(r)
CallerWakes(r) == ReturnResult(r) \/ ReturnCancelled(r)

Work == \/ Start \/ Receive \/ Tick \/ SeeStop \/ DrainJob \/ DrainEnd
        \/ Filter \/ FilterEnd \/ ExecuteBatch \/ ReplyAll
        \/ RetryCheck \/ ExecuteSingle \/ AnswerSingle \/ RetryEnd

Next == \/ \E r \in Requests : CallerStep(r) \/ CallerWakes(r) \/ Cancel(r)
        \/ Work \/ TimerFires \/ Stop \/ OutsidePosting

Spec == Init /\ [][Next]_vars

\* The Go scheduler runs a goroutine that can run; a timer fires in the end.
Fairness == /\ WF_vars(Work)
            /\ WF_vars(TimerFires)
            /\ \A r \in Requests : WF_vars(CallerWakes(r))

FairSpec == Spec /\ Fairness

-----------------------------------------------------------------------------
(* Properties *)

\* Every variable has its type; the queue and the batch keep to their limits,
\* and only jobs that entered the queue are ever handled.
TypeOK ==
    /\ caller \in [Requests -> {"new", "waiting", "returned"}]
    /\ ctx \in [Requests -> {"live", "done"}]
    /\ chan \in [Requests -> Results \cup {"empty"}]
    /\ returned \in [Requests -> Results \cup {"none", "queuefull"}]
    /\ queue \in Seq(Requests) /\ Len(queue) <= Capacity
    /\ batch \in Seq(Requests) /\ Len(batch) <= BatchSize
    /\ rest \in Seq(Requests) /\ valid \in Seq(Requests)
    /\ applied \in Seq(Requests) /\ accepted \in Seq(Requests)
    /\ stopping \in BOOLEAN
    /\ worker \in {"off", "select", "filter", "call", "reply", "retry", "single",
                   "answer", "drain", "stopped"}
    /\ phase \in {"run", "drain", "final"}
    /\ timer \in {"off", "armed", "fired"}
    /\ answer \in Results \cup {"none"}
    /\ balance \in [Wallets -> 0 .. MaxBalance]
    /\ replies \in [Requests -> Nat]
    /\ quitters \subseteq Requests
    /\ outside \in 0 .. MaxOutside

\* How often the transfer of r took effect.
Times(r) == Cardinality({i \in 1 .. Len(applied) : applied[i] = r})

Told(r, result) == chan[r] = result \/ returned[r] = result

\* Unless an acknowledgement is lost, the fallback after a failed batch never
\* executes a transfer a second time, whoever fails, gives up or interferes.
AtMostOnce == \A r \in Requests : Times(r) <= 1

\* What the worker sends is true: "ok" of a transfer that took effect, anything
\* else (an error of the request, of the database, of the context) of one
\* that did not and never will.
RepliesTruthful ==
    \A r \in Requests :
        /\ Told(r, "ok") => Times(r) = 1
        /\ \A result \in Refusals \cup {"error"} : Told(r, result) => Times(r) = 0
        /\ chan[r] = "cancelled" => Times(r) = 0

\* While jobs wait in the slice the timer that flushes them is running, and it
\* runs for nothing else: no batch is stranded, no stale tick cuts one short.
NeverStranded ==
    worker = "select" => (batch # <<>> <=> timer # "off")

\* The place of a request in the queue's order of arrival.
Position(r) == CHOOSE i \in 1 .. Len(accepted) : accepted[i] = r

\* Transfers take effect in the order they entered the queue, also through the
\* fallback and the shutdown drain: a transfer may rely on funds an earlier
\* one brings.
FirstComeFirstServed ==
    \A i, j \in 1 .. Len(applied) :
        i < j => Position(applied[i]) < Position(applied[j])

\* What r takes from wallet w if it gets past the checks of ProcessTransfer.
Debit(r, w) ==
    IF TransferOf[r].from = w /\ ~Malformed(TransferOf[r]) THEN TransferOf[r].amount ELSE 0

\* All that anybody asks of wallet w.
Places == 1 .. Cardinality(Requests)
Everyone == CHOOSE e \in [Places -> Requests] : \A r \in Requests : \E i \in Places : e[i] = r
Spent(w) == SumOf([i \in Places |-> Debit(Everyone[i], w)])

\* The transfers whose sender can pay for everything anybody asks of it.
Innocent(r) ==
    LET j == TransferOf[r]
    IN  /\ ~Malformed(j) /\ {j.from, j.to} \subseteq Wallets
        /\ Opening[j.from] >= Spent(j.from) + MaxOutside

\* README.md, "ensuring the single invalid transfer receives a 400 error while
\* the remaining 49 transfers commit": no transfer is refused for the sake of
\* another one in its batch.
InnocentNeverRefused ==
    \A r \in Requests, result \in Refusals :
        Told(r, result) => ~Innocent(r)

\* transfer_service.go, "Client already gave up; ... do NOT execute transfer in
\* DB": holds when the client gives up before its batch is flushed.
GaveUpInTime == \A r \in quitters : Times(r) = 0

\* "process exactly once": a caller told "ok" had its transfer executed once.
OkExactlyOnce == \A r \in Requests : returned[r] = "ok" => Times(r) = 1

\* A job that is in the queue before Stop is called is answered, and its caller
\* returns: neither a full batch, nor a failing one, nor the shutdown drops it.
EveryJobAnswered ==
    \A r \in Requests :
        caller[r] = "waiting" /\ ~stopping ~> caller[r] = "returned"

\* Stop() returns: the worker comes to its end whatever it was doing.
WorkerStops == stopping ~> worker = "stopped"
=============================================================================
