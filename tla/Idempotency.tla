----------------------------- MODULE Idempotency -----------------------------
(***************************************************************************)
(* The idempotency layer of the HTTP API: the middleware of                *)
(* internal/handlers/idempotency_middleware.go around every POST, and the  *)
(* idempotency_keys table of internal/repository/idempotency_repository.go.*)
(*                                                                         *)
(* A request is one POST: the client's first attempt or any retry of it,   *)
(* on any server process.  Behind the middleware stands the business       *)
(* operation, a job that takes effect at most once per request: a transfer *)
(* job outlives a handler that stopped waiting for it, see TransferService.*)
(***************************************************************************)
EXTENDS Integers, FiniteSets

CONSTANTS
    Keys,           \* Idempotency-Key values
    Requests,       \* POST requests, retries included
    Nobody,         \* no request
    KeyOf,          \* KeyOf[r]: the key request r carries
    HashOf,         \* HashOf[r]: SHA-256 of its method, path and body
    CanCrash,       \* may a process die (or a handler panic)
    StoreFaults,    \* may a statement on idempotency_keys fail
    CanGiveUp,      \* may a handler stop waiting for its job
    SlowHandlers,   \* may a request outlive the 60 second lease
    Sweeping        \* does the sweeper run, and a client retry, after 24 hours

ASSUME ConstantsAssumption ==
    /\ KeyOf \in [Requests -> Keys]
    /\ Nobody \notin Requests
    /\ \A b \in {CanCrash, StoreFaults, CanGiveUp, SlowHandlers, Sweeping} :
         b \in BOOLEAN

VARIABLES
    record,     \* record[k]: the row of key k
    pc,         \* where the middleware is with each request
    job,        \* the business operation behind each request
    status,     \* the HTTP status class of the response written for r
    source,     \* the request whose execution produced that response
    mishaps     \* history: the keys whose holder died, gave up or could not
                \* store its response, or whose row was swept

vars == <<record, pc, job, status, source, mishaps>>

Started(r) == [state |-> "started", hash |-> HashOf[r], code |-> "none",
               body |-> Nobody, age |-> "fresh"]
Absent == [state |-> "absent", hash |-> "none", code |-> "none",
           body |-> Nobody, age |-> "fresh"]

Key(r) == KeyOf[r]
Row(r) == record[Key(r)]

Init ==
    /\ record = [k \in Keys |-> Absent]
    /\ pc = [r \in Requests |-> "start"]
    /\ job = [r \in Requests |-> "none"]
    /\ status = [r \in Requests |-> "none"]
    /\ source = [r \in Requests |-> Nobody]
    /\ mishaps = {}

Goto(r, place) == pc' = [pc EXCEPT ![r] = place]

\* The middleware answers by itself and aborts the handler chain.
Answer(r, code, from) ==
    /\ Goto(r, "done")
    /\ status' = [status EXCEPT ![r] = code]
    /\ source' = [source EXCEPT ![r] = from]

\* The handler of r runs, or has run and its result is not stored yet.
Owners(k) == {r \in Requests : KeyOf[r] = k /\ pc[r] \in {"run", "wait", "store"}}

-----------------------------------------------------------------------------
(* TryLock and Get *)

\* Mutants: no lease, and a lease that never ends.
CanLockStarted(k)  == record[k].state # "completed"
CanLockAbsent(k)   == record[k].state = "absent"

\* INSERT ... ON CONFLICT DO UPDATE WHERE status = 'started' AND older than 60 s
CanLock(k) == \/ record[k].state = "absent"
              \/ record[k].state = "started" /\ record[k].age # "fresh"

TryLock(r) ==
    /\ pc[r] = "start"
    /\ IF CanLock(Key(r))
       THEN /\ record' = [record EXCEPT ![Key(r)] = Started(r)]
            /\ Goto(r, "run")
       ELSE /\ Goto(r, "read")
            /\ UNCHANGED record
    /\ UNCHANGED <<job, status, source, mishaps>>

\* The statement fails, with or without having had its effect: 500.
TryLockFails(r) ==
    /\ StoreFaults
    /\ pc[r] = "start"
    /\ \/ UNCHANGED record
       \/ CanLock(Key(r)) /\ record' = [record EXCEPT ![Key(r)] = Started(r)]
    /\ Answer(r, "error", Nobody)
    /\ UNCHANGED <<job, mishaps>>

\* Mutant: the payload is not compared with the one the key was used for.
ReplayUnchecked(r) == Answer(r, Row(r).code, Row(r).body)

\* A stored response is for the payload it was stored with.
Replay(r) ==
    IF Row(r).hash # HashOf[r]
    THEN Answer(r, "mismatch", Nobody)
    ELSE Answer(r, Row(r).code, Row(r).body)

\* Mutant: the answer to a request in progress does not end the handler.
ReadFallsThrough(r) ==
    /\ pc[r] = "read"
    /\ \/ Row(r).state = "absent"  /\ Answer(r, "error", Nobody)
       \/ Row(r).state = "started" /\ Goto(r, "run") /\ UNCHANGED <<status, source>>
       \/ Row(r).state = "completed" /\ Replay(r)
    /\ UNCHANGED <<record, job, mishaps>>

\* Mutant: a request waits for the one in progress.
ReadWaits(r) ==
    /\ pc[r] = "read"
    /\ \/ Row(r).state = "absent"  /\ Answer(r, "error", Nobody)
       \/ Row(r).state = "completed" /\ Replay(r)
    /\ UNCHANGED <<record, job, mishaps>>

\* Get: the row may have changed, or gone, since TryLock looked at it.
Read(r) ==
    /\ pc[r] = "read"
    /\ \/ Row(r).state = "absent"  /\ Answer(r, "error", Nobody)
       \/ Row(r).state = "started" /\ Answer(r, "conflict", Nobody)
       \/ Row(r).state = "completed" /\ Replay(r)
    /\ UNCHANGED <<record, job, mishaps>>

ReadFails(r) ==
    /\ StoreFaults
    /\ pc[r] = "read"
    /\ Answer(r, "error", Nobody)
    /\ UNCHANGED <<record, job, mishaps>>

-----------------------------------------------------------------------------
(* c.Next(): the handler and the business operation *)

Submit(r) ==
    /\ pc[r] = "run"
    /\ job' = [job EXCEPT ![r] = "queued"]
    /\ Goto(r, "wait")
    /\ UNCHANGED <<record, status, source, mishaps>>

\* The operation commits, is refused on its merits, or fails without effect;
\* nobody need be waiting for it any more.
JobEnds(r) ==
    /\ job[r] = "queued"
    /\ \E result \in {"committed", "refused", "failed"} :
         job' = [job EXCEPT ![r] = result]
    /\ UNCHANGED <<record, pc, status, source, mishaps>>

CodeOf == [committed |-> "ok", refused |-> "refused", failed |-> "error"]

\* The handler writes its response, which is stored after that.
Respond(r, code) ==
    /\ status' = [status EXCEPT ![r] = code]
    /\ source' = [source EXCEPT ![r] = r]
    /\ Goto(r, "store")
    /\ UNCHANGED <<record, job>>

JobAnswered(r) ==
    /\ pc[r] = "wait" /\ job[r] \notin {"none", "queued"}
    /\ Respond(r, CodeOf[job[r]])
    /\ UNCHANGED mishaps

\* The request's context ends while the job is under way: 500.
GiveUp(r) ==
    /\ CanGiveUp
    /\ pc[r] = "wait"
    /\ Respond(r, "error")
    /\ mishaps' = mishaps \cup {Key(r)}

-----------------------------------------------------------------------------
(* After c.Next() *)

\* DELETE ... WHERE key, after a server error; UPDATE ... WHERE key otherwise.
\* Neither looks at who holds the key.
Store(r) ==
    /\ pc[r] = "store"
    /\ record' = [record EXCEPT ![Key(r)] =
                    IF status[r] = "error" THEN Absent
                    ELSE IF @.state = "absent" THEN @
                    ELSE [@ EXCEPT !.state = "completed", !.code = status[r],
                                   !.body = r]]
    /\ Goto(r, "done")
    /\ UNCHANGED <<job, status, source, mishaps>>

\* The error of Update and Delete is ignored.
StoreFails(r) ==
    /\ StoreFaults
    /\ pc[r] = "store"
    /\ Goto(r, "done")
    /\ mishaps' = mishaps \cup {Key(r)}
    /\ UNCHANGED <<record, job, status, source>>

-----------------------------------------------------------------------------
(* Time, crashes and the sweeper *)

\* The process dies, or the handler panics past the middleware.  A commit on
\* its way to the database may still happen.
Crash(r) ==
    /\ CanCrash
    /\ pc[r] \notin {"start", "done", "dead"}
    /\ Goto(r, "dead")
    /\ mishaps' = mishaps \cup {Key(r)}
    /\ UNCHANGED <<record, job, status, source>>

\* 60 seconds pass since the key was locked.
LeaseEnds(k) ==
    /\ record[k].state # "absent" /\ record[k].age = "fresh"
    /\ SlowHandlers \/ Owners(k) = {}
    /\ record' = [record EXCEPT ![k].age = "stale"]
    /\ UNCHANGED <<pc, job, status, source, mishaps>>

\* 24 hours pass, and SweepExpiredKeys deletes the row whatever its status.
Expire(k) ==
    /\ Sweeping
    /\ record[k].state # "absent" /\ record[k].age = "stale"
    /\ Owners(k) = {}
    /\ record' = [record EXCEPT ![k].age = "expired"]
    /\ UNCHANGED <<pc, job, status, source, mishaps>>

Sweep(k) ==
    /\ Sweeping
    /\ record[k].age = "expired"
    /\ record' = [record EXCEPT ![k] = Absent]
    /\ mishaps' = mishaps \cup {k}
    /\ UNCHANGED <<pc, job, status, source>>

Handle(r) == TryLock(r) \/ Read(r) \/ Submit(r) \/ JobAnswered(r) \/ Store(r)

Fault(r) == TryLockFails(r) \/ ReadFails(r) \/ GiveUp(r) \/ StoreFails(r) \/ Crash(r)

Next == \/ \E r \in Requests : Handle(r) \/ JobEnds(r) \/ Fault(r)
        \/ \E k \in Keys : LeaseEnds(k) \/ Expire(k) \/ Sweep(k)

Spec == Init /\ [][Next]_vars

\* A live handler goes on, a job ends, and time passes.
Fairness == /\ \A r \in Requests : WF_vars(Handle(r)) /\ WF_vars(JobEnds(r))
            /\ \A k \in Keys : WF_vars(LeaseEnds(k))

FairSpec == Spec /\ Fairness

-----------------------------------------------------------------------------
(* Properties *)

\* The requests of key k whose operation took effect.
Effects(k) == {r \in Requests : KeyOf[r] = k /\ job[r] = "committed"}

\* "IdempotencyMiddleware ensures POST mutating requests process exactly once":
\* whatever clients send and resend, concurrently and after errors, the
\* operation behind a key takes effect at most once.
AtMostOneEffect == \A k \in Keys : Cardinality(Effects(k)) <= 1

\* What the layer does guarantee: the same, for a key none of whose holders has
\* died, given up on its operation or failed to store its response, and whose
\* row has not been swept, as long as no holder outlives its lease.  Concurrent
\* copies of a request, other payloads, server errors, and failures to lock or
\* to read the key never cause a second execution.
AtMostOneWithoutMishap ==
    \A k \in Keys \ mishaps : Cardinality(Effects(k)) <= 1

\* No two handlers work for the same key at the same time, and a key that is held
\* is locked: its row says so, for the payload it was locked with, and neither a
\* late Update or Delete of another request nor the sweeper takes that away.
OneOwner ==
    \A k \in Keys :
        /\ Cardinality(Owners(k)) <= 1
        /\ \A r \in Owners(k) : record[k].state = "started" /\ record[k].hash = HashOf[r]

\* A response is the one of an execution of the same payload under the same
\* key, with the status that execution got; a success is one of an operation
\* that took effect.
ReplayFaithful ==
    \A r \in Requests : source[r] # Nobody =>
        LET s == source[r]
        IN  /\ KeyOf[s] = KeyOf[r] /\ HashOf[s] = HashOf[r]
            /\ status[s] = status[r]
            /\ status[r] = "ok" => job[s] = "committed"

\* Every request is answered unless its process dies.
EveryRequestAnswered ==
    \A r \in Requests : pc[r] = "start" ~> pc[r] \in {"done", "dead"}

\* A key left behind locked, by a crash or a failed statement, does not stay
\* locked against retries: it is stored, released or open to takeover.
KeyComesFree ==
    \A k \in Keys :
        record[k].state = "started" ~> record[k].state = "completed" \/ CanLock(k)
=============================================================================
