-------------------------- MODULE Idempotency_proofs --------------------------
(***************************************************************************)
(* Theorems about Idempotency for every set of keys and requests, every    *)
(* assignment of keys and payloads to requests, and every combination of   *)
(* crashes, failed statements, handlers that give up and sweeps, checked   *)
(* by TLAPS.  They assume that no handler outlives the lease of its key.   *)
(***************************************************************************)
EXTENDS Idempotency, FiniteSetTheorems, TLAPS

Holds(r) == pc[r] \in {"run", "wait", "store"}

Rows == [state : {"absent", "started", "completed"},
         hash : {"none"} \cup {HashOf[r] : r \in Requests},
         code : {"none", "ok", "refused"},
         body : Requests \cup {Nobody},
         age : {"fresh", "stale", "expired"}]

Places == {"start", "read", "run", "wait", "store", "done", "dead"}

Types ==
    /\ record \in [Keys -> Rows]
    /\ pc \in [Requests -> Places]
    /\ job \in [Requests -> {"none", "queued", "committed", "refused", "failed"}]
    /\ status \in [Requests -> {"none", "ok", "refused", "error", "mismatch",
                                "conflict"}]
    /\ source \in [Requests -> Requests \cup {Nobody}]
    /\ mishaps \subseteq Keys

\* A key has one holder, whose row is locked under a running lease.
OneHolder ==
    /\ \A r, s \in Requests : Holds(r) /\ Holds(s) /\ Key(r) = Key(s) => r = s
    /\ \A r \in Requests : Holds(r) =>
         Row(r).state = "started" /\ Row(r).hash = HashOf[r] /\ Row(r).age = "fresh"

\* A request has an operation once its handler submitted it, and a response of
\* its own, which is the operation's unless the handler gave up.
OwnResponse ==
    \A r \in Requests :
        /\ pc[r] \in {"start", "read", "run"} => job[r] = "none"
        /\ pc[r] = "wait" => job[r] # "none"
        /\ pc[r] = "store" =>
             /\ source[r] = r
             /\ status[r] \in {"ok", "refused", "error"}
             /\ status[r] = "ok" => job[r] = "committed"
             /\ Key(r) \notin mishaps =>
                  job[r] \notin {"none", "queued"} /\ status[r] = CodeOf[job[r]]

\* A response that was produced by an execution stays that execution's: the
\* request it comes from has its response already.
Faithful(r) ==
    LET s == source[r]
    IN  /\ s \in Requests /\ pc[s] \in {"store", "done", "dead"}
        /\ Key(s) = Key(r) /\ HashOf[s] = HashOf[r]
        /\ status[s] = status[r]
        /\ status[r] = "ok" => job[s] = "committed"

Sources == \A r \in Requests : source[r] # Nobody => Faithful(r)

\* A completed row is the response of one request of its key.
StoredResponse(k) ==
    LET b == record[k].body
    IN  /\ b \in Requests /\ pc[b] = "done"
        /\ Key(b) = k /\ HashOf[b] = record[k].hash
        /\ status[b] = record[k].code /\ record[k].code \in {"ok", "refused"}
        /\ status[b] = "ok" => job[b] = "committed"

Stored == \A k \in Keys : record[k].state = "completed" => StoredResponse(k)

\* Without a mishap, the operation of a request takes effect only while the
\* request holds its key, and once it has, the key's row keeps that response.
Accounted(r) ==
    \/ pc[r] \in {"wait", "store"}
    \/ pc[r] = "done" /\ Row(r).state = "completed" /\ Row(r).body = r

Effective ==
    \A r \in Requests :
        Key(r) \notin mishaps /\ job[r] \in {"queued", "committed"} => Accounted(r)

IInv == Types /\ OneHolder /\ OwnResponse /\ Sources /\ Stored /\ Effective

-----------------------------------------------------------------------------
(* Requests the middleware answers by itself *)

\* The middleware answers request r by itself, for the execution of b or for
\* none; Answered tells what that changes, request by request.
Answered(r, code, b) ==
    /\ pc'[r] = "done" /\ status'[r] = code /\ source'[r] = b
    /\ \A s \in Requests \ {r} :
         pc'[s] = pc[s] /\ status'[s] = status[s] /\ source'[s] = source[s]

LEMMA AnswerIsAnswered ==
    ASSUME Types, NEW r \in Requests, NEW code, NEW b, Answer(r, code, b)
    PROVE  Answered(r, code, b)
BY DEF Types, Answer, Answered, Goto

\* Answering disturbs nothing if the answer is nobody's, or the response of an
\* execution that has it and belongs to the same key and payload.
LEMMA AnswerKeeps ==
    ASSUME IInv, NEW r \in Requests, pc[r] \in {"start", "read"},
           NEW code \in {"ok", "refused", "error", "mismatch", "conflict"},
           NEW b \in Requests \cup {Nobody},
           Answer(r, code, b), UNCHANGED <<record, job, mishaps>>,
           b # Nobody => /\ b # r /\ pc[b] = "done"
                         /\ Key(b) = Key(r) /\ HashOf[b] = HashOf[r]
                         /\ status[b] = code
                         /\ code = "ok" => job[b] = "committed"
    PROVE  IInv'
<1> USE ConstantsAssumption DEF Key, Row
<1>1. Answered(r, code, b)
  BY AnswerIsAnswered DEF IInv
<1>2. Types'
  BY DEF IInv, Types, Places, Rows, Answer, Goto
<1>3. OneHolder'
  BY <1>1 DEF Answered, IInv, OneHolder, Holds
<1>4. OwnResponse'
  BY <1>1 DEF Answered, IInv, OwnResponse
<1>5. Sources'
  BY <1>1 DEF Answered, IInv, Sources, Faithful
<1>6. Stored'
  BY <1>1 DEF Answered, IInv, Stored, StoredResponse
<1>7. Effective'
  BY <1>1 DEF Answered, IInv, Effective, Accounted, OwnResponse
<1>. QED  BY <1>2, <1>3, <1>4, <1>5, <1>6, <1>7 DEF IInv

-----------------------------------------------------------------------------
(* Steps that write the row of a key *)

\* A fresh lock is taken on a key nobody holds.
LEMMA LockFree ==
    ASSUME IInv, NEW r \in Requests, CanLock(Key(r))
    PROVE  \A s \in Requests : Key(s) = Key(r) => ~Holds(s)
BY DEF IInv, OneHolder, CanLock, Row

\* Where requests are after one of them went on.
LEMMA GoneOn ==
    ASSUME Types, NEW r \in Requests,
           NEW place \in Places,
           Goto(r, place)
    PROVE  /\ pc' \in [Requests -> Places]
           /\ pc'[r] = place
           /\ \A s \in Requests \ {r} : pc'[s] = pc[s]
BY DEF Types, Goto, Places

LEMMA LockedRowTypes ==
    ASSUME IInv, NEW r \in Requests,
           record' = [record EXCEPT ![Key(r)] = Started(r)]
    PROVE  /\ record' \in [Keys -> Rows]
           /\ record'[Key(r)] = Started(r)
           /\ \A k \in Keys \ {Key(r)} : record'[k] = record[k]
BY ConstantsAssumption DEF IInv, Types, Places, Rows, Started, Key

LEMMA TryLockKeeps ==
    ASSUME IInv, NEW r \in Requests, TryLock(r)
    PROVE  IInv'
<1> USE ConstantsAssumption DEF Key, Row
<1> DEFINE k == Key(r)
<1>1. CASE CanLock(k)
  <2>0. pc[r] = "start" /\ UNCHANGED <<job, status, source, mishaps>>
    BY DEF TryLock
  <2>1. record' = [record EXCEPT ![k] = Started(r)] /\ Goto(r, "run")
    BY <1>1 DEF TryLock
  <2>2. Types'
    BY <2>0, <2>1, LockedRowTypes, GoneOn DEF IInv, Types, Places, Rows
  <2>3. /\ record'[k] = Started(r)
        /\ \A l \in Keys \ {k} : record'[l] = record[l]
        /\ pc'[r] = "run" /\ \A s \in Requests \ {r} : pc'[s] = pc[s]
    BY <2>1, LockedRowTypes, GoneOn DEF IInv, Places
  <2>4. OneHolder'
    <3>1. \A s \in Requests \ {r} : Key(s) = k => ~Holds(s) /\ ~Holds(s)'
      BY <1>1, <2>3, LockFree DEF Holds
    <3>2. \A s \in Requests \ {r} : Key(s) # k => Row(s)' = Row(s) /\ Holds(s)' = Holds(s)
      BY <2>3 DEF Holds
    <3>. QED  BY <2>3, <3>1, <3>2 DEF IInv, OneHolder, Started
  <2>5. OwnResponse'
    BY <2>0, <2>3 DEF IInv, OwnResponse
  <2>6. Sources'
    BY <2>0, <2>3 DEF IInv, Sources, Faithful
  <2>7. Stored'
    BY <2>0, <2>3 DEF IInv, Stored, StoredResponse, Started
  <2>8. Effective'
    <3>1. job[r] = "none"
      BY <2>0 DEF IInv, OwnResponse
    <3>2. \A s \in Requests \ {r} : Key(s) = k =>
            pc[s] \notin {"wait", "store"} /\ Row(s).state # "completed"
      BY <1>1, LockFree DEF Holds, CanLock
    <3>. QED  BY <2>0, <2>3, <3>1, <3>2 DEF IInv, Effective, Accounted
  <2>. QED  BY <2>2, <2>4, <2>5, <2>6, <2>7, <2>8 DEF IInv
<1>2. CASE ~CanLock(k)
  <2>1. /\ pc[r] = "start" /\ Goto(r, "read")
        /\ UNCHANGED <<record, job, status, source, mishaps>>
    BY <1>2 DEF TryLock
  <2>2. pc'[r] = "read" /\ \A s \in Requests \ {r} : pc'[s] = pc[s]
    BY <2>1, GoneOn DEF IInv, Places
  <2>3. Types'
    BY <2>1, GoneOn DEF IInv, Types, Places, Rows
  <2>4. OneHolder'
    BY <2>1, <2>2 DEF IInv, OneHolder, Holds
  <2>5. OwnResponse'
    BY <2>1, <2>2 DEF IInv, OwnResponse
  <2>6. Sources'
    BY <2>1, <2>2 DEF IInv, Sources, Faithful
  <2>7. Stored'
    BY <2>1, <2>2 DEF IInv, Stored, StoredResponse
  <2>8. Effective'
    BY <2>1, <2>2 DEF IInv, Effective, Accounted
  <2>. QED  BY <2>3, <2>4, <2>5, <2>6, <2>7, <2>8 DEF IInv
<1>. QED  BY <1>1, <1>2

LEMMA TryLockFailsKeeps ==
    ASSUME IInv, NEW r \in Requests, TryLockFails(r)
    PROVE  IInv'
<1> USE ConstantsAssumption DEF Key, Row
<1> DEFINE k == Key(r)
<1>0. pc[r] = "start" /\ Answer(r, "error", Nobody) /\ UNCHANGED <<job, mishaps>>
  BY DEF TryLockFails
<1>1. Answered(r, "error", Nobody)
  BY <1>0, AnswerIsAnswered DEF IInv
<1>2. CASE UNCHANGED record
  BY <1>0, <1>2, AnswerKeeps
<1>3. CASE CanLock(k) /\ record' = [record EXCEPT ![k] = Started(r)]
  <2>1. /\ record'[k] = Started(r)
        /\ \A l \in Keys \ {k} : record'[l] = record[l]
    BY <1>3, LockedRowTypes
  <2>2. Types'
    BY <1>0, <1>3, LockedRowTypes DEF IInv, Types, Places, Rows, Answer, Goto
  <2>3. \A s \in Requests : Key(s) = k => ~Holds(s) /\ ~Holds(s)'
    BY <1>1, <1>3, LockFree DEF Answered, Holds
  <2>4. OneHolder'
    BY <1>1, <2>1, <2>3 DEF Answered, IInv, OneHolder, Holds
  <2>5. OwnResponse'
    BY <1>0, <1>1 DEF Answered, IInv, OwnResponse
  <2>6. Sources'
    BY <1>0, <1>1 DEF Answered, IInv, Sources, Faithful
  <2>7. Stored'
    BY <1>0, <1>1, <2>1 DEF Answered, IInv, Stored, StoredResponse, Started
  <2>8. Effective'
    <3>1. job[r] = "none"
      BY <1>0 DEF IInv, OwnResponse
    <3>2. \A s \in Requests \ {r} : Key(s) = k =>
            pc[s] \notin {"wait", "store"} /\ Row(s).state # "completed"
      BY <1>3, LockFree DEF Holds, CanLock
    <3>. QED  BY <1>0, <1>1, <2>1, <3>1, <3>2 DEF Answered, IInv, Effective, Accounted
  <2>. QED  BY <2>2, <2>4, <2>5, <2>6, <2>7, <2>8 DEF IInv
<1>. QED  BY <1>2, <1>3 DEF TryLockFails

-----------------------------------------------------------------------------
(* Steps that read the row of a key *)

LEMMA ReadKeeps ==
    ASSUME IInv, NEW r \in Requests, Read(r)
    PROVE  IInv'
<1> USE ConstantsAssumption DEF Key, Row
<1>1. /\ pc[r] = "read"
      /\ UNCHANGED <<record, job, mishaps>>
  BY DEF Read
<1>2. CASE Answer(r, "error", Nobody) \/ Answer(r, "conflict", Nobody)
           \/ Answer(r, "mismatch", Nobody)
  BY <1>1, <1>2, AnswerKeeps
<1>3. CASE /\ Row(r).state = "completed" /\ Row(r).hash = HashOf[r]
           /\ Answer(r, Row(r).code, Row(r).body)
  <2>1. StoredResponse(Key(r))
    BY <1>3 DEF IInv, Stored
  <2>2. /\ Row(r).code \in {"ok", "refused"} /\ Row(r).body \in Requests \ {r}
        /\ pc[Row(r).body] = "done"
        /\ Key(Row(r).body) = Key(r) /\ HashOf[Row(r).body] = HashOf[r]
        /\ status[Row(r).body] = Row(r).code
        /\ Row(r).code = "ok" => job[Row(r).body] = "committed"
    BY <1>1, <1>3, <2>1 DEF StoredResponse
  <2>. QED  BY <1>1, <1>3, <2>2, AnswerKeeps
<1>. QED  BY <1>1, <1>2, <1>3 DEF Read, Replay

LEMMA ReadFailsKeeps ==
    ASSUME IInv, NEW r \in Requests, ReadFails(r)
    PROVE  IInv'
BY AnswerKeeps DEF ReadFails

-----------------------------------------------------------------------------
(* The handler and its operation *)

LEMMA SubmitKeeps ==
    ASSUME IInv, NEW r \in Requests, Submit(r)
    PROVE  IInv'
<1> USE DEF Key, Row
<1>1. pc[r] = "run" /\ UNCHANGED <<record, status, source, mishaps>>
  BY DEF Submit
<1>2. /\ pc'[r] = "wait" /\ job'[r] = "queued"
      /\ \A s \in Requests \ {r} : pc'[s] = pc[s] /\ job'[s] = job[s]
  BY DEF Submit, Goto, IInv, Types
<1>3. Types'
  BY DEF Submit, Goto, IInv, Types, Places, Rows
<1>4. OneHolder'
  BY <1>1, <1>2 DEF IInv, OneHolder, Holds
<1>5. OwnResponse'
  BY <1>1, <1>2 DEF IInv, OwnResponse
<1>6. Sources'
  BY <1>1, <1>2 DEF IInv, Sources, Faithful
<1>7. Stored'
  BY <1>1, <1>2 DEF IInv, Stored, StoredResponse
<1>8. Effective'
  BY <1>1, <1>2 DEF IInv, Effective, Accounted
<1>. QED  BY <1>3, <1>4, <1>5, <1>6, <1>7, <1>8 DEF IInv

LEMMA JobEndsKeeps ==
    ASSUME IInv, NEW r \in Requests, JobEnds(r)
    PROVE  IInv'
<1> USE DEF Key, Row
<1>1. job[r] = "queued" /\ UNCHANGED <<record, pc, status, source, mishaps>>
  BY DEF JobEnds
<1>2. /\ job'[r] \in {"committed", "refused", "failed"}
      /\ \A s \in Requests \ {r} : job'[s] = job[s]
  BY DEF JobEnds, IInv, Types
<1>3. Types'
  BY DEF JobEnds, IInv, Types
<1>4. OneHolder'
  BY <1>1 DEF IInv, OneHolder, Holds
<1>5. OwnResponse'
  BY <1>1, <1>2 DEF IInv, OwnResponse
<1>6. Sources'
  BY <1>1, <1>2 DEF IInv, Sources, Faithful
<1>7. Stored'
  BY <1>1, <1>2 DEF IInv, Stored, StoredResponse
<1>8. Effective'
  BY <1>1, <1>2 DEF IInv, Effective, Accounted
<1>. QED  BY <1>3, <1>4, <1>5, <1>6, <1>7, <1>8 DEF IInv

\* The handler's response is recorded as its own; it is that of the operation,
\* or the key suffers a mishap.
LEMMA RespondKeeps ==
    ASSUME IInv, NEW r \in Requests, pc[r] = "wait",
           NEW code \in {"ok", "refused", "error"}, Respond(r, code),
           mishaps' \in {mishaps, mishaps \cup {Key(r)}},
           code = "ok" => job[r] = "committed",
           Key(r) \notin mishaps' =>
             job[r] \notin {"none", "queued"} /\ code = CodeOf[job[r]]
    PROVE  IInv'
<1> USE ConstantsAssumption DEF Key, Row
<1>1. /\ pc'[r] = "store" /\ status'[r] = code /\ source'[r] = r
      /\ \A s \in Requests \ {r} :
           pc'[s] = pc[s] /\ status'[s] = status[s] /\ source'[s] = source[s]
      /\ UNCHANGED <<record, job>>
  BY DEF Respond, Goto, IInv, Types
<1>2. Types'
  BY DEF Respond, Goto, IInv, Types, Places, Rows
<1>3. OneHolder'
  BY <1>1 DEF IInv, OneHolder, Holds
<1>4. OwnResponse'
  BY <1>1 DEF IInv, OwnResponse
<1>5. Sources'
  BY <1>1 DEF IInv, Sources, Faithful
<1>6. Stored'
  BY <1>1 DEF IInv, Stored, StoredResponse
<1>7. Effective'
  BY <1>1 DEF IInv, Effective, Accounted
<1>. QED  BY <1>2, <1>3, <1>4, <1>5, <1>6, <1>7 DEF IInv

LEMMA JobAnsweredKeeps ==
    ASSUME IInv, NEW r \in Requests, JobAnswered(r)
    PROVE  IInv'
<1>1. job[r] \in {"committed", "refused", "failed"}
  BY DEF JobAnswered, IInv, Types
<1>2. /\ CodeOf[job[r]] \in {"ok", "refused", "error"}
      /\ CodeOf[job[r]] = "ok" => job[r] = "committed"
  BY <1>1 DEF CodeOf
<1>. QED  BY <1>1, <1>2, RespondKeeps DEF JobAnswered

LEMMA GiveUpKeeps ==
    ASSUME IInv, NEW r \in Requests, GiveUp(r)
    PROVE  IInv'
BY RespondKeeps DEF GiveUp

\* A request whose process dies, or that gives up storing its response, leaves
\* the row as it is; its key suffers a mishap.
LEMMA AbandonKeeps ==
    ASSUME IInv, NEW r \in Requests, NEW place \in {"done", "dead"}, Goto(r, place),
           pc[r] \notin {"start", "done", "dead"}, pc[r] = "store" \/ place = "dead",
           mishaps' = mishaps \cup {Key(r)}, UNCHANGED <<record, job, status, source>>
    PROVE  IInv'
<1> USE ConstantsAssumption DEF Key, Row
<1>1. pc'[r] = place /\ \A s \in Requests \ {r} : pc'[s] = pc[s]
  BY DEF Goto, IInv, Types
<1>2. Types'
  BY DEF Goto, IInv, Types, Places, Rows
<1>3. OneHolder'
  BY <1>1 DEF IInv, OneHolder, Holds
<1>4. OwnResponse'
  BY <1>1 DEF IInv, OwnResponse
<1>5. Sources'
  BY <1>1 DEF IInv, Sources, Faithful
<1>6. Stored'
  BY <1>1 DEF IInv, Stored, StoredResponse
<1>7. Effective'
  BY <1>1 DEF IInv, Effective, Accounted
<1>. QED  BY <1>2, <1>3, <1>4, <1>5, <1>6, <1>7 DEF IInv

LEMMA StoreFailsKeeps ==
    ASSUME IInv, NEW r \in Requests, StoreFails(r)
    PROVE  IInv'
BY AbandonKeeps DEF StoreFails

LEMMA CrashKeeps ==
    ASSUME IInv, NEW r \in Requests, Crash(r)
    PROVE  IInv'
BY AbandonKeeps DEF Crash

-----------------------------------------------------------------------------
(* Storing a response *)

\* What an UPDATE makes of a row.
Completed(row, code, b) ==
    [row EXCEPT !.state = "completed", !.code = code, !.body = b]

LEMMA RowCompleted ==
    ASSUME NEW row \in Rows, NEW code \in {"ok", "refused"}, NEW b \in Requests
    PROVE  LET new == Completed(row, code, b)
           IN  /\ new \in Rows /\ new.hash = row.hash
               /\ new.state = "completed" /\ new.code = code /\ new.body = b
BY DEF Rows, Completed

\* The row of the holder of a key, after its response is stored.
LEMMA StoredRow ==
    ASSUME IInv, NEW r \in Requests, Store(r), Key(r) \in Keys
    PROVE  /\ status[r] = "error" => record'[Key(r)] = Absent
           /\ status[r] # "error" =>
                record'[Key(r)] = Completed(record[Key(r)], status[r], r)
           /\ \A k \in Keys \ {Key(r)} : record'[k] = record[k]
           /\ record' = [record EXCEPT ![Key(r)] = record'[Key(r)]]
<1>1. record[Key(r)].state # "absent"
  BY DEF Store, IInv, OneHolder, Holds, Row
<1>2. record \in [Keys -> Rows]
  BY DEF IInv, Types
<1>. HIDE DEF Key
<1>3. CASE status[r] = "error"
  <2>1. record' = [record EXCEPT ![Key(r)] = Absent]
    BY <1>3 DEF Store
  <2>. QED  BY <1>2, <1>3, <2>1
<1>4. CASE status[r] # "error"
  <2>1. record' = [record EXCEPT ![Key(r)] =
                                    Completed(record[Key(r)], status[r], r)]
    BY <1>1, <1>2, <1>4 DEF Store, Completed
  <2>. QED  BY <1>2, <1>4, <2>1
<1>. QED  BY <1>3, <1>4

LEMMA StoreKeeps ==
    ASSUME IInv, NEW r \in Requests, Store(r)
    PROVE  IInv'
<1> USE ConstantsAssumption DEF Key, Row
<1> DEFINE k == Key(r)
<1>1. /\ pc[r] = "store" /\ Goto(r, "done")
      /\ UNCHANGED <<job, status, source, mishaps>>
  BY DEF Store
<1>2. pc'[r] = "done" /\ \A s \in Requests \ {r} : pc'[s] = pc[s]
  BY <1>1, GoneOn DEF IInv, Places
<1>3. \A l \in Keys \ {k} : record'[l] = record[l]
  BY StoredRow
<1>4. /\ status[r] \in {"ok", "refused", "error"}
      /\ status[r] = "ok" => job[r] = "committed"
      /\ Key(r) \notin mishaps =>
           job[r] \notin {"none", "queued"} /\ status[r] = CodeOf[job[r]]
  BY <1>1 DEF IInv, OwnResponse
<1>5. \A s \in Requests \ {r} : Key(s) = k => ~Holds(s) /\ ~Holds(s)'
  BY <1>1, <1>2 DEF IInv, OneHolder, Holds
<1>6. Row(r).state = "started" /\ Row(r).hash = HashOf[r] /\ Row(r).age = "fresh"
  BY <1>1 DEF IInv, OneHolder, Holds
<1>7. /\ status[r] = "error" => record'[k] = Absent
      /\ status[r] # "error" =>
           /\ record'[k] \in Rows /\ record'[k].hash = HashOf[r]
           /\ record'[k].state = "completed" /\ record'[k].code = status[r]
           /\ record'[k].body = r
  <2>1. record[k] \in Rows
    BY DEF IInv, Types
  <2> DEFINE new == Completed(record[k], status[r], r)
  <2>2. CASE status[r] # "error"
    <3>1. record'[k] = new
      BY <2>2, StoredRow
    <3>2. /\ new \in Rows /\ new.hash = record[k].hash
          /\ new.state = "completed" /\ new.code = status[r] /\ new.body = r
      BY <1>4, <2>1, <2>2, RowCompleted
    <3>. HIDE DEF new
    <3>. QED  BY <1>6, <2>2, <3>1, <3>2
  <2>. QED  BY <2>2, StoredRow
<1>8. record' \in [Keys -> Rows]
  <2>1. record'[k] \in Rows
    BY <1>7 DEF Rows, Absent
  <2>. QED  BY <2>1, <1>3, StoredRow DEF IInv, Types
<1>9. Types'
  BY <1>1, <1>8, GoneOn DEF IInv, Types, Places, Rows
<1>10. OneHolder'
  <2>1. \A s \in Requests \ {r} : Key(s) # k => Row(s)' = Row(s) /\ Holds(s)' = Holds(s)
    BY <1>2, <1>3 DEF Holds
  <2>. QED  BY <1>2, <1>5, <2>1 DEF IInv, OneHolder, Holds
<1>11. OwnResponse'
  BY <1>1, <1>2 DEF IInv, OwnResponse
<1>12. Sources'
  BY <1>1, <1>2 DEF IInv, Sources, Faithful
<1>13. Stored'
  <2>1. status[r] # "error" => StoredResponse(k)'
    BY <1>1, <1>2, <1>4, <1>7 DEF StoredResponse
  <2>2. \A l \in Keys \ {k} : record'[l].state = "completed" => StoredResponse(l)'
    BY <1>1, <1>2, <1>3 DEF IInv, Stored, StoredResponse
  <2>. QED  BY <1>7, <2>1, <2>2 DEF Stored, Absent
<1>14. Effective'
  <2>1. \A s \in Requests \ {r} : Key(s) = k =>
           pc[s] \notin {"wait", "store"} /\ Row(s).state # "completed"
    BY <1>5, <1>6 DEF Holds
  <2>2. Key(r) \notin mishaps /\ job[r] \in {"queued", "committed"} => status[r] = "ok"
    BY <1>4 DEF CodeOf
  <2>. QED  BY <1>1, <1>2, <1>3, <1>7, <2>1, <2>2 DEF IInv, Effective, Accounted
<1>. QED  BY <1>9, <1>10, <1>11, <1>12, <1>13, <1>14 DEF IInv

-----------------------------------------------------------------------------
(* Time and the sweeper *)

\* The row of a key nobody holds grows older.
LEMMA AgeKeeps ==
    ASSUME IInv, NEW k \in Keys, NEW a \in {"stale", "expired"}, Owners(k) = {},
           record' = [record EXCEPT ![k].age = a],
           UNCHANGED <<pc, job, status, source, mishaps>>
    PROVE  IInv'
<1> USE ConstantsAssumption DEF Key, Row
<1>1. /\ record'[k].state = record[k].state /\ record'[k].hash = record[k].hash
      /\ record'[k].code = record[k].code /\ record'[k].body = record[k].body
      /\ \A l \in Keys \ {k} : record'[l] = record[l]
  BY DEF IInv, Types
<1>2. \A s \in Requests : Key(s) = k => ~Holds(s)
  BY DEF Owners, Holds
<1>3. Types'
  BY DEF IInv, Types, Places, Rows
<1>4. OneHolder'
  BY <1>1, <1>2 DEF IInv, OneHolder, Holds
<1>5. OwnResponse' /\ Sources'
  BY DEF IInv, OwnResponse, Sources, Faithful
<1>6. Stored'
  BY <1>1 DEF IInv, Stored, StoredResponse
<1>7. Effective'
  BY <1>1 DEF IInv, Effective, Accounted
<1>. QED  BY <1>3, <1>4, <1>5, <1>6, <1>7 DEF IInv

LEMMA SweepKeeps ==
    ASSUME IInv, NEW k \in Keys, Sweep(k)
    PROVE  IInv'
<1> USE ConstantsAssumption DEF Key, Row
<1>1. /\ record[k].age = "expired" /\ record' = [record EXCEPT ![k] = Absent]
      /\ mishaps' = mishaps \cup {k} /\ UNCHANGED <<pc, job, status, source>>
  BY DEF Sweep
<1>2. record'[k] = Absent /\ \A l \in Keys \ {k} : record'[l] = record[l]
  BY <1>1 DEF IInv, Types
<1>3. \A s \in Requests : Key(s) = k => ~Holds(s)
  BY <1>1 DEF IInv, OneHolder
<1>4. Types'
  BY <1>1 DEF IInv, Types, Places, Rows, Absent
<1>5. OneHolder'
  BY <1>1, <1>2, <1>3 DEF IInv, OneHolder, Holds
<1>6. OwnResponse'
  BY <1>1 DEF IInv, OwnResponse
<1>7. Sources'
  BY <1>1 DEF IInv, Sources, Faithful
<1>8. Stored'
  BY <1>1, <1>2 DEF IInv, Stored, StoredResponse, Absent
<1>9. Effective'
  BY <1>1, <1>2 DEF IInv, Effective, Accounted
<1>. QED  BY <1>4, <1>5, <1>6, <1>7, <1>8, <1>9 DEF IInv

-----------------------------------------------------------------------------
(* The theorems *)

LEMMA StartHolds == Init => IInv
BY ConstantsAssumption DEF Init, IInv, Types, Places, Rows, OneHolder, Holds, OwnResponse, Sources,
   Stored, Effective, Key, Row, Absent

\* Every step keeps the invariant, as long as no holder outlives its lease.
LEMMA StepKeeps ==
    ASSUME ~SlowHandlers
    PROVE  IInv /\ [Next]_vars => IInv'
<1> SUFFICES ASSUME IInv, [Next]_vars PROVE IInv'
  OBVIOUS
<1>1. ASSUME NEW r \in Requests, Handle(r) PROVE IInv'
  BY <1>1, TryLockKeeps, ReadKeeps, SubmitKeeps, JobAnsweredKeeps, StoreKeeps DEF Handle
<1>2. ASSUME NEW r \in Requests, JobEnds(r) PROVE IInv'
  BY <1>2, JobEndsKeeps
<1>3. ASSUME NEW r \in Requests, Fault(r) PROVE IInv'
  BY <1>3, TryLockFailsKeeps, ReadFailsKeeps, GiveUpKeeps, StoreFailsKeeps, CrashKeeps
  DEF Fault
<1>4. ASSUME NEW k \in Keys, LeaseEnds(k) \/ Expire(k) PROVE IInv'
  BY <1>4, AgeKeeps DEF LeaseEnds, Expire
<1>5. ASSUME NEW k \in Keys, Sweep(k) PROVE IInv'
  BY <1>5, SweepKeeps
<1>6. CASE UNCHANGED vars
  BY <1>6 DEF vars, IInv, Types, OneHolder, Holds, OwnResponse, Sources, Faithful,
              Stored, StoredResponse, Effective, Accounted, Key, Row
<1>. QED  BY <1>1, <1>2, <1>3, <1>4, <1>5, <1>6 DEF Next

LEMMA Invariance ==
    ASSUME ~SlowHandlers
    PROVE  Spec => []IInv
BY StartHolds, StepKeeps, PTL DEF Spec

\* A set whose elements are all equal has at most one.
LEMMA AtMostOneElement ==
    ASSUME NEW S, \A x, y \in S : x = y
    PROVE  Cardinality(S) <= 1
<1>1. CASE S = {}
  BY <1>1, FS_EmptySet
<1>2. CASE S # {}
  <2>1. PICK x \in S : TRUE
    BY <1>2
  <2>2. S = {x}
    BY <2>1
  <2>. QED  BY <2>2, FS_Singleton
<1>. QED  BY <1>1, <1>2

\* The middleware never runs two handlers for one key, and while one runs no
\* statement of another request, and no sweep, unlocks its row.
THEOREM OneOwnerHolds ==
    ASSUME ~SlowHandlers
    PROVE  Spec => []OneOwner
<1>1. IInv => OneOwner
  <2> SUFFICES ASSUME IInv, NEW k \in Keys
               PROVE  /\ Cardinality(Owners(k)) <= 1
                      /\ \A r \in Owners(k) :
                           record[k].state = "started" /\ record[k].hash = HashOf[r]
    BY DEF OneOwner
  <2>1. \A r, s \in Owners(k) : r = s
    BY DEF Owners, IInv, OneHolder, Holds, Key
  <2>2. \A r \in Owners(k) : record[k].state = "started" /\ record[k].hash = HashOf[r]
    BY DEF Owners, IInv, OneHolder, Holds, Key, Row
  <2>. QED  BY <2>1, <2>2, AtMostOneElement
<1>. QED  BY <1>1, Invariance, PTL

\* Whatever is sent and resent under a key, the operation behind it takes effect
\* at most once, unless a holder died, gave up or could not store its response,
\* or the row was swept.
THEOREM AtMostOneWithoutMishapHolds ==
    ASSUME ~SlowHandlers
    PROVE  Spec => []AtMostOneWithoutMishap
<1>1. IInv => AtMostOneWithoutMishap
  <2> SUFFICES ASSUME IInv, NEW k \in Keys \ mishaps
               PROVE  Cardinality(Effects(k)) <= 1
    BY DEF AtMostOneWithoutMishap
  <2>1. \A r, s \in Effects(k) : r = s
    <3> SUFFICES ASSUME NEW r \in Effects(k), NEW s \in Effects(k) PROVE r = s
      OBVIOUS
    <3>1. /\ r \in Requests /\ s \in Requests /\ Key(r) = k /\ Key(s) = k
          /\ Accounted(r) /\ Accounted(s)
      BY DEF Effects, IInv, Effective, Key
    <3>. QED  BY <3>1 DEF Accounted, IInv, OneHolder, Holds, Row
  <2>. QED  BY <2>1, AtMostOneElement
<1>. QED  BY <1>1, Invariance, PTL

\* No response is that of another key or payload, or reports a success that
\* did not happen.
THEOREM ReplayFaithfulHolds ==
    ASSUME ~SlowHandlers
    PROVE  Spec => []ReplayFaithful
<1>1. IInv => ReplayFaithful
  BY DEF IInv, Sources, Faithful, ReplayFaithful, Key
<1>. QED  BY <1>1, Invariance, PTL
===============================================================================
