--------------------------- MODULE LedgerDB_proofs ---------------------------
(***************************************************************************)
(* Theorems about LedgerDB for every number of wallets, sessions and       *)
(* operations, checked by TLAPS.                                           *)
(***************************************************************************)
EXTENDS LedgerDB, Postings_proofs

\* A transfer past the checks of process_transfer_batch.
PassedJob(j) ==
    /\ j.from # j.to
    /\ j.amount \in Amounts
    /\ {j.from, j.to} \subseteq rows

\* What holds of a session between two of its statements.
SessionOK(s) ==
    /\ pc[s] # "idle" => op[s] \in Operations
    /\ pc[s] = "insert" => op[s].kind = "create"
    /\ pc[s] = "lock" => /\ op[s].kind # "create"
                         /\ op[s].kind # "batch" => todo[s] = {op[s].wallet}
    /\ pc[s] = "update" => /\ op[s].kind \in {"deposit", "withdraw"}
                           /\ lock[op[s].wallet] = s
    /\ pc[s] \in {"check", "debit", "credit"} => op[s].kind = "batch"
    /\ pc[s] # "idle" /\ op[s].kind = "batch" => cur[s] \in 1 .. Len(op[s].jobs)
    /\ pc[s] \in {"record", "commit"} /\ op[s].kind = "create" =>
         cur[s] \in Wallets /\ cur[s] < nextId
    /\ pc[s] \in {"debit", "credit", "record"} /\ op[s].kind = "batch" =>
         PassedJob(Job(s))
    /\ pc[s] = "debit" /\ lock[Job(s).from] = s =>
         image[s][Job(s).from] >= Job(s).amount

\* An id the sequence has not reached belongs to nobody.
FreshIds ==
    \A w \in Wallets : w >= nextId =>
        w \notin rows /\ balance[w] = 0 /\ lock[w] = NoSession

IInv == /\ TypeOK
        /\ Reconciled
        /\ NoLostUpdate
        /\ FreshIds
        /\ \A s \in Sessions : SessionOK(s)

-----------------------------------------------------------------------------
(* Operations and what they post *)

\* An operation, told by its kind, has the fields of that kind.
LEMMA OperationFields ==
    ASSUME NEW o \in Operations
    PROVE  /\ o.kind \in {"create", "deposit", "withdraw", "batch"}
           /\ o.kind = "create" => o.amount \in Amounts
           /\ o.kind \in {"deposit", "withdraw"} =>
                o.wallet \in Wallets /\ o.amount \in Amounts \ {0}
           /\ o.kind = "batch" => o.jobs \in Seq(Jobs) /\ o.jobs # <<>>
BY ConstantsAssumption DEF Creations, CashOps, Batches

\* The jobs of a batch are transfers between wallets.
LEMMA BatchJobs ==
    ASSUME NEW o \in Operations, o.kind = "batch", NEW i \in 1 .. Len(o.jobs)
    PROVE  /\ o.jobs[i] \in Jobs
           /\ o.jobs[i].from \in Wallets
           /\ o.jobs[i].to \in Wallets
           /\ o.jobs[i].amount \in Int
<1>1. o.jobs[i] \in Jobs
  BY OperationFields
<1> QED BY <1>1 DEF Jobs

\* The rows an operation sets out to lock are wallets.
LEMMA LockSetType ==
    ASSUME NEW o \in Operations
    PROVE  LockSet(o) \subseteq Wallets
<1>1. CASE o.kind = "create"
  BY <1>1 DEF LockSet
<1>2. CASE o.kind \in {"deposit", "withdraw"}
  BY <1>2, OperationFields DEF LockSet
<1>3. CASE o.kind = "batch"
  BY <1>3, BatchJobs DEF LockSet
<1> QED BY <1>1, <1>2, <1>3, OperationFields

\* A deposit or withdrawal row is a transaction row.
LEMMA CashTxnType ==
    ASSUME NEW type \in {"deposit", "withdrawal"}, NEW w \in Wallets,
           NEW a \in Amounts, NEW d \in Int
    PROVE  CashTxn(type, w, a, d) \in Txns
<1>1. Entry(w, d) \in Entries
  BY DEF Entry, Entries
<1>2. <<Entry(w, d)>> \in Seq(Entries)
  BY <1>1
<1> QED BY <1>2 DEF CashTxn, Txns

\* So is the row of a transfer between wallets.
LEMMA TransferTxnType ==
    ASSUME NEW j \in Jobs, j.amount \in Amounts
    PROVE  TransferTxn(j) \in Txns
<1>1. /\ j.from \in Wallets /\ j.to \in Wallets
      /\ j.amount \in Int /\ -j.amount \in Int
  BY DEF Jobs
<1>2. Entry(j.from, -j.amount) \in Entries /\ Entry(j.to, j.amount) \in Entries
  BY <1>1 DEF Entry, Entries
<1>3. <<Entry(j.from, -j.amount), Entry(j.to, j.amount)>> \in Seq(Entries)
  BY <1>2
<1> QED BY <1>1, <1>3 DEF TransferTxn, Txns

\* No session is the holder of a free lock.
LEMMA NobodyIsFree == \A s \in Sessions : s # NoSession
BY ConstantsAssumption

-----------------------------------------------------------------------------
(* The initial states *)

LEMMA InitInv == Init => IInv
<1> SUFFICES ASSUME Init PROVE IInv
  OBVIOUS
<1>1. /\ Len(Opening) \in Nat
      /\ Opened \subseteq Wallets
      /\ \A w \in Opened : Opening[w] \in Amounts
  BY ConstantsAssumption DEF Opened, Wallets
<1>2. OpeningBalance \in [Wallets -> Amounts]
  BY <1>1, ConstantsAssumption DEF OpeningBalance, Amounts
<1>3. \A w \in Opened : CashTxn("deposit", w, Opening[w], Opening[w]) \in Txns
  BY <1>1, CashTxnType DEF Amounts
<1>4. book \in Seq(Txns)
  <2>1. book \in [1 .. Len(Opening) -> Txns]
    BY <1>3 DEF Init, Opened
  <2> QED BY <2>1, <1>1
<1>5. Zero \in [Wallets -> Amounts] /\ Zero \in [Wallets -> Int]
  BY ConstantsAssumption DEF Zero, Amounts
<1>6. TypeOK
  BY <1>1, <1>2, <1>4, <1>5, ConstantsAssumption DEF TypeOK, Init, Amounts
<1>7. Reconciled
  BY DEF Reconciled, Init
<1>8. NoLostUpdate
  BY ConstantsAssumption DEF NoLostUpdate, SeesItsWrites, Init, Due, Zero
<1>9. FreshIds
  BY <1>1 DEF FreshIds, Init, OpeningBalance, Opened, Wallets
<1>10. \A s \in Sessions : SessionOK(s)
  BY DEF SessionOK, Init
<1> QED BY <1>6, <1>7, <1>8, <1>9, <1>10 DEF IInv

-----------------------------------------------------------------------------
(* What one session's step leaves of the others *)

\* The job a batch session is at.
LEMMA JobType ==
    ASSUME IInv, NEW s \in Sessions, pc[s] # "idle", op[s].kind = "batch"
    PROVE  /\ op[s] \in Operations
           /\ cur[s] \in 1 .. Len(op[s].jobs)
           /\ Job(s) \in Jobs
           /\ Job(s).from \in Wallets /\ Job(s).to \in Wallets
           /\ Job(s).amount \in Int
<1>1. op[s] \in Operations /\ cur[s] \in 1 .. Len(op[s].jobs)
  BY DEF IInv, SessionOK
<1> QED BY <1>1, BatchJobs DEF Job

\* What a session has yet to record is an amount of money.
LEMMA DueType ==
    ASSUME IInv, NEW s \in Sessions, NEW w \in Wallets
    PROVE  Due(s, w) \in Int
<1>1. CASE pc[s] \notin {"credit", "record"}
  BY <1>1 DEF Due
<1>2. CASE pc[s] \in {"credit", "record"} /\ op[s].kind = "batch"
  <2>1. Job(s).amount \in Int
    BY <1>2, JobType
  <2> QED BY <1>2, <2>1 DEF Due
<1>3. CASE pc[s] = "record" /\ op[s].kind # "batch"
  <2>1. op[s].amount \in Int
    BY <1>3, OperationFields, ConstantsAssumption DEF IInv, SessionOK, Amounts
  <2> QED BY <1>3, <2>1 DEF Due
<1> QED BY <1>1, <1>2, <1>3 DEF IInv, SessionOK

\* A session whose own state is untouched, which keeps its locks and whose
\* locked rows keep their committed balance, stays in order.
LEMMA OthersKept ==
    ASSUME IInv, NEW t \in Sessions,
           pc'[t] = pc[t], op'[t] = op[t], cur'[t] = cur[t], todo'[t] = todo[t],
           image'[t] = image[t], pend'[t] = pend[t],
           \A w \in Wallets : lock'[w] = t <=> lock[w] = t,
           \A w \in Wallets : lock[w] = t => balance'[w] = balance[w],
           rows \subseteq rows', nextId \in Int, nextId' \in Int, nextId <= nextId'
    PROVE  /\ SessionOK(t)'
           /\ SeesItsWrites(t)'
<1>1. Job(t)' = Job(t) /\ Target(t)' = Target(t)
  BY DEF Job, Target
<1>2. \A w \in Wallets : Due(t, w)' = Due(t, w)
  BY <1>1 DEF Due
<1>3. SeesItsWrites(t)'
  BY <1>2 DEF IInv, NoLostUpdate, SeesItsWrites
<1>4. SessionOK(t)'
  <2>1. pc[t] = "update" => op[t].wallet \in Wallets
    BY OperationFields DEF IInv, SessionOK
  <2>2. PassedJob(Job(t)) => PassedJob(Job(t))'
    BY <1>1 DEF PassedJob
  <2>3. cur[t] \in Wallets /\ cur[t] < nextId => cur[t] < nextId'
    BY DEF Wallets
  <2>4. pc[t] = "debit" /\ lock'[Job(t).from] = t =>
           image'[t][Job(t).from] >= Job(t).amount
    <3>1. pc[t] = "debit" => Job(t).from \in Wallets
      BY JobType DEF IInv, SessionOK
    <3> QED BY <3>1 DEF IInv, SessionOK
  <2> QED BY <1>1, <2>1, <2>2, <2>3, <2>4 DEF IInv, SessionOK
<1> QED BY <1>3, <1>4

\* The end of a transaction that commits nothing.
LEMMA RollbackKeeps ==
    ASSUME IInv, NEW s \in Sessions,
           NEW r \in {"ok", "invalid", "notfound", "insufficient", "error"},
           Rollback(s, r)
    PROVE  IInv'
<1>1. TypeOK'
  BY ConstantsAssumption DEF IInv, TypeOK, Rollback, Finish, committed, Zero, Amounts
<1>2. Reconciled'
  BY DEF IInv, Reconciled, Rollback, committed
<1>3. FreshIds'
  BY DEF IInv, FreshIds, Rollback, Finish, committed
<1>4. ASSUME NEW t \in Sessions
      PROVE  /\ SessionOK(t)'
             /\ SeesItsWrites(t)'
  <2>1. CASE t = s
    <3>1. /\ pc'[s] = "idle" /\ pend'[s] = Zero
          /\ \A w \in Wallets : lock'[w] # s
      BY NobodyIsFree DEF IInv, TypeOK, Rollback, Finish
    <3>2. SessionOK(s)'
      BY <3>1 DEF SessionOK
    <3>3. SeesItsWrites(s)'
      BY <3>1 DEF SeesItsWrites, Due, Zero
    <3> QED BY <2>1, <3>2, <3>3
  <2>2. CASE t # s
    <3>1. /\ pc'[t] = pc[t] /\ op'[t] = op[t] /\ cur'[t] = cur[t] /\ todo'[t] = todo[t]
          /\ image'[t] = image[t] /\ pend'[t] = pend[t]
          /\ rows' = rows /\ balance' = balance /\ nextId' = nextId
      BY <2>2 DEF IInv, TypeOK, Rollback, Finish, committed
    <3>2. \A w \in Wallets : lock'[w] = t <=> lock[w] = t
      BY <2>2, NobodyIsFree DEF Rollback, Finish
    <3>3. nextId \in Int
      BY DEF IInv, TypeOK
    <3> QED BY <3>1, <3>2, <3>3, OthersKept
  <2> QED BY <2>1, <2>2
<1> QED BY <1>1, <1>2, <1>3, <1>4 DEF IInv, NoLostUpdate

-----------------------------------------------------------------------------
(* One lemma per action *)

LEMMA BeginKeeps ==
    ASSUME IInv, NEW s \in Sessions, Begin(s)
    PROVE  IInv'
<1> PICK o \in Operations :
       /\ op' = [op EXCEPT ![s] = o]
       /\ todo' = [todo EXCEPT ![s] = LockSet(o)]
       /\ pc' = [pc EXCEPT ![s] = IF o.kind = "create" THEN "insert" ELSE "lock"]
       /\ cur' = [cur EXCEPT ![s] = IF o.kind = "batch" THEN 1 ELSE 0]
  BY DEF Begin
<1>1. TypeOK'
  BY LockSetType, ConstantsAssumption DEF IInv, TypeOK, Begin, committed
<1>2. Reconciled' /\ FreshIds'
  BY DEF IInv, Reconciled, FreshIds, Begin, committed
<1>3. ASSUME NEW t \in Sessions
      PROVE  /\ SessionOK(t)'
             /\ SeesItsWrites(t)'
  <2>1. CASE t = s
    <3>1. pc[s] = "idle" /\ pc'[s] \in {"insert", "lock"} /\ op'[s] = o
      BY DEF IInv, TypeOK, Begin
    <3>2. \A w \in Wallets : Due(s, w) = 0 /\ Due(s, w)' = 0
      BY <3>1 DEF Due
    <3>3. o.kind = "batch" => cur'[s] \in 1 .. Len(o.jobs)
      BY OperationFields DEF IInv, TypeOK
    <3>4. o.kind \in {"deposit", "withdraw"} => todo'[s] = {o.wallet}
      BY DEF IInv, TypeOK, LockSet
    <3>5. SessionOK(s)'
      BY <3>1, <3>3, <3>4, OperationFields DEF SessionOK, IInv, TypeOK
    <3> QED BY <2>1, <3>2, <3>5 DEF IInv, NoLostUpdate, SeesItsWrites, Begin, committed
  <2>2. CASE t # s
    BY <2>2, OthersKept DEF IInv, TypeOK, Begin, committed
  <2> QED BY <2>1, <2>2
<1> QED BY <1>1, <1>2, <1>3 DEF IInv, NoLostUpdate

LEMMA InsertWalletKeeps ==
    ASSUME IInv, NEW s \in Sessions, InsertWallet(s)
    PROVE  IInv'
<1>1. /\ op[s] \in Operations /\ op[s].kind = "create" /\ op[s].amount \in Amounts
      /\ nextId \in Wallets /\ lock[nextId] = NoSession /\ balance[nextId] = 0
  BY OperationFields DEF IInv, SessionOK, InsertWallet, FreshIds, Wallets
<1>2. TypeOK'
  BY <1>1, ConstantsAssumption DEF IInv, TypeOK, InsertWallet, committed, Wallets
<1>3. Reconciled'
  BY DEF IInv, Reconciled, InsertWallet, committed
<1>4. FreshIds'
  BY <1>1 DEF IInv, TypeOK, FreshIds, InsertWallet, committed, Wallets
<1>5. ASSUME NEW t \in Sessions
      PROVE  /\ SessionOK(t)'
             /\ SeesItsWrites(t)'
  <2>1. CASE t = s
    <3>1. /\ pc[s] = "insert" /\ op'[s] = op[s] /\ cur'[s] = nextId
          /\ pc'[s] = IF op[s].amount = 0 THEN "commit" ELSE "record"
          /\ lock'[nextId] = s /\ image'[s][nextId] = op[s].amount
          /\ pend' = pend /\ balance' = balance
      BY <1>1 DEF IInv, TypeOK, InsertWallet, committed
    <3>2. \A w \in Wallets : Due(s, w) = 0
      BY <3>1 DEF Due
    <3>3. \A w \in Wallets : Due(s, w)' = IF w = nextId THEN op[s].amount ELSE 0
      BY <1>1, <3>1 DEF Due, Target, Amounts
    <3>4. pend[s][nextId] = 0
      <4>1. pend[s][nextId] \in Int
        BY <1>1 DEF IInv, TypeOK
      <4>2. pend[s][nextId] + Due(s, nextId) = 0
        BY <1>1, NobodyIsFree DEF IInv, NoLostUpdate, SeesItsWrites
      <4> QED BY <1>1, <3>2, <4>1, <4>2
    <3>5. SeesItsWrites(s)'
      <4> SUFFICES ASSUME NEW w \in Wallets
                   PROVE  IF lock'[w] = s
                          THEN image'[s][w] = balance'[w] + pend'[s][w] + Due(s, w)'
                          ELSE pend'[s][w] + Due(s, w)' = 0
        BY DEF SeesItsWrites
      <4>1. CASE w = nextId
        BY <4>1, <1>1, <3>1, <3>3, <3>4 DEF Amounts
      <4>2. CASE w # nextId
        BY <4>2, <1>1, <3>1, <3>2, <3>3 DEF IInv, TypeOK, NoLostUpdate, SeesItsWrites, InsertWallet
      <4> QED BY <4>1, <4>2
    <3>6. SessionOK(s)'
      BY <1>1, <3>1 DEF SessionOK, InsertWallet, Wallets
    <3> QED BY <2>1, <3>5, <3>6
  <2>2. CASE t # s
    <3>1. /\ pc'[t] = pc[t] /\ op'[t] = op[t] /\ cur'[t] = cur[t] /\ todo'[t] = todo[t]
          /\ image'[t] = image[t] /\ pend'[t] = pend[t]
          /\ rows' = rows /\ balance' = balance /\ nextId' = nextId + 1
      BY <2>2 DEF IInv, TypeOK, InsertWallet, committed
    <3>2. \A w \in Wallets : lock'[w] = t <=> lock[w] = t
      BY <2>2, <1>1, NobodyIsFree DEF IInv, TypeOK, InsertWallet
    <3>3. nextId \in Int
      BY DEF IInv, TypeOK
    <3> QED BY <3>1, <3>2, <3>3, OthersKept
  <2> QED BY <2>1, <2>2
<1> QED BY <1>2, <1>3, <1>4, <1>5 DEF IInv, NoLostUpdate

LEMMA LockRowKeeps ==
    ASSUME IInv, NEW s \in Sessions, LockRow(s)
    PROVE  IInv'
<1> DEFINE w == NextRow(s)
<1>1. /\ w \in Wallets /\ w \in rows /\ w < nextId /\ lock[w] = NoSession
      /\ pc[s] = "lock" /\ op[s] \in Operations
      /\ op[s].kind \in {"deposit", "withdraw", "batch"}
      /\ op[s].kind \in {"deposit", "withdraw"} => op[s].wallet \in Wallets
  <2>1. w \in rows /\ lock[w] = NoSession /\ pc[s] = "lock"
    BY DEF LockRow
  <2>2. w \in Wallets
    BY <2>1 DEF IInv, TypeOK
  <2>3. w < nextId
    BY <2>1, <2>2 DEF IInv, TypeOK, FreshIds, Wallets
  <2>4. op[s] \in Operations /\ op[s].kind # "create"
    BY <2>1 DEF IInv, SessionOK
  <2> QED BY <2>1, <2>2, <2>3, <2>4, OperationFields
<1>2. /\ lock' = [lock EXCEPT ![w] = s]
      /\ image' = [image EXCEPT ![s][w] = balance[w]]
      /\ todo' = [todo EXCEPT ![s] = @ \ {w}]
      /\ pc' = [pc EXCEPT ![s] = AfterLock(s, todo'[s])]
      /\ UNCHANGED <<rows, balance, posted, book, nextId, op, cur, pend, lines,
                     outcome, issued>>
  BY DEF LockRow, committed
<1> HIDE DEF w
<1>3. pc'[s] \in {"lock", "check", "update"}
  BY <1>2 DEF AfterLock, IInv, TypeOK
<1>4. TypeOK'
  BY <1>1, <1>2, <1>3 DEF IInv, TypeOK, AfterLock
<1>5. Reconciled'
  BY <1>2 DEF IInv, Reconciled
<1>6. FreshIds'
  BY <1>1, <1>2 DEF IInv, TypeOK, FreshIds, Wallets
<1>7. ASSUME NEW t \in Sessions
      PROVE  SessionOK(t)' /\ SeesItsWrites(t)'
  <2>1. CASE t = s
    <3>1. \A v \in Wallets : Due(s, v) = 0 /\ Due(s, v)' = 0
      BY <1>1, <1>3 DEF Due
    <3>2. SeesItsWrites(s)'
      <4> SUFFICES ASSUME NEW v \in Wallets
                   PROVE  IF lock'[v] = s
                          THEN image'[s][v] = balance'[v] + pend'[s][v] + Due(s, v)'
                          ELSE pend'[s][v] + Due(s, v)' = 0
        BY DEF SeesItsWrites
      <4>1. /\ pend'[s][v] = pend[s][v] /\ pend[s][v] \in Int
            /\ balance'[v] = balance[v] /\ balance[v] \in Int
        BY <1>2, ConstantsAssumption DEF IInv, TypeOK, Amounts
      <4>2. CASE v = w
        <5>1. pend[s][w] = 0
          BY <1>1, <3>1, <4>1, <4>2, NobodyIsFree DEF IInv, NoLostUpdate, SeesItsWrites
        <5>2. image'[s][w] = balance[w] /\ lock'[w] = s
          BY <1>1, <1>2 DEF IInv, TypeOK
        <5> QED BY <3>1, <4>1, <4>2, <5>1, <5>2
      <4>3. CASE v # w
        <5>1. image'[s][v] = image[s][v] /\ lock'[v] = lock[v]
          BY <1>1, <1>2, <4>3 DEF IInv, TypeOK
        <5> QED BY <3>1, <4>1, <5>1 DEF IInv, NoLostUpdate, SeesItsWrites
      <4> QED BY <4>2, <4>3
    <3>3. op[s].kind = "batch" => cur[s] \in 1 .. Len(op[s].jobs)
      BY <1>1 DEF IInv, SessionOK
    <3>4. pc'[s] = "check" => op[s].kind = "batch"
      BY <1>2 DEF AfterLock, IInv, TypeOK
    <3>5. pc'[s] = "update" => op[s].kind # "batch" /\ lock'[op[s].wallet] = s
      <4> SUFFICES ASSUME pc'[s] = "update"
                   PROVE  op[s].kind # "batch" /\ lock'[op[s].wallet] = s
        OBVIOUS
      <4>1. op[s].kind # "batch" /\ todo'[s] = {}
        BY <1>2 DEF AfterLock, IInv, TypeOK
      <4>2. todo[s] = {op[s].wallet}
        BY <1>1, <4>1 DEF IInv, SessionOK
      <4>3. w = op[s].wallet
        BY <1>2, <4>1, <4>2 DEF IInv, TypeOK
      <4> QED BY <1>1, <1>2, <4>1, <4>3 DEF IInv, TypeOK
    <3>6. pc'[s] = "lock" /\ op[s].kind # "batch" => todo'[s] = {op[s].wallet}
      <4>1. op[s].kind # "batch" => todo[s] = {op[s].wallet}
        BY <1>1 DEF IInv, SessionOK
      <4>2. pc'[s] = "lock" => todo'[s] # {} /\ todo'[s] = todo[s] \ {w}
        BY <1>2 DEF AfterLock, IInv, TypeOK
      <4> QED BY <4>1, <4>2
    <3>7. op'[s] = op[s] /\ cur'[s] = cur[s]
      BY <1>2
    <3>8. SessionOK(s)'
      BY <1>1, <1>3, <3>3, <3>4, <3>5, <3>6, <3>7 DEF SessionOK
    <3> QED BY <2>1, <3>2, <3>8
  <2>2. CASE t # s
    <3>1. /\ pc'[t] = pc[t] /\ op'[t] = op[t] /\ cur'[t] = cur[t] /\ todo'[t] = todo[t]
          /\ image'[t] = image[t] /\ pend'[t] = pend[t]
          /\ rows' = rows /\ balance' = balance /\ nextId' = nextId
      BY <1>2, <2>2 DEF IInv, TypeOK
    <3>2. \A v \in Wallets : lock'[v] = t <=> lock[v] = t
      BY <1>1, <1>2, <2>2, NobodyIsFree DEF IInv, TypeOK
    <3>3. nextId \in Int
      BY DEF IInv, TypeOK
    <3> QED BY <3>1, <3>2, <3>3, OthersKept
  <2> QED BY <2>1, <2>2
<1> QED BY <1>4, <1>5, <1>6, <1>7 DEF IInv, NoLostUpdate

LEMMA MissRowKeeps ==
    ASSUME IInv, NEW s \in Sessions, MissRow(s)
    PROVE  IInv'
<1>1. CASE op[s].kind # "batch" /\ Rollback(s, "notfound")
  BY <1>1, RollbackKeeps
<1>2. CASE /\ op[s].kind = "batch"
           /\ todo' = [todo EXCEPT ![s] = @ \ {NextRow(s)}]
           /\ pc' = [pc EXCEPT ![s] = AfterLock(s, todo'[s])]
           /\ UNCHANGED <<committed, nextId, lock, op, cur, image, pend, lines,
                          outcome, issued>>
  <2>1. pc[s] = "lock" /\ pc'[s] \in {"lock", "check"}
    BY <1>2 DEF MissRow, AfterLock, IInv, TypeOK
  <2>2. TypeOK'
    BY <1>2, <2>1 DEF IInv, TypeOK, committed
  <2>3. Reconciled' /\ FreshIds'
    BY <1>2 DEF IInv, Reconciled, FreshIds, committed
  <2>4. ASSUME NEW t \in Sessions
        PROVE  SessionOK(t)' /\ SeesItsWrites(t)'
    <3>1. CASE t = s
      <4>1. \A w \in Wallets : Due(s, w) = 0 /\ Due(s, w)' = 0
        BY <2>1 DEF Due
      <4>2. SeesItsWrites(s)'
        BY <1>2, <4>1 DEF IInv, NoLostUpdate, SeesItsWrites, committed
      <4>3. SessionOK(s)'
        BY <1>2, <2>1 DEF IInv, SessionOK, committed
      <4> QED BY <3>1, <4>2, <4>3
    <3>2. CASE t # s
      <4>1. /\ pc'[t] = pc[t] /\ op'[t] = op[t] /\ cur'[t] = cur[t] /\ todo'[t] = todo[t]
            /\ image'[t] = image[t] /\ pend'[t] = pend[t] /\ lock' = lock
            /\ rows' = rows /\ balance' = balance /\ nextId' = nextId
        BY <1>2, <3>2 DEF IInv, TypeOK, committed
      <4>2. nextId \in Int
        BY DEF IInv, TypeOK
      <4> QED BY <4>1, <4>2, OthersKept
    <3> QED BY <3>1, <3>2
  <2> QED BY <2>2, <2>3, <2>4 DEF IInv, NoLostUpdate
<1> QED BY <1>1, <1>2 DEF MissRow

\* An UPDATE that adds d to wallet w, when that is what the session's next
\* state counts as written and its own bookkeeping is in order.
LEMMA UpdateKeeps ==
    ASSUME IInv, NEW s \in Sessions, NEW w \in Wallets, NEW d \in Int,
           NEW next \in {"credit", "record"}, Update(s, w, d, next),
           w < nextId,
           View(s)[w] + d \in Amounts =>
             /\ SessionOK(s)'
             /\ \A v \in Wallets : /\ Due(s, v) \in Int
                                   /\ Due(s, v)' = Due(s, v) + (IF v = w THEN d ELSE 0)
    PROVE  IInv'
<1>1. CASE View(s)[w] + d \notin Amounts
  BY <1>1, RollbackKeeps DEF Update
<1>2. CASE View(s)[w] + d \in Amounts
  <2> DEFINE value == View(s)[w] + d
  <2>1. /\ value \in Amounts
        /\ lock[w] \in {s, NoSession}
        /\ lock' = [lock EXCEPT ![w] = s]
        /\ image' = [image EXCEPT ![s][w] = value]
        /\ pc' = [pc EXCEPT ![s] = next]
        /\ UNCHANGED <<rows, balance, posted, book, nextId, op, todo, cur, pend,
                       lines, outcome, issued>>
    BY <1>2 DEF Update, committed
  <2>2. value = (IF lock[w] = s THEN image[s][w] ELSE balance[w]) + d
    BY DEF View
  <2> HIDE DEF value
  <2>3. TypeOK'
    BY <2>1 DEF IInv, TypeOK
  <2>4. Reconciled'
    BY <2>1 DEF IInv, Reconciled
  <2>5. FreshIds'
    BY <2>1 DEF IInv, TypeOK, FreshIds, Wallets
  <2>6. ASSUME NEW t \in Sessions
        PROVE  SessionOK(t)' /\ SeesItsWrites(t)'
    <3>1. CASE t = s
      <4>1. SeesItsWrites(s)'
        <5> SUFFICES ASSUME NEW v \in Wallets
                     PROVE  IF lock'[v] = s
                            THEN image'[s][v] = balance'[v] + pend'[s][v] + Due(s, v)'
                            ELSE pend'[s][v] + Due(s, v)' = 0
          BY DEF SeesItsWrites
        <5>1. /\ pend'[s][v] = pend[s][v] /\ pend[s][v] \in Int
              /\ balance'[v] = balance[v] /\ balance[v] \in Int
              /\ image[s][v] \in Int
              /\ Due(s, v) \in Int
              /\ Due(s, v)' = Due(s, v) + (IF v = w THEN d ELSE 0)
          BY <1>2, <2>1, ConstantsAssumption DEF IInv, TypeOK, Amounts
        <5>2. IF lock[v] = s THEN image[s][v] = balance[v] + pend[s][v] + Due(s, v)
                             ELSE pend[s][v] + Due(s, v) = 0
          BY DEF IInv, NoLostUpdate, SeesItsWrites
        <5>3. CASE v = w
          <6>1. image'[s][w] = value /\ lock'[w] = s
            BY <2>1 DEF IInv, TypeOK
          <6> QED BY <2>2, <5>1, <5>2, <5>3, <6>1
        <5>4. CASE v # w
          <6>1. image'[s][v] = image[s][v] /\ lock'[v] = lock[v]
            BY <2>1, <5>4 DEF IInv, TypeOK
          <6> QED BY <5>1, <5>2, <5>4, <6>1
        <5> QED BY <5>3, <5>4
      <4> QED BY <1>2, <3>1, <4>1
    <3>2. CASE t # s
      <4>1. /\ pc'[t] = pc[t] /\ op'[t] = op[t] /\ cur'[t] = cur[t] /\ todo'[t] = todo[t]
            /\ image'[t] = image[t] /\ pend'[t] = pend[t]
            /\ rows' = rows /\ balance' = balance /\ nextId' = nextId
        BY <2>1, <3>2 DEF IInv, TypeOK
      <4>2. \A v \in Wallets : lock'[v] = t <=> lock[v] = t
        BY <2>1, <3>2, NobodyIsFree DEF IInv, TypeOK
      <4>3. nextId \in Int
        BY DEF IInv, TypeOK
      <4> QED BY <4>1, <4>2, <4>3, OthersKept
    <3> QED BY <3>1, <3>2
  <2> QED BY <2>3, <2>4, <2>5, <2>6 DEF IInv, NoLostUpdate
<1> QED BY <1>1, <1>2

LEMMA UpdateDepositKeeps ==
    ASSUME IInv, NEW s \in Sessions, UpdateDeposit(s)
    PROVE  IInv'
<1> DEFINE w == op[s].wallet
           a == op[s].amount
<1>1. /\ pc[s] = "update" /\ op[s].kind = "deposit" /\ op[s] \in Operations
      /\ w \in Wallets /\ a \in Int /\ lock[w] = s
  BY OperationFields, ConstantsAssumption DEF UpdateDeposit, IInv, SessionOK, Amounts
<1>2. w < nextId
  BY <1>1, NobodyIsFree DEF IInv, TypeOK, FreshIds, Wallets
<1>3. Update(s, w, a, "record")
  BY DEF UpdateDeposit
<1>4. ASSUME View(s)[w] + a \in Amounts
      PROVE  /\ SessionOK(s)'
             /\ \A v \in Wallets : /\ Due(s, v) \in Int
                                   /\ Due(s, v)' = Due(s, v) + (IF v = w THEN a ELSE 0)
  <2>1. pc'[s] = "record" /\ op' = op /\ cur' = cur /\ nextId' = nextId
    BY <1>3, <1>4 DEF Update, IInv, TypeOK
  <2>2. \A v \in Wallets : Due(s, v) = 0 /\ Due(s, v)' = IF v = w THEN a ELSE 0
    BY <1>1, <2>1 DEF Due, Target
  <2>3. SessionOK(s)'
    BY <1>1, <2>1 DEF SessionOK
  <2> QED BY <1>1, <2>2, <2>3
<1> QED BY <1>1, <1>2, <1>3, <1>4, UpdateKeeps

LEMMA UpdateWithdrawKeeps ==
    ASSUME IInv, NEW s \in Sessions, UpdateWithdraw(s)
    PROVE  IInv'
<1> DEFINE w == op[s].wallet
           a == op[s].amount
<1>1. /\ pc[s] = "update" /\ op[s].kind = "withdraw" /\ op[s] \in Operations
      /\ w \in Wallets /\ a \in Int /\ lock[w] = s
  BY OperationFields, ConstantsAssumption DEF UpdateWithdraw, IInv, SessionOK, Amounts
<1>2. w < nextId
  BY <1>1, NobodyIsFree DEF IInv, TypeOK, FreshIds, Wallets
<1>3. CASE Rollback(s, "insufficient")
  BY <1>3, RollbackKeeps
<1>4. CASE Update(s, w, -a, "record")
  <2>1. ASSUME View(s)[w] + (-a) \in Amounts
        PROVE  /\ SessionOK(s)'
               /\ \A v \in Wallets : /\ Due(s, v) \in Int
                                     /\ Due(s, v)' = Due(s, v) + (IF v = w THEN -a ELSE 0)
    <3>1. pc'[s] = "record" /\ op' = op /\ cur' = cur /\ nextId' = nextId
      BY <1>4, <2>1 DEF Update, IInv, TypeOK
    <3>2. \A v \in Wallets : Due(s, v) = 0 /\ Due(s, v)' = IF v = w THEN -a ELSE 0
      BY <1>1, <3>1 DEF Due, Target
    <3>3. SessionOK(s)'
      BY <1>1, <3>1 DEF SessionOK
    <3> QED BY <1>1, <3>2, <3>3
  <2>2. -a \in Int
    BY <1>1
  <2> QED BY <1>1, <1>2, <1>4, <2>1, <2>2, UpdateKeeps
<1> QED BY <1>3, <1>4 DEF UpdateWithdraw

LEMMA CheckJobKeeps ==
    ASSUME IInv, NEW s \in Sessions, CheckJob(s)
    PROVE  IInv'
<1> DEFINE verdict == Verdict(rows, View(s), Job(s))
<1>1. pc[s] = "check" /\ op[s].kind = "batch"
  BY DEF CheckJob, IInv, SessionOK
<1>2. CASE verdict # "ok"
  <2>1. verdict \in {"invalid", "notfound", "insufficient"}
    BY <1>2 DEF Verdict
  <2>2. Rollback(s, verdict)
    BY <1>2 DEF CheckJob
  <2> QED BY <2>1, <2>2, RollbackKeeps
<1>3. CASE verdict = "ok"
  <2>1. /\ pc' = [pc EXCEPT ![s] = "debit"]
        /\ UNCHANGED <<rows, balance, posted, book, nextId, lock, op, todo, cur,
                       image, pend, lines, outcome, issued>>
    BY <1>3 DEF CheckJob, committed
  <2>2. Job(s).from \in Wallets /\ Job(s).to \in Wallets /\ Job(s).amount \in Int
    BY <1>1, JobType
  <2>3. /\ PassedJob(Job(s))
        /\ View(s)[Job(s).from] >= Job(s).amount
    <3>1. View(s)[Job(s).from] \in Amounts
      BY <2>2 DEF View, IInv, TypeOK
    <3> QED BY <1>3, <2>2, <3>1, ConstantsAssumption DEF Verdict, PassedJob, Amounts
  <2>4. TypeOK'
    BY <2>1 DEF IInv, TypeOK
  <2>5. Reconciled' /\ FreshIds'
    BY <2>1 DEF IInv, Reconciled, FreshIds
  <2>6. ASSUME NEW t \in Sessions
        PROVE  SessionOK(t)' /\ SeesItsWrites(t)'
    <3>1. CASE t = s
      <4>1. pc'[s] = "debit"
        BY <2>1 DEF IInv, TypeOK
      <4>2. SeesItsWrites(s)'
        BY <1>1, <2>1, <4>1 DEF IInv, NoLostUpdate, SeesItsWrites, Due
      <4>3. Job(s)' = Job(s) /\ PassedJob(Job(s))'
        BY <2>1, <2>3 DEF Job, PassedJob
      <4>4. lock'[Job(s)'.from] = s => image'[s][Job(s)'.from] >= Job(s)'.amount
        BY <2>1, <2>2, <2>3, <4>3 DEF View
      <4>5. SessionOK(s)'
        BY <1>1, <2>1, <4>1, <4>3, <4>4 DEF IInv, SessionOK
      <4> QED BY <3>1, <4>2, <4>5
    <3>2. CASE t # s
      <4>1. pc'[t] = pc[t] /\ nextId \in Int
        BY <2>1, <3>2 DEF IInv, TypeOK
      <4> QED BY <2>1, <4>1, OthersKept
    <3> QED BY <3>1, <3>2
  <2> QED BY <2>4, <2>5, <2>6 DEF IInv, NoLostUpdate
<1> QED BY <1>2, <1>3

LEMMA DebitKeeps ==
    ASSUME IInv, NEW s \in Sessions, Debit(s)
    PROVE  IInv'
<1> DEFINE w == Job(s).from
           d == -Job(s).amount
<1>1. pc[s] = "debit" /\ op[s].kind = "batch"
  BY DEF Debit, IInv, SessionOK
<1>2. w \in Wallets /\ d \in Int /\ op[s] \in Operations
      /\ cur[s] \in 1 .. Len(op[s].jobs)
  BY <1>1, JobType
<1>3. PassedJob(Job(s)) /\ w < nextId
  <2>1. PassedJob(Job(s))
    BY <1>1 DEF IInv, SessionOK
  <2> QED BY <1>2, <2>1 DEF PassedJob, IInv, TypeOK, FreshIds, Wallets
<1>4. Update(s, w, d, "credit")
  BY DEF Debit
<1>5. ASSUME View(s)[w] + d \in Amounts
      PROVE  /\ SessionOK(s)'
             /\ \A v \in Wallets : /\ Due(s, v) \in Int
                                   /\ Due(s, v)' = Due(s, v) + (IF v = w THEN d ELSE 0)
  <2>1. /\ pc'[s] = "credit" /\ op' = op /\ cur' = cur /\ nextId' = nextId
        /\ rows' = rows
    BY <1>4, <1>5 DEF Update, IInv, TypeOK, committed
  <2>2. Job(s)' = Job(s) /\ PassedJob(Job(s))'
    BY <1>3, <2>1 DEF Job, PassedJob
  <2>3. \A v \in Wallets : Due(s, v) = 0 /\ Due(s, v)' = IF v = w THEN d ELSE 0
    BY <1>1, <2>1, <2>2 DEF Due
  <2>4. SessionOK(s)'
    BY <1>1, <1>2, <2>1, <2>2 DEF SessionOK
  <2> QED BY <1>2, <2>3, <2>4
<1> HIDE DEF w, d
<1> QED BY <1>2, <1>3, <1>4, <1>5, UpdateKeeps

LEMMA CreditKeeps ==
    ASSUME IInv, NEW s \in Sessions, Credit(s)
    PROVE  IInv'
<1> DEFINE w == Job(s).to
           d == Job(s).amount
<1>1. pc[s] = "credit" /\ op[s].kind = "batch"
  BY DEF Credit, IInv, SessionOK
<1>2. w \in Wallets /\ d \in Int /\ op[s] \in Operations
      /\ cur[s] \in 1 .. Len(op[s].jobs)
  BY <1>1, JobType
<1>3. PassedJob(Job(s)) /\ w < nextId
  <2>1. PassedJob(Job(s))
    BY <1>1 DEF IInv, SessionOK
  <2> QED BY <1>2, <2>1 DEF PassedJob, IInv, TypeOK, FreshIds, Wallets
<1>4. Update(s, w, d, "record")
  BY DEF Credit
<1>5. ASSUME View(s)[w] + d \in Amounts
      PROVE  /\ SessionOK(s)'
             /\ \A v \in Wallets : /\ Due(s, v) \in Int
                                   /\ Due(s, v)' = Due(s, v) + (IF v = w THEN d ELSE 0)
  <2>1. /\ pc'[s] = "record" /\ op' = op /\ cur' = cur /\ nextId' = nextId
        /\ rows' = rows
    BY <1>4, <1>5 DEF Update, IInv, TypeOK, committed
  <2>2. Job(s)' = Job(s) /\ PassedJob(Job(s))'
    BY <1>3, <2>1 DEF Job, PassedJob
  <2>3. \A v \in Wallets :
          /\ Due(s, v) = IF v = Job(s).from THEN -d ELSE 0
          /\ Due(s, v)' = IF v = Job(s).from THEN -d ELSE IF v = w THEN d ELSE 0
    BY <1>1, <2>1, <2>2 DEF Due
  <2>4. Job(s).from # w
    BY <1>3 DEF PassedJob
  <2>5. SessionOK(s)'
    BY <1>1, <1>2, <2>1, <2>2 DEF SessionOK
  <2>6. \A v \in Wallets : /\ Due(s, v) \in Int
                           /\ Due(s, v)' = Due(s, v) + (IF v = w THEN d ELSE 0)
    <3> HIDE DEF w, d
    <3> QED BY <1>2, <2>3, <2>4
  <2> QED BY <2>5, <2>6
<1> HIDE DEF w, d
<1> QED BY <1>2, <1>3, <1>4, <1>5, UpdateKeeps

\* Recording what was due moves it into pend: the sum stays.
LEMMA PostKeeps ==
    ASSUME IInv, NEW s \in Sessions, NEW txn \in Txns, NEW sums \in [Wallets -> Int],
           NEW next \in {"check", "commit"}, Post(s, txn, sums, next),
           \A v \in Wallets : sums[v] = pend[s][v] + Due(s, v),
           cur' \in [Sessions -> Nat],
           \A t \in Sessions : t # s => cur'[t] = cur[t],
           SessionOK(s)'
    PROVE  IInv'
<1>1. /\ lines' = [lines EXCEPT ![s] = Append(@, txn)]
      /\ pend' = [pend EXCEPT ![s] = sums]
      /\ pc' = [pc EXCEPT ![s] = next]
      /\ UNCHANGED <<rows, balance, posted, book, nextId, lock, op, todo, image,
                     outcome, issued>>
  BY DEF Post, committed
<1>2. TypeOK'
  BY <1>1 DEF IInv, TypeOK
<1>3. Reconciled' /\ FreshIds'
  BY <1>1 DEF IInv, Reconciled, FreshIds
<1>4. ASSUME NEW t \in Sessions
      PROVE  SessionOK(t)' /\ SeesItsWrites(t)'
  <2>1. CASE t = s
    <3>1. pc'[s] \in {"check", "commit"} /\ pend'[s] = sums
      BY <1>1 DEF IInv, TypeOK
    <3>2. \A v \in Wallets : Due(s, v)' = 0
      BY <3>1 DEF Due
    <3>3. \A v \in Wallets : sums[v] \in Int /\ balance[v] \in Int
      BY ConstantsAssumption DEF IInv, TypeOK, Amounts
    <3>4. SeesItsWrites(s)'
      <4> SUFFICES ASSUME NEW v \in Wallets
                   PROVE  IF lock'[v] = s
                          THEN image'[s][v] = balance'[v] + pend'[s][v] + Due(s, v)'
                          ELSE pend'[s][v] + Due(s, v)' = 0
        BY DEF SeesItsWrites
      <4>1. IF lock[v] = s THEN image[s][v] = balance[v] + pend[s][v] + Due(s, v)
                           ELSE pend[s][v] + Due(s, v) = 0
        BY DEF IInv, NoLostUpdate, SeesItsWrites
      <4>2. pend[s][v] \in Int /\ Due(s, v) \in Int
        <5>1. pend[s][v] \in Int
          BY DEF IInv, TypeOK
        <5> QED BY <5>1, DueType
      <4> QED BY <1>1, <3>1, <3>2, <3>3, <4>1, <4>2
    <3> QED BY <2>1, <3>4
  <2>2. CASE t # s
    <3>1. /\ pc'[t] = pc[t] /\ cur'[t] = cur[t] /\ pend'[t] = pend[t]
          /\ nextId \in Int
      BY <1>1, <2>2 DEF IInv, TypeOK
    <3> QED BY <1>1, <3>1, OthersKept
  <2> QED BY <2>1, <2>2
<1> QED BY <1>2, <1>3, <1>4 DEF IInv, NoLostUpdate

LEMMA RecordCashKeeps ==
    ASSUME IInv, NEW s \in Sessions, RecordCash(s)
    PROVE  IInv'
<1> DEFINE w == Target(s)
           a == op[s].amount
<1>1. /\ pc[s] = "record" /\ op[s].kind # "batch" /\ cur' = cur
      /\ op[s] \in Operations
  BY DEF RecordCash, IInv, SessionOK
<1>2. /\ op[s].kind \in {"create", "deposit", "withdraw"}
      /\ w \in Wallets /\ a \in Amounts /\ a \in Int
  <2>1. op[s].kind = "create" => cur[s] \in Wallets
    BY <1>1 DEF IInv, SessionOK
  <2> QED BY <1>1, <2>1, OperationFields, ConstantsAssumption DEF Target, Amounts
<1>3. ASSUME NEW v \in Wallets
      PROVE  Due(s, v) = IF v # w THEN 0
                         ELSE IF op[s].kind = "withdraw" THEN -a ELSE a
  BY <1>1 DEF Due
<1>4. pend[s] \in [Wallets -> Int]
  BY DEF IInv, TypeOK
<1>5. ASSUME pc'[s] = "commit", op' = op, nextId' = nextId
      PROVE  SessionOK(s)'
  BY <1>1, <1>5 DEF IInv, SessionOK
<1>6. cur' \in [Sessions -> Nat] /\ \A t \in Sessions : cur'[t] = cur[t]
  BY <1>1 DEF IInv, TypeOK
<1> HIDE DEF w, a
<1>7. CASE op[s].kind = "withdraw"
  <2> DEFINE txn == CashTxn("withdrawal", w, a, -a)
             sums == [pend[s] EXCEPT ![w] = @ - a]
  <2>1. Post(s, txn, sums, "commit")
    BY <1>7 DEF RecordCash, w, a
  <2>2. txn \in Txns
    BY <1>2, CashTxnType
  <2>3. sums \in [Wallets -> Int] /\ \A v \in Wallets : sums[v] = pend[s][v] + Due(s, v)
    BY <1>2, <1>3, <1>4, <1>7
  <2>4. SessionOK(s)'
    BY <1>5, <2>1 DEF Post, IInv, TypeOK
  <2> HIDE DEF txn, sums
  <2> QED BY <1>6, <2>1, <2>2, <2>3, <2>4, PostKeeps
<1>8. CASE op[s].kind # "withdraw"
  <2> DEFINE txn == CashTxn("deposit", w, a, a)
             sums == [pend[s] EXCEPT ![w] = @ + a]
  <2>1. Post(s, txn, sums, "commit")
    BY <1>8 DEF RecordCash, w, a
  <2>2. txn \in Txns
    BY <1>2, CashTxnType
  <2>3. sums \in [Wallets -> Int] /\ \A v \in Wallets : sums[v] = pend[s][v] + Due(s, v)
    BY <1>2, <1>3, <1>4, <1>8
  <2>4. SessionOK(s)'
    BY <1>5, <2>1 DEF Post, IInv, TypeOK
  <2> HIDE DEF txn, sums
  <2> QED BY <1>6, <2>1, <2>2, <2>3, <2>4, PostKeeps
<1> QED BY <1>7, <1>8

LEMMA RecordTransferKeeps ==
    ASSUME IInv, NEW s \in Sessions, RecordTransfer(s)
    PROVE  IInv'
<1> DEFINE j == Job(s)
           n == Len(op[s].jobs)
           next == IF cur[s] < n THEN "check" ELSE "commit"
<1>1. /\ pc[s] = "record" /\ op[s].kind = "batch"
      /\ Post(s, TransferTxn(j), Move(pend[s], j), next)
      /\ cur' = [cur EXCEPT ![s] = IF @ < n THEN @ + 1 ELSE @]
  BY DEF RecordTransfer
<1>2. /\ op[s] \in Operations /\ cur[s] \in 1 .. n
      /\ j \in Jobs /\ j.from \in Wallets /\ j.to \in Wallets /\ j.amount \in Int
  BY <1>1, JobType
<1>3. j.from # j.to /\ j.amount \in Amounts
  BY <1>1 DEF IInv, SessionOK, PassedJob
<1>4. n \in Nat
  BY <1>1, <1>2, OperationFields
<1>5. pend[s] \in [Wallets -> Int]
  BY DEF IInv, TypeOK
<1>6. \A v \in Wallets :
         Due(s, v) = IF v = j.from THEN -j.amount ELSE IF v = j.to THEN j.amount ELSE 0
  BY <1>1 DEF Due
<1>7. /\ cur' \in [Sessions -> Nat]
      /\ \A t \in Sessions : t # s => cur'[t] = cur[t]
      /\ cur'[s] \in 1 .. n
  BY <1>1, <1>2, <1>4 DEF IInv, TypeOK
<1>8. SessionOK(s)'
  <2>1. pc'[s] = next /\ op' = op
    BY <1>1 DEF Post, IInv, TypeOK
  <2> QED BY <1>1, <1>2, <1>7, <2>1 DEF SessionOK
<1> HIDE DEF j, n
<1>9. /\ Move(pend[s], j) \in [Wallets -> Int]
      /\ \A v \in Wallets : Move(pend[s], j)[v] = pend[s][v] + Due(s, v)
  BY <1>2, <1>3, <1>5, <1>6 DEF Move
<1>10. TransferTxn(j) \in Txns
  BY <1>2, <1>3, TransferTxnType
<1>11. next \in {"check", "commit"}
  OBVIOUS
<1> HIDE DEF next
<1> QED BY <1>1, <1>7, <1>8, <1>9, <1>10, <1>11, PostKeeps

LEMMA CommitKeeps ==
    ASSUME IInv, NEW s \in Sessions, Commit(s)
    PROVE  IInv'
<1>1. PICK result \in {"ok", "error"} : Finish(s, result)
  BY DEF Commit
<1>2. /\ pc[s] = "commit"
      /\ rows' = rows \cup (IF op[s].kind = "create" THEN {cur[s]} ELSE {})
      /\ balance' = [w \in Wallets |-> IF lock[w] = s THEN image[s][w] ELSE balance[w]]
      /\ posted' = [w \in Wallets |-> posted[w] + pend[s][w]]
      /\ book' = book \o lines[s]
  BY DEF Commit
<1>3. op[s].kind = "create" => cur[s] \in Wallets /\ cur[s] < nextId
  BY <1>2 DEF IInv, SessionOK
<1>4. TypeOK'
  <2>1. rows' \subseteq Wallets
    BY <1>2, <1>3 DEF IInv, TypeOK
  <2>2. balance' \in [Wallets -> Amounts] /\ posted' \in [Wallets -> Int]
    BY <1>2 DEF IInv, TypeOK
  <2>3. book' \in Seq(Txns)
    BY <1>2 DEF IInv, TypeOK
  <2> QED BY <1>1, <2>1, <2>2, <2>3, ConstantsAssumption
          DEF IInv, TypeOK, Finish, Zero, Amounts
<1>5. Reconciled'
  <2> SUFFICES ASSUME NEW w \in Wallets PROVE balance'[w] = posted'[w]
    BY DEF Reconciled
  <2>1. /\ balance[w] = posted[w] /\ balance[w] \in Int /\ pend[s][w] \in Int
        /\ Due(s, w) = 0
    BY <1>2, ConstantsAssumption DEF IInv, TypeOK, Reconciled, Due, Amounts
  <2> QED BY <1>2, <2>1 DEF IInv, NoLostUpdate, SeesItsWrites
<1>6. FreshIds'
  BY <1>1, <1>2, <1>3, NobodyIsFree DEF IInv, TypeOK, FreshIds, Finish, Wallets
<1>7. ASSUME NEW t \in Sessions
      PROVE  SessionOK(t)' /\ SeesItsWrites(t)'
  <2>1. CASE t = s
    <3>1. /\ pc'[s] = "idle" /\ pend'[s] = Zero
          /\ \A w \in Wallets : lock'[w] # s
      BY <1>1, NobodyIsFree DEF IInv, TypeOK, Finish
    <3>2. SessionOK(s)'
      BY <3>1 DEF SessionOK
    <3>3. SeesItsWrites(s)'
      BY <3>1 DEF SeesItsWrites, Due, Zero
    <3> QED BY <2>1, <3>2, <3>3
  <2>2. CASE t # s
    <3>1. /\ pc'[t] = pc[t] /\ op'[t] = op[t] /\ cur'[t] = cur[t] /\ todo'[t] = todo[t]
          /\ image'[t] = image[t] /\ pend'[t] = pend[t]
          /\ rows \subseteq rows' /\ nextId' = nextId /\ nextId \in Int
      BY <1>1, <1>2, <2>2 DEF IInv, TypeOK, Finish
    <3>2. \A w \in Wallets : lock'[w] = t <=> lock[w] = t
      BY <1>1, <2>2, NobodyIsFree DEF Finish
    <3>3. \A w \in Wallets : lock[w] = t => balance'[w] = balance[w]
      BY <1>2, <2>2
    <3> QED BY <3>1, <3>2, <3>3, OthersKept
  <2> QED BY <2>1, <2>2
<1> QED BY <1>4, <1>5, <1>6, <1>7 DEF IInv, NoLostUpdate

LEMMA StutterKeeps ==
    ASSUME IInv, UNCHANGED vars
    PROVE  IInv'
<1>1. TypeOK' /\ Reconciled' /\ FreshIds'
  BY DEF IInv, TypeOK, Reconciled, FreshIds, vars
<1>2. ASSUME NEW t \in Sessions
      PROVE  SessionOK(t)' /\ SeesItsWrites(t)'
  <2>1. nextId \in Int
    BY DEF IInv, TypeOK
  <2> QED BY <2>1, OthersKept DEF vars
<1> QED BY <1>1, <1>2 DEF IInv, NoLostUpdate

-----------------------------------------------------------------------------
(* Theorems *)

\* Every step of every session, whatever the others are doing, keeps IInv.
LEMMA NextKeeps == IInv /\ [Next]_vars => IInv'
<1> SUFFICES ASSUME IInv, [Next]_vars PROVE IInv'
  OBVIOUS
<1>1. CASE UNCHANGED vars
  BY <1>1, StutterKeeps
<1>2. ASSUME NEW s \in Sessions, Begin(s) PROVE IInv'
  BY <1>2, BeginKeeps
<1>3. ASSUME NEW s \in Sessions, Abort(s) PROVE IInv'
  BY <1>3, RollbackKeeps DEF Abort
<1>4. ASSUME NEW s \in Sessions, Step(s) PROVE IInv'
  BY <1>4, InsertWalletKeeps, LockRowKeeps, MissRowKeeps, UpdateDepositKeeps,
     UpdateWithdrawKeeps, CheckJobKeeps, DebitKeeps, CreditKeeps, RecordCashKeeps,
     RecordTransferKeeps, CommitKeeps DEF Step
<1> QED BY <1>1, <1>2, <1>3, <1>4 DEF Next

\* IInv holds in every reachable state.
THEOREM Inductive == Spec => []IInv
BY InitInv, NextKeeps, PTL DEF Spec

\* The schema's types hold always; in particular no committed or uncommitted
\* balance is ever negative or beyond the BIGINT range.
THEOREM TypeCorrect == Spec => []TypeOK
<1>1. IInv => TypeOK
  BY DEF IInv
<1> QED BY <1>1, Inductive, PTL

\* Every wallet's balance always equals the sum of its ledger entries, for any
\* number of wallets, sessions and operations and any batches.
THEOREM AlwaysReconciled == Spec => []Reconciled
<1>1. IInv => Reconciled
  BY DEF IInv
<1> QED BY <1>1, Inductive, PTL

\* No session's write is ever lost to another's, and no balance is computed
\* from a row version that is not the latest committed one.
THEOREM NeverLostUpdate == Spec => []NoLostUpdate
<1>1. IInv => NoLostUpdate
  BY DEF IInv
<1> QED BY <1>1, Inductive, PTL

\* The funds a transfer was checked for are still there when it debits a row
\* its batch had locked.
THEOREM FundsStayChecked == Spec => []CheckedFundsHold
<1>1. IInv => CheckedFundsHold
  BY DEF IInv, SessionOK, CheckedFundsHold
<1> QED BY <1>1, Inductive, PTL

-----------------------------------------------------------------------------
(* The sums are the sums of the entries *)

\* What a transaction posts to a wallet is a number.
LEMMA TxnSumIsInt ==
    ASSUME NEW w
    PROVE  \A t \in Txns : TxnSum(t, w) \in Int
<1> SUFFICES ASSUME NEW t \in Txns PROVE TxnSum(t, w) \in Int
  OBVIOUS
<1>1. t.entries \in Seq(Entries)
  BY DEF Txns
<1>2. \A e \in Entries : e.amount \in Int
  BY DEF Entries
<1> QED BY <1>1, <1>2, TxnSumType

LEMMA CashTxnSum ==
    ASSUME NEW type, NEW w, NEW a, NEW d \in Int, NEW v
    PROVE  TxnSum(CashTxn(type, w, a, d), v) = IF v = w THEN d ELSE 0
<1> DEFINE t == CashTxn(type, w, a, d)
           e == Entry(w, d)
<1>1. t.entries = <<e>> /\ e.wallet = w /\ e.amount = d
  BY DEF CashTxn, Entry
<1> HIDE DEF t, e
<1>2. TxnSum(t, v) = EntryAmount(e, v)
  BY <1>1, TxnSumOfOne
<1> QED BY <1>1, <1>2 DEF EntryAmount, t

LEMMA TransferTxnSum ==
    ASSUME NEW j \in Jobs, j.from # j.to, NEW v
    PROVE  TxnSum(TransferTxn(j), v)
             = IF v = j.from THEN -j.amount ELSE IF v = j.to THEN j.amount ELSE 0
<1> DEFINE t == TransferTxn(j)
           d == Entry(j.from, -j.amount)
           e == Entry(j.to, j.amount)
<1>1. j.amount \in Int /\ -j.amount \in Int
  BY DEF Jobs
<1>2. /\ t.entries = <<d, e>>
      /\ d.wallet = j.from /\ d.amount = -j.amount
      /\ e.wallet = j.to /\ e.amount = j.amount
  BY DEF TransferTxn, Entry
<1> HIDE DEF t, d, e
<1>3. TxnSum(t, v) = EntryAmount(d, v) + EntryAmount(e, v)
  BY <1>1, <1>2, TxnSumOfTwo
<1>4. TxnSum(t, v) = IF v = j.from THEN -j.amount ELSE IF v = j.to THEN j.amount ELSE 0
  BY <1>1, <1>2, <1>3 DEF EntryAmount
<1> QED BY <1>4 DEF t

\* Initially: one deposit for each wallet that is open, if it is not empty.
LEMMA InitSums == Init => BookSums
<1> SUFFICES ASSUME Init, NEW w \in Wallets
             PROVE  /\ posted[w] = EntrySum(book, w)
                    /\ \A s \in Sessions : pend[s][w] = EntrySum(lines[s], w)
  BY DEF BookSums
<1> DEFINE n == Len(Opening)
           v == [i \in 1 .. Len(book) |-> TxnSum(book[i], w)]
<1>1. /\ n \in Nat /\ Opening \in Seq(Amounts \ {0})
      /\ \A i \in 1 .. n : Opening[i] \in Int
  <2>1. Amounts \subseteq Int
    BY ConstantsAssumption DEF ConstantsAssumption, Amounts
  <2>2. Opening \in Seq(Amounts \ {0})
    BY ConstantsAssumption DEF ConstantsAssumption
  <2>3. n \in Nat
    BY <2>2
  <2>4. \A i \in 1 .. n : Opening[i] \in Amounts \ {0}
    BY <2>2
  <2> QED BY <2>1, <2>2, <2>3, <2>4
<1>2. book \in Seq(Txns) /\ book = [i \in 1 .. n |-> CashTxn("deposit", i, Opening[i], Opening[i])]
  BY InitInv DEF Init, Opened, IInv, TypeOK
<1>3. Len(book) = n
  BY <1>1, <1>2
<1>4. ASSUME NEW i \in 1 .. n
      PROVE  TxnSum(book[i], w) = IF w = i THEN Opening[i] ELSE 0
  <2>1. book[i] = CashTxn("deposit", i, Opening[i], Opening[i])
    BY <1>2
  <2> QED BY <1>1, <2>1, CashTxnSum
<1>5. v \in Seq(Int) /\ Len(v) = n
  <2>1. v \in [1 .. n -> Int]
    BY <1>1, <1>3, <1>4
  <2> HIDE DEF v
  <2> QED BY <1>1, <2>1, ListOf
<1>6. \A i \in 1 .. n : v[i] = IF w = i THEN Opening[i] ELSE 0
  BY <1>3, <1>4
<1>7. posted[w] = IF w \in 1 .. n THEN Opening[w] ELSE 0
  BY DEF Init, OpeningBalance, Opened
<1>8. posted[w] = EntrySum(book, w)
  <2>1. PICK u \in Seq(Int) : u = v
    BY <1>5
  <2> HIDE DEF v
  <2>2. \A i \in 1 .. Len(u) : i # w => u[i] = 0
    BY <1>5, <1>6, <2>1
  <2>3. SumOf(u) = IF w \in 1 .. Len(u) THEN u[w] ELSE 0
    BY <2>2, SumAlone
  <2>4. SumOf(v) = posted[w]
    BY <1>5, <1>6, <1>7, <2>1, <2>3
  <2> QED BY <2>4 DEF EntrySum, v
<1>9. ASSUME NEW s \in Sessions PROVE pend[s][w] = EntrySum(lines[s], w)
  BY EntrySumOfNone DEF Init, Zero
<1> QED BY <1>8, <1>9

\* A session that inserts a transaction adds its entries to its sums.
LEMMA PostSums ==
    ASSUME IInv, BookSums, NEW s \in Sessions, NEW txn \in Txns, NEW sums, NEW next,
           Post(s, txn, sums, next),
           \A w \in Wallets : sums[w] = pend[s][w] + TxnSum(txn, w)
    PROVE  BookSums'
<1>1. /\ posted' = posted /\ book' = book
      /\ pend'[s] = sums /\ lines'[s] = Append(lines[s], txn)
      /\ \A t \in Sessions : t # s => pend'[t] = pend[t] /\ lines'[t] = lines[t]
  BY DEF Post, committed, IInv, TypeOK
<1>2. ASSUME NEW w \in Wallets PROVE pend'[s][w] = EntrySum(lines'[s], w)
  <2>1. lines[s] \in Seq(Txns)
    BY DEF IInv, TypeOK
  <2>2. EntrySum(Append(lines[s], txn), w) = EntrySum(lines[s], w) + TxnSum(txn, w)
    BY <2>1, TxnSumIsInt, EntrySumAppend
  <2> QED BY <1>1, <2>2 DEF BookSums
<1> QED BY <1>1, <1>2 DEF BookSums

LEMMA RecordCashSums ==
    ASSUME IInv, BookSums, NEW s \in Sessions, RecordCash(s)
    PROVE  BookSums'
<1> DEFINE w == Target(s)
           a == op[s].amount
<1>1. /\ pc[s] = "record" /\ op[s].kind # "batch" /\ op[s] \in Operations
  BY DEF RecordCash, IInv, SessionOK
<1>2. /\ op[s].kind \in {"create", "deposit", "withdraw"}
      /\ w \in Wallets /\ a \in Amounts /\ a \in Int
  <2>1. op[s].kind = "create" => cur[s] \in Wallets
    BY <1>1 DEF IInv, SessionOK
  <2> QED BY <1>1, <2>1, OperationFields, ConstantsAssumption DEF Target, Amounts
<1>3. pend[s] \in [Wallets -> Int]
  BY DEF IInv, TypeOK
<1> HIDE DEF w, a
<1>4. CASE op[s].kind = "withdraw"
  <2> DEFINE txn == CashTxn("withdrawal", w, a, -a)
             sums == [pend[s] EXCEPT ![w] = @ - a]
  <2>1. Post(s, txn, sums, "commit")
    BY <1>4 DEF RecordCash, w, a
  <2>2. txn \in Txns
    BY <1>2, CashTxnType
  <2>3. -a \in Int /\ \A v \in Wallets : sums[v] = pend[s][v] + (IF v = w THEN -a ELSE 0)
    BY <1>2, <1>3
  <2>4. \A v \in Wallets : TxnSum(txn, v) = IF v = w THEN -a ELSE 0
    BY <2>3, CashTxnSum
  <2> HIDE DEF txn, sums
  <2>5. \A v \in Wallets : sums[v] = pend[s][v] + TxnSum(txn, v)
    BY <2>3, <2>4
  <2> QED BY <2>1, <2>2, <2>5, PostSums
<1>5. CASE op[s].kind # "withdraw"
  <2> DEFINE txn == CashTxn("deposit", w, a, a)
             sums == [pend[s] EXCEPT ![w] = @ + a]
  <2>1. Post(s, txn, sums, "commit")
    BY <1>5 DEF RecordCash, w, a
  <2>2. txn \in Txns
    BY <1>2, CashTxnType
  <2>3. \A v \in Wallets : sums[v] = pend[s][v] + (IF v = w THEN a ELSE 0)
    BY <1>2, <1>3
  <2>4. \A v \in Wallets : TxnSum(txn, v) = IF v = w THEN a ELSE 0
    BY <1>2, CashTxnSum
  <2> HIDE DEF txn, sums
  <2>5. \A v \in Wallets : sums[v] = pend[s][v] + TxnSum(txn, v)
    BY <2>3, <2>4
  <2> QED BY <2>1, <2>2, <2>5, PostSums
<1> QED BY <1>4, <1>5

LEMMA RecordTransferSums ==
    ASSUME IInv, BookSums, NEW s \in Sessions, RecordTransfer(s)
    PROVE  BookSums'
<1> DEFINE j == Job(s)
           n == Len(op[s].jobs)
           next == IF cur[s] < n THEN "check" ELSE "commit"
           sums == Move(pend[s], j)
<1>1. /\ pc[s] = "record" /\ op[s].kind = "batch"
      /\ Post(s, TransferTxn(j), sums, next)
  BY DEF RecordTransfer
<1>2. j \in Jobs /\ j.from \in Wallets /\ j.to \in Wallets /\ j.amount \in Int
  BY <1>1, JobType
<1>3. j.from # j.to /\ j.amount \in Amounts
  BY <1>1 DEF IInv, SessionOK, PassedJob
<1>4. pend[s] \in [Wallets -> Int]
  BY DEF IInv, TypeOK
<1> HIDE DEF j
<1>5. TransferTxn(j) \in Txns
  BY <1>2, <1>3, TransferTxnType
<1>6. ASSUME NEW v \in Wallets PROVE sums[v] = pend[s][v] + TxnSum(TransferTxn(j), v)
  <2>1. TxnSum(TransferTxn(j), v) = Gain(j, v)
    BY <1>2, <1>3, TransferTxnSum DEF Gain
  <2>2. sums[v] = pend[s][v] + Gain(j, v)
    BY <1>2, <1>3, <1>4, MoveGain
  <2> QED BY <2>1, <2>2
<1> HIDE DEF sums, next
<1> QED BY <1>1, <1>5, <1>6, PostSums

\* A session that ends has neither entries nor sums.
LEMMA FinishSums ==
    ASSUME IInv, BookSums, NEW s \in Sessions, NEW r, Finish(s, r), NEW w \in Wallets,
           NEW t \in Sessions
    PROVE  pend'[t][w] = EntrySum(lines'[t], w)
<1>1. CASE t = s
  <2>1. pend'[s] = Zero /\ lines'[s] = <<>>
    BY DEF Finish, IInv, TypeOK
  <2> QED BY <1>1, <2>1, EntrySumOfNone DEF Zero
<1>2. CASE t # s
  <2>1. pend'[t] = pend[t] /\ lines'[t] = lines[t]
    BY <1>2 DEF Finish, IInv, TypeOK
  <2> QED BY <2>1 DEF BookSums
<1> QED BY <1>1, <1>2

LEMMA RollbackSums ==
    ASSUME IInv, BookSums, NEW s \in Sessions, NEW r, Rollback(s, r)
    PROVE  BookSums'
<1>1. Finish(s, r) /\ posted' = posted /\ book' = book
  BY DEF Rollback, committed
<1> QED BY <1>1, FinishSums DEF BookSums

LEMMA CommitSums ==
    ASSUME IInv, BookSums, NEW s \in Sessions, Commit(s)
    PROVE  BookSums'
<1>1. PICK r \in {"ok", "error"} : Finish(s, r)
  BY DEF Commit
<1>2. /\ posted' = [w \in Wallets |-> posted[w] + pend[s][w]]
      /\ book' = book \o lines[s]
  BY DEF Commit
<1>3. ASSUME NEW w \in Wallets PROVE posted'[w] = EntrySum(book', w)
  <2>1. book \in Seq(Txns) /\ lines[s] \in Seq(Txns)
    BY DEF IInv, TypeOK
  <2>2. EntrySum(book \o lines[s], w) = EntrySum(book, w) + EntrySum(lines[s], w)
    BY <2>1, TxnSumIsInt, EntrySumParts
  <2> QED BY <1>2, <2>2 DEF BookSums
<1> QED BY <1>1, <1>3, FinishSums DEF BookSums

LEMMA NextSums == IInv /\ BookSums /\ [Next]_vars => BookSums'
<1> SUFFICES ASSUME IInv, BookSums, [Next]_vars PROVE BookSums'
  OBVIOUS
<1> DEFINE Same == UNCHANGED <<posted, book, pend, lines>>
<1>0. Same => BookSums'
  BY DEF BookSums
<1>1. CASE UNCHANGED vars
  BY <1>0, <1>1 DEF vars
<1>2. ASSUME NEW s \in Sessions, Begin(s) PROVE BookSums'
  BY <1>0, <1>2 DEF Begin, committed
<1>3. ASSUME NEW s \in Sessions, Abort(s) PROVE BookSums'
  BY <1>3, RollbackSums DEF Abort
<1>4. ASSUME NEW s \in Sessions, Step(s) PROVE BookSums'
  <2>1. CASE InsertWallet(s) \/ LockRow(s)
    BY <1>0, <2>1 DEF InsertWallet, LockRow, committed
  <2>2. CASE MissRow(s)
    BY <1>0, <2>2, RollbackSums DEF MissRow, committed
  <2>3. ASSUME NEW w, NEW d, NEW next, Update(s, w, d, next) PROVE BookSums'
    <3>1. CASE View(s)[w] + d \in Amounts
      BY <1>0, <2>3, <3>1 DEF Update, committed
    <3>2. CASE View(s)[w] + d \notin Amounts
      BY <2>3, <3>2, RollbackSums DEF Update
    <3> QED BY <3>1, <3>2
  <2>4. CASE UpdateDeposit(s)
    BY <2>3, <2>4 DEF UpdateDeposit
  <2>5. CASE UpdateWithdraw(s)
    BY <2>3, <2>5, RollbackSums DEF UpdateWithdraw
  <2>6. CASE CheckJob(s)
    BY <1>0, <2>6, RollbackSums DEF CheckJob, committed
  <2>7. CASE Debit(s)
    BY <2>3, <2>7 DEF Debit
  <2>8. CASE Credit(s)
    BY <2>3, <2>8 DEF Credit
  <2> QED BY <1>4, <2>1, <2>2, <2>4, <2>5, <2>6, <2>7, <2>8, RecordCashSums,
             RecordTransferSums, CommitSums DEF Step
<1> QED BY <1>1, <1>2, <1>3, <1>4 DEF Next

\* Per wallet, the running sum kept with the committed rows, and the one of each
\* open transaction, are the sums of the ledger entries themselves.
THEOREM BooksAddUp == Spec => []BookSums
BY InitSums, NextSums, Inductive, PTL DEF Spec
=============================================================================
