-------------------------- MODULE LedgerSerial_proofs --------------------------
(***************************************************************************)
(* LedgerDB implements AccountBook: whatever its sessions interleave, each *)
(* operation takes effect at its COMMIT as if it had run alone.  With it,  *)
(* that a caller is told the truth, and that a refusal is deserved.        *)
(***************************************************************************)
EXTENDS LedgerDB_proofs

\* What the first n transfers of a batch change, per wallet.
Net(jobs) == Trail(Zero, jobs)

\* How many transfers of its batch a session has recorded.
Recorded(s) == IF pc[s] = "commit" THEN Len(op[s].jobs) ELSE cur[s] - 1

\* What a deposit, a withdrawal or a creation adds to its wallet.
Signed(o) == IF o.kind = "withdraw" THEN -o.amount ELSE o.amount

\* The n-th transfer of the batch of s passed its checks, and the session
\* holds both rows: on their committed balances it passes them still.
Funded(s, n) ==
    LET j == op[s].jobs[n]
        net == Net(op[s].jobs)
    IN  /\ PassedJob(j)
        /\ j.amount > 0
        /\ lock[j.from] = s /\ lock[j.to] = s
        /\ balance[j.from] + net[n - 1][j.from] >= j.amount
        /\ balance[j.to] + net[n][j.to] \in Amounts

\* A session holds locks from its first write or SELECT ... FOR UPDATE on: the
\* creator of a wallet that of the wallet it creates, others those of wallets.
Holdings(s) ==
    \A w \in Wallets : lock[w] = s =>
        /\ pc[s] \notin {"idle", "insert"}
        /\ IF op[s].kind = "create" THEN w = cur[s] /\ w \notin rows ELSE w \in rows

\* What a session that is not transferring has recorded.
CashOK(s) ==
    /\ \/ pc[s] \in {"idle", "insert", "lock", "update"}
       \/ pc[s] = "record" /\ op[s].kind # "batch"
       => pend[s] = Zero /\ lines[s] = <<>>
    /\ pc[s] \in {"record", "commit"} /\ op[s].kind # "batch" => lock[Target(s)] = s
    /\ pc[s] = "record" /\ op[s].kind = "create" => op[s].amount # 0
    /\ pc[s] = "commit" /\ op[s].kind # "batch" =>
         /\ lines[s] = PostedBy(s)
         /\ pend[s] = [Zero EXCEPT ![Target(s)] = Signed(op[s])]

\* What a session that executes a batch has recorded, and what it holds.
BatchOK(s) ==
    pc[s] # "idle" /\ op[s].kind = "batch" =>
        /\ pc[s] = "lock" => cur[s] = 1
        /\ pend[s] = Net(op[s].jobs)[Recorded(s)]
        /\ lines[s] = [i \in 1 .. Recorded(s) |-> TransferTxn(op[s].jobs[i])]
        /\ \A n \in 1 .. Recorded(s) : Funded(s, n)
        /\ pc[s] \in {"credit", "record"} => lock[Job(s).from] = s
        /\ pc[s] = "record" => lock[Job(s).to] = s
        /\ pc[s] \in {"debit", "credit", "record"} => Job(s).amount > 0

\* A wallet that is not there has no money.
Unopened == \A w \in Wallets \ rows : balance[w] = 0

SessionsOK == \A s \in Sessions : Holdings(s) /\ CashOK(s) /\ BatchOK(s)

SInv == IInv /\ Unopened /\ SessionsOK

-----------------------------------------------------------------------------
(* Batches and what they change *)

\* The net change of a batch, transfer by transfer.
LEMMA NetSteps ==
    ASSUME NEW o \in Operations, o.kind = "batch"
    PROVE  /\ Len(o.jobs) \in Nat
           /\ Net(o.jobs) \in [0 .. Len(o.jobs) -> [Wallets -> Int]]
           /\ Net(o.jobs)[0] = Zero
           /\ \A n \in 1 .. Len(o.jobs) :
                Net(o.jobs)[n] = Move(Net(o.jobs)[n - 1], o.jobs[n])
<1>1. PICK jobs : jobs = o.jobs
  OBVIOUS
<1>2. Len(jobs) \in Nat /\ \A n \in 1 .. Len(jobs) : jobs[n].amount \in Int
  BY <1>1, OperationFields, BatchJobs
<1>3. Zero \in [Wallets -> Int]
  BY DEF Zero
<1>4. /\ Net(jobs) \in [0 .. Len(jobs) -> [Wallets -> Int]]
      /\ Net(jobs)[0] = Zero
      /\ \A n \in 1 .. Len(jobs) : Net(jobs)[n] = Move(Net(jobs)[n - 1], jobs[n])
  BY <1>2, <1>3, TrailSteps DEF Net
<1> QED BY <1>1, <1>2, <1>4

\* A batch adds its net change to whatever balances it starts from.
LEMMA NetShift ==
    ASSUME NEW o \in Operations, o.kind = "batch", NEW bal \in [Wallets -> Int],
           NEW n \in 0 .. Len(o.jobs),
           \A m \in 1 .. n : o.jobs[m].from # o.jobs[m].to
    PROVE  /\ Trail(bal, o.jobs)[n] \in [Wallets -> Int]
           /\ \A w \in Wallets : Trail(bal, o.jobs)[n][w] = bal[w] + Net(o.jobs)[n][w]
<1>1. PICK jobs : jobs = o.jobs
  OBVIOUS
<1>2. /\ Len(jobs) \in Nat /\ \A i \in 1 .. Len(jobs) : jobs[i].amount \in Int
      /\ n \in 0 .. Len(jobs) /\ \A i \in 1 .. n : jobs[i].from # jobs[i].to
  BY <1>1, OperationFields, BatchJobs
<1>3. Zero \in [Wallets -> Int] /\ \A w \in Wallets : Zero[w] = 0
  BY DEF Zero
<1>4. \A w \in Wallets : Trail(bal, jobs)[n][w] = bal[w] - Zero[w] + Net(jobs)[n][w]
  <2>1. Apart(Wallets, Trail(bal, jobs)[n], Trail(Zero, jobs)[n], bal, Zero)
    BY <1>2, <1>3, TrailShift
  <2> QED BY <2>1 DEF Net, Apart
<1>5. Trail(bal, jobs)[n] \in [Wallets -> Int] /\ Net(jobs)[n] \in [Wallets -> Int]
  <2>1. \A a \in [Wallets -> Int] : Trail(a, jobs) \in [0 .. Len(jobs) -> [Wallets -> Int]]
    BY <1>2, TrailSteps
  <2> QED BY <1>2, <1>3, <2>1 DEF Net
<1>6. \A w \in Wallets : Trail(bal, jobs)[n][w] = bal[w] + Net(jobs)[n][w]
  <2> SUFFICES ASSUME NEW w \in Wallets
               PROVE  Trail(bal, jobs)[n][w] = bal[w] + Net(jobs)[n][w]
    OBVIOUS
  <2>1. bal[w] \in Int /\ Net(jobs)[n][w] \in Int
    BY <1>5
  <2> QED BY <1>3, <1>4, <2>1
<1> QED BY <1>1, <1>5, <1>6

\* What a session reads between two transfers: the committed balances and what
\* it has recorded itself.
LEMMA ReadsOwnRecords ==
    ASSUME IInv, NEW s \in Sessions, pc[s] \notin {"credit", "record"}
    PROVE  \A w \in Wallets :
             /\ balance[w] \in Int /\ pend[s][w] \in Int
             /\ View(s)[w] = balance[w] + pend[s][w]
             /\ (IF lock[w] = s THEN image[s][w] ELSE balance[w]) = balance[w] + pend[s][w]
             /\ lock[w] # s => pend[s][w] = 0
<1> SUFFICES ASSUME NEW w \in Wallets
             PROVE  /\ balance[w] \in Int /\ pend[s][w] \in Int
                    /\ View(s)[w] = balance[w] + pend[s][w]
                    /\ (IF lock[w] = s THEN image[s][w] ELSE balance[w])
                         = balance[w] + pend[s][w]
                    /\ lock[w] # s => pend[s][w] = 0
  OBVIOUS
<1>1. balance[w] \in Int /\ pend[s][w] \in Int
  BY ConstantsAssumption DEF IInv, TypeOK, Amounts
<1>2. Due(s, w) = 0
  BY DEF Due
<1>3. IF lock[w] = s THEN image[s][w] = balance[w] + pend[s][w] + Due(s, w)
                     ELSE pend[s][w] + Due(s, w) = 0
  BY DEF IInv, NoLostUpdate, SeesItsWrites
<1> QED BY <1>1, <1>2, <1>3 DEF View

\* A batch that is under way, and the range of what it has recorded.
LEMMA RecordedRange ==
    ASSUME IInv, NEW s \in Sessions, pc[s] # "idle", op[s].kind = "batch"
    PROVE  /\ op[s] \in Operations /\ Len(op[s].jobs) \in Nat
           /\ cur[s] \in 1 .. Len(op[s].jobs)
           /\ Recorded(s) \in 0 .. Len(op[s].jobs)
           /\ pc[s] # "commit" => Recorded(s) = cur[s] - 1
<1>1. op[s] \in Operations /\ cur[s] \in 1 .. Len(op[s].jobs)
  BY JobType
<1>2. Len(op[s].jobs) \in Nat
  BY <1>1, NetSteps
<1> QED BY <1>1, <1>2 DEF Recorded

-----------------------------------------------------------------------------
(* The invariant: initial states, and what a step leaves of the others *)

LEMMA SInitInv == Init => SInv
<1> SUFFICES ASSUME Init PROVE SInv
  OBVIOUS
<1>1. IInv
  BY InitInv
<1>2. Unopened
  BY DEF Init, Unopened, OpeningBalance
<1>3. ASSUME NEW s \in Sessions PROVE Holdings(s) /\ CashOK(s) /\ BatchOK(s)
  <2>1. pc[s] = "idle" /\ pend[s] = Zero /\ lines[s] = <<>> /\ \A w \in Wallets : lock[w] # s
    BY NobodyIsFree DEF Init
  <2> QED BY <2>1 DEF Holdings, CashOK, BatchOK
<1> QED BY <1>1, <1>2, <1>3 DEF SInv, SessionsOK

\* A transfer that passed stays passed while its session keeps its locks: the
\* committed balance of a locked row is nobody else's to change.
LEMMA FundedStays ==
    ASSUME IInv, NEW s \in Sessions, op[s] \in Operations, op[s].kind = "batch",
           NEW n \in 1 .. Len(op[s].jobs), Funded(s, n),
           op'[s] = op[s], rows \subseteq rows',
           \A w \in Wallets : lock[w] = s => lock'[w] = s /\ balance'[w] = balance[w]
    PROVE  Funded(s, n)'
<1>1. PICK o \in Operations : o = op[s]
  OBVIOUS
<1>2. PICK j : j = o.jobs[n]
  OBVIOUS
<1>3. /\ PassedJob(j) /\ j.amount > 0 /\ lock[j.from] = s /\ lock[j.to] = s
      /\ balance[j.from] + Net(o.jobs)[n - 1][j.from] >= j.amount
      /\ balance[j.to] + Net(o.jobs)[n][j.to] \in Amounts
  BY <1>1, <1>2 DEF Funded
<1>4. j.from \in Wallets /\ j.to \in Wallets
  BY <1>1, <1>2, BatchJobs
<1>5. /\ lock'[j.from] = s /\ lock'[j.to] = s
      /\ balance'[j.from] = balance[j.from] /\ balance'[j.to] = balance[j.to]
  BY <1>3, <1>4
<1>6. PassedJob(j)'
  BY <1>3 DEF PassedJob
<1>7. op'[s].jobs = o.jobs
  BY <1>1
<1> QED BY <1>2, <1>3, <1>5, <1>6, <1>7 DEF Funded, PassedJob

\* A step of another session leaves what a session has recorded as it is.
LEMMA OthersStay ==
    ASSUME SInv, NEW t \in Sessions,
           pc'[t] = pc[t], op'[t] = op[t], cur'[t] = cur[t],
           pend'[t] = pend[t], lines'[t] = lines[t],
           \A w \in Wallets : lock'[w] = t <=> lock[w] = t,
           \A w \in Wallets : lock[w] = t => balance'[w] = balance[w],
           rows \subseteq rows',
           \A w \in Wallets : lock[w] = t /\ w \notin rows => w \notin rows'
    PROVE  Holdings(t)' /\ CashOK(t)' /\ BatchOK(t)'
<1>1. IInv /\ Holdings(t) /\ CashOK(t) /\ BatchOK(t)
  BY DEF SInv, SessionsOK
<1>2. Job(t)' = Job(t) /\ Target(t)' = Target(t) /\ Recorded(t)' = Recorded(t)
  BY DEF Job, Target, Recorded
<1>3. Holdings(t)'
  BY <1>1 DEF Holdings
<1>4. CashOK(t)'
  <2>1. PostedBy(t)' = PostedBy(t)
    BY <1>2 DEF PostedBy
  <2>2. pc[t] \in {"record", "commit"} /\ op[t].kind # "batch" => Target(t) \in Wallets
    BY <1>1, OperationFields DEF IInv, SessionOK, Target
  <2> QED BY <1>1, <1>2, <2>1, <2>2 DEF CashOK
<1>5. ASSUME pc[t] # "idle", op[t].kind = "batch" PROVE BatchOK(t)'
  <2>1. /\ op[t] \in Operations /\ Len(op[t].jobs) \in Nat
        /\ Recorded(t) \in 0 .. Len(op[t].jobs)
        /\ Job(t).from \in Wallets /\ Job(t).to \in Wallets
    BY <1>1, <1>5, RecordedRange, JobType
  <2>2. ASSUME NEW n \in 1 .. Recorded(t) PROVE Funded(t, n)'
    <3>1. n \in 1 .. Len(op[t].jobs) /\ Funded(t, n)
      BY <1>1, <1>5, <2>1 DEF BatchOK
    <3> QED BY <1>1, <1>5, <2>1, <3>1, FundedStays
  <2>3. /\ pc[t] = "lock" => cur[t] = 1
        /\ pend[t] = Net(op[t].jobs)[Recorded(t)]
        /\ lines[t] = [i \in 1 .. Recorded(t) |-> TransferTxn(op[t].jobs[i])]
        /\ pc[t] \in {"credit", "record"} => lock[Job(t).from] = t
        /\ pc[t] = "record" => lock[Job(t).to] = t
        /\ pc[t] \in {"debit", "credit", "record"} => Job(t).amount > 0
    BY <1>1, <1>5 DEF BatchOK
  <2> QED BY <1>2, <2>1, <2>2, <2>3 DEF BatchOK
<1>6. BatchOK(t)'
  <2>1. CASE pc[t] # "idle" /\ op[t].kind = "batch"
    BY <1>5, <2>1
  <2>2. CASE pc[t] = "idle" \/ op[t].kind # "batch"
    BY <2>2 DEF BatchOK
  <2> QED BY <2>1, <2>2
<1> QED BY <1>3, <1>4, <1>6

\* The end of a transaction that commits nothing.
LEMMA RollbackStays ==
    ASSUME SInv, NEW s \in Sessions, NEW r, Rollback(s, r)
    PROVE  Unopened' /\ SessionsOK'
<1>1. Unopened'
  BY DEF SInv, Unopened, Rollback, committed
<1>2. ASSUME NEW t \in Sessions PROVE Holdings(t)' /\ CashOK(t)' /\ BatchOK(t)'
  <2>1. CASE t = s
    <3>1. /\ pc'[s] = "idle" /\ pend'[s] = Zero /\ lines'[s] = <<>>
          /\ \A w \in Wallets : lock'[w] # s
      BY NobodyIsFree DEF SInv, IInv, TypeOK, Rollback, Finish
    <3> QED BY <2>1, <3>1 DEF Holdings, CashOK, BatchOK
  <2>2. CASE t # s
    <3>1. /\ pc'[t] = pc[t] /\ op'[t] = op[t] /\ cur'[t] = cur[t]
          /\ pend'[t] = pend[t] /\ lines'[t] = lines[t]
          /\ rows' = rows /\ balance' = balance
      BY <2>2 DEF SInv, IInv, TypeOK, Rollback, Finish, committed
    <3>2. \A w \in Wallets : lock'[w] = t <=> lock[w] = t
      BY <2>2, NobodyIsFree DEF Rollback, Finish
    <3> QED BY <3>1, <3>2, OthersStay
  <2> QED BY <2>1, <2>2
<1> QED BY <1>1, <1>2 DEF SessionsOK

\* A statement that commits nothing and takes no lock but free ones or its own.
LEMMA StatementStays ==
    ASSUME SInv, NEW s \in Sessions, rows' = rows, balance' = balance,
           \A t \in Sessions : t # s =>
               /\ pc'[t] = pc[t] /\ op'[t] = op[t] /\ cur'[t] = cur[t]
               /\ pend'[t] = pend[t] /\ lines'[t] = lines[t]
               /\ \A w \in Wallets : lock'[w] = t <=> lock[w] = t,
           Holdings(s)', CashOK(s)', BatchOK(s)'
    PROVE  Unopened' /\ SessionsOK'
<1>1. Unopened'
  BY DEF SInv, Unopened
<1>2. ASSUME NEW t \in Sessions, t # s PROVE Holdings(t)' /\ CashOK(t)' /\ BatchOK(t)'
  BY <1>2, OthersStay
<1> QED BY <1>1, <1>2 DEF SessionsOK

\* What a session has recorded survives a step that records nothing, ends no
\* loop and leaves the session its locks.
LEMMA RecordsStay ==
    ASSUME SInv, NEW s \in Sessions, pc[s] # "idle", op[s].kind = "batch",
           pc[s] # "commit", pc'[s] \notin {"idle", "commit"},
           op'[s] = op[s], cur'[s] = cur[s], pend'[s] = pend[s], lines'[s] = lines[s],
           rows' = rows, balance' = balance,
           \A w \in Wallets : lock[w] = s => lock'[w] = s,
           pc'[s] = "lock" => cur[s] = 1,
           pc'[s] \in {"credit", "record"} => lock'[Job(s).from] = s,
           pc'[s] = "record" => lock'[Job(s).to] = s,
           pc'[s] \in {"debit", "credit", "record"} => Job(s).amount > 0
    PROVE  BatchOK(s)'
<1>1. IInv /\ BatchOK(s)
  BY DEF SInv, SessionsOK
<1>2. /\ op[s] \in Operations /\ Len(op[s].jobs) \in Nat
      /\ cur[s] \in 1 .. Len(op[s].jobs)
      /\ Recorded(s) \in 0 .. Len(op[s].jobs)
  BY <1>1, RecordedRange
<1>3. Job(s)' = Job(s) /\ Recorded(s)' = Recorded(s)
  BY DEF Job, Recorded
<1>4. ASSUME NEW n \in 1 .. Recorded(s) PROVE Funded(s, n)'
  <2>1. n \in 1 .. Len(op[s].jobs) /\ Funded(s, n)
    BY <1>1, <1>2 DEF BatchOK
  <2> QED BY <1>1, <1>2, <2>1, FundedStays
<1>5. /\ pend[s] = Net(op[s].jobs)[Recorded(s)]
      /\ lines[s] = [i \in 1 .. Recorded(s) |-> TransferTxn(op[s].jobs[i])]
  BY <1>1 DEF BatchOK
<1> QED BY <1>3, <1>4, <1>5 DEF BatchOK

-----------------------------------------------------------------------------
(* One lemma per action *)

LEMMA BeginStays ==
    ASSUME SInv, NEW s \in Sessions, Begin(s)
    PROVE  Unopened' /\ SessionsOK'
<1> PICK o \in Operations :
       /\ op' = [op EXCEPT ![s] = o]
       /\ pc' = [pc EXCEPT ![s] = IF o.kind = "create" THEN "insert" ELSE "lock"]
       /\ cur' = [cur EXCEPT ![s] = IF o.kind = "batch" THEN 1 ELSE 0]
  BY DEF Begin
<1>1. IInv /\ Holdings(s) /\ CashOK(s) /\ pc[s] = "idle"
  BY DEF SInv, SessionsOK, Begin
<1>2. UNCHANGED <<rows, balance, lock, pend, lines>>
  BY DEF Begin, committed
<1>3. /\ op'[s] = o /\ cur'[s] = IF o.kind = "batch" THEN 1 ELSE 0
      /\ pc'[s] = IF o.kind = "create" THEN "insert" ELSE "lock"
      /\ \A t \in Sessions : t # s => pc'[t] = pc[t] /\ op'[t] = op[t] /\ cur'[t] = cur[t]
  BY DEF SInv, IInv, TypeOK
<1>4. pend[s] = Zero /\ lines[s] = <<>>
  BY <1>1 DEF CashOK
<1>5. Holdings(s)'
  BY <1>1, <1>2 DEF Holdings
<1>6. CashOK(s)'
  BY <1>2, <1>3, <1>4 DEF CashOK
<1>7. BatchOK(s)'
  <2> SUFFICES ASSUME o.kind = "batch" PROVE BatchOK(s)'
    BY <1>3 DEF BatchOK
  <2>1. pc'[s] = "lock" /\ cur'[s] = 1 /\ Recorded(s)' = 0
    BY <1>3 DEF Recorded
  <2>2. Net(o.jobs)[0] = Zero
    BY NetSteps
  <2>3. <<>> = [i \in 1 .. 0 |-> TransferTxn(o.jobs[i])]
    OBVIOUS
  <2> QED BY <1>2, <1>3, <1>4, <2>1, <2>2, <2>3 DEF BatchOK
<1> QED BY <1>2, <1>3, <1>5, <1>6, <1>7, StatementStays

LEMMA InsertWalletStays ==
    ASSUME SInv, NEW s \in Sessions, InsertWallet(s)
    PROVE  Unopened' /\ SessionsOK'
<1>1. /\ pc[s] = "insert" /\ op[s] \in Operations /\ op[s].kind = "create"
      /\ nextId \in Wallets /\ nextId \notin rows /\ lock[nextId] = NoSession
  BY DEF SInv, IInv, TypeOK, SessionOK, InsertWallet, FreshIds, Wallets
<1>2. /\ pc'[s] = IF op[s].amount = 0 THEN "commit" ELSE "record"
      /\ cur'[s] = nextId /\ lock'[nextId] = s
      /\ \A w \in Wallets \ {nextId} : lock'[w] = lock[w]
      /\ UNCHANGED <<rows, balance, op, pend, lines>>
      /\ \A t \in Sessions : t # s => pc'[t] = pc[t] /\ cur'[t] = cur[t]
  BY <1>1 DEF SInv, IInv, TypeOK, InsertWallet, committed
<1>3. pend[s] = Zero /\ lines[s] = <<>> /\ \A w \in Wallets : lock[w] # s
  BY <1>1 DEF SInv, SessionsOK, CashOK, Holdings
<1>4. Holdings(s)'
  BY <1>1, <1>2, <1>3 DEF Holdings
<1>5. Target(s)' = nextId
  BY <1>1, <1>2 DEF Target
<1>6. pc'[s] = "commit" => PostedBy(s)' = <<>>
  BY <1>1, <1>2 DEF PostedBy
<1>7. pc'[s] = "commit" => Zero = [Zero EXCEPT ![nextId] = Signed(op[s])]
  BY <1>1, <1>2 DEF Signed, Zero
<1>8. CashOK(s)'
  BY <1>1, <1>2, <1>3, <1>5, <1>6, <1>7 DEF CashOK
<1>9. BatchOK(s)'
  BY <1>1, <1>2 DEF BatchOK
<1>10. \A t \in Sessions : t # s => \A w \in Wallets : lock'[w] = t <=> lock[w] = t
  BY <1>1, <1>2, NobodyIsFree
<1> QED BY <1>2, <1>4, <1>8, <1>9, <1>10, StatementStays

LEMMA LockRowStays ==
    ASSUME SInv, NEW s \in Sessions, LockRow(s)
    PROVE  Unopened' /\ SessionsOK'
<1> DEFINE w == NextRow(s)
<1>1. /\ w \in Wallets /\ w \in rows /\ lock[w] = NoSession
      /\ pc[s] = "lock" /\ op[s] \in Operations /\ op[s].kind # "create"
  BY DEF LockRow, SInv, IInv, TypeOK, SessionOK
<1>2. /\ lock' = [lock EXCEPT ![w] = s]
      /\ pc' = [pc EXCEPT ![s] = AfterLock(s, todo'[s])]
      /\ UNCHANGED <<rows, balance, op, cur, pend, lines>>
  BY DEF LockRow, committed
<1>. HIDE DEF w
<1>3. /\ pc'[s] \in {"lock", "check", "update"}
      /\ op[s].kind # "batch" => pc'[s] # "check"
      /\ op[s].kind = "batch" => pc'[s] # "update"
      /\ \A t \in Sessions : t # s => pc'[t] = pc[t]
  BY <1>2 DEF AfterLock, SInv, IInv, TypeOK
<1>4. lock'[w] = s /\ \A v \in Wallets \ {w} : lock'[v] = lock[v]
  BY <1>1, <1>2 DEF SInv, IInv, TypeOK
<1>5. Holdings(s) /\ CashOK(s) /\ BatchOK(s)
  BY DEF SInv, SessionsOK
<1>6. Holdings(s)'
  BY <1>1, <1>2, <1>3, <1>4, <1>5 DEF Holdings
<1>7. CashOK(s)'
  BY <1>1, <1>2, <1>3, <1>5 DEF CashOK
<1>8. BatchOK(s)'
  <2>1. CASE op[s].kind # "batch"
    BY <1>2, <2>1 DEF BatchOK
  <2>2. CASE op[s].kind = "batch"
    <3>1. cur[s] = 1
      BY <1>1, <1>5, <2>2 DEF BatchOK
    <3> QED BY <1>1, <1>2, <1>3, <1>4, <2>2, <3>1, NobodyIsFree, RecordsStay
  <2> QED BY <2>1, <2>2
<1>9. \A t \in Sessions : t # s => \A v \in Wallets : lock'[v] = t <=> lock[v] = t
  BY <1>1, <1>4, NobodyIsFree
<1> QED BY <1>2, <1>3, <1>6, <1>7, <1>8, <1>9, StatementStays

LEMMA MissRowStays ==
    ASSUME SInv, NEW s \in Sessions, MissRow(s)
    PROVE  Unopened' /\ SessionsOK'
<1>1. CASE op[s].kind # "batch" /\ Rollback(s, "notfound")
  BY <1>1, RollbackStays
<1>2. CASE /\ op[s].kind = "batch"
           /\ pc' = [pc EXCEPT ![s] = AfterLock(s, todo'[s])]
           /\ UNCHANGED <<committed, nextId, lock, op, cur, image, pend, lines,
                          outcome, issued>>
  <2>1. UNCHANGED <<rows, balance, lock, op, cur, pend, lines>>
    BY <1>2 DEF committed
  <2>2. /\ pc[s] = "lock" /\ pc'[s] \in {"lock", "check"}
        /\ \A t \in Sessions : t # s => pc'[t] = pc[t]
    BY <1>2 DEF MissRow, AfterLock, SInv, IInv, TypeOK
  <2>3. Holdings(s) /\ CashOK(s) /\ BatchOK(s)
    BY DEF SInv, SessionsOK
  <2>4. Holdings(s)' /\ CashOK(s)'
    BY <1>2, <2>1, <2>2, <2>3 DEF Holdings, CashOK
  <2>5. BatchOK(s)'
    <3>1. cur[s] = 1
      BY <1>2, <2>2, <2>3 DEF BatchOK
    <3> QED BY <1>2, <2>1, <2>2, <3>1, RecordsStay
  <2> QED BY <2>1, <2>2, <2>4, <2>5, StatementStays
<1> QED BY <1>1, <1>2 DEF MissRow

\* An UPDATE of a wallet that is there, by the operation it belongs to.
LEMMA UpdateStays ==
    ASSUME SInv, NEW s \in Sessions, NEW w \in rows, NEW d, NEW next,
           Update(s, w, d, next), pc[s] # "idle",
           /\ pc[s] = "update" /\ next = "record" /\ op[s].kind # "batch"
              /\ op[s].kind # "create" /\ w = Target(s)
           \/ /\ pc[s] = "debit" /\ next = "credit" /\ w = Job(s).from
           \/ /\ pc[s] = "credit" /\ next = "record" /\ w = Job(s).to
    PROVE  Unopened' /\ SessionsOK'
<1>1. CASE Rollback(s, "error")
  BY <1>1, RollbackStays
<1>2. CASE ~Rollback(s, "error")
  <2>1. /\ lock[w] \in {s, NoSession}
        /\ lock' = [lock EXCEPT ![w] = s]
        /\ pc' = [pc EXCEPT ![s] = next]
        /\ UNCHANGED <<rows, balance, op, cur, pend, lines>>
    BY <1>2 DEF Update, committed
  <2>2. /\ w \in Wallets /\ lock'[w] = s
        /\ \A v \in Wallets \ {w} : lock'[v] = lock[v]
        /\ pc'[s] = next /\ \A t \in Sessions : t # s => pc'[t] = pc[t]
    BY <2>1 DEF SInv, IInv, TypeOK
  <2>3. Holdings(s) /\ CashOK(s) /\ BatchOK(s) /\ SessionOK(s) /\ IInv
    BY DEF SInv, IInv, SessionsOK
  <2>4. op[s].kind # "create"
    BY <2>3 DEF SessionOK
  <2>5. Holdings(s)'
    BY <2>1, <2>2, <2>3, <2>4 DEF Holdings
  <2>6. \A t \in Sessions : t # s => \A v \in Wallets : lock'[v] = t <=> lock[v] = t
    BY <2>1, <2>2, NobodyIsFree
  <2>7. CASE pc[s] = "update"
    <3>1. next = "record" /\ op[s].kind # "batch" /\ op[s].kind # "create" /\ w = Target(s)
      BY <2>7
    <3>2. pend[s] = Zero /\ lines[s] = <<>>
      BY <2>3, <2>7 DEF CashOK
    <3>3. Target(s)' = Target(s)
      BY <2>1 DEF Target
    <3>4. CashOK(s)' /\ BatchOK(s)'
      BY <2>1, <2>2, <3>1, <3>2, <3>3 DEF CashOK, BatchOK
    <3> QED BY <2>1, <2>2, <2>5, <2>6, <3>4, StatementStays
  <2>8. CASE pc[s] \in {"debit", "credit"}
    <3>1. /\ op[s].kind = "batch" /\ next \in {"credit", "record"}
          /\ next = "credit" => w = Job(s).from
          /\ next = "record" => pc[s] = "credit" /\ w = Job(s).to
      BY <2>3, <2>8 DEF SessionOK
    <3>2. CashOK(s)'
      BY <2>1, <2>2, <3>1 DEF CashOK
    <3>3. /\ Job(s).from \in Wallets /\ Job(s).to \in Wallets /\ Job(s).amount > 0
          /\ pc[s] = "credit" => lock[Job(s).from] = s
      BY <2>3, <2>8, <3>1, JobType DEF BatchOK
    <3>4. \A v \in Wallets : lock[v] = s => lock'[v] = s
      BY <2>2
    <3>5. BatchOK(s)'
      BY <2>1, <2>2, <2>8, <3>1, <3>3, <3>4, RecordsStay
    <3> QED BY <2>1, <2>2, <2>5, <2>6, <3>2, <3>5, StatementStays
  <2> QED BY <2>7, <2>8
<1> QED BY <1>1, <1>2
LEMMA UpdateCashStays ==
    ASSUME SInv, NEW s \in Sessions, UpdateDeposit(s) \/ UpdateWithdraw(s)
    PROVE  Unopened' /\ SessionsOK'
<1>1. pc[s] = "update" /\ op[s].kind \in {"deposit", "withdraw"}
  BY DEF UpdateDeposit, UpdateWithdraw
<1>2. Target(s) = op[s].wallet /\ Target(s) \in rows
  <2>1. op[s] \in Operations /\ op[s].wallet \in Wallets /\ lock[op[s].wallet] = s
    BY <1>1, OperationFields DEF SInv, IInv, SessionOK
  <2> QED BY <1>1, <2>1 DEF SInv, SessionsOK, Holdings, Target
<1>3. CASE Rollback(s, "insufficient")
  BY <1>3, RollbackStays
<1>4. CASE \E d : Update(s, op[s].wallet, d, "record")
  BY <1>1, <1>2, <1>4, UpdateStays
<1> QED BY <1>3, <1>4 DEF UpdateDeposit, UpdateWithdraw

LEMMA DebitCreditStays ==
    ASSUME SInv, NEW s \in Sessions, Debit(s) \/ Credit(s)
    PROVE  Unopened' /\ SessionsOK'
<1>1. pc[s] \in {"debit", "credit"} /\ Job(s).from \in rows /\ Job(s).to \in rows
  BY DEF Debit, Credit, SInv, IInv, SessionOK, PassedJob
<1>2. CASE Debit(s)
  BY <1>1, <1>2, UpdateStays DEF Debit
<1>3. CASE Credit(s)
  BY <1>1, <1>3, UpdateStays DEF Credit
<1> QED BY <1>2, <1>3

LEMMA CheckJobStays ==
    ASSUME SInv, NEW s \in Sessions, CheckJob(s)
    PROVE  Unopened' /\ SessionsOK'
<1> DEFINE verdict == Verdict(rows, View(s), Job(s))
<1>1. pc[s] = "check" /\ op[s].kind = "batch" /\ Holdings(s) /\ CashOK(s) /\ IInv
  BY DEF CheckJob, SInv, IInv, SessionOK, SessionsOK
<1>2. CASE verdict # "ok"
  BY <1>2, RollbackStays DEF CheckJob
<1>3. CASE verdict = "ok"
  <2>1. pc' = [pc EXCEPT ![s] = "debit"]
        /\ UNCHANGED <<rows, balance, lock, op, cur, pend, lines>>
    BY <1>3 DEF CheckJob, committed
  <2>2. pc'[s] = "debit" /\ \A t \in Sessions : t # s => pc'[t] = pc[t]
    BY <2>1 DEF SInv, IInv, TypeOK
  <2>3. Job(s).amount > 0
    <3>1. Job(s).amount \in Int
      BY <1>1, JobType
    <3>2. ~(Job(s).amount <= 0)
      BY <1>3 DEF Verdict
    <3> QED BY <3>1, <3>2
  <2>4. Holdings(s)' /\ CashOK(s)'
    BY <1>1, <2>1, <2>2 DEF Holdings, CashOK
  <2>5. BatchOK(s)'
    BY <1>1, <2>1, <2>2, <2>3, RecordsStay
  <2> QED BY <2>1, <2>2, <2>4, <2>5, StatementStays
<1> QED BY <1>2, <1>3

LEMMA RecordCashStays ==
    ASSUME SInv, NEW s \in Sessions, RecordCash(s)
    PROVE  Unopened' /\ SessionsOK'
<1>1. /\ pc[s] = "record" /\ op[s].kind # "batch" /\ op[s] \in Operations
      /\ Holdings(s) /\ CashOK(s)
  BY DEF RecordCash, SInv, IInv, SessionOK, SessionsOK
<1>2. /\ op[s].kind \in {"create", "deposit", "withdraw"} /\ op[s].amount \in Int
      /\ op[s].kind = "create" => op[s].amount # 0
  BY <1>1, OperationFields, ConstantsAssumption DEF CashOK, Amounts
<1>3. Target(s) \in Wallets /\ lock[Target(s)] = s
  <2>1. op[s].kind = "create" => cur[s] \in Wallets
    BY <1>1 DEF SInv, IInv, SessionOK
  <2>2. lock[Target(s)] = s
    BY <1>1 DEF CashOK
  <2> QED BY <1>1, <1>2, <2>1, <2>2, OperationFields DEF Target
<1>4. pend[s] = Zero /\ lines[s] = <<>>
  BY <1>1 DEF CashOK
<1>5. PICK w : w = Target(s)
  OBVIOUS
<1>6. PICK txn : txn = IF op[s].kind = "withdraw"
                       THEN CashTxn("withdrawal", w, op[s].amount, -op[s].amount)
                       ELSE CashTxn("deposit", w, op[s].amount, op[s].amount)
  OBVIOUS
<1>7. /\ lines' = [lines EXCEPT ![s] = Append(@, txn)]
      /\ pend' = [pend EXCEPT ![s] = IF op[s].kind = "withdraw"
                                     THEN [pend[s] EXCEPT ![w] = @ - op[s].amount]
                                     ELSE [pend[s] EXCEPT ![w] = @ + op[s].amount]]
      /\ pc' = [pc EXCEPT ![s] = "commit"]
      /\ UNCHANGED <<rows, balance, lock, op, cur>>
  <2>1. CASE op[s].kind = "withdraw"
    BY <1>5, <1>6, <2>1 DEF RecordCash, Post, committed
  <2>2. CASE op[s].kind # "withdraw"
    BY <1>5, <1>6, <2>2 DEF RecordCash, Post, committed
  <2> QED BY <2>1, <2>2
<1>8. pend'[s] = [Zero EXCEPT ![w] = Signed(op[s])]
  <2>1. Zero \in [Wallets -> Int] /\ w \in Wallets /\ Zero[w] = 0
    BY <1>3, <1>5 DEF Zero
  <2>2. Signed(op[s]) = IF op[s].kind = "withdraw" THEN 0 - op[s].amount ELSE 0 + op[s].amount
    BY <1>2 DEF Signed
  <2>3. pend'[s] = IF op[s].kind = "withdraw"
                   THEN [Zero EXCEPT ![w] = Zero[w] - op[s].amount]
                   ELSE [Zero EXCEPT ![w] = Zero[w] + op[s].amount]
    BY <1>4, <1>7 DEF SInv, IInv, TypeOK
  <2> QED BY <2>1, <2>2, <2>3
<1>9. lines'[s] = <<txn>>
  BY <1>4, <1>7 DEF SInv, IInv, TypeOK
<1>10. pc'[s] = "commit" /\ \A t \in Sessions : t # s =>
          pc'[t] = pc[t] /\ pend'[t] = pend[t] /\ lines'[t] = lines[t]
  BY <1>7 DEF SInv, IInv, TypeOK
<1>11. Target(s)' = w /\ op'[s] = op[s]
  BY <1>5, <1>7 DEF Target
<1>12. PostedBy(s)' = <<txn>>
  <2>1. CASE op[s].kind = "create"
    BY <1>2, <1>6, <1>11, <2>1 DEF PostedBy
  <2>2. CASE op[s].kind = "deposit"
    BY <1>2, <1>6, <1>11, <2>2 DEF PostedBy
  <2>3. CASE op[s].kind = "withdraw"
    BY <1>2, <1>6, <1>11, <2>3 DEF PostedBy
  <2> QED BY <1>2, <2>1, <2>2, <2>3
<1>13. Holdings(s)'
  BY <1>1, <1>7, <1>10 DEF Holdings
<1>14. CashOK(s)'
  BY <1>1, <1>3, <1>5, <1>7, <1>8, <1>9, <1>10, <1>11, <1>12 DEF CashOK
<1>15. BatchOK(s)'
  BY <1>1, <1>11 DEF BatchOK
<1> QED BY <1>7, <1>10, <1>13, <1>14, <1>15, StatementStays

\* The transfer a session is about to record passes its checks on the balances
\* committed now: both UPDATEs found the result in range.
LEMMA NowFunded ==
    ASSUME SInv, NEW s \in Sessions, pc[s] = "record", op[s].kind = "batch"
    PROVE  Funded(s, cur[s])
<1>1. /\ IInv /\ op[s] \in Operations /\ cur[s] \in 1 .. Len(op[s].jobs)
      /\ Recorded(s) = cur[s] - 1
  BY RecordedRange DEF SInv
<1>2. PICK o \in Operations : o = op[s]
  BY <1>1
<1>3. PICK n \in 1 .. Len(o.jobs) : n = cur[s]
  BY <1>1, <1>2
<1>4. PICK j : j = o.jobs[n] /\ j = Job(s)
  BY <1>2, <1>3 DEF Job
<1>5. PICK p : p = Net(o.jobs)[n - 1]
  OBVIOUS
<1>6. p \in [Wallets -> Int] /\ Net(o.jobs)[n] = Move(p, j)
  <2>1. o.kind = "batch" /\ n - 1 \in 0 .. Len(o.jobs)
    BY <1>1, <1>2, <1>3, NetSteps
  <2>2. /\ Net(o.jobs) \in [0 .. Len(o.jobs) -> [Wallets -> Int]]
        /\ Net(o.jobs)[n] = Move(Net(o.jobs)[n - 1], o.jobs[n])
    BY <2>1, NetSteps
  <2> QED BY <1>4, <1>5, <2>1, <2>2
<1>7. j.from \in Wallets /\ j.to \in Wallets /\ j.amount \in Int /\ j.from # j.to
      /\ PassedJob(j)
  BY <1>1, <1>4, JobType DEF IInv, SessionOK, PassedJob
<1>8. j.amount > 0 /\ lock[j.from] = s /\ lock[j.to] = s /\ pend[s] = p
  BY <1>1, <1>2, <1>3, <1>4, <1>5 DEF SInv, SessionsOK, BatchOK
<1>9. Due(s, j.from) = -j.amount /\ Due(s, j.to) = j.amount
  BY <1>4, <1>7 DEF Due
<1>10. /\ image[s][j.from] = balance[j.from] + p[j.from] + (-j.amount)
       /\ image[s][j.to] = balance[j.to] + p[j.to] + j.amount
  BY <1>1, <1>7, <1>8, <1>9 DEF IInv, NoLostUpdate, SeesItsWrites
<1>11. /\ image[s][j.from] \in Amounts /\ image[s][j.to] \in Amounts
       /\ balance[j.from] \in Amounts /\ balance[j.to] \in Amounts
  BY <1>1, <1>7 DEF IInv, TypeOK
<1>12. Move(p, j)[j.to] = p[j.to] + j.amount
  BY <1>6, <1>7, MoveAt
<1>13. balance[j.from] + p[j.from] >= j.amount
  BY <1>6, <1>7, <1>10, <1>11, ConstantsAssumption DEF Amounts
<1>14. balance[j.to] + Move(p, j)[j.to] \in Amounts
  <2>1. p[j.to] \in Int /\ balance[j.to] \in Int
    BY <1>6, <1>7, <1>11, ConstantsAssumption DEF Amounts
  <2> QED BY <1>7, <1>10, <1>11, <1>12, <2>1
<1>15. /\ op[s].jobs[cur[s]] = j /\ Net(op[s].jobs)[cur[s] - 1] = p
       /\ Net(op[s].jobs)[cur[s]] = Move(p, j)
  BY <1>2, <1>3, <1>4, <1>5, <1>6
<1> QED BY <1>7, <1>8, <1>13, <1>14, <1>15 DEF Funded
LEMMA RecordTransferStays ==
    ASSUME SInv, NEW s \in Sessions, RecordTransfer(s)
    PROVE  Unopened' /\ SessionsOK'
<1>1. /\ pc[s] = "record" /\ op[s].kind = "batch" /\ IInv
      /\ Holdings(s) /\ CashOK(s) /\ BatchOK(s)
  BY DEF RecordTransfer, SInv, SessionsOK
<1>2. /\ op[s] \in Operations /\ Len(op[s].jobs) \in Nat
      /\ cur[s] \in 1 .. Len(op[s].jobs) /\ Recorded(s) = cur[s] - 1
  BY <1>1, RecordedRange
<1>3. /\ lines' = [lines EXCEPT ![s] = Append(@, TransferTxn(Job(s)))]
      /\ pend' = [pend EXCEPT ![s] = Move(pend[s], Job(s))]
      /\ pc' = [pc EXCEPT ![s] = IF cur[s] < Len(op[s].jobs) THEN "check" ELSE "commit"]
      /\ cur' = [cur EXCEPT ![s] = IF @ < Len(op[s].jobs) THEN @ + 1 ELSE @]
      /\ UNCHANGED <<rows, balance, lock, op>>
  BY DEF RecordTransfer, Post, committed
<1>4. /\ lines'[s] = Append(lines[s], TransferTxn(Job(s)))
      /\ pend'[s] = Move(pend[s], Job(s))
      /\ pc'[s] = IF cur[s] < Len(op[s].jobs) THEN "check" ELSE "commit"
      /\ cur'[s] = IF cur[s] < Len(op[s].jobs) THEN cur[s] + 1 ELSE cur[s]
      /\ \A t \in Sessions : t # s => /\ pc'[t] = pc[t] /\ cur'[t] = cur[t]
                                      /\ pend'[t] = pend[t] /\ lines'[t] = lines[t]
  BY <1>3 DEF SInv, IInv, TypeOK
<1>5. Recorded(s)' = cur[s] /\ op'[s] = op[s]
  BY <1>2, <1>3, <1>4 DEF Recorded
<1>6. pend'[s] = Net(op[s].jobs)[cur[s]]
  BY <1>1, <1>2, <1>4, NetSteps DEF BatchOK, Job
<1>7. lines'[s] = [i \in 1 .. cur[s] |-> TransferTxn(op[s].jobs[i])]
  <2>1. PICK n \in Nat : n = cur[s] - 1
    BY <1>2
  <2>2. lines[s] = [i \in 1 .. n |-> TransferTxn(op[s].jobs[i])]
    BY <1>1, <1>2, <2>1 DEF BatchOK
  <2>3. cur[s] = n + 1 /\ Job(s) = op[s].jobs[n + 1]
    BY <1>2, <2>1 DEF Job
  <2>4. Append([i \in 1 .. n |-> TransferTxn(op[s].jobs[i])], TransferTxn(op[s].jobs[n + 1]))
          = [i \in 1 .. n + 1 |-> TransferTxn(op[s].jobs[i])]
    OBVIOUS
  <2> QED BY <1>4, <2>2, <2>3, <2>4
<1>8. ASSUME NEW n \in 1 .. cur[s] PROVE Funded(s, n)'
  <2>1. Funded(s, n)
    <3>1. CASE n = cur[s]
      BY <1>1, <3>1, NowFunded
    <3>2. CASE n # cur[s]
      BY <1>1, <1>2, <3>2 DEF BatchOK
    <3> QED BY <3>1, <3>2
  <2>2. n \in 1 .. Len(op[s].jobs)
    BY <1>2
  <2> QED BY <1>1, <1>2, <1>3, <2>1, <2>2, FundedStays
<1>9. BatchOK(s)'
  BY <1>4, <1>5, <1>6, <1>7, <1>8 DEF BatchOK
<1>10. Holdings(s)' /\ CashOK(s)'
  BY <1>1, <1>3, <1>4 DEF Holdings, CashOK
<1> QED BY <1>3, <1>4, <1>9, <1>10, StatementStays

\* COMMIT adds to each committed balance what the session has recorded.
LEMMA CommitAdds ==
    ASSUME SInv, NEW s \in Sessions, Commit(s)
    PROVE  /\ balance' = [w \in Wallets |-> balance[w] + pend[s][w]]
           /\ \A w \in Wallets : balance[w] \in Amounts /\ balance'[w] \in Amounts
           /\ pend[s] \in [Wallets -> Int]
<1>1. pc[s] = "commit"
      /\ balance' = [w \in Wallets |-> IF lock[w] = s THEN image[s][w] ELSE balance[w]]
  BY DEF Commit
<1>2. \A w \in Wallets :
        (IF lock[w] = s THEN image[s][w] ELSE balance[w]) = balance[w] + pend[s][w]
  BY <1>1, ReadsOwnRecords DEF SInv
<1>3. /\ balance \in [Wallets -> Amounts] /\ image[s] \in [Wallets -> Amounts]
      /\ pend[s] \in [Wallets -> Int]
  BY DEF SInv, IInv, TypeOK
<1> QED BY <1>1, <1>2, <1>3

LEMMA CommitStays ==
    ASSUME SInv, NEW s \in Sessions, Commit(s)
    PROVE  Unopened' /\ SessionsOK'
<1>1. /\ pc[s] = "commit"
      /\ rows' = rows \cup (IF op[s].kind = "create" THEN {cur[s]} ELSE {})
      /\ balance' = [w \in Wallets |-> IF lock[w] = s THEN image[s][w] ELSE balance[w]]
      /\ \E result : Finish(s, result)
  BY DEF Commit
<1>2. /\ pc'[s] = "idle" /\ pend'[s] = Zero /\ lines'[s] = <<>>
      /\ \A w \in Wallets : lock'[w] = IF lock[w] = s THEN NoSession ELSE lock[w]
      /\ \A t \in Sessions : t # s =>
            /\ pc'[t] = pc[t] /\ op'[t] = op[t] /\ cur'[t] = cur[t]
            /\ pend'[t] = pend[t] /\ lines'[t] = lines[t]
  BY <1>1 DEF SInv, IInv, TypeOK, Finish
<1>3. Holdings(s) /\ CashOK(s)
  BY DEF SInv, SessionsOK
<1>4. Unopened'
  <2> SUFFICES ASSUME NEW w \in Wallets, w \notin rows' PROVE balance'[w] = 0
    BY DEF Unopened
  <2>1. w \notin rows /\ lock[w] # s
    BY <1>1, <1>3 DEF Holdings
  <2> QED BY <1>1, <2>1 DEF SInv, Unopened
<1>5. ASSUME NEW t \in Sessions PROVE Holdings(t)' /\ CashOK(t)' /\ BatchOK(t)'
  <2>1. CASE t = s
    BY <1>2, <2>1, NobodyIsFree DEF Holdings, CashOK, BatchOK
  <2>2. CASE t # s
    <3>1. \A w \in Wallets : lock'[w] = t <=> lock[w] = t
      BY <1>2, <2>2, NobodyIsFree
    <3>2. \A w \in Wallets : lock[w] = t => balance'[w] = balance[w]
      BY <1>1, <2>2
    <3>3. op[s].kind = "create" => lock[cur[s]] = s
      BY <1>1, <1>3 DEF CashOK, Target
    <3>4. \A w \in Wallets : lock[w] = t /\ w \notin rows => w \notin rows'
      BY <1>1, <2>2, <3>3
    <3> QED BY <1>1, <1>2, <2>2, <3>1, <3>2, <3>4, OthersStay
  <2> QED BY <2>1, <2>2
<1> QED BY <1>4, <1>5 DEF SessionsOK

-----------------------------------------------------------------------------
(* The invariant *)

LEMMA SNextKeeps == SInv /\ [Next]_vars => SInv'
<1> SUFFICES ASSUME SInv, [Next]_vars PROVE SInv'
  OBVIOUS
<1>1. IInv'
  BY NextKeeps DEF SInv
<1>2. CASE UNCHANGED vars
  <2>1. Unopened'
    BY <1>2 DEF SInv, Unopened, vars
  <2>2. ASSUME NEW t \in Sessions PROVE Holdings(t)' /\ CashOK(t)' /\ BatchOK(t)'
    BY <1>2, OthersStay DEF vars
  <2> QED BY <1>1, <2>1, <2>2 DEF SInv, SessionsOK
<1>3. ASSUME NEW s \in Sessions, Begin(s) PROVE SInv'
  BY <1>1, <1>3, BeginStays DEF SInv
<1>4. ASSUME NEW s \in Sessions, Abort(s) PROVE SInv'
  BY <1>1, <1>4, RollbackStays DEF SInv, Abort
<1>5. ASSUME NEW s \in Sessions, Step(s) PROVE SInv'
  <2>1. Unopened' /\ SessionsOK'
    BY <1>5, InsertWalletStays, LockRowStays, MissRowStays, UpdateCashStays,
       CheckJobStays, DebitCreditStays, RecordCashStays, RecordTransferStays,
       CommitStays DEF Step
  <2> QED BY <1>1, <2>1 DEF SInv
<1> QED BY <1>2, <1>3, <1>4, <1>5 DEF Next

\* SInv holds in every reachable state.
THEOREM SerialInductive == Spec => []SInv
BY SInitInv, SNextKeeps, PTL DEF Spec
-----------------------------------------------------------------------------
(* The refinement *)

\* A list of jobs whose transfers have all passed is performed in one step.
LEMMA BatchPerforms ==
    ASSUME SInv, NEW s \in Sessions, Commit(s), op[s].kind = "batch"
    PROVE  Serial!Transfers(op[s].jobs)
<1>1. IInv /\ pc[s] = "commit" /\ BatchOK(s) /\ balance \in [Wallets -> Amounts]
  BY DEF SInv, IInv, TypeOK, SessionsOK, Commit
<1>2. op[s] \in Operations /\ Len(op[s].jobs) \in Nat /\ Recorded(s) = Len(op[s].jobs)
  BY <1>1, RecordedRange DEF Recorded
<1>3. PICK o \in Operations : o = op[s]
  BY <1>2
<1>4. PICK N \in Nat : N = Len(o.jobs)
  BY <1>2, <1>3
<1>5. /\ pend[s] = Net(o.jobs)[N]
      /\ lines[s] = [i \in 1 .. N |-> TransferTxn(o.jobs[i])]
      /\ \A n \in 1 .. N : Funded(s, n)
  BY <1>1, <1>2, <1>3, <1>4 DEF BatchOK
<1>6. balance \in [Wallets -> Int]
  BY <1>1, ConstantsAssumption DEF Amounts
<1>7. \A n \in 1 .. N : /\ PassedJob(o.jobs[n]) /\ o.jobs[n].amount > 0
                        /\ balance[o.jobs[n].from] + Net(o.jobs)[n - 1][o.jobs[n].from]
                             >= o.jobs[n].amount
                        /\ balance[o.jobs[n].to] + Net(o.jobs)[n][o.jobs[n].to] \in Amounts
  BY <1>3, <1>5 DEF Funded
<1>8. ASSUME NEW n \in 0 .. N
      PROVE  /\ Trail(balance, o.jobs)[n] \in [Wallets -> Int]
             /\ \A w \in Wallets :
                  Trail(balance, o.jobs)[n][w] = balance[w] + Net(o.jobs)[n][w]
  <2>1. o.kind = "batch" /\ n \in 0 .. Len(o.jobs)
        /\ \A m \in 1 .. n : o.jobs[m].from # o.jobs[m].to
    BY <1>3, <1>4, <1>7 DEF PassedJob
  <2> QED BY <1>6, <2>1, NetShift
<1>9. ASSUME NEW n \in 1 .. N
      PROVE  /\ Verdict(rows, Trail(balance, o.jobs)[n - 1], o.jobs[n]) = "ok"
             /\ Trail(balance, o.jobs)[n][o.jobs[n].to] \in Amounts
  <2>1. n - 1 \in 0 .. N /\ n \in 0 .. N
    OBVIOUS
  <2>2. PICK j : j = o.jobs[n]
    OBVIOUS
  <2>3. PICK x : x = Trail(balance, o.jobs)[n - 1]
    OBVIOUS
  <2>4. j.from \in Wallets /\ j.to \in Wallets /\ j.amount \in Int
    BY <1>3, <1>4, <2>2, BatchJobs
  <2>5. x \in [Wallets -> Int] /\ x[j.from] = balance[j.from] + Net(o.jobs)[n - 1][j.from]
    BY <1>8, <2>1, <2>3, <2>4
  <2>6. Trail(balance, o.jobs)[n][j.to] = balance[j.to] + Net(o.jobs)[n][j.to]
    BY <1>8, <2>1, <2>4
  <2>7. /\ PassedJob(j) /\ j.amount > 0 /\ x[j.from] >= j.amount
        /\ Trail(balance, o.jobs)[n][j.to] \in Amounts
    BY <1>7, <2>2, <2>5, <2>6
  <2>8. x[j.from] \in Int /\ ~(j.amount <= 0) /\ ~(x[j.from] < j.amount)
    BY <2>4, <2>5, <2>7
  <2>9. Verdict(rows, x, j) = "ok"
    BY <2>7, <2>8 DEF PassedJob, Verdict
  <2> QED BY <2>2, <2>3, <2>7, <2>9
<1>10. balance' = Trail(balance, o.jobs)[N]
  <2>1. N \in 0 .. N
    OBVIOUS
  <2>2. balance' = [w \in Wallets |-> balance[w] + Net(o.jobs)[N][w]]
    BY <1>5, CommitAdds
  <2>3. PICK x \in [Wallets -> Int] : x = Trail(balance, o.jobs)[N]
    BY <1>8, <2>1
  <2>4. \A w \in Wallets : x[w] = balance[w] + Net(o.jobs)[N][w]
    BY <1>8, <2>1, <2>3
  <2> QED BY <2>2, <2>3, <2>4
<1>11. book' = book \o [n \in 1 .. N |-> TransferTxn(o.jobs[n])] /\ rows' = rows
  BY <1>5 DEF Commit
<1>12. /\ \A r, b, j : Serial!Verdict(r, b, j) = Verdict(r, b, j)
       /\ \A j : Serial!TransferTxn(j) = TransferTxn(j)
       /\ Serial!Trail(balance, o.jobs) = Trail(balance, o.jobs)
       /\ Serial!Amounts = Amounts
  <2>1. \A r, b, j : Serial!Verdict(r, b, j) = Verdict(r, b, j)
    BY DEF Serial!Verdict, Verdict
  <2>2. \A j : Serial!TransferTxn(j) = TransferTxn(j)
    BY DEF Serial!TransferTxn, TransferTxn, Serial!Entry, Entry
  <2>3. Serial!Trail(balance, o.jobs) = Trail(balance, o.jobs)
    BY DEF Serial!Trail, Trail, Serial!Move, Move
  <2>4. Serial!Amounts = Amounts
    BY DEF Serial!Amounts, Amounts
  <2> QED BY <2>1, <2>2, <2>3, <2>4
<1>13. Serial!Transfers(o.jobs)
  BY <1>4, <1>9, <1>10, <1>11, <1>12 DEF Serial!Transfers
<1> QED BY <1>3, <1>13

\* So are a creation, a deposit and a withdrawal.
LEMMA CashPerforms ==
    ASSUME SInv, NEW s \in Sessions, Commit(s), op[s].kind # "batch"
    PROVE  Serial!Perform(op[s])
<1>1. /\ IInv /\ pc[s] = "commit" /\ Holdings(s) /\ CashOK(s) /\ op[s] \in Operations
      /\ balance \in [Wallets -> Amounts] /\ book \in Seq(Txns)
  BY DEF SInv, IInv, TypeOK, SessionOK, SessionsOK, Commit
<1>2. PICK w : w = Target(s)
  OBVIOUS
<1>3. PICK a : a = op[s].amount
  OBVIOUS
<1>4. /\ op[s].kind \in {"create", "deposit", "withdraw"}
      /\ a \in Amounts /\ a \in Int /\ w \in Wallets
  <2>1. op[s].kind = "create" => cur[s] \in Wallets
    BY <1>1 DEF IInv, SessionOK
  <2> QED BY <1>1, <1>2, <1>3, <2>1, OperationFields, ConstantsAssumption
          DEF Target, Amounts
<1>5. lock[w] = s /\ pend[s] = [Zero EXCEPT ![w] = Signed(op[s])] /\ lines[s] = PostedBy(s)
  BY <1>1, <1>2 DEF CashOK
<1>6. Signed(op[s]) = (IF op[s].kind = "withdraw" THEN -a ELSE a) /\ Signed(op[s]) \in Int
  BY <1>3, <1>4 DEF Signed
<1>7. /\ pend[s][w] = Signed(op[s])
      /\ \A v \in Wallets \ {w} : pend[s][v] = 0
  BY <1>4, <1>5 DEF Zero
<1>8. /\ balance'[w] = balance[w] + Signed(op[s])
      /\ \A v \in Wallets \ {w} : balance'[v] = balance[v]
      /\ balance' = [v \in Wallets |-> balance'[v]]
      /\ balance[w] \in Amounts /\ balance'[w] \in Amounts
  <2>1. \A v \in Wallets : balance[v] \in Int
    BY <1>1, ConstantsAssumption DEF Amounts
  <2> QED BY <1>4, <1>7, <2>1, CommitAdds
<1>9. balance' = [balance EXCEPT ![w] = balance[w] + Signed(op[s])]
  BY <1>1, <1>4, <1>8
<1>10. book' = book \o lines[s] /\ rows' = rows \cup (IF op[s].kind = "create" THEN {cur[s]} ELSE {})
  BY DEF Commit
<1>11. \A type, v, x, y : Serial!CashTxn(type, v, x, y) = CashTxn(type, v, x, y)
  BY DEF Serial!CashTxn, CashTxn, Serial!Entry, Entry, Serial!NULL, NULL
<1>12. balance[w] \in Int /\ Serial!Amounts = Amounts
  BY <1>8, ConstantsAssumption DEF Amounts, Serial!Amounts
<1>13. \A x : book \o <<x>> = Append(book, x)
  BY <1>1
<1>14. CASE op[s].kind = "create"
  <2>1. w = cur[s] /\ w \notin rows
    BY <1>1, <1>2, <1>4, <1>5, <1>14 DEF Holdings, Target
  <2>2. balance[w] = 0
    BY <1>4, <2>1 DEF SInv, Unopened
  <2>3. rows' = rows \cup {w} /\ balance' = [balance EXCEPT ![w] = op[s].amount]
    <3>1. rows' = rows \cup {w}
      BY <1>10, <1>14, <2>1
    <3>2. balance[w] + Signed(op[s]) = a
      BY <1>4, <1>6, <1>14, <2>2
    <3> QED BY <1>3, <1>9, <3>1, <3>2
  <2>4. lines[s] = IF op[s].amount = 0 THEN <<>>
                   ELSE <<CashTxn("deposit", w, op[s].amount, op[s].amount)>>
    BY <1>2, <1>5, <1>14 DEF PostedBy
  <2>5. book \o <<>> = book
    BY <1>1
  <2>6. book' = IF op[s].amount = 0 THEN book
                ELSE Append(book, CashTxn("deposit", w, op[s].amount, op[s].amount))
    BY <1>10, <1>13, <2>4, <2>5
  <2>7. Serial!Open(op[s])
    BY <1>4, <1>11, <2>1, <2>3, <2>6 DEF Serial!Open
  <2> QED BY <1>14, <2>7 DEF Serial!Perform
<1>15. CASE op[s].kind = "deposit"
  <2>1. w = op[s].wallet /\ w \in rows /\ rows' = rows
    BY <1>1, <1>2, <1>4, <1>5, <1>10, <1>15 DEF Holdings, Target
  <2>2. balance[w] + a \in Amounts /\ balance' = [balance EXCEPT ![w] = balance[w] + a]
    BY <1>6, <1>8, <1>9, <1>15
  <2>3. lines[s] = <<CashTxn("deposit", w, a, a)>>
    BY <1>2, <1>3, <1>5, <1>15 DEF PostedBy
  <2>4. Serial!Deposit(op[s])
    BY <1>3, <1>10, <1>11, <1>12, <1>13, <2>1, <2>2, <2>3 DEF Serial!Deposit
  <2> QED BY <1>15, <2>4 DEF Serial!Perform
<1>16. CASE op[s].kind = "withdraw"
  <2>1. w = op[s].wallet /\ w \in rows /\ rows' = rows
    BY <1>1, <1>2, <1>4, <1>5, <1>10, <1>16 DEF Holdings, Target
  <2>2. balance'[w] = balance[w] + (-a) /\ balance' = [balance EXCEPT ![w] = balance[w] + (-a)]
    BY <1>6, <1>8, <1>9, <1>16
  <2>3. a <= balance[w] /\ balance[w] + (-a) = balance[w] - a
    <3>1. balance'[w] >= 0
      BY <1>8, ConstantsAssumption DEF Amounts
    <3> QED BY <1>4, <1>12, <2>2, <3>1
  <2>4. lines[s] = <<CashTxn("withdrawal", w, a, -a)>>
    BY <1>2, <1>3, <1>5, <1>16 DEF PostedBy
  <2>5. Serial!Withdraw(op[s])
    BY <1>3, <1>10, <1>11, <1>13, <2>1, <2>2, <2>3, <2>4 DEF Serial!Withdraw
  <2> QED BY <1>16, <2>5 DEF Serial!Perform
<1> QED BY <1>4, <1>14, <1>15, <1>16

\* Only COMMIT changes what is committed.
LEMMA OnlyCommits ==
    ASSUME [Next]_vars, \A s \in Sessions : ~Commit(s)
    PROVE  UNCHANGED committed
<1>1. CASE UNCHANGED vars
  BY <1>1 DEF vars, committed
<1>2. ASSUME NEW s \in Sessions, Begin(s) \/ Step(s) \/ Abort(s)
      PROVE  UNCHANGED committed
  <2>1. \A w, d, next : Update(s, w, d, next) => UNCHANGED committed
    BY DEF Update, Rollback, committed
  <2>2. Begin(s) \/ InsertWallet(s) \/ LockRow(s) \/ MissRow(s) => UNCHANGED committed
    BY DEF Begin, InsertWallet, LockRow, MissRow, Rollback, committed
  <2>3. UpdateDeposit(s) \/ UpdateWithdraw(s) \/ Debit(s) \/ Credit(s) => UNCHANGED committed
    BY <2>1 DEF UpdateDeposit, UpdateWithdraw, Debit, Credit, Rollback
  <2>4. CheckJob(s) \/ Abort(s) => UNCHANGED committed
    BY DEF CheckJob, Abort, Rollback, committed
  <2>5. RecordCash(s) \/ RecordTransfer(s) => UNCHANGED committed
    BY DEF RecordCash, RecordTransfer, Post, committed
  <2> QED BY <1>2, <2>2, <2>3, <2>4, <2>5 DEF Step
<1> QED BY <1>1, <1>2 DEF Next

\* Every step of the sessions is a step of the account book or leaves it alone.
LEMMA StepImplements == SInv /\ [Next]_vars => [Serial!BookNext]_(Serial!book_vars)
<1> SUFFICES ASSUME SInv, [Next]_vars PROVE [Serial!BookNext]_(Serial!book_vars)
  OBVIOUS
<1>1. ASSUME NEW s \in Sessions, Commit(s) PROVE Serial!BookNext
  <2>1. op[s] \in Operations
    BY <1>1 DEF Commit, SInv, IInv, SessionOK
  <2>2. Serial!Perform(op[s])
    BY <1>1, BatchPerforms, CashPerforms DEF Serial!Perform
  <2> QED BY <2>1, <2>2 DEF Serial!BookNext
<1>2. CASE \A s \in Sessions : ~Commit(s)
  BY <1>2, OnlyCommits DEF committed, Serial!book_vars
<1> QED BY <1>1, <1>2

\* LedgerDB implements AccountBook: the interleaved statements of any number of
\* sessions amount to whole operations, one after the other.
THEOREM ImplementsAccountBook == Spec => SerialSpec
<1>1. Init => Serial!BookInit
  <2> SUFFICES ASSUME Init PROVE Serial!BookInit
    OBVIOUS
  <2>1. TypeOK
    BY InitInv DEF IInv
  <2> QED BY <2>1 DEF TypeOK, Serial!BookInit, Serial!Amounts, Amounts
<1> QED BY <1>1, StepImplements, SerialInductive, PTL DEF Spec, SerialSpec, Serial!BookSpec
-----------------------------------------------------------------------------
(* What callers are told *)

\* A batch is refused for the first of its transfers that does not pass on the
\* committed balances and the transfers before it.
LEMMA CheckJobMerits ==
    ASSUME SInv, NEW s \in Sessions, pc[s] = "check",
           NEW r, r = Verdict(rows, View(s), Job(s)), r # "ok"
    PROVE  Refuses(op[s], r)
<1>1. /\ IInv /\ BatchOK(s) /\ op[s].kind = "batch" /\ op[s] \in Operations
      /\ cur[s] \in 1 .. Len(op[s].jobs) /\ Recorded(s) = cur[s] - 1
      /\ Len(op[s].jobs) \in Nat
  <2>1. IInv /\ BatchOK(s) /\ op[s].kind = "batch"
    BY DEF SInv, IInv, SessionOK, SessionsOK
  <2> QED BY <2>1, RecordedRange
<1>2. PICK o \in Operations : o = op[s]
  BY <1>1
<1>3. PICK n \in 1 .. Len(o.jobs) : n = cur[s]
  BY <1>1, <1>2
<1>4. /\ o.kind = "batch" /\ Len(o.jobs) \in Nat
      /\ pend[s] = Net(o.jobs)[n - 1]
      /\ \A m \in 1 .. n - 1 :
           /\ PassedJob(o.jobs[m]) /\ o.jobs[m].amount > 0
           /\ balance[o.jobs[m].from] + Net(o.jobs)[m - 1][o.jobs[m].from] >= o.jobs[m].amount
  BY <1>1, <1>2, <1>3 DEF BatchOK, Funded
<1>5. balance \in [Wallets -> Int]
  BY <1>1, ConstantsAssumption DEF IInv, TypeOK, Amounts
<1>6. ASSUME NEW m \in 0 .. n - 1
      PROVE  /\ Trail(balance, o.jobs)[m] \in [Wallets -> Int]
             /\ \A w \in Wallets :
                  Trail(balance, o.jobs)[m][w] = balance[w] + Net(o.jobs)[m][w]
  <2>1. m \in 0 .. Len(o.jobs) /\ \A i \in 1 .. m : o.jobs[i].from # o.jobs[i].to
    BY <1>3, <1>4 DEF PassedJob
  <2> QED BY <1>4, <1>5, <2>1, NetShift
<1>7. View(s) = Trail(balance, o.jobs)[n - 1]
  <2>1. n - 1 \in 0 .. n - 1
    BY <1>3, <1>4
  <2>2. PICK x \in [Wallets -> Int] : x = Trail(balance, o.jobs)[n - 1]
    BY <1>6, <2>1
  <2>3. \A w \in Wallets : x[w] = balance[w] + pend[s][w]
    BY <1>4, <1>6, <2>1, <2>2
  <2>4. \A w \in Wallets : View(s)[w] = balance[w] + pend[s][w]
    BY <1>1, ReadsOwnRecords
  <2>5. View(s) = [w \in Wallets |-> View(s)[w]]
    BY DEF View
  <2> QED BY <2>2, <2>3, <2>4, <2>5
<1>8. Verdict(rows, Trail(balance, o.jobs)[n - 1], o.jobs[n]) = r
  BY <1>2, <1>3, <1>7 DEF Job
<1>9. ASSUME NEW m \in 1 .. n - 1
      PROVE  Verdict(rows, Trail(balance, o.jobs)[m - 1], o.jobs[m]) = "ok"
  <2>1. m - 1 \in 0 .. n - 1 /\ m \in 1 .. Len(o.jobs)
    BY <1>3, <1>4
  <2>2. PICK j : j = o.jobs[m]
    OBVIOUS
  <2>3. PICK x : x = Trail(balance, o.jobs)[m - 1]
    OBVIOUS
  <2>4. j.from \in Wallets /\ j.to \in Wallets /\ j.amount \in Int
    BY <1>4, <2>1, <2>2, BatchJobs
  <2>5. x \in [Wallets -> Int] /\ x[j.from] = balance[j.from] + Net(o.jobs)[m - 1][j.from]
    BY <1>6, <2>1, <2>3, <2>4
  <2>6. PassedJob(j) /\ j.amount > 0 /\ x[j.from] >= j.amount
    BY <1>4, <2>2, <2>5
  <2>7. x[j.from] \in Int /\ ~(j.amount <= 0) /\ ~(x[j.from] < j.amount)
    BY <2>4, <2>5, <2>6
  <2>8. Verdict(rows, x, j) = "ok"
    BY <2>6, <2>7 DEF PassedJob, Verdict
  <2> QED BY <2>2, <2>3, <2>8
<1> QED BY <1>2, <1>4, <1>8, <1>9 DEF Refuses

\* A deposit or withdrawal is refused for a wallet that is not there.
LEMMA MissRowMerits ==
    ASSUME SInv, NEW s \in Sessions, MissRow(s), op[s].kind # "batch"
    PROVE  Refuses(op[s], "notfound")
<1>1. /\ op[s] \in Operations /\ op[s].kind \in {"deposit", "withdraw"}
      /\ todo[s] = {op[s].wallet} /\ NextRow(s) \notin rows
      /\ op[s].wallet \in Wallets
  BY OperationFields DEF MissRow, SInv, IInv, SessionOK
<1>2. NextRow(s) = op[s].wallet
  BY <1>1 DEF NextRow, Wallets
<1> QED BY <1>1, <1>2 DEF Refuses

\* A withdrawal is refused for a balance that is committed.
LEMMA UpdateWithdrawMerits ==
    ASSUME SInv, NEW s \in Sessions, UpdateWithdraw(s),
           image[s][op[s].wallet] < op[s].amount
    PROVE  Refuses(op[s], "insufficient")
<1>1. /\ pc[s] = "update" /\ op[s].kind = "withdraw" /\ IInv
      /\ op[s] \in Operations /\ op[s].wallet \in Wallets /\ lock[op[s].wallet] = s
      /\ Holdings(s) /\ CashOK(s)
  BY OperationFields DEF UpdateWithdraw, SInv, IInv, SessionOK, SessionsOK
<1>2. op[s].wallet \in rows
  BY <1>1 DEF Holdings
<1>3. image[s][op[s].wallet] = balance[op[s].wallet]
  <2>1. pend[s][op[s].wallet] = 0
    BY <1>1 DEF CashOK, Zero
  <2> QED BY <1>1, <2>1, ReadsOwnRecords
<1> QED BY <1>1, <1>2, <1>3 DEF Refuses

\* A session's operation ends in one of three ways.
LEMMA HowItEnds ==
    ASSUME SInv, [Next]_vars, NEW t \in Sessions, Ends(t)
    PROVE  \/ Commit(t)
           \/ Rollback(t, "error")
           \/ \E r \in Refusals : Rollback(t, r) /\ Refuses(op[t], r)
<1> DEFINE Ended == \/ Commit(t)
                    \/ Rollback(t, "error")
                    \/ \E r \in Refusals : Rollback(t, r) /\ Refuses(op[t], r)
<1>1. /\ pc[t] # "idle" /\ pc'[t] = "idle"
      /\ pc = [s \in Sessions |-> pc[s]]
  BY DEF Ends, SInv, IInv, TypeOK
<1>2. ASSUME NEW s \in Sessions, Begin(s) \/ Step(s) \/ Abort(s), s # t PROVE FALSE
  <2>1. \E x : pc' = [pc EXCEPT ![s] = x]
    <3>1. \A r : Rollback(s, r) => \E x : pc' = [pc EXCEPT ![s] = x]
      BY DEF Rollback, Finish
    <3>2. \A w, d, next : Update(s, w, d, next) => \E x : pc' = [pc EXCEPT ![s] = x]
      BY <3>1 DEF Update
    <3>3. InsertWallet(s) \/ LockRow(s) \/ MissRow(s) => \E x : pc' = [pc EXCEPT ![s] = x]
      BY <3>1 DEF InsertWallet, LockRow, MissRow
    <3>4. Begin(s) => \E x : pc' = [pc EXCEPT ![s] = x]
      BY DEF Begin
    <3>5. UpdateDeposit(s) \/ UpdateWithdraw(s) \/ Debit(s) \/ Credit(s) =>
            \E x : pc' = [pc EXCEPT ![s] = x]
      BY <3>1, <3>2 DEF UpdateDeposit, UpdateWithdraw, Debit, Credit
    <3>6. CheckJob(s) \/ Abort(s) => \E x : pc' = [pc EXCEPT ![s] = x]
      BY <3>1 DEF CheckJob, Abort
    <3>7. RecordCash(s) \/ RecordTransfer(s) => \E x : pc' = [pc EXCEPT ![s] = x]
      BY DEF RecordCash, RecordTransfer, Post
    <3>8. Commit(s) => \E x : pc' = [pc EXCEPT ![s] = x]
      BY DEF Commit, Finish
    <3> QED BY <1>2, <3>3, <3>4, <3>5, <3>6, <3>7, <3>8 DEF Step
  <2> QED BY <1>1, <1>2, <2>1
<1>3. CASE UNCHANGED vars
  BY <1>1, <1>3 DEF vars
<1>4. CASE Begin(t)
  BY <1>1, <1>4 DEF Begin
<1>5. CASE Abort(t)
  BY <1>5 DEF Abort
<1>6. CASE InsertWallet(t) \/ LockRow(t)
  BY <1>1, <1>6 DEF InsertWallet, LockRow, AfterLock
<1>7. CASE MissRow(t)
  <2>1. CASE op[t].kind # "batch" /\ Rollback(t, "notfound")
    BY <1>7, <2>1, MissRowMerits DEF Refusals
  <2>2. CASE pc' = [pc EXCEPT ![t] = AfterLock(t, todo'[t])]
    BY <1>1, <2>2 DEF AfterLock
  <2> QED BY <1>7, <2>1, <2>2 DEF MissRow
<1>8. ASSUME NEW w, NEW d, NEW next \in {"credit", "record"}, Update(t, w, d, next)
      PROVE  Ended
  BY <1>1, <1>8 DEF Update
<1>9. CASE UpdateDeposit(t) \/ Debit(t) \/ Credit(t)
  BY <1>8, <1>9 DEF UpdateDeposit, Debit, Credit
<1>10. CASE UpdateWithdraw(t)
  <2>1. CASE image[t][op[t].wallet] < op[t].amount
    BY <1>10, <2>1, UpdateWithdrawMerits DEF UpdateWithdraw, Refusals
  <2>2. CASE ~(image[t][op[t].wallet] < op[t].amount)
    BY <1>8, <1>10, <2>2 DEF UpdateWithdraw
  <2> QED BY <2>1, <2>2
<1>11. CASE CheckJob(t)
  <2>1. PICK r : r = Verdict(rows, View(t), Job(t))
    OBVIOUS
  <2>2. CASE r = "ok"
    BY <1>1, <1>11, <2>1, <2>2 DEF CheckJob
  <2>3. CASE r # "ok"
    <3>1. r \in Refusals
      BY <2>1, <2>3 DEF Verdict, Refusals
    <3>2. Rollback(t, r) /\ pc[t] = "check"
      BY <1>11, <2>1, <2>3 DEF CheckJob
    <3> QED BY <2>1, <2>3, <3>1, <3>2, CheckJobMerits
  <2> QED BY <2>2, <2>3
<1>12. CASE RecordCash(t) \/ RecordTransfer(t)
  BY <1>1, <1>12 DEF RecordCash, RecordTransfer, Post
<1>13. CASE Commit(t)
  BY <1>13
<1> QED BY <1>2, <1>3, <1>4, <1>5, <1>6, <1>7, <1>9, <1>10, <1>11, <1>12, <1>13
        DEF Next, Step

\* What that end tells the caller.
LEMMA EndTells ==
    ASSUME SInv, NEW t \in Sessions
    PROVE  /\ \A r : Rollback(t, r) => outcome'[t] = r /\ UNCHANGED committed
           /\ Commit(t) => /\ outcome'[t] \in {"ok", "error"}
                           /\ book' = book \o PostedBy(t)
<1>1. \A r : Finish(t, r) => outcome'[t] = r
  BY DEF Finish, SInv, IInv, TypeOK
<1>2. ASSUME Commit(t) PROVE lines[t] = PostedBy(t)
  <2>1. pc[t] = "commit" /\ IInv /\ CashOK(t) /\ BatchOK(t)
    BY <1>2 DEF Commit, SInv, SessionsOK
  <2>2. CASE op[t].kind = "batch"
    <3>1. lines[t] = [i \in 1 .. Len(op[t].jobs) |-> TransferTxn(op[t].jobs[i])]
      BY <2>1, <2>2 DEF BatchOK, Recorded
    <3> QED BY <2>2, <3>1 DEF PostedBy
  <2>3. CASE op[t].kind # "batch"
    BY <2>1, <2>3 DEF CashOK
  <2> QED BY <2>2, <2>3
<1> QED BY <1>1, <1>2 DEF Rollback, Commit

\* What a caller is told is true, whatever the sessions around it do: success
\* means that exactly the operation's own transactions were committed, and a
\* business error that nothing was.
THEOREM RepliesAreTruthful == Spec => RepliesTruthful
<1>1. SInv /\ [Next]_vars =>
        [\A s \in Sessions : Ends(s) =>
           /\ outcome'[s] = "ok" => book' = book \o PostedBy(s)
           /\ outcome'[s] \in Refusals => UNCHANGED committed]_vars
  BY HowItEnds, EndTells DEF Refusals
<1> QED BY <1>1, SerialInductive, PTL DEF Spec, RepliesTruthful

\* A business error is what the operation, run alone on the balances committed
\* at that moment, would have been told.
THEOREM RefusalsDeserved == Spec => RefusedOnMerits
<1>1. SInv /\ [Next]_vars =>
        [\A s \in Sessions :
           Ends(s) /\ outcome'[s] \in Refusals => Refuses(op[s], outcome'[s])]_vars
  BY HowItEnds, EndTells DEF Refusals
<1> QED BY <1>1, SerialInductive, PTL DEF Spec, RefusedOnMerits
-----------------------------------------------------------------------------
(* Deadlock *)

\* The operations under way name wallets that are there.  Without it a wallet
\* created between the SELECT ... FOR UPDATE and the UPDATE of a batch is
\* locked out of order.
NamesExist == \A s \in Sessions : pc[s] # "idle" => LockSet(op[s]) \subseteq rows

\* Rows are locked in ascending order, all of them before the first UPDATE.
InOrder(s) ==
    /\ pc[s] = "lock" =>
         /\ todo[s] # {}
         /\ todo[s] \subseteq LockSet(op[s])
         /\ \A w \in LockSet(op[s]) \ todo[s] : lock[w] = s
         /\ \A w \in Wallets : lock[w] = s => \A v \in todo[s] : w < v
    /\ pc[s] \notin {"idle", "lock"} /\ op[s].kind = "batch" =>
         \A w \in LockSet(op[s]) : lock[w] = s

AllInOrder == \A s \in Sessions : InOrder(s)

\* The first of the rows a session has yet to lock is the least.
LEMMA NextRowLeast ==
    ASSUME NEW s \in Sessions, todo[s] \in SUBSET Wallets, todo[s] # {}
    PROVE  NextRow(s) \in todo[s] /\ \A v \in todo[s] : NextRow(s) <= v
<1>1. todo[s] \in SUBSET Nat
  BY DEF Wallets
<1>2. \E w \in todo[s] : \A v \in todo[s] : w <= v
  BY <1>1, LeastNatural
<1> QED BY <1>2 DEF NextRow

\* A step of one session leaves the others where they are, and their locks.
LEMMA StepLeaves ==
    ASSUME IInv, NEW s \in Sessions, Begin(s) \/ Step(s) \/ Abort(s),
           NEW t \in Sessions, t # s
    PROVE  /\ pc'[t] = pc[t] /\ op'[t] = op[t] /\ todo'[t] = todo[t]
           /\ \A w \in Wallets : lock'[w] = t <=> lock[w] = t
<1> DEFINE Left == /\ pc'[t] = pc[t] /\ op'[t] = op[t] /\ todo'[t] = todo[t]
                   /\ \A w \in Wallets : lock'[w] = t <=> lock[w] = t
<1>1. /\ pc = [u \in Sessions |-> pc[u]] /\ op = [u \in Sessions |-> op[u]]
      /\ todo = [u \in Sessions |-> todo[u]] /\ lock = [w \in Wallets |-> lock[w]]
  BY DEF IInv, TypeOK
<1>2. ASSUME NEW w \in Wallets, lock[w] \in {s, NoSession}, lock' = [lock EXCEPT ![w] = s]
      PROVE  \A v \in Wallets : lock'[v] = t <=> lock[v] = t
  <2>1. lock'[w] = s /\ \A v \in Wallets \ {w} : lock'[v] = lock[v]
    BY <1>2 DEF IInv, TypeOK
  <2> QED BY <1>2, <2>1, NobodyIsFree
<1>3. ASSUME NEW r, Finish(s, r) PROVE Left
  <2>1. pc'[t] = pc[t] /\ op'[t] = op[t] /\ todo'[t] = todo[t]
    BY <1>1, <1>3 DEF Finish
  <2>2. \A w \in Wallets : lock'[w] = IF lock[w] = s THEN NoSession ELSE lock[w]
    BY <1>3 DEF Finish
  <2> QED BY <2>1, <2>2, NobodyIsFree
<1>4. ASSUME NEW w \in Wallets, NEW d, NEW next, Update(s, w, d, next) PROVE Left
  <2>1. CASE Rollback(s, "error")
    BY <1>3, <2>1 DEF Rollback
  <2>2. CASE ~Rollback(s, "error")
    <3>1. /\ lock[w] \in {s, NoSession} /\ lock' = [lock EXCEPT ![w] = s]
          /\ pc' = [pc EXCEPT ![s] = next] /\ UNCHANGED <<op, todo>>
      BY <1>4, <2>2 DEF Update
    <3> QED BY <1>1, <1>2, <3>1
  <2> QED BY <2>1, <2>2
<1>5. CASE Begin(s)
  BY <1>1, <1>5 DEF Begin
<1>6. CASE InsertWallet(s)
  <2>1. nextId \in Wallets /\ lock[nextId] = NoSession
    BY <1>6 DEF InsertWallet, IInv, TypeOK, FreshIds, Wallets
  <2> QED BY <1>1, <1>2, <1>6, <2>1 DEF InsertWallet
<1>7. CASE LockRow(s)
  <2>1. PICK w \in Wallets : w = NextRow(s)
    BY <1>7 DEF LockRow, IInv, TypeOK
  <2>2. /\ lock[w] = NoSession /\ lock' = [lock EXCEPT ![w] = s] /\ op' = op
        /\ pc' = [pc EXCEPT ![s] = AfterLock(s, todo'[s])]
        /\ todo' = [todo EXCEPT ![s] = @ \ {w}]
    BY <1>7, <2>1 DEF LockRow
  <2> QED BY <1>1, <1>2, <2>2
<1>8. CASE MissRow(s)
  <2>1. CASE Rollback(s, "notfound")
    BY <1>3, <2>1 DEF Rollback
  <2>2. CASE /\ todo' = [todo EXCEPT ![s] = @ \ {NextRow(s)}]
             /\ pc' = [pc EXCEPT ![s] = AfterLock(s, todo'[s])]
             /\ UNCHANGED <<lock, op>>
    BY <1>1, <2>2
  <2> QED BY <1>8, <2>1, <2>2 DEF MissRow
<1>9. CASE UpdateDeposit(s)
  <2>1. op[s].wallet \in Wallets
    BY <1>9, OperationFields DEF UpdateDeposit, IInv, SessionOK
  <2> QED BY <1>4, <1>9, <2>1 DEF UpdateDeposit
<1>10. CASE UpdateWithdraw(s)
  <2>1. op[s].wallet \in Wallets
    BY <1>10, OperationFields DEF UpdateWithdraw, IInv, SessionOK
  <2> QED BY <1>3, <1>4, <1>10, <2>1 DEF UpdateWithdraw, Rollback
<1>11. CASE CheckJob(s)
  <2>1. CASE \E r : Rollback(s, r)
    BY <1>3, <2>1 DEF Rollback
  <2>2. CASE pc' = [pc EXCEPT ![s] = "debit"] /\ UNCHANGED <<lock, op, todo>>
    BY <1>1, <2>2
  <2> QED BY <1>11, <2>1, <2>2 DEF CheckJob
<1>12. CASE Debit(s) \/ Credit(s)
  <2>1. Job(s).from \in Wallets /\ Job(s).to \in Wallets
    BY <1>12, JobType DEF Debit, Credit, IInv, SessionOK
  <2> QED BY <1>4, <1>12, <2>1 DEF Debit, Credit
<1>13. CASE RecordCash(s) \/ RecordTransfer(s)
  BY <1>1, <1>13 DEF RecordCash, RecordTransfer, Post
<1>14. CASE Commit(s)
  BY <1>3, <1>14 DEF Commit
<1>15. CASE Abort(s)
  BY <1>3, <1>15 DEF Abort, Rollback
<1> QED BY <1>5, <1>6, <1>7, <1>8, <1>9, <1>10, <1>11, <1>12, <1>13, <1>14, <1>15 DEF Step
\* Locking the next row keeps the order.
LEMMA LockRowInOrder ==
    ASSUME SInv, NEW s \in Sessions, InOrder(s), LockRow(s)
    PROVE  InOrder(s)'
<1>1. /\ pc[s] = "lock" /\ todo[s] \in SUBSET Wallets /\ todo[s] # {}
      /\ todo[s] \subseteq LockSet(op[s])
      /\ \A v \in LockSet(op[s]) \ todo[s] : lock[v] = s
      /\ \A v \in Wallets : lock[v] = s => \A x \in todo[s] : v < x
      /\ op[s] \in Operations
  BY DEF LockRow, InOrder, SInv, IInv, TypeOK, SessionOK
<1>2. PICK w \in Wallets : /\ w = NextRow(s) /\ w \in todo[s]
                           /\ \A v \in todo[s] : w <= v
  BY <1>1, NextRowLeast
<1>3. /\ lock'[w] = s /\ \A v \in Wallets \ {w} : lock'[v] = lock[v]
      /\ todo'[s] = todo[s] \ {w} /\ op'[s] = op[s]
      /\ pc'[s] = AfterLock(s, todo'[s])
  BY <1>2 DEF LockRow, SInv, IInv, TypeOK
<1>4. LockSet(op[s]) \subseteq Wallets
  BY <1>1, LockSetType
<1>5. \A v \in LockSet(op[s]) \ todo'[s] : lock'[v] = s
  BY <1>1, <1>3, <1>4
<1>6. \A v \in Wallets : lock'[v] = s => \A x \in todo'[s] : v < x
  <2> SUFFICES ASSUME NEW v \in Wallets, lock'[v] = s, NEW x \in todo'[s] PROVE v < x
    OBVIOUS
  <2>1. x \in todo[s] /\ x # w
    BY <1>3
  <2>2. CASE v = w
    BY <1>1, <1>2, <2>1, <2>2 DEF Wallets
  <2>3. CASE v # w
    BY <1>1, <1>3, <2>1, <2>3
  <2> QED BY <2>2, <2>3
<1>7. CASE todo'[s] # {}
  <2>1. pc'[s] = "lock"
    BY <1>3, <1>7 DEF AfterLock
  <2> QED BY <1>1, <1>3, <1>5, <1>6, <1>7, <2>1 DEF InOrder
<1>8. CASE todo'[s] = {}
  <2>1. pc'[s] \in {"check", "update"}
    BY <1>3, <1>8 DEF AfterLock
  <2> QED BY <1>3, <1>5, <1>8, <2>1 DEF InOrder
<1> QED BY <1>7, <1>8

\* So does beginning an operation, whose rows are none or all yet to be locked.
LEMMA BeginInOrder ==
    ASSUME SInv, NEW s \in Sessions, Begin(s)
    PROVE  InOrder(s)'
<1>1. PICK o \in Operations :
         /\ op' = [op EXCEPT ![s] = o]
         /\ todo' = [todo EXCEPT ![s] = LockSet(o)]
         /\ pc' = [pc EXCEPT ![s] = IF o.kind = "create" THEN "insert" ELSE "lock"]
  BY DEF Begin
<1>2. /\ op'[s] = o /\ todo'[s] = LockSet(o) /\ lock' = lock
      /\ pc'[s] = IF o.kind = "create" THEN "insert" ELSE "lock"
  BY <1>1 DEF Begin, SInv, IInv, TypeOK
<1>3. \A w \in Wallets : lock[w] # s
  BY DEF Begin, SInv, SessionsOK, Holdings
<1>4. o.kind # "create" => LockSet(o) # {}
  <2>1. CASE o.kind \in {"deposit", "withdraw"}
    BY <2>1 DEF LockSet
  <2>2. CASE o.kind = "batch"
    <3>1. 1 \in 1 .. Len(o.jobs)
      BY <2>2, OperationFields
    <3>2. o.jobs[1].from \in LockSet(o)
      BY <2>2, <3>1 DEF LockSet
    <3> QED BY <3>2
  <2> QED BY <2>1, <2>2, OperationFields
<1> QED BY <1>2, <1>3, <1>4 DEF InOrder

\* Past the locks, every statement keeps what is locked or ends the operation.
LEMMA LockedStays ==
    ASSUME SInv, NEW s \in Sessions, InOrder(s), Step(s) \/ Abort(s),
           pc[s] # "lock", pc'[s] # "idle"
    PROVE  InOrder(s)'
<1>1. pc = [u \in Sessions |-> pc[u]] /\ IInv
  BY DEF SInv, IInv, TypeOK
<1>2. \A r : ~Finish(s, r)
  BY <1>1 DEF Finish
<1>3. ASSUME NEW w \in Wallets, NEW d, NEW next \in {"credit", "record"},
             Update(s, w, d, next)
      PROVE  /\ op'[s] = op[s] /\ pc'[s] \notin {"idle", "lock"}
             /\ \A v \in Wallets : lock[v] = s => lock'[v] = s
  <2>1. lock' = [lock EXCEPT ![w] = s] /\ pc' = [pc EXCEPT ![s] = next] /\ op' = op
    BY <1>2, <1>3 DEF Update, Rollback
  <2> QED BY <1>1, <2>1 DEF IInv, TypeOK
<1>4. CASE op[s].kind # "batch"
  <2>1. op'[s] = op[s] /\ pc'[s] # "lock"
    <3>1. CASE InsertWallet(s) \/ RecordCash(s)
      BY <1>1, <3>1 DEF InsertWallet, RecordCash, Post
    <3>2. CASE UpdateDeposit(s) \/ UpdateWithdraw(s)
      <4>1. op[s].wallet \in Wallets
        BY <3>2, OperationFields DEF UpdateDeposit, UpdateWithdraw, SInv, IInv, SessionOK
      <4> QED BY <1>2, <1>3, <3>2, <4>1 DEF UpdateDeposit, UpdateWithdraw, Rollback
    <3>3. ~(CheckJob(s) \/ Debit(s) \/ Credit(s) \/ RecordTransfer(s))
      BY <1>1, <1>4 DEF CheckJob, Debit, Credit, RecordTransfer, IInv, SessionOK
    <3>4. ~(LockRow(s) \/ MissRow(s) \/ Commit(s) \/ Abort(s))
      BY <1>2 DEF LockRow, MissRow, Commit, Abort, Rollback
    <3> QED BY <3>1, <3>2, <3>3, <3>4 DEF Step
  <2> QED BY <1>4, <2>1 DEF InOrder
<1>5. CASE op[s].kind = "batch"
  <2>1. op[s] \in Operations /\ pc[s] # "idle" /\ LockSet(op[s]) \subseteq Wallets
    <3>1. pc[s] # "idle"
      BY DEF Step, Abort, InsertWallet, LockRow, MissRow, UpdateDeposit, UpdateWithdraw,
             CheckJob, Debit, Credit, RecordCash, RecordTransfer, Commit
    <3> QED BY <1>1, <3>1, LockSetType DEF IInv, SessionOK
  <2>2. \A v \in LockSet(op[s]) : lock[v] = s
    BY <1>5, <2>1 DEF InOrder
  <2>3. /\ op'[s] = op[s] /\ pc'[s] # "lock"
        /\ \A v \in Wallets : lock[v] = s => lock'[v] = s
    <3>1. CASE CheckJob(s)
      BY <1>1, <1>2, <3>1 DEF CheckJob, Rollback
    <3>2. CASE Debit(s) \/ Credit(s)
      <4>1. Job(s).from \in Wallets /\ Job(s).to \in Wallets
        BY <1>1, <1>5, <2>1, JobType
      <4> QED BY <1>3, <3>2, <4>1 DEF Debit, Credit
    <3>3. CASE RecordTransfer(s)
      BY <1>1, <3>3 DEF RecordTransfer, Post
    <3>4. ~(InsertWallet(s) \/ RecordCash(s) \/ UpdateDeposit(s) \/ UpdateWithdraw(s))
      BY <1>1, <1>5 DEF InsertWallet, RecordCash, UpdateDeposit, UpdateWithdraw, IInv, SessionOK
    <3>5. ~(LockRow(s) \/ MissRow(s) \/ Commit(s) \/ Abort(s))
      BY <1>2 DEF LockRow, MissRow, Commit, Abort, Rollback
    <3> QED BY <3>1, <3>2, <3>3, <3>4, <3>5 DEF Step
  <2> QED BY <1>5, <2>1, <2>2, <2>3 DEF InOrder
<1> QED BY <1>4, <1>5

LEMMA OrderKept ==
    ASSUME SInv, NamesExist, AllInOrder, [Next]_vars
    PROVE  AllInOrder'
<1>1. CASE UNCHANGED vars
  BY <1>1 DEF AllInOrder, InOrder, vars
<1>2. ASSUME NEW s \in Sessions, Begin(s) \/ Step(s) \/ Abort(s) PROVE AllInOrder'
  <2>1. ASSUME NEW t \in Sessions, t # s PROVE InOrder(t)'
    <3>1. /\ pc'[t] = pc[t] /\ op'[t] = op[t] /\ todo'[t] = todo[t]
          /\ \A w \in Wallets : lock'[w] = t <=> lock[w] = t
      BY <1>2, <2>1, StepLeaves DEF SInv
    <3>2. pc[t] # "idle" => LockSet(op[t]) \subseteq Wallets
      BY LockSetType DEF SInv, IInv, SessionOK
    <3> QED BY <3>1, <3>2 DEF AllInOrder, InOrder
  <2>2. InOrder(s)'
    <3>1. CASE pc'[s] = "idle"
      BY <3>1 DEF InOrder
    <3>2. CASE Begin(s)
      BY <3>2, BeginInOrder
    <3>3. CASE (Step(s) \/ Abort(s)) /\ pc[s] # "lock" /\ pc'[s] # "idle"
      BY <3>3, LockedStays DEF AllInOrder
    <3>4. CASE (Step(s) \/ Abort(s)) /\ pc[s] = "lock" /\ pc'[s] # "idle"
      <4>1. \A r : ~Finish(s, r)
        BY <3>4 DEF Finish, SInv, IInv, TypeOK
      <4>2. LockRow(s) \/ MissRow(s)
        BY <3>4, <4>1 DEF Step, Abort, Rollback, InsertWallet, UpdateDeposit, UpdateWithdraw,
           CheckJob, Debit, Credit, RecordCash, RecordTransfer, Commit
      <4>3. NextRow(s) \in rows
        <5>1. todo[s] \in SUBSET Wallets /\ todo[s] # {} /\ todo[s] \subseteq LockSet(op[s])
          BY <3>4 DEF AllInOrder, InOrder, SInv, IInv, TypeOK
        <5>2. LockSet(op[s]) \subseteq rows
          BY <3>4 DEF NamesExist
        <5> QED BY <5>1, <5>2, NextRowLeast
      <4> QED BY <4>2, <4>3, LockRowInOrder DEF MissRow, AllInOrder
    <3> QED BY <1>2, <3>1, <3>2, <3>3, <3>4
  <2> QED BY <2>1, <2>2 DEF AllInOrder
<1> QED BY <1>1, <1>2 DEF Next

\* In a set of sessions that all wait for each other, the one that waits for
\* the greatest row would wait for a session that waits for a greater one.
LEMMA OrderedLocksAcyclic ==
    ASSUME SInv, AllInOrder
    PROVE  NoCircularWait
<1> SUFFICES ASSUME NEW C \in (SUBSET Sessions) \ {{}},
                    \A s \in C : \E t \in C : WaitsFor(s, t)
             PROVE  FALSE
  BY DEF NoCircularWait
<1>1. ASSUME NEW s \in C
      PROVE  /\ pc[s] = "lock" /\ NextRow(s) \in Wallets /\ NextRow(s) \in todo[s]
             /\ \E t \in C : lock[NextRow(s)] = t
  <2>1. PICK t \in C : WaitsFor(s, t)
    OBVIOUS
  <2>2. s \in Sessions /\ IInv /\ InOrder(s) /\ BatchOK(s)
    BY DEF SInv, AllInOrder, SessionsOK
  <2>3. ASSUME pc[s] \in {"debit", "credit"} PROVE FALSE
    <3>1. op[s].kind = "batch" /\ cur[s] \in 1 .. Len(op[s].jobs)
      BY <2>2, <2>3 DEF IInv, SessionOK
    <3>2. Job(s).from \in LockSet(op[s]) /\ Job(s).to \in LockSet(op[s])
      BY <3>1 DEF LockSet, Job
    <3>3. lock[Job(s).from] = s /\ lock[Job(s).to] = s
      BY <2>2, <2>3, <3>1, <3>2 DEF InOrder
    <3> QED BY <2>1, <2>3, <3>3 DEF WaitsFor, Wants
  <2>4. pc[s] = "lock" /\ lock[NextRow(s)] = t
    BY <2>1, <2>3 DEF WaitsFor, Wants
  <2>5. todo[s] \in SUBSET Wallets /\ todo[s] # {}
    BY <2>2, <2>4 DEF InOrder, IInv, TypeOK
  <2> QED BY <2>2, <2>4, <2>5, NextRowLeast
<1> DEFINE T == {MaxWallet - NextRow(s) : s \in C}
<1>2. T \in SUBSET Nat /\ T # {}
  <2>1. ASSUME NEW s \in C PROVE MaxWallet - NextRow(s) \in Nat
    <3>1. PICK w \in Wallets : w = NextRow(s)
      BY <1>1
    <3>2. MaxWallet - w \in Nat
      BY ConstantsAssumption DEF Wallets, ConstantsAssumption
    <3> QED BY <3>1, <3>2
  <2>2. T \in SUBSET Nat
    BY <2>1
  <2>3. PICK s \in C : TRUE
    OBVIOUS
  <2>4. MaxWallet - NextRow(s) \in T
    OBVIOUS
  <2> QED BY <2>2, <2>4
<1>3. PICK m \in T : \A k \in T : m <= k
  <2> HIDE DEF T
  <2> QED BY <1>2, LeastNatural
<1>4. PICK s \in C : \A t \in C : MaxWallet - NextRow(s) <= MaxWallet - NextRow(t)
  BY <1>3
<1>5. PICK t \in C : lock[NextRow(s)] = t
  BY <1>1
<1>6. NextRow(s) < NextRow(t)
  <2>1. NextRow(s) \in Wallets /\ pc[t] = "lock" /\ NextRow(t) \in todo[t] /\ t \in Sessions
    BY <1>1
  <2> QED BY <1>5, <2>1 DEF AllInOrder, InOrder
<1>7. NextRow(s) \in Int /\ NextRow(t) \in Int /\ MaxWallet \in Int
  BY <1>1, ConstantsAssumption DEF Wallets, ConstantsAssumption
<1> QED BY <1>4, <1>6, <1>7

LEMMA InitInOrder == Init => AllInOrder
BY DEF Init, AllInOrder, InOrder

\* No set of sessions waits for itself in a circle, as long as the operations
\* under way name wallets that are there: rows are locked in ascending order.
THEOREM NoDeadlock == Spec /\ []NamesExist => []NoCircularWait
<1>1. SInv /\ NamesExist /\ AllInOrder /\ [Next]_vars => AllInOrder'
  BY OrderKept
<1>2. SInv /\ AllInOrder => NoCircularWait
  BY OrderedLocksAcyclic
<1> QED BY <1>1, <1>2, InitInOrder, SerialInductive, PTL DEF Spec

\* In particular when they only name wallets that were there from the start.
THEOREM NoDeadlockOnOpened ==
    ASSUME \A o \in Operations : LockSet(o) \subseteq Opened
    PROVE  Spec => []NoCircularWait
<1>1. Init => Opened \subseteq rows
  BY DEF Init
<1>2. Opened \subseteq rows /\ [Next]_vars => (Opened \subseteq rows)'
  <2> SUFFICES ASSUME Opened \subseteq rows, [Next]_vars PROVE Opened \subseteq rows'
    OBVIOUS
  <2>1. CASE \E s \in Sessions : Commit(s)
    BY <2>1 DEF Commit
  <2>2. CASE \A s \in Sessions : ~Commit(s)
    BY <2>2, OnlyCommits DEF committed
  <2> QED BY <2>1, <2>2
<1>3. SInv /\ Opened \subseteq rows => NamesExist
  BY DEF SInv, IInv, SessionOK, NamesExist
<1> QED BY <1>1, <1>2, <1>3, NoDeadlock, SerialInductive, PTL DEF Spec
=============================================================================
