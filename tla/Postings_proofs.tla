---------------------------- MODULE Postings_proofs ----------------------------
(***************************************************************************)
(* Lemmas about the operators of Postings, for transfers of any number and *)
(* amount, checked by TLAPS; and the two principles they rest on, the      *)
(* least element of a set of naturals and induction over the naturals,     *)
(* stated for sets so that every prover can use them.                      *)
(***************************************************************************)
EXTENDS Postings, FiniteSetTheorems, TLAPS

-----------------------------------------------------------------------------
(* Induction *)

\* A set of natural numbers that is not empty has a least element: the
\* intervals below its elements are finite and ordered by inclusion.
LEMMA LeastNatural ==
    ASSUME NEW T \in SUBSET Nat, T # {}
    PROVE  \E m \in T : \A k \in T : m <= k
<1> DEFINE Below(n) == 0 .. n
           R == StrictSubsetOrdering(Nat)
           F == {Below(n) : n \in T}
<1>1. F \subseteq FiniteSubsetsOf(Nat) /\ F # {}
  <2>1. \A n \in T : Below(n) \in SUBSET Nat /\ IsFiniteSet(Below(n))
    BY FS_Interval
  <2>. QED  BY <2>1 DEF FiniteSubsetsOf
<1>2. IsWellFoundedOn(R, FiniteSubsetsOf(Nat))
  BY FS_StrictSubsetOrderingWellFounded
<1>3. \E x \in F : \A y \in F : <<y, x>> \notin R
  <2>. HIDE DEF F, R
  <2>. QED  BY <1>1, <1>2, WFMin
<1>4. PICK m \in T : \A k \in T : <<Below(k), Below(m)>> \notin R
  BY <1>3
<1>5. ASSUME NEW k \in T, k < m PROVE FALSE
  <2>1. Below(k) \subseteq Below(m) /\ m \in Below(m) /\ m \notin Below(k)
    BY <1>5
  <2>2. <<Below(k), Below(m)>> \in R
    BY <2>1 DEF StrictSubsetOrdering
  <2>. QED  BY <2>2, <1>4
<1>. QED  BY <1>5

\* Induction: a set that holds 0 and, with a number, the next one, up to N.
LEMMA Induction ==
    ASSUME NEW N \in Nat, NEW S, 0 \in S,
           \A n \in 0 .. N - 1 : n \in S => n + 1 \in S
    PROVE  0 .. N \subseteq S
<1> DEFINE T == {n \in 0 .. N : n \notin S}
<1> SUFFICES ASSUME NEW n \in 0 .. N, n \notin S PROVE FALSE
  OBVIOUS
<1>1. PICK m \in T : \A k \in T : m <= k
  <2>1. T \in SUBSET Nat /\ T # {}
    OBVIOUS
  <2>. QED  BY <2>1, LeastNatural
<1>2. m # 0 /\ m - 1 \in 0 .. N - 1 /\ m - 1 \notin T
  BY <1>1
<1>3. m - 1 \in S
  BY <1>2
<1>. QED  BY <1>1, <1>2, <1>3

\* A function on 0 .. N may be defined by its first value and by what follows
\* each value.
Unfolds(f, N, X, x, G) ==
    f \in [0 .. N -> X] /\ f[0] = x /\ \A n \in 1 .. N : f[n] = G[<<f[n - 1], n>>]

LEMMA Recursion ==
    ASSUME NEW N \in Nat, NEW X, NEW x \in X, NEW G \in [X \X (1 .. N) -> X]
    PROVE  \E f : Unfolds(f, N, X, x, G)
<1> DEFINE Good(f, n) == f[0] = x /\ \A i \in 1 .. n : f[i] = G[<<f[i - 1], i>>]
           S == {n \in 0 .. N : \E f \in [0 .. N -> X] : Good(f, n)}
<1>1. 0 \in S
  <2> DEFINE f == [i \in 0 .. N |-> x]
  <2>1. f \in [0 .. N -> X] /\ Good(f, 0)
    OBVIOUS
  <2>. HIDE DEF f, Good
  <2>. QED  BY <2>1
<1>2. ASSUME NEW n \in 0 .. N - 1, n \in S PROVE n + 1 \in S
  <2>1. PICK f \in [0 .. N -> X] : Good(f, n)
    BY <1>2
  <2> DEFINE g == [f EXCEPT ![n + 1] = G[<<f[n], n + 1>>]]
  <2>2. g \in [0 .. N -> X]
    BY <1>2
  <2>3. Good(g, n + 1)
    <3>1. g[0] = x /\ \A i \in 0 .. n : g[i] = f[i]
      BY <2>1
    <3>2. g[n + 1] = G[<<f[n], n + 1>>]
      OBVIOUS
    <3>3. ASSUME NEW i \in 1 .. n + 1 PROVE g[i] = G[<<g[i - 1], i>>]
      <4>1. CASE i = n + 1
        <5>1. i - 1 = n /\ n \in 0 .. n /\ g[n] = f[n]
          BY <3>1, <4>1
        <5>. HIDE DEF g
        <5>. QED  BY <3>2, <4>1, <5>1
      <4>2. CASE i \in 1 .. n
        <5>1. i \in 0 .. n /\ i - 1 \in 0 .. n
          BY <4>2
        <5>2. f[i] = G[<<f[i - 1], i>>]
          BY <2>1, <4>2
        <5>. HIDE DEF g
        <5>. QED  BY <3>1, <5>1, <5>2
      <4>. QED  BY <4>1, <4>2
    <3>. QED  BY <3>1, <3>3
  <2>. HIDE DEF g, Good
  <2>4. n + 1 \in 0 .. N
    BY <1>2
  <2>. QED  BY <2>2, <2>3, <2>4
<1>3. 0 .. N \subseteq S
  <2>. HIDE DEF S
  <2>. QED  BY <1>1, <1>2, Induction
<1>4. PICK f \in [0 .. N -> X] : Good(f, N)
  <2>1. N \in S
    <3>. HIDE DEF S
    <3>. QED  BY <1>3
  <2>. HIDE DEF Good
  <2>. QED  BY <2>1
<1>. QED  BY <1>4 DEF Unfolds

-----------------------------------------------------------------------------
(* The balances after each of a list of transfers *)

\* A transfer leaves balances balances, whatever wallets it names.
LEMMA MoveType ==
    ASSUME NEW W, NEW bal \in [W -> Int], NEW j, j.amount \in Int
    PROVE  Move(bal, j) \in [W -> Int]
<1>1. Move(bal, j) = [w \in W |-> Move(bal, j)[w]]
  BY DEF Move
<1>2. \A w \in W : Move(bal, j)[w] \in Int
  BY DEF Move
<1>. QED  BY <1>1, <1>2

\* A transfer moves its amount from one wallet to the other and nothing else.
LEMMA MoveAt ==
    ASSUME NEW W, NEW bal \in [W -> Int], NEW j, j.amount \in Int,
           j.from \in W, j.to \in W, j.from # j.to
    PROVE  /\ Move(bal, j)[j.from] = bal[j.from] - j.amount
           /\ Move(bal, j)[j.to] = bal[j.to] + j.amount
           /\ \A w \in W \ {j.from, j.to} : Move(bal, j)[w] = bal[w]
BY DEF Move

\* Trail is what its definition says: each balance follows from the one before.
LEMMA TrailSteps ==
    ASSUME NEW W, NEW bal \in [W -> Int], NEW jobs, Len(jobs) \in Nat,
           \A n \in 1 .. Len(jobs) : jobs[n].amount \in Int
    PROVE  LET after == Trail(bal, jobs)
           IN  /\ after \in [0 .. Len(jobs) -> [W -> Int]]
               /\ after[0] = bal
               /\ \A n \in 1 .. Len(jobs) : after[n] = Move(after[n - 1], jobs[n])
<1> DEFINE N == Len(jobs)
           X == [W -> Int]
           G == [p \in X \X (1 .. N) |-> Move(p[1], jobs[p[2]])]
           Fits(f) == f = [n \in 0 .. N |-> IF n = 0 THEN bal ELSE Move(f[n - 1], jobs[n])]
           after == CHOOSE f : Fits(f)
<1>1. G \in [X \X (1 .. N) -> X]
  BY MoveType
<1>2. PICK f \in [0 .. N -> X] :
         f[0] = bal /\ \A n \in 1 .. N : f[n] = G[<<f[n - 1], n>>]
  <2>1. N \in Nat /\ bal \in X
    OBVIOUS
  <2>. HIDE DEF G, X, N
  <2>2. \E f : Unfolds(f, N, X, bal, G)
    BY <1>1, <2>1, Recursion
  <2>. QED  BY <2>2 DEF Unfolds
<1>3. Fits(f)
  <2>1. ASSUME NEW n \in 0 .. N, n # 0 PROVE f[n] = Move(f[n - 1], jobs[n])
    <3>1. n \in 1 .. N /\ n - 1 \in 0 .. N
      BY <2>1
    <3>2. f[n - 1] \in X
      <4>. HIDE DEF X, N
      <4>. QED  BY <3>1
    <3>. QED  BY <1>2, <3>1, <3>2
  <2>. HIDE DEF X
  <2>. QED  BY <1>2, <2>1
<1>4. Fits(after)
  <2>. HIDE DEF Fits
  <2>. QED  BY <1>3
<1>5. /\ after[0] = bal
      /\ \A n \in 1 .. N : after[n] = Move(after[n - 1], jobs[n])
      /\ after = [n \in 0 .. N |-> after[n]]
  <2>. HIDE DEF after
  <2>1. DOMAIN after = 0 .. N
    BY <1>4
  <2>2. after[0] = bal /\ \A n \in 1 .. N : after[n] = Move(after[n - 1], jobs[n])
    BY <1>4
  <2>. HIDE DEF Fits
  <2>3. after = [n \in 0 .. N |-> after[n]]
    BY <1>4, <2>1 DEF Fits
  <2>. QED  BY <2>2, <2>3
<1>6. \A n \in 0 .. N : after[n] \in X
  <2> DEFINE S == {n \in 0 .. N : after[n] \in X}
  <2>. HIDE DEF after
  <2>1. 0 \in S
    BY <1>5
  <2>2. ASSUME NEW n \in 0 .. N - 1, n \in S PROVE n + 1 \in S
    <3>1. n + 1 \in 1 .. N /\ (n + 1) - 1 = n /\ jobs[n + 1].amount \in Int
      BY <2>2
    <3>2. after[n + 1] = Move(after[n], jobs[n + 1])
      BY <1>5, <3>1
    <3>3. Move(after[n], jobs[n + 1]) \in X
      BY <2>2, <3>1, MoveType
    <3>. QED  BY <3>1, <3>2, <3>3
  <2>3. 0 .. N \subseteq S
    <3>. HIDE DEF S
    <3>. QED  BY <2>1, <2>2, Induction
  <2>. QED  BY <2>3
<1>7. after = Trail(bal, jobs)
  BY DEF Trail
<1>. HIDE DEF after, X
<1>. QED  BY <1>5, <1>6, <1>7 DEF X

\* What a transfer between two wallets adds to the balance of wallet w.
Gain(j, w) == IF w = j.from THEN -j.amount ELSE IF w = j.to THEN j.amount ELSE 0

LEMMA MoveGain ==
    ASSUME NEW W, NEW bal \in [W -> Int], NEW j, j.amount \in Int, j.from # j.to
    PROVE  \A w \in W : Gain(j, w) \in Int /\ Move(bal, j)[w] = bal[w] + Gain(j, w)
<1> SUFFICES ASSUME NEW w \in W
             PROVE  Gain(j, w) \in Int /\ Move(bal, j)[w] = bal[w] + Gain(j, w)
  OBVIOUS
<1>1. bal[w] \in Int
  OBVIOUS
<1>2. CASE w = j.from
  BY <1>1, <1>2 DEF Move, Gain
<1>3. CASE w # j.from /\ w = j.to
  BY <1>1, <1>3 DEF Move, Gain
<1>4. CASE w # j.from /\ w # j.to
  BY <1>1, <1>4 DEF Move, Gain
<1>. QED  BY <1>2, <1>3, <1>4

\* Two lists of balances differ by a constant after each transfer.
Apart(W, p, q, a, b) == \A w \in W : p[w] = a[w] - b[w] + q[w]

\* A list of transfers adds the same to a balance, wherever it starts from.
LEMMA TrailShift ==
    ASSUME NEW W, NEW a \in [W -> Int], NEW b \in [W -> Int], NEW jobs,
           Len(jobs) \in Nat, \A n \in 1 .. Len(jobs) : jobs[n].amount \in Int,
           NEW N \in 0 .. Len(jobs), \A n \in 1 .. N : jobs[n].from # jobs[n].to
    PROVE  Apart(W, Trail(a, jobs)[N], Trail(b, jobs)[N], a, b)
<1> DEFINE p == Trail(a, jobs)
           q == Trail(b, jobs)
           S == {n \in 0 .. N : \A w \in W : p[n][w] = a[w] - b[w] + q[n][w]}
<1>1. /\ p \in [0 .. Len(jobs) -> [W -> Int]] /\ p[0] = a
      /\ \A n \in 1 .. Len(jobs) : p[n] = Move(p[n - 1], jobs[n])
  BY TrailSteps
<1>2. /\ q \in [0 .. Len(jobs) -> [W -> Int]] /\ q[0] = b
      /\ \A n \in 1 .. Len(jobs) : q[n] = Move(q[n - 1], jobs[n])
  BY TrailSteps
<1>. HIDE DEF p, q
<1>3. 0 \in S
  <2>1. ASSUME NEW w \in W PROVE p[0][w] = a[w] - b[w] + q[0][w]
    <3>1. a[w] \in Int /\ b[w] \in Int
      OBVIOUS
    <3>. QED  BY <1>1, <1>2, <3>1
  <2>. QED  BY <2>1
<1>4. ASSUME NEW n \in 0 .. N - 1, n \in S PROVE n + 1 \in S
  <2>1. /\ n \in 0 .. Len(jobs) /\ n + 1 \in 1 .. Len(jobs) /\ n + 1 \in 1 .. N
        /\ n + 1 \in 0 .. N /\ (n + 1) - 1 = n
    BY <1>4
  <2>2. PICK x \in [W -> Int] : x = p[n]
    BY <1>1, <2>1
  <2>3. PICK y \in [W -> Int] : y = q[n]
    BY <1>2, <2>1
  <2>4. PICK j : j = jobs[n + 1]
    OBVIOUS
  <2>5. j.amount \in Int /\ j.from # j.to
    BY <2>1, <2>4
  <2>6. p[n + 1] = Move(x, j) /\ q[n + 1] = Move(y, j)
    BY <1>1, <1>2, <2>1, <2>2, <2>3, <2>4
  <2>7. ASSUME NEW w \in W PROVE p[n + 1][w] = a[w] - b[w] + q[n + 1][w]
    <3>1. Gain(j, w) \in Int
      BY <2>5, MoveGain
    <3>2. \A z \in [W -> Int] : Move(z, j)[w] = z[w] + Gain(j, w)
      BY <2>5, MoveGain
    <3>3. x[w] = a[w] - b[w] + y[w]
      BY <1>4, <2>2, <2>3
    <3>4. a[w] \in Int /\ b[w] \in Int /\ x[w] \in Int /\ y[w] \in Int
      OBVIOUS
    <3>5. p[n + 1][w] = x[w] + Gain(j, w) /\ q[n + 1][w] = y[w] + Gain(j, w)
      BY <2>6, <3>2
    <3>. QED  BY <3>1, <3>3, <3>4, <3>5
  <2>. QED  BY <2>1, <2>7
<1>5. 0 .. N \subseteq S
  <2>1. N \in Nat
    OBVIOUS
  <2>. HIDE DEF S
  <2>. QED  BY <1>3, <1>4, <2>1, Induction
<1>. QED  BY <1>5 DEF p, q, Apart

-----------------------------------------------------------------------------
(* The verdict on a list of transfers *)

Verdicts == {"ok", "invalid", "notfound", "insufficient", "error"}

\* What process_transfer_batch finds of the n-th transfer, if it comes to it.
StepVerdict(rows, bal, jobs, max, n) ==
    LET v == Verdict(rows, Trail(bal, jobs)[n - 1], jobs[n])
    IN  IF v = "ok" /\ Trail(bal, jobs)[n - 1][jobs[n].to] + jobs[n].amount > max
        THEN "error" ELSE v

LEMMA StepVerdictType ==
    \A rows, bal, jobs, max, n : StepVerdict(rows, bal, jobs, max, n) \in Verdicts
BY DEF StepVerdict, Verdict, Verdicts

\* A batch succeeds if all its transfers do, and otherwise fails with what the
\* first transfer to fail is told.
LEMMA BatchVerdictSteps ==
    ASSUME NEW rows, NEW bal, NEW jobs, NEW max, Len(jobs) \in Nat
    PROVE  LET result == BatchVerdict(rows, bal, jobs, max)
               Step(n) == StepVerdict(rows, bal, jobs, max, n)
           IN  /\ result \in Verdicts
               /\ result = "ok" => \A n \in 1 .. Len(jobs) : Step(n) = "ok"
               /\ result # "ok" => \E n \in 1 .. Len(jobs) :
                    Step(n) = result /\ \A m \in 1 .. n - 1 : Step(m) = "ok"
<1> DEFINE N == Len(jobs)
           Step(n) == StepVerdict(rows, bal, jobs, max, n)
           Next1(v, n) == IF v # "ok" THEN v ELSE Step(n)
           G == [p \in Verdicts \X (1 .. N) |-> Next1(p[1], p[2])]
           Fits(f) == f = [n \in 0 .. N |-> IF n = 0 THEN "ok" ELSE Next1(f[n - 1], n)]
           verdict == CHOOSE f : Fits(f)
<1>1. G \in [Verdicts \X (1 .. N) -> Verdicts]
  BY StepVerdictType
<1>2. PICK f : Unfolds(f, N, Verdicts, "ok", G)
  <2>1. N \in Nat /\ "ok" \in Verdicts
    BY DEF Verdicts
  <2>. HIDE DEF G, N
  <2>. QED  BY <1>1, <2>1, Recursion
<1>3. Fits(f)
  <2>1. ASSUME NEW n \in 0 .. N, n # 0 PROVE f[n] = Next1(f[n - 1], n)
    <3>1. n \in 1 .. N /\ n - 1 \in 0 .. N
      BY <2>1
    <3>2. f[n - 1] \in Verdicts
      BY <1>2, <3>1 DEF Unfolds
    <3>. HIDE DEF Next1
    <3>. QED  BY <1>2, <3>1, <3>2 DEF Unfolds
  <2>. HIDE DEF Next1
  <2>. QED  BY <1>2, <2>1 DEF Unfolds
<1>4. Fits(verdict)
  <2>. HIDE DEF Fits
  <2>. QED  BY <1>3
<1>5. verdict[0] = "ok" /\ \A n \in 1 .. N : verdict[n] = Next1(verdict[n - 1], n)
  <2>. HIDE DEF verdict, Next1
  <2>. QED  BY <1>4
<1>6. \A n \in 0 .. N :
         /\ verdict[n] \in Verdicts
         /\ verdict[n] = "ok" => \A m \in 1 .. n : Step(m) = "ok"
         /\ verdict[n] # "ok" => \E k \in 1 .. n :
              Step(k) = verdict[n] /\ \A m \in 1 .. k - 1 : Step(m) = "ok"
  <2> DEFINE Holds(n) ==
               /\ verdict[n] \in Verdicts
               /\ verdict[n] = "ok" => \A m \in 1 .. n : Step(m) = "ok"
               /\ verdict[n] # "ok" => \E k \in 1 .. n :
                    Step(k) = verdict[n] /\ \A m \in 1 .. k - 1 : Step(m) = "ok"
             S == {n \in 0 .. N : Holds(n)}
  <2>. HIDE DEF verdict, Step
  <2>1. 0 \in S
    BY <1>5 DEF Verdicts
  <2>2. ASSUME NEW n \in 0 .. N - 1, n \in S PROVE n + 1 \in S
    <3>1. n + 1 \in 1 .. N /\ n + 1 \in 0 .. N /\ (n + 1) - 1 = n
      BY <2>2
    <3>2. verdict[n + 1] = Next1(verdict[n], n + 1)
      BY <1>5, <3>1
    <3>3. Step(n + 1) \in Verdicts
      BY StepVerdictType DEF Step
    <3>4. CASE verdict[n] # "ok"
      BY <2>2, <3>1, <3>2, <3>4
    <3>5. CASE verdict[n] = "ok"
      <4>1. verdict[n + 1] = Step(n + 1)
        BY <3>2, <3>5
      <4>2. \A m \in 1 .. n : Step(m) = "ok"
        BY <2>2, <3>5
      <4>. QED  BY <3>1, <3>3, <4>1, <4>2
    <3>. QED  BY <3>4, <3>5
  <2>3. 0 .. N \subseteq S
    <3>1. N \in Nat
      OBVIOUS
    <3>. HIDE DEF S, N
    <3>. QED  BY <2>1, <2>2, <3>1, Induction
  <2>. QED  BY <2>3
<1>7. verdict[N] = BatchVerdict(rows, bal, jobs, max)
  BY DEF BatchVerdict, StepVerdict
<1>. HIDE DEF verdict, Step
<1>. QED  BY <1>6, <1>7 DEF Step

\* A batch all of whose transfers pass leaves every balance within its range.
LEMMA TrailInRange ==
    ASSUME NEW W, NEW max \in Nat, NEW bal \in [W -> 0 .. max], NEW jobs,
           Len(jobs) \in Nat, \A n \in 1 .. Len(jobs) : jobs[n].amount \in Int,
           \A n \in 1 .. Len(jobs) : StepVerdict(W, bal, jobs, max, n) = "ok"
    PROVE  \A n \in 0 .. Len(jobs) : Trail(bal, jobs)[n] \in [W -> 0 .. max]
<1> DEFINE N == Len(jobs)
           after == Trail(bal, jobs)
           S == {n \in 0 .. N : after[n] \in [W -> 0 .. max]}
<1>1. /\ after[0] = bal
      /\ \A n \in 1 .. N : after[n] = Move(after[n - 1], jobs[n])
  BY TrailSteps
<1>2. 0 \in S
  BY <1>1
<1>3. ASSUME NEW n \in 0 .. N - 1, n \in S PROVE n + 1 \in S
  <2> DEFINE b == after[n]
             j == jobs[n + 1]
  <2>1. n + 1 \in 1 .. N /\ n + 1 \in 0 .. N /\ (n + 1) - 1 = n
    BY <1>3
  <2>2. b \in [W -> 0 .. max] /\ b \in [W -> Int] /\ j.amount \in Int
    BY <1>3, <2>1
  <2>3. after[n + 1] = Move(b, j)
    BY <1>1, <2>1
  <2>4. Verdict(W, b, j) = "ok" /\ b[j.to] + j.amount <= max
    <3>1. StepVerdict(W, bal, jobs, max, n + 1) = "ok"
      BY <2>1
    <3>2. Verdict(W, b, j) = "ok" /\ ~(b[j.to] + j.amount > max)
      BY <2>1, <3>1 DEF StepVerdict
    <3>3. j.to \in W
      BY <3>2 DEF Verdict
    <3>. HIDE DEF b, j
    <3>. QED  BY <2>2, <3>2, <3>3
  <2>5. /\ j.from # j.to /\ j.from \in W /\ j.to \in W
        /\ j.amount > 0 /\ b[j.from] >= j.amount
    <3>. HIDE DEF b, j
    <3>1. j.from # j.to /\ j.from \in W /\ j.to \in W /\ ~(j.amount <= 0) /\ ~(b[j.from] < j.amount)
      BY <2>4 DEF Verdict
    <3>. QED  BY <2>2, <3>1
  <2>6. Move(b, j) \in [W -> 0 .. max]
    <3>. HIDE DEF b, j
    <3>1. ASSUME NEW w \in W PROVE Move(b, j)[w] \in 0 .. max
      <4>1. b[w] \in 0 .. max /\ b[j.from] \in 0 .. max /\ b[j.to] \in 0 .. max
        BY <2>2, <2>5
      <4>2. /\ Move(b, j)[j.from] = b[j.from] - j.amount
            /\ Move(b, j)[j.to] = b[j.to] + j.amount
            /\ w \notin {j.from, j.to} => Move(b, j)[w] = b[w]
        BY <2>2, <2>5, MoveAt
      <4>. QED  BY <2>2, <2>4, <2>5, <4>1, <4>2
    <3>2. Move(b, j) \in [W -> Int]
      BY <2>2, MoveType
    <3>. QED  BY <3>1, <3>2
  <2>. QED  BY <2>1, <2>3, <2>6
<1>4. 0 .. N \subseteq S
  <2>1. N \in Nat
    OBVIOUS
  <2>. HIDE DEF S, N
  <2>. QED  BY <1>2, <1>3, <2>1, Induction
<1>. QED  BY <1>4

-----------------------------------------------------------------------------
(* Sums over lists of numbers and over the entries of transactions *)

\* RunningSum is what its definition says: each sum follows from the one before.
LEMMA RunningSumSteps ==
    ASSUME NEW v \in Seq(Int)
    PROVE  /\ RunningSum(v) \in [0 .. Len(v) -> Int]
           /\ RunningSum(v)[0] = 0
           /\ \A n \in 1 .. Len(v) : RunningSum(v)[n] = RunningSum(v)[n - 1] + v[n]
<1> DEFINE N == Len(v)
           G == [p \in Int \X (1 .. N) |-> p[1] + v[p[2]]]
           Fits(f) == f = [n \in 0 .. N |-> IF n = 0 THEN 0 ELSE f[n - 1] + v[n]]
           sum == CHOOSE f : Fits(f)
<1>1. G \in [Int \X (1 .. N) -> Int]
  OBVIOUS
<1>2. PICK f \in [0 .. N -> Int] :
         f[0] = 0 /\ \A n \in 1 .. N : f[n] = G[<<f[n - 1], n>>]
  <2>1. N \in Nat /\ 0 \in Int
    OBVIOUS
  <2>. HIDE DEF G, N
  <2>2. \E f : Unfolds(f, N, Int, 0, G)
    BY <1>1, <2>1, Recursion
  <2>. QED  BY <2>2 DEF Unfolds
<1>3. \A n \in 1 .. N : f[n] = f[n - 1] + v[n]
  <2>1. ASSUME NEW n \in 1 .. N PROVE f[n] = f[n - 1] + v[n]
    <3>1. n - 1 \in 0 .. N
      OBVIOUS
    <3>2. f[n - 1] \in Int
      <4>. HIDE DEF N
      <4>. QED  BY <3>1
    <3>. QED  BY <1>2, <3>2
  <2>. QED  BY <2>1
<1>4. Fits(f)
  BY <1>2, <1>3
<1>5. Fits(sum)
  <2>. HIDE DEF Fits
  <2>. QED  BY <1>4
<1>6. /\ sum[0] = 0
      /\ \A n \in 1 .. N : sum[n] = sum[n - 1] + v[n]
      /\ sum = [n \in 0 .. N |-> sum[n]]
  <2>. HIDE DEF sum
  <2>1. DOMAIN sum = 0 .. N
    BY <1>5
  <2>2. sum[0] = 0
    BY <1>5
  <2>4. ASSUME NEW n \in 1 .. N PROVE sum[n] = sum[n - 1] + v[n]
    <3>1. n \in 0 .. N /\ n # 0
      OBVIOUS
    <3>2. \A k \in 0 .. N : sum[k] = IF k = 0 THEN 0 ELSE sum[k - 1] + v[k]
      <4>. HIDE DEF N
      <4>. QED  BY <1>5
    <3>. HIDE DEF Fits, N
    <3>. QED  BY <3>1, <3>2
  <2>. HIDE DEF Fits
  <2>3. sum = [n \in 0 .. N |-> sum[n]]
    BY <1>5, <2>1 DEF Fits
  <2>. QED  BY <2>2, <2>3, <2>4
<1>7. \A n \in 0 .. N : sum[n] \in Int
  <2> DEFINE S == {n \in 0 .. N : sum[n] \in Int}
  <2>. HIDE DEF sum
  <2>1. 0 \in S
    BY <1>6
  <2>2. ASSUME NEW n \in 0 .. N - 1, n \in S PROVE n + 1 \in S
    <3>1. n + 1 \in 1 .. N /\ n + 1 \in 0 .. N /\ (n + 1) - 1 = n
      BY <2>2
    <3>2. v[n + 1] \in Int /\ sum[n] \in Int
      BY <2>2, <3>1
    <3>3. sum[n + 1] = sum[n] + v[n + 1]
      BY <1>6, <3>1
    <3>. QED  BY <3>1, <3>2, <3>3
  <2>4. N \in Nat
    OBVIOUS
  <2>3. 0 .. N \subseteq S
    <3>. HIDE DEF S, N, Fits
    <3>. QED  BY <2>1, <2>2, <2>4, Induction
  <2>. QED  BY <2>3
<1>8. sum = RunningSum(v)
  BY DEF RunningSum
<1>. HIDE DEF sum
<1>. QED  BY <1>6, <1>7, <1>8

LEMMA SumType ==
    ASSUME NEW v \in Seq(Int)
    PROVE  SumOf(v) \in Int
BY RunningSumSteps DEF SumOf

\* The sum of a list is the sum of its two parts.
LEMMA SumParts ==
    ASSUME NEW u \in Seq(Int), NEW v \in Seq(Int), NEW w \in Seq(Int),
           Len(w) = Len(u) + Len(v),
           \A i \in 1 .. Len(u) : w[i] = u[i],
           \A i \in 1 .. Len(v) : w[Len(u) + i] = v[i]
    PROVE  SumOf(w) = SumOf(u) + SumOf(v)
<1> DEFINE m == Len(u)
           n == Len(v)
           R(x) == RunningSum(x)
           S == {i \in 0 .. m : R(w)[i] = R(u)[i]}
           T == {i \in 0 .. n : R(w)[m + i] = R(u)[m] + R(v)[i]}
<1>1. m \in Nat /\ n \in Nat /\ Len(w) = m + n
  OBVIOUS
<1>2. /\ R(u) \in [0 .. m -> Int] /\ R(u)[0] = 0
      /\ \A i \in 1 .. m : R(u)[i] = R(u)[i - 1] + u[i]
  BY RunningSumSteps
<1>3. /\ R(v) \in [0 .. n -> Int] /\ R(v)[0] = 0
      /\ \A i \in 1 .. n : R(v)[i] = R(v)[i - 1] + v[i]
  BY RunningSumSteps
<1>4. /\ R(w) \in [0 .. m + n -> Int] /\ R(w)[0] = 0
      /\ \A i \in 1 .. m + n : R(w)[i] = R(w)[i - 1] + w[i]
  BY <1>1, RunningSumSteps
<1>. HIDE DEF R
<1>5. 0 .. m \subseteq S
  <2>1. 0 \in S
    BY <1>1, <1>2, <1>4
  <2>2. ASSUME NEW i \in 0 .. m - 1, i \in S PROVE i + 1 \in S
    <3>1. i + 1 \in 1 .. m /\ i + 1 \in 1 .. m + n /\ (i + 1) - 1 = i
      BY <1>1
    <3>2. R(w)[i + 1] = R(w)[i] + w[i + 1] /\ R(u)[i + 1] = R(u)[i] + u[i + 1]
      BY <1>2, <1>4, <3>1
    <3>3. w[i + 1] = u[i + 1]
      BY <3>1
    <3>. QED  BY <2>2, <3>1, <3>2, <3>3
  <2>. HIDE DEF S, m
  <2>. QED  BY <1>1, <2>1, <2>2, Induction
<1>6. R(w)[m] = R(u)[m]
  <2>1. m \in S
    <3>. HIDE DEF S, m
    <3>. QED  BY <1>1, <1>5
  <2>. QED  BY <2>1
<1>7. 0 .. n \subseteq T
  <2>0. R(u)[m] \in Int
    BY <1>1, <1>2
  <2>1. 0 \in T
    BY <1>1, <1>3, <1>6, <2>0
  <2>2. ASSUME NEW i \in 0 .. n - 1, i \in T PROVE i + 1 \in T
    <3>1. /\ i + 1 \in 1 .. n /\ m + (i + 1) \in 1 .. m + n
          /\ (i + 1) - 1 = i /\ (m + (i + 1)) - 1 = m + i /\ i \in 0 .. n
      BY <1>1
    <3>2. /\ R(w)[m + (i + 1)] = R(w)[m + i] + w[m + (i + 1)]
          /\ R(v)[i + 1] = R(v)[i] + v[i + 1]
      BY <1>3, <1>4, <3>1
    <3>3. w[m + (i + 1)] = v[i + 1]
      BY <3>1
    <3>6. v[i + 1] \in Int
      BY <3>1
    <3>7. R(v)[i] \in Int
      BY <1>3, <3>1
    <3>4. R(w)[m + i] = R(u)[m] + R(v)[i]
      BY <2>2
    <3>5. R(w)[m + (i + 1)] = R(u)[m] + R(v)[i + 1]
      <4>1. PICK a \in Int, b \in Int, c \in Int :
               a = R(u)[m] /\ b = R(v)[i] /\ c = v[i + 1]
        BY <2>0, <3>6, <3>7
      <4>2. R(w)[m + (i + 1)] = (a + b) + c /\ R(v)[i + 1] = b + c
        BY <3>2, <3>3, <3>4, <4>1
      <4>3. (a + b) + c = a + (b + c)
        OBVIOUS
      <4>. QED  BY <4>1, <4>2, <4>3
    <3>. QED  BY <3>1, <3>5
  <2>. HIDE DEF T, n
  <2>. QED  BY <1>1, <2>1, <2>2, Induction
<1>8. R(w)[m + n] = R(u)[m] + R(v)[n]
  <2>1. n \in T
    <3>. HIDE DEF T, n
    <3>. QED  BY <1>1, <1>7
  <2>. QED  BY <2>1
<1>. QED  BY <1>1, <1>8 DEF SumOf, R

\* A list with at most one number that is not zero.
LEMMA SumAlone ==
    ASSUME NEW v \in Seq(Int), NEW k, \A i \in 1 .. Len(v) : i # k => v[i] = 0
    PROVE  SumOf(v) = IF k \in 1 .. Len(v) THEN v[k] ELSE 0
<1> DEFINE N == Len(v)
           R == RunningSum(v)
           S == {n \in 0 .. N : R[n] = IF k \in 1 .. n THEN v[k] ELSE 0}
<1>1. N \in Nat
  OBVIOUS
<1>2. /\ R \in [0 .. N -> Int] /\ R[0] = 0
      /\ \A n \in 1 .. N : R[n] = R[n - 1] + v[n]
  BY RunningSumSteps
<1>. HIDE DEF R
<1>3. 0 \in S
  BY <1>1, <1>2
<1>4. ASSUME NEW n \in 0 .. N - 1, n \in S PROVE n + 1 \in S
  <2>1. /\ n + 1 \in 1 .. N /\ (n + 1) - 1 = n
        /\ R[n] = IF k \in 1 .. n THEN v[k] ELSE 0
    BY <1>1, <1>4
  <2>2. R[n + 1] = R[n] + v[n + 1] /\ v[n + 1] \in Int
    BY <1>2, <2>1
  <2>3. CASE k = n + 1
    BY <2>1, <2>2, <2>3
  <2>4. CASE k # n + 1
    <3>1. v[n + 1] = 0
      BY <2>1, <2>4
    <3>2. R[n + 1] = R[n]
      BY <1>2, <2>1, <2>2, <3>1
    <3>3. k \in 1 .. n + 1 <=> k \in 1 .. n
      BY <2>1, <2>4
    <3>. QED  BY <2>1, <3>2, <3>3
  <2>. QED  BY <2>3, <2>4
<1>5. N \in S
  <2>1. 0 .. N \subseteq S
    <3>. HIDE DEF S, N
    <3>. QED  BY <1>1, <1>3, <1>4, Induction
  <2>. QED  BY <1>1, <2>1
<1>. QED  BY <1>5 DEF SumOf, R

\* Adding d somewhere, and something elsewhere, makes a sum larger by d at least.
LEMMA SumMore ==
    ASSUME NEW u \in Seq(Int), NEW v \in Seq(Int), Len(u) = Len(v),
           \A i \in 1 .. Len(u) : u[i] <= v[i],
           NEW k \in 1 .. Len(u), NEW d \in Nat, u[k] + d <= v[k]
    PROVE  SumOf(u) + d <= SumOf(v)
<1> DEFINE N == Len(u)
           R(x) == RunningSum(x)
           S == {n \in 0 .. N : R(u)[n] + (IF k <= n THEN d ELSE 0) <= R(v)[n]}
<1>1. N \in Nat /\ k \in 1 .. N
  OBVIOUS
<1>2. /\ R(u) \in [0 .. N -> Int] /\ R(u)[0] = 0
      /\ \A n \in 1 .. N : R(u)[n] = R(u)[n - 1] + u[n]
  BY RunningSumSteps
<1>3. /\ R(v) \in [0 .. N -> Int] /\ R(v)[0] = 0
      /\ \A n \in 1 .. N : R(v)[n] = R(v)[n - 1] + v[n]
  BY RunningSumSteps
<1>4. \A n \in 1 .. N : u[n] \in Int /\ v[n] \in Int
  OBVIOUS
<1>. HIDE DEF R
<1>5. 0 \in S
  BY <1>1, <1>2, <1>3
<1>6. ASSUME NEW n \in 0 .. N - 1, n \in S PROVE n + 1 \in S
  <2>1. /\ n \in 0 .. N /\ n + 1 \in 1 .. N /\ (n + 1) - 1 = n
        /\ n + 1 \in 0 .. N /\ k <= n => k <= n + 1
    BY <1>1
  <2>2. PICK a \in Int, b \in Int : a = R(u)[n] /\ b = R(v)[n]
    BY <1>2, <1>3, <2>1
  <2>3. PICK c \in Int, e \in Int : c = u[n + 1] /\ e = v[n + 1]
    BY <1>4, <2>1
  <2>4. R(u)[n + 1] = a + c /\ R(v)[n + 1] = b + e
    BY <1>2, <1>3, <2>1, <2>2, <2>3
  <2>5. c <= e /\ (k = n + 1 => c + d <= e)
    BY <1>1, <2>1, <2>3
  <2>6. a + (IF k <= n THEN d ELSE 0) <= b
    BY <1>6, <2>2
  <2>7. a + c + (IF k <= n + 1 THEN d ELSE 0) <= b + e
    <3>1. CASE k <= n
      BY <1>1, <2>1, <2>5, <2>6, <3>1
    <3>2. CASE k = n + 1
      BY <1>1, <2>1, <2>5, <2>6, <3>2
    <3>3. CASE k > n + 1
      BY <1>1, <2>1, <2>5, <2>6, <3>3
    <3>. QED  BY <1>1, <2>1, <3>1, <3>2, <3>3
  <2>. QED  BY <2>1, <2>4, <2>7
<1>7. N \in S
  <2>1. N \in 0 .. N
    BY <1>1
  <2>. HIDE DEF S, N
  <2>. QED  BY <1>1, <1>5, <1>6, <2>1, Induction
<1>. QED  BY <1>1, <1>7 DEF R, SumOf

\* A function on 1 .. n is a list of length n.
LEMMA ListOf ==
    ASSUME NEW n \in Nat, NEW v \in [1 .. n -> Int]
    PROVE  v \in Seq(Int) /\ Len(v) = n
OBVIOUS

LEMMA SumOfOne ==
    ASSUME NEW a \in Int
    PROVE  SumOf(<<a>>) = a
<1>1. <<a>> \in Seq(Int) /\ Len(<<a>>) = 1 /\ <<a>>[1] = a
  OBVIOUS
<1>6. PICK k \in Int : k = 1
  OBVIOUS
<1>2. PICK v \in Seq(Int) : v = <<a>>
  BY <1>1
<1>3. Len(v) = 1 /\ v[1] = a
  BY <1>1, <1>2
<1>4. \A i \in 1 .. Len(v) : i # k => v[i] = 0
  BY <1>6, <1>3
<1>5. SumOf(v) = IF k \in 1 .. Len(v) THEN v[k] ELSE 0
  BY <1>4, SumAlone
<1>. QED  BY <1>2, <1>3, <1>5, <1>6

LEMMA SumOfTwo ==
    ASSUME NEW a \in Int, NEW b \in Int
    PROVE  SumOf(<<a, b>>) = a + b
<1>1. /\ <<a>> \in Seq(Int) /\ Len(<<a>>) = 1 /\ <<a>>[1] = a
      /\ <<b>> \in Seq(Int) /\ Len(<<b>>) = 1 /\ <<b>>[1] = b
  OBVIOUS
<1>2. <<a, b>> \in Seq(Int) /\ Len(<<a, b>>) = 2 /\ <<a, b>>[1] = a /\ <<a, b>>[2] = b
  OBVIOUS
<1>3. PICK u \in Seq(Int), v \in Seq(Int), w \in Seq(Int) :
         u = <<a>> /\ v = <<b>> /\ w = <<a, b>>
  BY <1>1, <1>2
<1>6. /\ Len(u) = 1 /\ Len(v) = 1 /\ Len(w) = 2
      /\ u[1] = a /\ v[1] = b /\ w[1] = a /\ w[2] = b
  BY <1>1, <1>2, <1>3
<1>4. /\ Len(w) = Len(u) + Len(v)
      /\ \A i \in 1 .. Len(u) : w[i] = u[i]
      /\ \A i \in 1 .. Len(v) : w[Len(u) + i] = v[i]
  BY <1>6
<1>5. SumOf(w) = SumOf(u) + SumOf(v)
  BY <1>4, SumParts
<1>. QED  BY <1>3, <1>5, SumOfOne

\* The amount a transaction of one entry, and of two, posts to a wallet.
LEMMA TxnSumOfOne ==
    ASSUME NEW t, NEW e, t.entries = <<e>>, e.amount \in Int, NEW w
    PROVE  TxnSum(t, w) = EntryAmount(e, w)
<1>1. EntryAmount(e, w) \in Int
  BY DEF EntryAmount
<1>2. [i \in 1 .. Len(t.entries) |-> EntryAmount(t.entries[i], w)] = <<EntryAmount(e, w)>>
  OBVIOUS
<1>. QED  BY <1>1, <1>2, SumOfOne DEF TxnSum

LEMMA TxnSumOfTwo ==
    ASSUME NEW t, NEW d, NEW e, t.entries = <<d, e>>, d.amount \in Int, e.amount \in Int,
           NEW w
    PROVE  TxnSum(t, w) = EntryAmount(d, w) + EntryAmount(e, w)
<1>1. EntryAmount(d, w) \in Int /\ EntryAmount(e, w) \in Int
  BY DEF EntryAmount
<1>2. [i \in 1 .. Len(t.entries) |-> EntryAmount(t.entries[i], w)]
        = <<EntryAmount(d, w), EntryAmount(e, w)>>
  OBVIOUS
<1>. QED  BY <1>1, <1>2, SumOfTwo DEF TxnSum

LEMMA TxnSumType ==
    ASSUME NEW t, NEW E, t.entries \in Seq(E), \A e \in E : e.amount \in Int, NEW w
    PROVE  TxnSum(t, w) \in Int
<1> DEFINE v == [i \in 1 .. Len(t.entries) |-> EntryAmount(t.entries[i], w)]
<1>1. Len(t.entries) \in Nat
  OBVIOUS
<1>2. \A i \in 1 .. Len(t.entries) : EntryAmount(t.entries[i], w) \in Int
  BY DEF EntryAmount
<1>3. v \in [1 .. Len(t.entries) -> Int]
  BY <1>2
<1>4. v \in Seq(Int)
  BY <1>1, <1>3, ListOf
<1>. QED  BY <1>4, SumType DEF TxnSum

\* The entries of a list of transactions add up transaction by transaction.
LEMMA EntrySumType ==
    ASSUME NEW T, NEW w, \A t \in T : TxnSum(t, w) \in Int, NEW a \in Seq(T)
    PROVE  EntrySum(a, w) \in Int
<1> DEFINE v == [i \in 1 .. Len(a) |-> TxnSum(a[i], w)]
<1>1. v \in [1 .. Len(a) -> Int] /\ Len(a) \in Nat
  OBVIOUS
<1>2. v \in Seq(Int)
  BY <1>1, ListOf
<1>. QED  BY <1>2, SumType DEF EntrySum

LEMMA EntrySumOfNone ==
    ASSUME NEW w
    PROVE  EntrySum(<<>>, w) = 0
<1> DEFINE a == << >>
           v == [i \in 1 .. Len(a) |-> TxnSum(a[i], w)]
<1>1. Len(a) = 0
  OBVIOUS
<1>2. v \in [1 .. 0 -> Int]
  BY <1>1
<1>3. v \in Seq(Int) /\ Len(v) = 0
  BY <1>2, ListOf
<1>. HIDE DEF v
<1>4. PICK u \in Seq(Int) : u = v
  BY <1>3
<1>5. PICK k \in Int : k = 0
  OBVIOUS
<1>6. \A i \in 1 .. Len(u) : i # k => u[i] = 0
  BY <1>3, <1>4
<1>7. SumOf(u) = IF k \in 1 .. Len(u) THEN u[k] ELSE 0
  BY <1>6, SumAlone
<1>. QED  BY <1>3, <1>4, <1>5, <1>7 DEF EntrySum, v

LEMMA EntrySumParts ==
    ASSUME NEW T, NEW w, \A t \in T : TxnSum(t, w) \in Int,
           NEW a \in Seq(T), NEW b \in Seq(T)
    PROVE  EntrySum(a \o b, w) = EntrySum(a, w) + EntrySum(b, w)
<1> DEFINE V(x) == [i \in 1 .. Len(x) |-> TxnSum(x[i], w)]
<1>1. ASSUME NEW x \in Seq(T)
      PROVE  /\ V(x) \in Seq(Int) /\ Len(V(x)) = Len(x)
             /\ \A i \in 1 .. Len(x) : V(x)[i] = TxnSum(x[i], w)
  <2>1. V(x) \in [1 .. Len(x) -> Int] /\ Len(x) \in Nat
    OBVIOUS
  <2>2. V(x) \in Seq(Int) /\ Len(V(x)) = Len(x)
    BY <2>1, ListOf
  <2>. QED  BY <2>2
<1>2. PICK c \in Seq(T) : c = a \o b
  <2>1. a \o b \in Seq(T)
    OBVIOUS
  <2>. QED  BY <2>1
<1>3. /\ Len(c) = Len(a) + Len(b) /\ Len(a) \in Nat /\ Len(b) \in Nat
      /\ \A i \in 1 .. Len(a) : c[i] = a[i]
      /\ \A i \in 1 .. Len(b) : c[Len(a) + i] = b[i]
  BY <1>2
<1>. HIDE DEF V
<1>4. \A i \in 1 .. Len(a) : V(c)[i] = V(a)[i]
  <2>1. \A i \in 1 .. Len(a) : i \in 1 .. Len(c)
    BY <1>3
  <2>. QED  BY <1>1, <1>3, <2>1
<1>5. \A i \in 1 .. Len(b) : V(c)[Len(a) + i] = V(b)[i]
  <2>1. \A i \in 1 .. Len(b) : Len(a) + i \in 1 .. Len(c)
    BY <1>3
  <2>. QED  BY <1>1, <1>3, <2>1
<1>6. PICK p \in Seq(Int), q \in Seq(Int), r \in Seq(Int) :
         p = V(a) /\ q = V(b) /\ r = V(c)
  BY <1>1
<1>7. /\ Len(r) = Len(p) + Len(q)
      /\ \A i \in 1 .. Len(p) : r[i] = p[i]
      /\ \A i \in 1 .. Len(q) : r[Len(p) + i] = q[i]
  BY <1>1, <1>3, <1>4, <1>5, <1>6
<1>8. SumOf(r) = SumOf(p) + SumOf(q)
  BY <1>7, SumParts
<1>. QED  BY <1>2, <1>6, <1>8 DEF EntrySum, V

LEMMA EntrySumOfOne ==
    ASSUME NEW t, NEW w, TxnSum(t, w) \in Int
    PROVE  EntrySum(<<t>>, w) = TxnSum(t, w)
<1>1. [i \in 1 .. Len(<<t>>) |-> TxnSum(<<t>>[i], w)] = <<TxnSum(t, w)>>
  OBVIOUS
<1>. QED  BY <1>1, SumOfOne DEF EntrySum

LEMMA EntrySumAppend ==
    ASSUME NEW T, NEW w, \A t \in T : TxnSum(t, w) \in Int,
           NEW a \in Seq(T), NEW t \in T
    PROVE  EntrySum(Append(a, t), w) = EntrySum(a, w) + TxnSum(t, w)
<1>1. Append(a, t) = a \o <<t>> /\ <<t>> \in Seq(T)
  OBVIOUS
<1>. QED  BY <1>1, EntrySumParts, EntrySumOfOne
=============================================================================
