--------------------------- MODULE Transact_proofs ---------------------------
(***************************************************************************)
(* Proofs about the Transact page, checked by TLAPS, for any wallets,      *)
(* amounts, number of keys, sends and attempts: a movement whose answer    *)
(* was lost can be claimed with its key, the balances shown after an       *)
(* answer include the movement, no ledger pays out what it does not have,  *)
(* and amounts survive being shown and typed again.                        *)
(***************************************************************************)
EXTENDS Transact, SequenceTheorems, FiniteSetTheorems, TLAPS

P == INSTANCE Postings_proofs

-----------------------------------------------------------------------------
(* Types *)

AllKinds == {"deposit", "withdrawal", "transfer"}
Versions == [Sources -> Nat]
AnswerSet == [source : Sources \cup {"none"}, version : Nat]
Entries == {p \in [kind : AllKinds \cup {"wallet"}, key : Nat, from : Nat, to : Nat, amount : Nat] :
              p.kind = "wallet" => p.to # NULL /\ p.key = NULL /\ p.amount = 0 /\ p.from = NULL}
Forms == [kind : AllKinds, from : Nat, to : Nat, target : Nat]
Bodies == [kind : AllKinds, from : Nat, to : Nat, amount : Nat \ {0}]
ReplySet == [status : Nat, replayed : BOOLEAN]
Sends == [key : Nat, body : Bodies, pinned : BOOLEAN, mounted : BOOLEAN,
          landed : ReplySet, answer : ReplySet, since : Versions]
PastVersions == {v \in Versions : \A s \in Sources : v[s] <= Len(book[s])}

\* The store: what was asked for and what is shown are versions the ledgers have.
StoreTypes ==
    /\ book \in [Sources -> Seq(Entries)]
    /\ refreshes \in Seq(PastVersions)
    /\ wallets \in AnswerSet
    /\ wallets.source # "none" => wallets.version <= Len(book[wallets.source])
    /\ selectedId \in Nat /\ revision \in Nat

PageTypes ==
    /\ form \in Forms
    /\ key \in Nat /\ drawn = key
    /\ pinned \in BOOLEAN /\ busy \in BOOLEAN
    /\ attempts \in Seq(Nat) /\ Len(attempts) <= AttemptsKept

SendTypes == /\ sends \subseteq Sends
             /\ \A f \in sends : f.since \in PastVersions

Types == StoreTypes /\ PageTypes /\ SendTypes

\* No transfer of a wallet to itself.
FormOK == form.from = form.to => form.from = NULL

\* The form is busy with the one send of the page.
BusyOK ==
    /\ \A f \in sends : f.mounted => busy
    /\ \A f, g \in sends : f.mounted /\ g.mounted => f = g

\* A key that a ledger or a send knows.
Used(k) == \/ \E n \in 1 .. Len(book["live"]) : book["live"][n].key = k
           \/ \E f \in sends : f.key = k
KeyInUse == Used(key)

\* Every key used is the current one or one the user is done with; and as long as
\* the page has to do with another key than the current one, that one is not used.
KeysOK ==
    /\ key # NULL
    /\ \A f \in sends : f.key <= key /\ f.key \in settled \cup {key}
    /\ \A n \in 1 .. Len(book["live"]) :
          book["live"][n].key <= key /\ book["live"][n].key \in {NULL, key} \cup settled
    /\ \A f \in sends : f.mounted /\ f.key # key => ~KeyInUse
    /\ attempts # <<>> =>
          /\ attempts[1] <= key /\ attempts[1] \in settled \cup {key}
          /\ ~busy /\ attempts[1] # key => ~KeyInUse

\* A reply of 201 is about a movement the ledger has, since before the reads.
Has(s, n, f) == \E i \in 1 .. n : book[s][i] = Posting(f)

AnswersOK ==
    \A f \in sends :
        /\ f.landed.status = 201 => Has("live", Len(book["live"]), f)
        /\ f.answer.status = 201 => \E s \in Sources : Has(s, f.since[s], f)

\* No wallet ever had less than nothing.
MoneyOK ==
    \A s \in Sources : \A w \in Nat \ {NULL} : \A n \in 0 .. Len(book[s]) :
        BalanceAt(book[s], w)[n] \in Nat

TransactInv == Types /\ FormOK /\ BusyOK /\ KeysOK /\ AnswersOK /\ MoneyOK

-----------------------------------------------------------------------------
(* Balances *)

LEMMA BalanceSteps ==
    ASSUME NEW b \in Seq(Entries), NEW w
    PROVE  /\ BalanceAt(b, w) \in [0 .. Len(b) -> Int]
           /\ BalanceAt(b, w)[0] = 0
           /\ \A n \in 1 .. Len(b) :
                 BalanceAt(b, w)[n] = BalanceAt(b, w)[n - 1] + Signed(b[n], w)
<1> DEFINE N == Len(b)
           G == [p \in Int \X (1 .. N) |-> p[1] + Signed(b[p[2]], w)]
           Fits(f) == f = [n \in 0 .. N |-> IF n = 0 THEN 0 ELSE f[n - 1] + Signed(b[n], w)]
           sum == CHOOSE f : Fits(f)
<1>1. N \in Nat /\ \A n \in 1 .. N : Signed(b[n], w) \in Int
  <2>1. \A n \in 1 .. N : b[n] \in Entries
    BY ElementOfSeq
  <2>2. \A p \in Entries : Signed(p, w) \in Int
    BY DEF Signed, Entries
  <2>. QED  BY <2>1, <2>2, LenProperties
<1>2. G \in [Int \X (1 .. N) -> Int]
  <2>. HIDE DEF N
  <2>. QED  BY <1>1
<1>3. PICK f : P!Unfolds(f, N, Int, 0, G)
  <2>1. 0 \in Int
    OBVIOUS
  <2>. HIDE DEF G, N
  <2>. QED  BY <1>1, <1>2, <2>1, P!Recursion
<1>4. /\ f \in [0 .. N -> Int] /\ f[0] = 0
      /\ \A n \in 1 .. N : f[n] = f[n - 1] + Signed(b[n], w)
  <2>1. /\ f \in [0 .. N -> Int] /\ f[0] = 0
        /\ \A n \in 1 .. N : f[n] = G[<<f[n - 1], n>>]
    <3>. HIDE DEF G, N
    <3>. QED  BY <1>3 DEF P!Unfolds
  <2>2. ASSUME NEW n \in 1 .. N PROVE G[<<f[n - 1], n>>] = f[n - 1] + Signed(b[n], w)
    <3>1. n - 1 \in 0 .. N
      BY <1>1
    <3>2. f[n - 1] \in Int
      <4>. HIDE DEF N
      <4>. QED  BY <2>1, <3>1
    <3>. HIDE DEF N
    <3>. QED  BY <3>2
  <2>. HIDE DEF G, N
  <2>. QED  BY <2>1, <2>2
<1>5. Fits(f)
  <2>1. \A n \in 0 .. N : f[n] = IF n = 0 THEN 0 ELSE f[n - 1] + Signed(b[n], w)
    <3>1. \A n \in 0 .. N : n = 0 \/ n \in 1 .. N
      OBVIOUS
    <3>. HIDE DEF N
    <3>. QED  BY <1>4, <3>1
  <2>. HIDE DEF N
  <2>. QED  BY <1>4, <2>1
<1>6. Fits(sum)
  <2>. HIDE DEF Fits
  <2>. QED  BY <1>5
<1>7. BalanceAt(b, w) = sum
  BY DEF BalanceAt
<1>8. \A n \in 0 .. N : sum[n] = IF n = 0 THEN 0 ELSE sum[n - 1] + Signed(b[n], w)
  <2>. HIDE DEF sum, N
  <2>. QED  BY <1>6
<1>9. 0 .. N \subseteq {n \in 0 .. N : sum[n] \in Int}
  <2> DEFINE S == {n \in 0 .. N : sum[n] \in Int}
  <2>. HIDE DEF sum
  <2>1. 0 \in S
    BY <1>1, <1>8
  <2>2. ASSUME NEW n \in 0 .. N - 1, n \in S PROVE n + 1 \in S
    <3>1. n + 1 \in 1 .. N /\ n + 1 - 1 = n
      BY <1>1
    <3>. QED  BY <1>1, <1>8, <2>2, <3>1
  <2>. HIDE DEF S, N
  <2>3. 0 .. N \subseteq S
    BY <1>1, <2>1, <2>2, P!Induction
  <2>. QED  BY <2>3 DEF S
<1>10. sum = [n \in 0 .. N |-> sum[n]]
  <2>. HIDE DEF sum, N
  <2>. QED  BY <1>6
<1>. HIDE DEF sum
<1>11. sum \in [0 .. N -> Int]
  <2>. HIDE DEF N
  <2>. QED  BY <1>9, <1>10
<1>12. sum[0] = 0 /\ \A n \in 1 .. N : sum[n] = sum[n - 1] + Signed(b[n], w)
  BY <1>1, <1>8
<1>. QED  BY <1>7, <1>11, <1>12

\* What is posted later changes no earlier balance.
Continues(b, p, c, w) ==
    /\ \A n \in 0 .. Len(b) : BalanceAt(c, w)[n] = BalanceAt(b, w)[n]
    /\ BalanceAt(c, w)[Len(b) + 1] = BalanceAt(b, w)[Len(b)] + Signed(p, w)

LEMMA BalanceAppend ==
    ASSUME NEW b \in Seq(Entries), NEW p \in Entries, NEW w
    PROVE  Continues(b, p, Append(b, p), w)
<1>1. PICK c : c = Append(b, p)
  OBVIOUS
<1>2. /\ c \in Seq(Entries) /\ Len(c) = Len(b) + 1 /\ Len(b) \in Nat
      /\ \A n \in 1 .. Len(b) : c[n] = b[n]
      /\ c[Len(b) + 1] = p
  BY <1>1, AppendProperties, LenProperties
<1>3. PICK N \in Nat : N = Len(b)
  BY <1>2
<1>4. PICK B : B = BalanceAt(b, w)
  OBVIOUS
<1>5. PICK C : C = BalanceAt(c, w)
  OBVIOUS
<1>6. B[0] = 0 /\ \A n \in 1 .. N : B[n] = B[n - 1] + Signed(b[n], w)
  BY <1>3, <1>4, BalanceSteps
<1>7. C[0] = 0 /\ \A n \in 1 .. N + 1 : C[n] = C[n - 1] + Signed(c[n], w)
  BY <1>2, <1>3, <1>5, BalanceSteps
<1>8. 0 .. N \subseteq {n \in 0 .. N : C[n] = B[n]}
  <2> DEFINE S == {n \in 0 .. N : C[n] = B[n]}
  <2>1. 0 \in S
    BY <1>6, <1>7
  <2>2. ASSUME NEW n \in 0 .. N - 1, n \in S PROVE n + 1 \in S
    <3>1. n + 1 \in 1 .. N /\ n + 1 \in 1 .. N + 1 /\ n + 1 - 1 = n
      OBVIOUS
    <3>2. c[n + 1] = b[n + 1]
      BY <1>2, <1>3, <3>1
    <3>3. C[n + 1] = C[n] + Signed(c[n + 1], w) /\ B[n + 1] = B[n] + Signed(b[n + 1], w)
      BY <1>6, <1>7, <3>1
    <3>. QED  BY <2>2, <3>1, <3>2, <3>3
  <2>. HIDE DEF S
  <2>3. 0 .. N \subseteq S
    BY <2>1, <2>2, P!Induction
  <2>. QED  BY <2>3 DEF S
<1>9. C[N] = B[N]
  BY <1>8
<1>10. C[N + 1] = B[N] + Signed(p, w)
  <2>1. N + 1 \in 1 .. N + 1 /\ N + 1 - 1 = N
    OBVIOUS
  <2>. QED  BY <1>2, <1>3, <1>7, <1>9, <2>1
<1>. QED  BY <1>1, <1>3, <1>4, <1>5, <1>8, <1>10 DEF Continues

-----------------------------------------------------------------------------
(* Ledgers and what is posted to them *)

LEMMA LensAre ==
    ASSUME StoreTypes
    PROVE  /\ \A s \in Sources : book[s] \in Seq(Entries) /\ Len(book[s]) \in Nat
           /\ Now \in PastVersions /\ \A s \in Sources : Now[s] = Len(book[s])
BY LenProperties DEF StoreTypes, Now, PastVersions, Versions

\* Ids are positive.
LEMMA IdsArePositive ==
    ASSUME StoreTypes, NEW a, a.source \in Sources => a.version <= Len(book[a.source]),
           a.source \in Sources \cup {"none"}, a.version \in Nat
    PROVE  Ids(a) \subseteq Nat \ {NULL}
<1> SUFFICES ASSUME NEW n \in Opened(a)
             PROVE  book[a.source][n].to \in Nat \ {NULL}
  BY DEF Ids
<1>1. /\ a.source \in Sources /\ n \in 1 .. a.version /\ book[a.source][n].kind = "wallet"
  BY DEF Opened
<1>2. n \in 1 .. Len(book[a.source]) /\ book[a.source] \in Seq(Entries)
  BY <1>1, LensAre
<1>3. book[a.source][n] \in Entries
  BY <1>2, ElementOfSeq
<1>. QED  BY <1>1, <1>3 DEF Entries

LEMMA ShownIdsArePositive ==
    ASSUME StoreTypes
    PROVE  Ids(wallets) \subseteq Nat \ {NULL} /\ selected \in Nat
<1>1. /\ wallets.source \in Sources \cup {"none"} /\ wallets.version \in Nat
      /\ wallets.source \in Sources => wallets.version <= Len(book[wallets.source])
  BY DEF StoreTypes, AnswerSet, Sources
<1>. QED  BY <1>1, IdsArePositive DEF selected, StoreTypes, NULL

\* The first wallet listed that is not one of others.
LEMMA FirstIs ==
    ASSUME NEW a, NEW others
    PROVE  LET w == FirstListed(a, others)
           IN  w = NULL \/ (w \in Ids(a) /\ w \notin others)
<1> DEFINE at == {n \in Opened(a) : book[a.source][n].to \notin others}
<1>1. at \in SUBSET Nat
  BY DEF Opened
<1>2. CASE at # {}
  <2>1. \E n \in at : \A m \in at : n <= m
    <3>. HIDE DEF at
    <3>. QED  BY <1>1, <1>2, P!LeastNatural
  <2>2. FirstListed(a, others) = book[a.source][CHOOSE n \in at : \A m \in at : n <= m].to
    BY <1>2 DEF FirstListed
  <2>3. PICK k \in at : k = CHOOSE n \in at : \A m \in at : n <= m
    <3>. HIDE DEF at
    <3>. QED  BY <2>1
  <2>4. k \in Opened(a) /\ book[a.source][k].to \notin others
    OBVIOUS
  <2>. QED  BY <2>2, <2>3, <2>4 DEF Ids
<1>3. CASE at = {}
  BY <1>3 DEF FirstListed
<1>. QED  BY <1>2, <1>3

\* How the ledgers may change in a step: not at all, or by one movement that its
\* sender can pay for.
Paid(s, p) == p.from # NULL => BalanceAt(book[s], p.from)[Len(book[s])] >= p.amount
Moves(s, p) == /\ p \in Entries /\ p.kind # "wallet" /\ Paid(s, p)
               /\ book' = [book EXCEPT ![s] = Append(@, p)]
Grows == book' = book \/ \E s \in Sources, p \in Entries : Moves(s, p)

\* What is on a ledger stays there.
Kept == /\ book' \in [Sources -> Seq(Entries)]
        /\ \A s \in Sources :
              /\ Len(book[s]) \in Nat /\ Len(book'[s]) \in Nat /\ Len(book'[s]) >= Len(book[s])
              /\ \A n \in 1 .. Len(book[s]) : book'[s][n] = book[s][n]
        /\ PastVersions \subseteq PastVersions'

LEMMA MovesAre ==
    ASSUME StoreTypes, NEW s \in Sources, NEW p \in Entries, Moves(s, p)
    PROVE  /\ book'[s] = Append(book[s], p) /\ book'[s] \in Seq(Entries)
           /\ Len(book'[s]) = Len(book[s]) + 1 /\ Len(book[s]) \in Nat
           /\ \A n \in 1 .. Len(book[s]) : book'[s][n] = book[s][n]
           /\ book'[s][Len(book[s]) + 1] = p
           /\ \A t \in Sources \ {s} : book'[t] = book[t]
<1>1. PICK e \in Seq(Entries) : e = book[s]
  BY LensAre
<1>2. PICK d : d = Append(e, p)
  OBVIOUS
<1>3. book \in [Sources -> Seq(Entries)] /\ book' = [book EXCEPT ![s] = d]
  BY <1>1, <1>2 DEF Moves, StoreTypes
<1>4. book'[s] = d /\ \A t \in Sources \ {s} : book'[t] = book[t]
  BY <1>3
<1>5. d \in Seq(Entries) /\ Len(d) = Len(e) + 1 /\ Len(e) \in Nat
      /\ (\A n \in 1 .. Len(e) : d[n] = e[n]) /\ d[Len(e) + 1] = p
  BY <1>2, AppendProperties, LenProperties
<1>. QED  BY <1>1, <1>2, <1>4, <1>5

LEMMA GrowsKeeps ==
    ASSUME StoreTypes, Grows
    PROVE  Kept
<1>1. /\ book' \in [Sources -> Seq(Entries)]
      /\ \A s \in Sources :
            /\ Len(book[s]) \in Nat /\ Len(book'[s]) \in Nat /\ Len(book'[s]) >= Len(book[s])
            /\ \A n \in 1 .. Len(book[s]) : book'[s][n] = book[s][n]
  <2>1. CASE book' = book
    BY <2>1, LensAre DEF StoreTypes
  <2>2. ASSUME NEW s \in Sources, NEW p \in Entries, Moves(s, p)
        PROVE  /\ book' \in [Sources -> Seq(Entries)]
               /\ \A t \in Sources :
                     /\ Len(book[t]) \in Nat /\ Len(book'[t]) \in Nat
                     /\ Len(book'[t]) >= Len(book[t])
                     /\ \A n \in 1 .. Len(book[t]) : book'[t][n] = book[t][n]
    <3>1. \A t \in Sources :
             /\ book'[t] \in Seq(Entries)
             /\ Len(book[t]) \in Nat /\ Len(book'[t]) \in Nat /\ Len(book'[t]) >= Len(book[t])
             /\ \A n \in 1 .. Len(book[t]) : book'[t][n] = book[t][n]
      <4> SUFFICES ASSUME NEW t \in Sources
                   PROVE  /\ book'[t] \in Seq(Entries)
                          /\ Len(book[t]) \in Nat /\ Len(book'[t]) \in Nat
                          /\ Len(book'[t]) >= Len(book[t])
                          /\ \A n \in 1 .. Len(book[t]) : book'[t][n] = book[t][n]
        OBVIOUS
      <4>1. CASE t = s
        BY <2>2, <4>1, MovesAre
      <4>2. CASE t # s
        <5>1. book'[t] = book[t]
          BY <2>2, <4>2, MovesAre
        <5>. QED  BY <5>1, LensAre
      <4>. QED  BY <4>1, <4>2
    <3>2. book' = [t \in Sources |-> book'[t]]
      BY <2>2 DEF Moves, StoreTypes
    <3>. QED  BY <3>1, <3>2
  <2>. QED  BY <2>1, <2>2 DEF Grows
<1>2. PastVersions \subseteq PastVersions'
  <2> SUFFICES ASSUME NEW v \in Versions, NEW s \in Sources, v[s] <= Len(book[s])
               PROVE  v[s] <= Len(book'[s])
    BY DEF PastVersions
  <2>1. v[s] \in Nat
    BY DEF Versions
  <2>. QED  BY <1>1, <2>1
<1>. QED  BY <1>1, <1>2 DEF Kept

\* A movement leaves no balance below zero.
LEMMA MoneyKept ==
    ASSUME StoreTypes, MoneyOK, Grows
    PROVE  MoneyOK'
<1>1. CASE book' = book
  BY <1>1 DEF MoneyOK
<1>2. ASSUME NEW s \in Sources, NEW p \in Entries, Moves(s, p)
      PROVE  MoneyOK'
  <2> SUFFICES ASSUME NEW t \in Sources, NEW w \in Nat \ {NULL}, NEW n \in 0 .. Len(book'[t])
               PROVE  BalanceAt(book'[t], w)[n] \in Nat
    BY DEF MoneyOK
  <2>1. CASE t # s
    <3>1. book'[t] = book[t]
      BY <1>2, <2>1, MovesAre
    <3>. QED  BY <3>1 DEF MoneyOK
  <2>2. CASE t = s
    <3>1. PICK e \in Seq(Entries) : e = book[s]
      BY LensAre
    <3>2. book'[s] = Append(e, p) /\ Len(book'[s]) = Len(e) + 1 /\ Len(e) \in Nat
      BY <1>2, <3>1, MovesAre
    <3>3. Continues(e, p, book'[s], w)
      BY <3>2, BalanceAppend
    <3>4. \A k \in 0 .. Len(e) : BalanceAt(e, w)[k] \in Nat
      BY <3>1 DEF MoneyOK
    <3>5. PICK N \in Nat : N = Len(e)
      BY <3>2
    <3>6. CASE n \in 0 .. N
      BY <2>2, <3>3, <3>4, <3>5, <3>6 DEF Continues
    <3>7. CASE n = N + 1
      <4>1. PICK m \in Nat : m = BalanceAt(e, w)[N]
        BY <3>4, <3>5
      <4>2. BalanceAt(book'[s], w)[n] = m + Signed(p, w)
        BY <3>3, <3>5, <3>7, <4>1 DEF Continues
      <4>3. p.amount \in Nat /\ (p.from = w => m >= p.amount)
        <5>1. p.amount \in Nat
          BY DEF Entries
        <5>2. p.from = w => BalanceAt(book[s], w)[Len(book[s])] >= p.amount
          BY <1>2 DEF Moves, Paid
        <5>. QED  BY <3>1, <3>5, <4>1, <5>1, <5>2
      <4>4. m + Signed(p, w) \in Nat
        BY <4>3 DEF Signed
      <4>. QED  BY <2>2, <4>2, <4>4
    <3>. QED  BY <2>2, <3>2, <3>5, <3>6, <3>7
  <2>. QED  BY <2>1, <2>2
<1>. QED  BY <1>1, <1>2 DEF Grows

-----------------------------------------------------------------------------
(* What a ledger makes of a send *)

LEMMA PostingIs ==
    ASSUME NEW f \in Sends
    PROVE  /\ Posting(f) \in Entries /\ Posting(f).kind # "wallet"
           /\ Posting(f).key = f.key /\ Posting(f).from = f.body.from
           /\ Posting(f).amount = f.body.amount
<1>1. f.body \in Bodies /\ f.key \in Nat
  BY DEF Sends
<1>. QED  BY <1>1 DEF Posting, Entries, Bodies, AllKinds

Replied(s, f, v) ==
    /\ v \in ReplySet
    /\ v.status = 201 =>
          \/ v = Reply(201, FALSE) /\ Paid(s, Posting(f))
          \/ v # Reply(201, FALSE) /\ \E i \in 1 .. Len(book[s]) : book[s][i] = Posting(f)
    /\ v = Reply(201, FALSE) => v.status = 201

LEMMA VerdictIs ==
    ASSUME StoreTypes, NEW f \in Sends, NEW s \in Sources
    PROVE  Replied(s, f, Verdict(s, f))
<1> DEFINE now == [source |-> s, version |-> Len(book[s])]
           posts == {book[s][n] : n \in DOMAIN book[s]}
           prior == {p \in posts : p.key = f.key}
           named == {f.body.from, f.body.to} \ {NULL}
<1>1. PICK v : v = Verdict(s, f)
  OBVIOUS
<1>2. \/ v \in {Reply(400, FALSE), Reply(422, FALSE), Reply(404, FALSE)}
      \/ v = Reply(201, TRUE) /\ Posting(f) \in prior
      \/ v = Reply(201, FALSE) /\ ~(f.body.from # NULL /\ Balance(now, f.body.from) < f.body.amount)
  <2> DEFINE unnamed == s = "live" /\ Cardinality(named) < (IF f.body.kind = "transfer" THEN 2 ELSE 1)
             short == f.body.from # NULL /\ Balance(now, f.body.from) < f.body.amount
             again == Posting(f) \in prior
             taken == prior # {}
             known == named \subseteq Ids(now)
  <2>1. v = IF unnamed THEN Reply(400, FALSE)
            ELSE IF again THEN Reply(201, TRUE)
            ELSE IF taken THEN Reply(422, FALSE)
            ELSE IF ~known THEN Reply(404, FALSE)
            ELSE IF short THEN Reply(422, FALSE)
            ELSE Reply(201, FALSE)
    BY <1>1, Zenon DEF Verdict
  <2>2. v \in {Reply(400, FALSE), Reply(422, FALSE), Reply(404, FALSE)}
        \/ (v = Reply(201, TRUE) /\ again) \/ (v = Reply(201, FALSE) /\ ~short)
    <3>. HIDE DEF unnamed, short, again, taken, known
    <3>1. CASE unnamed
      BY <2>1, <3>1
    <3>2. CASE ~unnamed /\ again
      BY <2>1, <3>2
    <3>3. CASE ~unnamed /\ ~again /\ taken
      <4>1. v = Reply(422, FALSE)
        BY <2>1, <3>3
      <4>. QED  BY <4>1
    <3>4. CASE ~unnamed /\ ~again /\ ~taken /\ ~known
      <4>1. v = Reply(404, FALSE)
        BY <2>1, <3>4
      <4>. QED  BY <4>1
    <3>5. CASE ~unnamed /\ ~again /\ ~taken /\ known /\ short
      <4>1. v = Reply(422, FALSE)
        BY <2>1, <3>5
      <4>. QED  BY <4>1
    <3>6. CASE ~unnamed /\ ~again /\ ~taken /\ known /\ ~short
      <4>1. v = Reply(201, FALSE)
        BY <2>1, <3>6
      <4>. QED  BY <3>6, <4>1
    <3>. QED  BY <3>1, <3>2, <3>3, <3>4, <3>5, <3>6
  <2>. QED  BY <2>2
<1>3. DOMAIN book[s] = 1 .. Len(book[s])
  BY LensAre, LenProperties
<1>4. CASE v \in {Reply(400, FALSE), Reply(422, FALSE), Reply(404, FALSE)}
  <2>1. \E n \in {400, 422, 404} : v = Reply(n, FALSE)
    BY <1>4
  <2>2. v \in ReplySet /\ v.status # 201 /\ v # Reply(201, FALSE)
    BY <2>1 DEF Reply, ReplySet
  <2>. QED  BY <1>1, <2>2 DEF Replied
<1>5. CASE v = Reply(201, TRUE) /\ Posting(f) \in prior
  <2>1. \E i \in 1 .. Len(book[s]) : book[s][i] = Posting(f)
    BY <1>3, <1>5
  <2>2. v \in ReplySet /\ v # Reply(201, FALSE)
    BY <1>5 DEF Reply, ReplySet
  <2>. QED  BY <1>1, <2>1, <2>2 DEF Replied
<1>6. CASE v = Reply(201, FALSE) /\ ~(f.body.from # NULL /\ Balance(now, f.body.from) < f.body.amount)
  <2>1. Balance(now, f.body.from) = BalanceAt(book[s], f.body.from)[Len(book[s])]
    BY DEF Balance
  <2>2. BalanceAt(book[s], f.body.from)[Len(book[s])] \in Int
    <3>1. book[s] \in Seq(Entries) /\ Len(book[s]) \in 0 .. Len(book[s])
      BY LensAre
    <3>. QED  BY <3>1, BalanceSteps
  <2>3. f.body.amount \in Nat
    BY DEF Sends, Bodies
  <2>4. Paid(s, Posting(f))
    BY <1>6, <2>1, <2>2, <2>3, PostingIs DEF Paid
  <2>5. v \in ReplySet /\ v.status = 201
    BY <1>6 DEF Reply, ReplySet
  <2>. QED  BY <1>1, <1>6, <2>4, <2>5 DEF Replied
<1>. QED  BY <1>2, <1>4, <1>5, <1>6

\* A ledger that replies posts the movement, or has it already, or refuses.
Carried(s, f, v) ==
    /\ Grows /\ v \in ReplySet
    /\ v.status = 201 => \E i \in 1 .. Len(book'[s]) : book'[s][i] = Posting(f)
    /\ \A n \in 1 .. Len(book'["live"]) :
          book'["live"][n].key = f.key
          \/ (n \in 1 .. Len(book["live"]) /\ book'["live"][n] = book["live"][n])

LEMMA PostIfIs ==
    ASSUME StoreTypes, NEW f \in Sends, NEW s \in Sources, PostIf(s, f, Verdict(s, f))
    PROVE  Carried(s, f, Verdict(s, f))
<1>1. PICK v : v = Verdict(s, f)
  OBVIOUS
<1>2. PICK p \in Entries : p = Posting(f)
  BY PostingIs
<1>3. Replied(s, f, v)
  BY <1>1, VerdictIs
<1>4. p.kind # "wallet" /\ p.key = f.key
  BY <1>2, PostingIs
<1>5. "live" \in Sources
  BY DEF Sources
<1>6. CASE v = Reply(201, FALSE)
  <2>1. Moves(s, p)
    BY <1>1, <1>2, <1>3, <1>4, <1>6 DEF PostIf, Moves, Replied
  <2>2. Grows
    BY <2>1 DEF Grows
  <2>3. /\ Len(book'[s]) = Len(book[s]) + 1 /\ Len(book[s]) \in Nat
        /\ \A n \in 1 .. Len(book[s]) : book'[s][n] = book[s][n]
        /\ book'[s][Len(book[s]) + 1] = p
        /\ \A t \in Sources \ {s} : book'[t] = book[t]
    BY <2>1, MovesAre
  <2>4. \E i \in 1 .. Len(book'[s]) : book'[s][i] = p
    <3>1. Len(book[s]) + 1 \in 1 .. Len(book'[s])
      BY <2>3
    <3>. QED  BY <2>3, <3>1
  <2>5. ASSUME NEW n \in 1 .. Len(book'["live"])
        PROVE  \/ book'["live"][n].key = f.key
               \/ n \in 1 .. Len(book["live"]) /\ book'["live"][n] = book["live"][n]
    <3>1. CASE s # "live"
      BY <1>5, <2>3, <3>1
    <3>2. CASE s = "live"
      <4>1. n \in 1 .. Len(book["live"]) \/ n = Len(book["live"]) + 1
        BY <2>3, <3>2
      <4>. QED  BY <1>4, <2>3, <3>2, <4>1
    <3>. QED  BY <3>1, <3>2
  <2>. QED  BY <1>1, <1>2, <1>3, <2>2, <2>4, <2>5 DEF Carried, Replied
<1>7. CASE v # Reply(201, FALSE)
  <2>1. book' = book
    BY <1>1, <1>7 DEF PostIf
  <2>. QED  BY <1>1, <1>3, <1>7, <2>1 DEF Carried, Replied, Grows
<1>. QED  BY <1>6, <1>7

-----------------------------------------------------------------------------
(* The form *)

\* After the receiver was defaulted, no wallet pays itself.
Sound(g, f) == /\ g \in Forms /\ g.kind = f.kind /\ g.from = f.from /\ g.target = f.target
               /\ g.from = g.to => g.from = NULL

LEMMA DefaultedIs ==
    ASSUME NEW a, Ids(a) \subseteq Nat, NEW f \in Forms
    PROVE  Sound(Defaulted(f, a), f)
<1>1. f.from \in Nat /\ f.to \in Nat
  BY DEF Forms
<1>2. CASE f.to \notin {NULL, f.from}
  BY <1>1, <1>2 DEF Defaulted, Sound
<1>3. CASE f.to \in {NULL, f.from}
  <2>1. PICK w : w = FirstListed(a, {f.from})
    OBVIOUS
  <2>2. w = NULL \/ (w \in Ids(a) /\ w # f.from)
    BY <2>1, FirstIs
  <2>3. w \in Nat
    BY <2>2 DEF NULL
  <2>4. Defaulted(f, a) = [f EXCEPT !.to = w]
    BY <1>3, <2>1 DEF Defaulted
  <2>5. [f EXCEPT !.to = w] \in Forms
    BY <2>3 DEF Forms
  <2>6. Sound([f EXCEPT !.to = w], f)
    BY <2>2, <2>5 DEF Sound, Forms
  <2>. QED  BY <2>4, <2>6
<1>. QED  BY <1>2, <1>3

\* What the effects of a render leave, given the new list and the new selection.
LEMMA FollowsIs ==
    ASSUME PageTypes, FormOK, FormFollows, Ids(wallets') \subseteq Nat, selected' \in Nat
    PROVE  form' \in Forms /\ FormOK'
<1> DEFINE listed == IF refreshes' # refreshes THEN Defaulted(form, wallets') ELSE form
           moved  == IF selected' \in {selected, NULL} THEN listed
                     ELSE [listed EXCEPT !.from = selected', !.target = selected']
<1>1. form \in Forms
  BY DEF PageTypes
<1>2. PICK a : a = wallets'
  OBVIOUS
<1>3. PICK w \in Nat : w = selected'
  OBVIOUS
<1>4. Ids(a) \subseteq Nat
  BY <1>2
<1>5. PICK l : l = listed
  OBVIOUS
<1>6. PICK m : m = moved
  OBVIOUS
<1>7. l \in Forms /\ l.from = form.from /\ (l.from = l.to => l.from = NULL)
  <2>1. CASE refreshes' # refreshes
    <3>1. l = Defaulted(form, a)
      BY <1>2, <1>5, <2>1
    <3>2. Sound(l, form)
      BY <1>1, <1>4, <3>1, DefaultedIs
    <3>. QED  BY <3>2 DEF Sound
  <2>2. CASE refreshes' = refreshes
    BY <1>1, <1>5, <2>2 DEF FormOK
  <2>. QED  BY <2>1, <2>2
<1>8. m = l \/ m = [l EXCEPT !.from = w, !.target = w]
  BY <1>3, <1>5, <1>6
<1>9. m \in Forms /\ (m.from = form.from => (m.from = m.to => m.from = NULL))
  <2>1. CASE m = l
    BY <1>7, <2>1
  <2>2. CASE m = [l EXCEPT !.from = w, !.target = w]
    BY <1>7, <2>2 DEF Forms
  <2>. QED  BY <1>8, <2>1, <2>2
<1>10. form' = IF m.from = form.from THEN m ELSE Defaulted(m, a)
  BY <1>2, <1>6, Zenon DEF FormFollows
<1>11. CASE m.from = form.from
  BY <1>9, <1>10, <1>11 DEF FormOK
<1>12. CASE m.from # form.from
  <2>1. form' = Defaulted(m, a)
    BY <1>10, <1>12
  <2>2. Sound(form', m)
    BY <1>4, <1>9, <2>1, DefaultedIs
  <2>. QED  BY <2>2 DEF Sound, FormOK
<1>. QED  BY <1>11, <1>12

-----------------------------------------------------------------------------
(* Steps that leave the ledgers, the sends and the key alone *)

LEMMA StoreChangesKeep ==
    ASSUME Types, FormOK, StoreChanges
    PROVE  Types' /\ FormOK'
<1> USE DEF Types
<1>1. book' = book /\ PastVersions' = PastVersions
  BY DEF StoreChanges, ListArrives, Select, PastVersions
<1>2. StoreTypes'
  <2>1. ASSUME NEW w \in Ids(wallets), Select(w)
        PROVE  StoreTypes'
    <3>1. w \in Nat
      BY ShownIdsArePositive
    <3>. QED  BY <1>1, <2>1, <3>1 DEF Select, StoreTypes
  <2>2. ASSUME NEW n \in DOMAIN refreshes, NEW s \in Sources,
               ListArrives(n, [source |-> s, version |-> refreshes[n][s]])
        PROVE  StoreTypes'
    <3>1. PICK a : a = [source |-> s, version |-> refreshes[n][s]]
      OBVIOUS
    <3>2. refreshes[n] \in PastVersions
      BY ElementOfSeq, LenProperties DEF StoreTypes
    <3>3. /\ a \in AnswerSet /\ a.source \in Sources /\ a.version \in Nat
          /\ a.version <= Len(book[a.source])
      BY <3>1, <3>2 DEF AnswerSet, PastVersions, Versions
    <3>4. FirstListed(a, {}) \in Nat
      <4>1. Ids(a) \subseteq Nat
        BY <3>3, IdsArePositive
      <4>. QED  BY <4>1, FirstIs DEF NULL
    <3>5. refreshes' \in Seq(PastVersions)
      <4>1. refreshes' = Without(refreshes, n)
        BY <2>2 DEF ListArrives
      <4>2. refreshes \in Seq(PastVersions) /\ n \in 1 .. Len(refreshes) /\ Len(refreshes) \in Nat
        BY LenProperties DEF StoreTypes
      <4>3. SubSeq(refreshes, 1, n - 1) \in Seq(PastVersions)
        BY <4>2, SubSeqProperties
      <4>4. SubSeq(refreshes, n + 1, Len(refreshes)) \in Seq(PastVersions)
        BY <4>2, SubSeqProperties
      <4>. QED  BY <4>1, <4>3, <4>4, ConcatProperties DEF Without
    <3>6. wallets' = a /\ selectedId' \in Nat /\ revision' = revision
      <4>1. wallets' = a /\ revision' = revision
        BY <2>2, <3>1 DEF ListArrives
      <4>2. selectedId' = IF selectedId = NULL THEN FirstListed(a, {}) ELSE selectedId
        BY <2>2, <3>1 DEF ListArrives
      <4>. QED  BY <3>4, <4>1, <4>2 DEF StoreTypes
    <3>. QED  BY <1>1, <3>3, <3>5, <3>6 DEF StoreTypes
  <2>. QED  BY <2>1, <2>2 DEF StoreChanges
<1>3. Ids(wallets') \subseteq Nat /\ selected' \in Nat
  <2>1. (Ids(wallets) \subseteq Nat \ {NULL} /\ selected \in Nat)'
    <3>1. (StoreTypes => Ids(wallets) \subseteq Nat \ {NULL} /\ selected \in Nat)'
      BY ShownIdsArePositive, PTL
    <3>. QED  BY <1>2, <3>1
  <2>2. Ids(wallets)' = Ids(wallets')
    BY <1>1 DEF Ids, Opened
  <2>. QED  BY <2>1, <2>2
<1>4. form' \in Forms /\ FormOK'
  BY <1>3, FollowsIs DEF StoreChanges
<1>5. UNCHANGED <<key, drawn, pinned, busy, sends, attempts, settled>>
  BY DEF StoreChanges
<1>. QED  BY <1>1, <1>2, <1>4, <1>5 DEF PageTypes, SendTypes

LEMMA EditKeeps ==
    ASSUME Types, FormOK, Edit
    PROVE  Types' /\ FormOK'
<1>1. form \in Forms
  BY DEF Types, PageTypes
<1>2. Ids(wallets) \subseteq Nat \ {NULL}
  BY ShownIdsArePositive DEF Types
<1>3. form' \in Forms /\ FormOK'
  <2>1. CASE PickFrom
    <3>1. PICK w \in Ids(wallets) : form' = Defaulted([form EXCEPT !.from = w], wallets)
      BY <2>1 DEF PickFrom
    <3>2. PICK f : f = [form EXCEPT !.from = w]
      OBVIOUS
    <3>3. f \in Forms
      BY <1>1, <1>2, <3>2 DEF Forms
    <3>4. Sound(form', f)
      BY <1>2, <3>1, <3>2, <3>3, DefaultedIs
    <3>. QED  BY <3>4 DEF Sound, FormOK
  <2>2. CASE PickTo
    <3>1. PICK w \in Ids(wallets) \ {form.from} : form' = [form EXCEPT !.to = w]
      BY <2>2 DEF PickTo
    <3>. QED  BY <1>1, <1>2, <3>1 DEF Forms, FormOK
  <2>3. CASE Pick
    <3>1. PICK w \in Ids(wallets) : form' = [form EXCEPT !.target = w]
      BY <2>3 DEF Pick
    <3>. QED  BY <1>1, <1>2, <3>1 DEF Forms, FormOK
  <2>4. CASE Choose
    <3>1. PICK k \in AllKinds : form' = [form EXCEPT !.kind = k]
      BY <2>4, TransactAssumption DEF Choose, AllKinds
    <3>. QED  BY <1>1, <3>1 DEF Forms, FormOK
  <2>. QED  BY <2>1, <2>2, <2>3, <2>4 DEF Edit
<1>4. UNCHANGED <<store_vars, key, drawn, pinned, busy, sends, attempts, settled>>
  BY DEF Edit
<1>. QED  BY <1>3, <1>4 DEF Types, StoreTypes, PageTypes, SendTypes, PastVersions, store_vars

\* Steps of the store and of the form alone.
LEMMA QuietKeep ==
    ASSUME TransactInv, StoreChanges \/ Edit
    PROVE  TransactInv'
<1>1. Types' /\ FormOK'
  BY StoreChangesKeep, EditKeeps DEF TransactInv
<1>2. UNCHANGED <<book, sends, settled, key, busy, attempts>>
  BY DEF StoreChanges, ListArrives, Select, Edit, store_vars
<1>3. BusyOK' /\ KeysOK' /\ AnswersOK' /\ MoneyOK'
  BY <1>2 DEF TransactInv, BusyOK, KeysOK, KeyInUse, Used, AnswersOK, Has, Posting, MoneyOK
<1>. QED  BY <1>1, <1>3 DEF TransactInv

LEMMA LiveKeys ==
    ASSUME Types
    PROVE  \A n \in 1 .. Len(book["live"]) : book["live"][n].key \in Nat
<1>1. "live" \in Sources
  BY DEF Sources
<1>2. \A n \in 1 .. Len(book["live"]) : book["live"][n] \in Entries
  BY <1>1, LensAre, ElementOfSeq DEF Types
<1>. QED  BY <1>2 DEF Entries

LEMMA FirstAttempt ==
    ASSUME Types, attempts # <<>>
    PROVE  attempts[1] \in Nat
<1>1. attempts \in Seq(Nat)
  BY DEF Types, PageTypes
<1>2. 1 \in 1 .. Len(attempts)
  BY <1>1, EmptySeq, LenProperties
<1>. QED  BY <1>1, <1>2, ElementOfSeq

\* Nothing knows a key above the current one.
LEMMA NextIsFresh ==
    ASSUME Types, KeysOK
    PROVE  ~Used(key + 1)
<1>1. key \in Nat
  BY DEF Types, PageTypes
<1>2. \A n \in 1 .. Len(book["live"]) : book["live"][n].key <= key
  BY DEF KeysOK
<1>3. \A n \in 1 .. Len(book["live"]) : book["live"][n].key \in Nat
  BY LiveKeys
<1>4. \A f \in sends : f.key \in Nat /\ f.key <= key
  BY DEF Types, SendTypes, Sends, KeysOK
<1>. QED  BY <1>1, <1>2, <1>3, <1>4 DEF Used

\* A new key is drawn and the old one given up; the table may be emptied, and the
\* sends may lose their page.
LEMMA DrawKeeps ==
    ASSUME TransactInv, NewKey \/ Remount
    PROVE  TransactInv'
<1>1. UNCHANGED <<book, wallets, selectedId, revision, refreshes>>
  BY DEF NewKey, Remount, store_vars
<1>2. key \in Nat /\ key # NULL /\ drawn = key
  BY DEF TransactInv, Types, PageTypes, KeysOK
<1>3. key' = key + 1 /\ drawn' = drawn + 1 /\ settled' = settled \cup {key}
  BY <1>2 DEF NewKey, Remount, Draw
<1>4. StoreTypes' /\ MoneyOK' /\ book' = book /\ PastVersions' = PastVersions
  BY <1>1 DEF TransactInv, Types, StoreTypes, MoneyOK, PastVersions
<1>5. \A w : Used(w)' => Used(w)
  <2>1. \A g \in sends' : \E f \in sends : g.key = f.key
    <3>1. CASE NewKey
      BY <3>1 DEF NewKey
    <3>2. CASE Remount
      <4>1. \A f \in sends : [f EXCEPT !.mounted = FALSE].key = f.key
        BY DEF TransactInv, Types, SendTypes, Sends
      <4>. QED  BY <3>2, <4>1 DEF Remount
    <3>. QED  BY <3>1, <3>2
  <2>. QED  BY <1>4, <2>1 DEF Used
<1>6. ~KeyInUse'
  <2>1. ~Used(key + 1)
    BY NextIsFresh DEF TransactInv
  <2>2. PICK k : k = key + 1
    OBVIOUS
  <2>3. ~Used(k) /\ key' = k
    BY <1>3, <2>1, <2>2
  <2>. QED  BY <1>5, <2>3 DEF KeyInUse, Used
<1>7. PageTypes' /\ FormOK'
  <2>1. form' \in Forms /\ FormOK'
    <3>1. CASE NewKey
      BY <3>1 DEF NewKey, TransactInv, Types, PageTypes, FormOK
    <3>2. CASE Remount
      <4>1. selected \in Nat /\ Ids(wallets) \subseteq Nat
        BY ShownIdsArePositive DEF TransactInv, Types
      <4>2. PICK f : f = NewForm
        OBVIOUS
      <4>3. f \in Forms
        BY <4>1, <4>2 DEF NewForm, Forms, AllKinds, NULL
      <4>4. form' = Defaulted(f, wallets)
        BY <3>2, <4>2 DEF Remount
      <4>5. Sound(form', f)
        BY <4>1, <4>3, <4>4, DefaultedIs
      <4>. QED  BY <4>5 DEF Sound, FormOK
    <3>. QED  BY <3>1, <3>2
  <2>2. pinned' \in BOOLEAN /\ busy' \in BOOLEAN
    BY DEF NewKey, Remount, TransactInv, Types, PageTypes
  <2>3. attempts' \in Seq(Nat) /\ Len(attempts') <= AttemptsKept
    <3>1. CASE NewKey
      BY <3>1 DEF NewKey, TransactInv, Types, PageTypes
    <3>2. CASE Remount
      <4>1. attempts' = <<>>
        BY <3>2 DEF Remount
      <4>. QED  BY <4>1, EmptySeq, TransactAssumption
    <3>. QED  BY <3>1, <3>2
  <2>. QED  BY <1>3, <1>2, <2>1, <2>2, <2>3 DEF PageTypes
<1>8. SendTypes' /\ BusyOK' /\ AnswersOK'
  <2>1. CASE NewKey
    BY <1>4, <2>1 DEF NewKey, TransactInv, Types, SendTypes, BusyOK, AnswersOK, Has, Posting
  <2>2. CASE Remount
    <3>1. sends' = {[f EXCEPT !.mounted = FALSE] : f \in sends}
      BY <2>2 DEF Remount
    <3>2. \A g \in sends' : \E f \in sends :
             /\ g \in Sends /\ ~g.mounted /\ g.since = f.since /\ g.landed = f.landed
             /\ g.answer = f.answer /\ g.key = f.key /\ g.body = f.body
      <4>1. ASSUME NEW f \in sends, NEW g, g = [f EXCEPT !.mounted = FALSE]
            PROVE  /\ g \in Sends /\ ~g.mounted /\ g.since = f.since /\ g.landed = f.landed
                   /\ g.answer = f.answer /\ g.key = f.key /\ g.body = f.body
        BY <4>1 DEF TransactInv, Types, SendTypes, Sends
      <4>. QED  BY <3>1, <4>1
    <3>. QED  BY <1>4, <3>2 DEF TransactInv, Types, SendTypes, BusyOK, AnswersOK, Has, Posting
  <2>. QED  BY <2>1, <2>2
<1>9. KeysOK'
  <2>1. key' # NULL
    BY <1>3, <1>2 DEF NULL
  <2>2. \A g \in sends' : g.key <= key' /\ g.key \in settled' \cup {key'}
    <3>1. \A g \in sends' : \E f \in sends : g.key = f.key
      <4>1. CASE NewKey
        BY <4>1 DEF NewKey
      <4>2. CASE Remount
        <5>1. \A f \in sends : [f EXCEPT !.mounted = FALSE].key = f.key
          BY DEF TransactInv, Types, SendTypes, Sends
        <5>. QED  BY <4>2, <5>1 DEF Remount
      <4>. QED  BY <4>1, <4>2
    <3>2. \A f \in sends : f.key \in Nat /\ f.key <= key /\ f.key \in settled \cup {key}
      BY DEF TransactInv, Types, SendTypes, Sends, KeysOK
    <3>. QED  BY <1>3, <1>2, <3>1, <3>2
  <2>3. \A n \in 1 .. Len(book'["live"]) :
           book'["live"][n].key <= key' /\ book'["live"][n].key \in {NULL, key'} \cup settled'
    <3>1. \A n \in 1 .. Len(book["live"]) :
             /\ book["live"][n].key \in Nat /\ book["live"][n].key <= key
             /\ book["live"][n].key \in {NULL, key} \cup settled
      BY LiveKeys DEF TransactInv, KeysOK
    <3>. QED  BY <1>3, <1>2, <1>4, <3>1
  <2>4. attempts' # <<>> => attempts'[1] <= key' /\ attempts'[1] \in settled' \cup {key'}
    <3>1. CASE NewKey
      <4>1. attempts' = attempts
        BY <3>1 DEF NewKey
      <4>2. attempts # <<>> => attempts[1] \in Nat
        BY FirstAttempt DEF TransactInv
      <4>. QED  BY <1>3, <1>2, <4>1, <4>2 DEF TransactInv, KeysOK
    <3>2. CASE Remount
      BY <3>2 DEF Remount
    <3>. QED  BY <3>1, <3>2
  <2>. QED  BY <1>6, <2>1, <2>2, <2>3, <2>4 DEF KeysOK
<1>. QED  BY <1>4, <1>7, <1>8, <1>9 DEF TransactInv, Types

-----------------------------------------------------------------------------
(* Sends *)

\* TogglePin, Clear
LEMMA SmallKeep ==
    ASSUME TransactInv, TogglePin \/ Clear
    PROVE  TransactInv'
<1>1. UNCHANGED <<book, wallets, selectedId, revision, refreshes, form, key, drawn, busy, sends,
                  settled>>
  BY DEF TogglePin, Clear, store_vars
<1>2. pinned' \in BOOLEAN /\ (attempts' = attempts \/ attempts' = <<>>)
  BY DEF TogglePin, Clear, TransactInv, Types, PageTypes
<1>3. attempts' \in Seq(Nat) /\ Len(attempts') <= AttemptsKept
  <2>1. CASE attempts' = attempts
    BY <2>1 DEF TransactInv, Types, PageTypes
  <2>2. CASE attempts' = <<>>
    BY <2>2, EmptySeq, TransactAssumption
  <2>. QED  BY <1>2, <2>1, <2>2
<1>4. Types'
  BY <1>1, <1>2, <1>3 DEF TransactInv, Types, StoreTypes, PageTypes, SendTypes, PastVersions
<1>5. FormOK' /\ BusyOK' /\ AnswersOK' /\ MoneyOK'
  BY <1>1 DEF TransactInv, FormOK, BusyOK, AnswersOK, Has, Posting, MoneyOK
<1>6. KeysOK'
  BY <1>1, <1>2 DEF TransactInv, KeysOK, KeyInUse, Used
<1>. QED  BY <1>4, <1>5, <1>6 DEF TransactInv

\* An amount shown is what it was, and digits left out are zeros.
RoundTrips(minor) ==
    /\ ParseMinor(Shown(minor)) = minor
    /\ ParseMinor([Shown(minor) EXCEPT !.cents = <<@[1]>>]) = (minor \div 10) * 10
    /\ ParseMinor([Shown(minor) EXCEPT !.cents = <<>>]) = (minor \div 100) * 100

LEMMA DigitsAddUp ==
    ASSUME NEW m \in Nat
    PROVE  /\ m \div 100 \in Nat /\ (m % 100) \div 10 \in Nat /\ m % 10 \in Nat
           /\ (m \div 100) * 100 + (10 * ((m % 100) \div 10) + (m % 10)) = m
           /\ (m \div 100) * 100 + 10 * ((m % 100) \div 10) = (m \div 10) * 10
OBVIOUS

LEMMA AmountRoundTrips ==
    ASSUME NEW m \in Nat
    PROVE  RoundTrips(m)
<1>1. PICK w \in Nat : w = m \div 100
  BY DigitsAddUp
<1>2. PICK d \in Nat : d = (m % 100) \div 10
  BY DigitsAddUp
<1>3. PICK c \in Nat : c = m % 10
  BY DigitsAddUp
<1>4. Shown(m) = [whole |-> w, cents |-> <<d, c>>]
  BY <1>1, <1>2, <1>3 DEF Shown
<1>5. w * 100 + (10 * d + c) = m /\ w * 100 + 10 * d = (m \div 10) * 10
  BY <1>1, <1>2, <1>3, DigitsAddUp
<1>6. ParseMinor(Shown(m)) = w * 100 + (10 * d + c)
  BY <1>4 DEF ParseMinor, Pad
<1>7. ParseMinor([Shown(m) EXCEPT !.cents = <<@[1]>>]) = w * 100 + 10 * d
  <2>1. [Shown(m) EXCEPT !.cents = <<@[1]>>] = [whole |-> w, cents |-> <<d>>]
    BY <1>4
  <2>. QED  BY <2>1 DEF ParseMinor, Pad
<1>8. ParseMinor([Shown(m) EXCEPT !.cents = <<>>]) = w * 100 + 0
  <2>1. [Shown(m) EXCEPT !.cents = <<>>] = [whole |-> w, cents |-> <<>>]
    BY <1>4
  <2>. QED  BY <2>1 DEF ParseMinor, Pad
<1>. QED  BY <1>1, <1>5, <1>6, <1>7, <1>8 DEF RoundTrips

\* What the list shows is nothing negative.
LEMMA ShownBalances ==
    ASSUME StoreTypes, MoneyOK, NEW w \in Ids(wallets)
    PROVE  Balance(wallets, w) \in Nat
<1>1. w \in Nat \ {NULL}
  BY ShownIdsArePositive
<1>2. wallets.source \in Sources /\ wallets.version \in Nat
  BY DEF Ids, Opened, StoreTypes, AnswerSet
<1>3. wallets.version <= Len(book[wallets.source]) /\ Len(book[wallets.source]) \in Nat
  BY <1>2, LensAre DEF StoreTypes, Sources
<1>4. wallets.version \in 0 .. Len(book[wallets.source])
  BY <1>2, <1>3
<1>. QED  BY <1>1, <1>2, <1>4 DEF MoneyOK, Balance

LEMMA MaxAmountIs ==
    ASSUME StoreTypes, MoneyOK
    PROVE  MaxAmount \in Nat
<1>1. PICK w : w = Chosen(form).from
  OBVIOUS
<1>2. CASE w \in Ids(wallets)
  <2>1. PICK m \in Nat : m = Balance(wallets, w)
    BY <1>2, ShownBalances
  <2>2. ParseMinor(Shown(m)) = m
    BY AmountRoundTrips DEF RoundTrips
  <2>3. MaxAmount = m
    BY <1>1, <1>2, <2>1, <2>2 DEF MaxAmount
  <2>. QED  BY <2>3
<1>3. CASE w \notin Ids(wallets)
  BY <1>1, <1>3 DEF MaxAmount
<1>. QED  BY <1>2, <1>3

\* A send that starts while the page is not busy.
LEMMA SendKeeps ==
    ASSUME TransactInv, Submit \/ RetryLast
    PROVE  TransactInv'
<1>1. PICK k : /\ \E a \in Amounts \cup {MaxAmount} : Send(k, a)
               /\ k = key \/ (attempts # <<>> /\ k = attempts[1])
  BY DEF Submit, RetryLast
<1>2. PICK a \in Amounts \cup {MaxAmount} : Send(k, a)
  BY <1>1
<1>3. PICK r : r = [key |-> k, body |-> Body(form, a), pinned |-> pinned, mounted |-> TRUE,
                    landed |-> NoReply, answer |-> NoReply, since |-> Now]
  OBVIOUS
<1>4. /\ a # 0 /\ ~busy /\ busy' = TRUE /\ sends' = sends \cup {r}
      /\ UNCHANGED <<book, wallets, selectedId, revision, refreshes>>
      /\ UNCHANGED <<form, key, drawn, pinned, attempts, settled>>
  BY <1>2, <1>3 DEF Send, store_vars
<1>5. /\ key \in Nat /\ key # NULL /\ k \in Nat /\ k <= key /\ k \in settled \cup {key}
      /\ k # key => ~KeyInUse
  <2>1. key \in Nat /\ key # NULL
    BY DEF TransactInv, Types, PageTypes, KeysOK
  <2>2. CASE k = key
    BY <2>1, <2>2
  <2>3. CASE attempts # <<>> /\ k = attempts[1]
    BY <1>4, <2>1, <2>3, FirstAttempt DEF TransactInv, KeysOK
  <2>. QED  BY <1>1, <2>2, <2>3
<1>6. r \in Sends /\ r.since \in PastVersions
  <2>1. a \in Nat \ {0}
    BY <1>4, MaxAmountIs, TransactAssumption DEF TransactInv, Types
  <2>2. Body(form, a) \in Bodies
    <3>1. form \in Forms
      BY DEF TransactInv, Types, PageTypes
    <3>2. Chosen(form).from \in Nat /\ Chosen(form).to \in Nat
      <4>1. CASE form.kind = "transfer"
        BY <3>1, <4>1 DEF Chosen, Forms
      <4>2. CASE form.kind = "withdrawal"
        BY <3>1, <4>2 DEF Chosen, Forms, NULL
      <4>3. CASE form.kind = "deposit"
        BY <3>1, <4>3 DEF Chosen, Forms, NULL
      <4>. QED  BY <3>1, <4>1, <4>2, <4>3 DEF Forms, AllKinds
    <3>3. form.kind \in AllKinds
      BY <3>1 DEF Forms
    <3>. QED  BY <2>1, <3>2, <3>3 DEF Body, Bodies
  <2>3. NoReply \in ReplySet
    BY DEF NoReply, Reply, ReplySet
  <2>4. Now \in PastVersions
    BY LensAre DEF TransactInv, Types
  <2>5. Now \in Versions /\ pinned \in BOOLEAN
    BY <2>4 DEF PastVersions, TransactInv, Types, PageTypes
  <2>. QED  BY <1>3, <1>5, <2>2, <2>3, <2>4, <2>5 DEF Sends
<1>7. /\ r.key = k /\ r.mounted /\ r.landed.status # 201 /\ r.answer.status # 201
  BY <1>3 DEF NoReply, Reply
<1>8. Types'
  <2>1. StoreTypes' /\ PageTypes'
    BY <1>4 DEF TransactInv, Types, StoreTypes, PageTypes, PastVersions
  <2>2. SendTypes'
    BY <1>4, <1>6 DEF TransactInv, Types, SendTypes, PastVersions
  <2>. QED  BY <2>1, <2>2 DEF Types
<1>9. FormOK' /\ BusyOK' /\ MoneyOK'
  BY <1>4 DEF TransactInv, FormOK, BusyOK, MoneyOK
<1>10. AnswersOK'
  BY <1>4, <1>7 DEF TransactInv, AnswersOK, Has, Posting
<1>11. KeysOK'
  <2>1. \A f \in sends : ~f.mounted
    BY <1>4 DEF TransactInv, BusyOK
  <2>2. k # key => ~KeyInUse'
    BY <1>4, <1>5, <1>7 DEF KeyInUse, Used
  <2>3. \A f \in sends' : f.key <= key' /\ f.key \in settled' \cup {key'}
    BY <1>4, <1>5, <1>7 DEF TransactInv, KeysOK
  <2>4. \A f \in sends' : f.mounted /\ f.key # key' => ~KeyInUse'
    BY <1>4, <1>7, <2>1, <2>2
  <2>. QED  BY <1>4, <2>3, <2>4 DEF TransactInv, KeysOK
<1>. QED  BY <1>8, <1>9, <1>10, <1>11 DEF TransactInv

\* A send that goes on is the same send, on the same page or none.
SameSend(f, g) == /\ g.key = f.key /\ g.body = f.body /\ g.mounted = f.mounted
                  /\ g.pinned = f.pinned /\ g \in Sends

\* Steps of one send f, which the ledgers may note and which goes on as g.
GoesOn(f, g) ==
    /\ Grows
    /\ \A n \in 1 .. Len(book'["live"]) :
          book'["live"][n].key = f.key
          \/ (n \in 1 .. Len(book["live"]) /\ book'["live"][n] = book["live"][n])
    /\ sends' \subseteq (sends \ {f}) \cup {g}
    /\ SameSend(f, g) /\ g.since \in PastVersions'
    /\ g.landed.status = 201 => Has("live", Len(book["live"]), g)'
    /\ g.answer.status = 201 => (\E s \in Sources : Has(s, g.since[s], g))'
    /\ UNCHANGED <<wallets, selectedId, revision, refreshes, page_vars>>

LEMMA GoesOnKeeps ==
    ASSUME TransactInv, NEW f \in sends, NEW g, GoesOn(f, g)
    PROVE  TransactInv'
<1>1. Kept /\ MoneyOK'
  BY GrowsKeeps, MoneyKept DEF GoesOn, TransactInv, Types
<1>2. UNCHANGED <<wallets, selectedId, revision, refreshes>>
      /\ UNCHANGED <<form, key, drawn, pinned, busy, attempts, settled>>
  BY DEF GoesOn, page_vars
<1>3. sends' \subseteq (sends \ {f}) \cup {g} /\ SameSend(f, g)
  BY DEF GoesOn
<1>4. StoreTypes'
  <2>1. book' \in [Sources -> Seq(Entries)]
    BY <1>1 DEF Kept
  <2>2. refreshes' \in Seq(PastVersions')
    <3>1. refreshes \in Seq(PastVersions) /\ PastVersions \subseteq PastVersions'
      BY <1>1 DEF Kept, TransactInv, Types, StoreTypes
    <3>. QED  BY <1>2, <3>1
  <2>3. wallets'.source # "none" => wallets'.version <= Len(book'[wallets'.source])
    <3>1. wallets.source \in Sources \cup {"none"} /\ wallets.version \in Nat
      BY DEF TransactInv, Types, StoreTypes, AnswerSet
    <3>. QED  BY <1>1, <1>2, <3>1 DEF Kept, TransactInv, Types, StoreTypes
  <2>. QED  BY <1>2, <2>1, <2>2, <2>3 DEF TransactInv, Types, StoreTypes
<1>5. PageTypes' /\ FormOK'
  BY <1>2 DEF TransactInv, Types, PageTypes, FormOK
<1>6. SendTypes'
  BY <1>1, <1>3 DEF GoesOn, TransactInv, Types, SendTypes, SameSend, Kept
<1>7. BusyOK'
  BY <1>2, <1>3 DEF TransactInv, BusyOK, SameSend
<1>8. KeysOK'
  <2>1. f.key <= key /\ f.key \in settled \cup {key}
    BY DEF TransactInv, KeysOK
  <2>2. KeyInUse' => KeyInUse
    <3>1. ASSUME NEW n \in 1 .. Len(book'["live"]), book'["live"][n].key = key
          PROVE  Used(key)
      BY <3>1 DEF GoesOn, Used
    <3>2. ASSUME NEW h \in sends', h.key = key
          PROVE  Used(key)
      BY <1>3, <3>2 DEF SameSend, Used
    <3>. QED  BY <1>2, <3>1, <3>2 DEF KeyInUse, Used
  <2>3. \A h \in sends' : \E e \in sends : h.key = e.key /\ h.mounted = e.mounted
    BY <1>3 DEF SameSend
  <2>4. \A h \in sends' : h.key <= key' /\ h.key \in settled' \cup {key'}
    BY <1>2, <2>3 DEF TransactInv, KeysOK
  <2>5. \A n \in 1 .. Len(book'["live"]) :
           book'["live"][n].key <= key' /\ book'["live"][n].key \in {NULL, key'} \cup settled'
    BY <1>2, <2>1 DEF GoesOn, TransactInv, KeysOK
  <2>6. \A h \in sends' : h.mounted /\ h.key # key' => ~KeyInUse'
    BY <1>2, <2>2, <2>3 DEF TransactInv, KeysOK
  <2>. QED  BY <1>2, <2>2, <2>4, <2>5, <2>6 DEF TransactInv, KeysOK
<1>9. AnswersOK'
  <2> SUFFICES ASSUME NEW h \in sends'
               PROVE  (/\ h.landed.status = 201 => Has("live", Len(book["live"]), h)
                       /\ h.answer.status = 201 => \E s \in Sources : Has(s, h.since[s], h))'
    BY DEF AnswersOK
  <2>1. CASE h = g
    BY <2>1 DEF GoesOn
  <2>2. CASE h \in sends
    <3>1. "live" \in Sources
      BY DEF Sources
    <3>2. \A s \in Sources : h.since[s] \in Nat /\ h.since[s] <= Len(book[s])
      BY <2>2 DEF TransactInv, Types, SendTypes, PastVersions, Versions
    <3>3. \A s \in Sources : \A n \in Nat :
             n <= Len(book[s]) /\ Has(s, n, h) => \E i \in 1 .. n : book'[s][i] = Posting(h)
      BY <1>1 DEF Kept, Has
    <3>4. h.landed.status = 201 => Has("live", Len(book["live"]), h)
      BY <2>2 DEF TransactInv, AnswersOK
    <3>5. h.answer.status = 201 => \E s \in Sources : Has(s, h.since[s], h)
      BY <2>2 DEF TransactInv, AnswersOK
    <3>6. Len(book["live"]) \in Nat /\ Len(book'["live"]) \in Nat
          /\ Len(book'["live"]) >= Len(book["live"])
      BY <1>1, <3>1 DEF Kept
    <3>7. h.landed.status = 201 => \E i \in 1 .. Len(book'["live"]) : book'["live"][i] = Posting(h)
      BY <3>1, <3>3, <3>4, <3>6
    <3>8. h.answer.status = 201 => \E s \in Sources : \E i \in 1 .. h.since[s] : book'[s][i] = Posting(h)
      BY <3>2, <3>3, <3>5
    <3>. QED  BY <3>7, <3>8 DEF Has, Posting
  <2>. QED  BY <1>3, <2>1, <2>2
<1>. QED  BY <1>1, <1>4, <1>5, <1>6, <1>7, <1>8, <1>9 DEF TransactInv, Types

LEMMA LandsKeeps ==
    ASSUME TransactInv, NEW f \in sends, Lands(f)
    PROVE  TransactInv'
<1>1. f \in Sends /\ f.since \in PastVersions /\ StoreTypes /\ "live" \in Sources
  BY DEF TransactInv, Types, SendTypes, Sources
<1>2. PICK v : v = Verdict("live", f)
  OBVIOUS
<1>3. PICK g : g = [f EXCEPT !.landed = v]
  OBVIOUS
<1>4. /\ PostIf("live", f, Verdict("live", f)) /\ sends' = (sends \ {f}) \cup {g}
      /\ UNCHANGED <<wallets, selectedId, revision, refreshes, page_vars>>
  BY <1>2, <1>3 DEF Lands, Replaced
<1>5. Carried("live", f, v)
  BY <1>1, <1>2, <1>4, PostIfIs
<1>6. v \in ReplySet
  BY <1>5 DEF Carried
<1>7. /\ SameSend(f, g) /\ g.since = f.since /\ g.landed = v /\ g.answer = f.answer
      /\ Posting(g) = Posting(f)
  BY <1>1, <1>3, <1>6 DEF Sends, SameSend, Posting
<1>8. Kept
  BY <1>1, <1>5, GrowsKeeps DEF Carried
<1>9. f.answer.status = 201 => \E s \in Sources : \E i \in 1 .. f.since[s] : book'[s][i] = Posting(f)
  <2>1. \A s \in Sources : f.since[s] \in Nat /\ f.since[s] <= Len(book[s])
    BY <1>1 DEF PastVersions, Versions
  <2>2. \A s \in Sources : Len(book[s]) \in Nat /\ \A n \in 1 .. Len(book[s]) : book'[s][n] = book[s][n]
    BY <1>8 DEF Kept
  <2>3. f.answer.status = 201 => \E s \in Sources : \E i \in 1 .. f.since[s] : book[s][i] = Posting(f)
    BY DEF TransactInv, AnswersOK, Has
  <2>4. \A s \in Sources : \A i \in 1 .. f.since[s] : i \in 1 .. Len(book[s])
    BY <2>1, <2>2
  <2>. QED  BY <2>2, <2>3, <2>4
<1>10. GoesOn(f, g)
  <2>1. v.status = 201 => \E i \in 1 .. Len(book'["live"]) : book'["live"][i] = Posting(f)
    BY <1>5 DEF Carried
  <2>2. g.landed.status = 201 => Has("live", Len(book["live"]), g)'
    BY <1>7, <2>1 DEF Has, Posting
  <2>3. g.answer.status = 201 => (\E s \in Sources : Has(s, g.since[s], g))'
    BY <1>7, <1>9 DEF Has, Posting
  <2>4. g.since \in PastVersions'
    BY <1>1, <1>7, <1>8 DEF Kept
  <2>. QED  BY <1>4, <1>5, <1>7, <2>2, <2>3, <2>4 DEF GoesOn, Carried
<1>. QED  BY <1>10, GoesOnKeeps

LEMMA RepliesKeeps ==
    ASSUME TransactInv, NEW f \in sends, Replies(f)
    PROVE  TransactInv'
<1>1. f \in Sends /\ StoreTypes /\ "live" \in Sources
  BY DEF TransactInv, Types, SendTypes, Sources
<1>2. PICK v \in {f.landed, Reply(500, FALSE)} : Replaced(f, Answered(f, v))
  BY DEF Replies
<1>3. UNCHANGED <<book, wallets, selectedId, revision, refreshes>> /\ UNCHANGED page_vars
  BY DEF Replies, store_vars
<1>4. PICK t : t = Now'
  OBVIOUS
<1>5. PICK g : g = [f EXCEPT !.answer = v, !.since = t]
  OBVIOUS
<1>6. sends' = (sends \ {f}) \cup {g}
  BY <1>2, <1>4, <1>5 DEF Replaced, Answered
<1>7. /\ t \in Versions /\ t \in PastVersions' /\ t["live"] = Len(book["live"])
  <2>1. t = Now /\ PastVersions' = PastVersions
    BY <1>3, <1>4 DEF Now, PastVersions
  <2>. QED  BY <1>1, <2>1, LensAre DEF PastVersions
<1>8. v \in ReplySet /\ (v.status = 201 => f.landed.status = 201)
  <2>1. CASE v = f.landed
    BY <1>1, <2>1 DEF Sends
  <2>2. CASE v = Reply(500, FALSE)
    BY <2>2 DEF Reply, ReplySet
  <2>. QED  BY <1>2, <2>1, <2>2
<1>9. /\ SameSend(f, g) /\ g.since = t /\ g.landed = f.landed /\ g.answer = v
      /\ Posting(g) = Posting(f)
  BY <1>1, <1>5, <1>7, <1>8 DEF Sends, SameSend, Posting
<1>10. f.landed.status = 201 => \E i \in 1 .. Len(book["live"]) : book["live"][i] = Posting(f)
  BY DEF TransactInv, AnswersOK, Has
<1>11. GoesOn(f, g)
  <2>1. g.landed.status = 201 => Has("live", Len(book["live"]), g)'
    BY <1>3, <1>9, <1>10 DEF Has, Posting
  <2>2. g.answer.status = 201 => (\E s \in Sources : Has(s, g.since[s], g))'
    BY <1>1, <1>3, <1>7, <1>8, <1>9, <1>10 DEF Has, Posting
  <2>. QED  BY <1>3, <1>6, <1>7, <1>9, <2>1, <2>2 DEF GoesOn, Grows
<1>. QED  BY <1>11, GoesOnKeeps

LEMMA FallsBackKeeps ==
    ASSUME TransactInv, NEW f \in sends, FallsBack(f)
    PROVE  TransactInv'
<1>1. f \in Sends /\ f.since \in PastVersions /\ StoreTypes /\ "sim" \in Sources /\ "live" \in Sources
  BY DEF TransactInv, Types, SendTypes, Sources
<1>2. UNCHANGED <<wallets, selectedId, revision, refreshes, page_vars>>
  BY DEF FallsBack
<1>3. CASE f.body.from = NULL /\ f.body.to = NULL
  <2>1. book' = book /\ sends' = sends \ {f}
    BY <1>3 DEF FallsBack
  <2>2. SameSend(f, f)
    BY <1>1 DEF SameSend
  <2>3. PastVersions' = PastVersions
    BY <2>1 DEF PastVersions
  <2>4. /\ f.landed.status = 201 => Has("live", Len(book["live"]), f)'
        /\ f.answer.status = 201 => (\E s \in Sources : Has(s, f.since[s], f))'
    BY <2>1 DEF TransactInv, AnswersOK, Has, Posting
  <2>5. GoesOn(f, f)
    BY <1>1, <1>2, <2>1, <2>2, <2>3, <2>4 DEF GoesOn, Grows
  <2>. QED  BY <2>5, GoesOnKeeps
<1>4. CASE ~(f.body.from = NULL /\ f.body.to = NULL)
  <2>1. PICK v : v = Verdict("sim", f)
    OBVIOUS
  <2>2. PICK t : t = Now'
    OBVIOUS
  <2>3. PICK g : g = [f EXCEPT !.answer = v, !.since = t]
    OBVIOUS
  <2>4. PostIf("sim", f, Verdict("sim", f)) /\ sends' = (sends \ {f}) \cup {g}
    BY <1>4, <2>1, <2>2, <2>3 DEF FallsBack, Replaced, Answered
  <2>5. Carried("sim", f, v)
    BY <1>1, <2>1, <2>4, PostIfIs
  <2>6. v \in ReplySet
    BY <2>5 DEF Carried
  <2>7. Kept
    BY <1>1, <2>5, GrowsKeeps DEF Carried
  <2>8. /\ t \in Versions /\ t \in PastVersions' /\ \A s \in Sources : t[s] = Len(book'[s])
    BY <2>2, <2>7 DEF Now, PastVersions, Versions, Kept
  <2>9. /\ SameSend(f, g) /\ g.since = t /\ g.landed = f.landed /\ g.answer = v
        /\ Posting(g) = Posting(f)
    BY <1>1, <2>3, <2>6, <2>8 DEF Sends, SameSend, Posting
  <2>10. f.landed.status = 201 => \E i \in 1 .. Len(book'["live"]) : book'["live"][i] = Posting(f)
    <3>1. f.landed.status = 201 => \E i \in 1 .. Len(book["live"]) : book["live"][i] = Posting(f)
      BY DEF TransactInv, AnswersOK, Has
    <3>2. /\ Len(book["live"]) \in Nat /\ Len(book'["live"]) \in Nat
          /\ Len(book'["live"]) >= Len(book["live"])
          /\ \A n \in 1 .. Len(book["live"]) : book'["live"][n] = book["live"][n]
      BY <1>1, <2>7 DEF Kept
    <3>3. \A n \in 1 .. Len(book["live"]) : n \in 1 .. Len(book'["live"])
      BY <3>2
    <3>. QED  BY <3>1, <3>2, <3>3
  <2>11. v.status = 201 => \E i \in 1 .. t["sim"] : book'["sim"][i] = Posting(f)
    BY <1>1, <2>5, <2>8 DEF Carried
  <2>12. GoesOn(f, g)
    <3>1. g.landed.status = 201 => Has("live", Len(book["live"]), g)'
      BY <2>9, <2>10 DEF Has, Posting
    <3>2. g.answer.status = 201 => (\E s \in Sources : Has(s, g.since[s], g))'
      BY <1>1, <2>9, <2>11 DEF Has, Posting
    <3>. QED  BY <1>2, <2>4, <2>5, <2>8, <2>9, <3>1, <3>2 DEF GoesOn, Carried
  <2>. QED  BY <2>12, GoesOnKeeps
<1>. QED  BY <1>3, <1>4

\* The reads are in: what the page keeps of the send, and the next key.
LEMMA CompletesKeeps ==
    ASSUME TransactInv, NEW f \in sends, Completes(f)
    PROVE  TransactInv'
<1>1. /\ f \in Sends /\ f.key \in Nat /\ f.key <= key /\ f.key \in settled \cup {key}
      /\ key \in Nat /\ key # NULL /\ drawn = key
  BY DEF TransactInv, Types, PageTypes, SendTypes, Sends, KeysOK
<1>2. /\ sends' = sends \ {f} /\ book' = book /\ wallets' = wallets
      /\ selectedId' = selectedId /\ form' = form /\ pinned' = pinned
      /\ revision' = revision + 1 /\ refreshes' = Append(refreshes, Now')
  BY DEF Completes, Bump
<1>3. settled \subseteq settled' /\ (Ok(f) => f.key \in settled')
  BY DEF Completes
<1>4. MoneyOK' /\ AnswersOK' /\ FormOK' /\ PastVersions' = PastVersions
  BY <1>2 DEF TransactInv, MoneyOK, AnswersOK, Has, Posting, FormOK, PastVersions
<1>5. StoreTypes' /\ SendTypes'
  <2>1. PICK t : t = Now'
    OBVIOUS
  <2>2. t \in PastVersions
    <3>1. t = Now
      BY <1>2, <2>1 DEF Now
    <3>. QED  BY <3>1, LensAre DEF TransactInv, Types
  <2>3. refreshes' \in Seq(PastVersions)
    <3>1. refreshes \in Seq(PastVersions)
      BY DEF TransactInv, Types, StoreTypes
    <3>. QED  BY <1>2, <2>1, <2>2, <3>1, AppendProperties
  <2>. QED  BY <1>2, <1>4, <2>3 DEF TransactInv, Types, StoreTypes, SendTypes
<1>6. (KeyInUse' /\ key' = key) => KeyInUse
  BY <1>2 DEF KeyInUse, Used
<1>7. \A n \in 1 .. Len(book["live"]) :
         /\ book["live"][n].key \in Nat /\ book["live"][n].key <= key
         /\ book["live"][n].key \in {NULL, key} \cup settled
  BY LiveKeys DEF TransactInv, KeysOK
<1>8. \A g \in sends : g.key \in Nat /\ g.key <= key /\ g.key \in settled \cup {key}
  BY DEF TransactInv, Types, SendTypes, Sends, KeysOK
<1>9. CASE ~f.mounted
  <2>1. UNCHANGED <<attempts, busy, key, drawn>>
    BY <1>9 DEF Completes
  <2>2. PageTypes' /\ BusyOK'
    BY <1>2, <2>1 DEF TransactInv, Types, PageTypes, BusyOK
  <2>3. KeysOK'
    BY <1>2, <1>3, <1>6, <1>7, <1>8, <2>1 DEF TransactInv, KeysOK
  <2>. QED  BY <1>4, <1>5, <2>2, <2>3 DEF TransactInv, Types
<1>10. CASE f.mounted
  <2>1. /\ busy' = FALSE
        /\ attempts' = SubSeq(<<f.key>> \o attempts, 1,
                              IF Len(attempts) < AttemptsKept THEN Len(attempts) + 1
                              ELSE AttemptsKept)
    BY <1>10 DEF Completes, BusyAfter
  <2>2. \/ key' = key /\ drawn' = drawn
        \/ Ok(f) /\ key' = key + 1 /\ drawn' = drawn + 1
    BY <1>1, <1>10 DEF Completes, KeyAfter, Draw
  <2>3. \A g \in sends' : ~g.mounted
    BY <1>2, <1>10 DEF TransactInv, BusyOK
  <2>4. f.key # key => ~KeyInUse
    BY <1>10 DEF TransactInv, KeysOK
  <2>5. /\ attempts' \in Seq(Nat) /\ Len(attempts') <= AttemptsKept
        /\ attempts' # <<>> => attempts'[1] = f.key
    <3>1. PICK c : c = <<f.key>> \o attempts
      OBVIOUS
    <3>2. attempts \in Seq(Nat) /\ Len(attempts) \in Nat /\ Len(attempts) <= AttemptsKept
          /\ AttemptsKept \in Nat
      BY LenProperties, TransactAssumption DEF TransactInv, Types, PageTypes
    <3>3. <<f.key>> \in Seq(Nat) /\ Len(<<f.key>>) = 1 /\ <<f.key>>[1] = f.key
      BY <1>1
    <3>4. c \in Seq(Nat) /\ Len(c) = Len(attempts) + 1 /\ c[1] = f.key
      BY <3>1, <3>2, <3>3, ConcatProperties
    <3>5. PICK m \in Nat : m = IF Len(attempts) < AttemptsKept THEN Len(attempts) + 1
                               ELSE AttemptsKept
      BY <3>2
    <3>6. m <= AttemptsKept /\ m <= Len(c)
      BY <3>2, <3>4, <3>5
    <3>7. attempts' = SubSeq(c, 1, m)
      BY <2>1, <3>1, <3>5
    <3>8. \A i \in 1 .. m : i \in 1 .. Len(c)
      BY <3>4, <3>6
    <3>9. /\ attempts' \in Seq(Nat) /\ Len(attempts') = m
          /\ \A i \in 1 .. m : attempts'[i] = c[i]
      BY <3>4, <3>6, <3>7, SubSeqProperties
    <3>10. attempts' # <<>> => attempts'[1] = f.key
      <4>1. CASE m = 0
        BY <3>9, <4>1, EmptySeq
      <4>2. CASE m # 0
        BY <3>4, <3>9, <4>2
      <4>. QED  BY <4>1, <4>2
    <3>. QED  BY <3>6, <3>9, <3>10
  <2>6. PageTypes'
    <3>1. key' \in Nat /\ drawn' = key'
      BY <1>1, <2>2
    <3>2. form' \in Forms /\ pinned' \in BOOLEAN
      BY <1>2 DEF TransactInv, Types, PageTypes
    <3>. QED  BY <2>1, <2>5, <3>1, <3>2 DEF PageTypes
  <2>7. BusyOK'
    BY <2>3 DEF BusyOK
  <2>8. f.key # key' => ~KeyInUse'
    <3>1. CASE key' = key
      BY <1>6, <2>4, <3>1
    <3>2. CASE key' = key + 1
      <4>1. ~Used(key + 1)
        BY NextIsFresh DEF TransactInv
      <4>2. PICK k : k = key + 1
        OBVIOUS
      <4>3. ~Used(k) /\ key' = k
        BY <3>2, <4>1, <4>2
      <4>. QED  BY <1>2, <4>3 DEF KeyInUse, Used
    <3>. QED  BY <2>2, <3>1, <3>2
  <2>9. key' # NULL /\ key <= key' /\ key' \in Nat /\ (key \in settled' \/ key' = key \/ f.key # key)
    BY <1>1, <1>3, <2>2 DEF NULL
  <2>10. \A g \in sends' : g.key <= key' /\ g.key \in settled' \cup {key'}
    <3> SUFFICES ASSUME NEW g \in sends' PROVE g.key <= key' /\ g.key \in settled' \cup {key'}
      OBVIOUS
    <3>1. g \in sends
      BY <1>2
    <3>2. f.key # key => g.key # key
      BY <2>4, <3>1 DEF KeyInUse, Used
    <3>. QED  BY <1>1, <1>3, <1>8, <2>9, <3>1, <3>2
  <2>11. \A n \in 1 .. Len(book["live"]) :
            book["live"][n].key <= key' /\ book["live"][n].key \in {NULL, key'} \cup settled'
    <3> SUFFICES ASSUME NEW n \in 1 .. Len(book["live"])
                 PROVE  book["live"][n].key <= key' /\ book["live"][n].key \in {NULL, key'} \cup settled'
      OBVIOUS
    <3>1. f.key # key => book["live"][n].key # key
      BY <2>4 DEF KeyInUse, Used
    <3>. QED  BY <1>1, <1>3, <1>7, <2>9, <3>1
  <2>12. f.key <= key' /\ f.key \in settled' \cup {key'}
    BY <1>1, <1>3, <2>2, <2>9
  <2>13. KeysOK'
    BY <1>2, <2>3, <2>5, <2>8, <2>9, <2>10, <2>11, <2>12 DEF KeysOK
  <2>. QED  BY <1>4, <1>5, <2>6, <2>7, <2>13 DEF TransactInv, Types
<1>. QED  BY <1>9, <1>10

-----------------------------------------------------------------------------
(* The invariant *)

\* Nothing but the opening of wallets has been posted, so every balance is zero.
LEMMA InitHolds ==
    ASSUME Init
    PROVE  TransactInv
<1>1. \A s \in Sources : /\ book[s] \in Seq(Entries) /\ Len(book[s]) \in Nat
                         /\ \A n \in 1 .. Len(book[s]) : \E w \in Nat : book[s][n] = Opens(w)
  <2> SUFFICES ASSUME NEW s \in Sources
               PROVE  /\ book[s] \in Seq(Entries) /\ Len(book[s]) \in Nat
                      /\ \A n \in 1 .. Len(book[s]) : \E w \in Nat : book[s][n] = Opens(w)
    OBVIOUS
  <2> DEFINE seeded == IF s = "live" THEN LiveWallets ELSE SimWallets
  <2>1. PICK ids \in Seq(Nat) : ids = seeded
    BY ConsoleAssumption
  <2>2. book[s] = [n \in DOMAIN ids |-> Opens(ids[n])]
    BY <2>1 DEF Init, StoreInit
  <2>3. DOMAIN ids = 1 .. Len(ids) /\ Len(ids) \in Nat
    BY LenProperties
  <2>4. \A n \in 1 .. Len(ids) : ids[n] \in Nat \ {NULL}
    <3> SUFFICES ASSUME NEW n \in 1 .. Len(ids)
                 PROVE  ids[n] \in Nat \ {NULL}
      OBVIOUS
    <3>1. ids[n] \in Nat
      BY ElementOfSeq
    <3>2. ids[n] \in IdsOf(s)
      BY <2>1 DEF IdsOf
    <3>3. NULL \notin IdsOf(s)
      BY ConsoleAssumption
    <3>. QED  BY <3>1, <3>2, <3>3
  <2>5. \A w \in Nat \ {NULL} : Opens(w) \in Entries
    BY DEF Opens, Entries, NULL
  <2>6. book[s] \in [1 .. Len(ids) -> Entries]
    BY <2>2, <2>3, <2>4, <2>5
  <2>7. book[s] \in Seq(Entries) /\ Len(book[s]) = Len(ids)
    BY <2>3, <2>6, LenProperties, IsASeq
  <2>. QED  BY <2>2, <2>3, <2>4, <2>7
<1>2. book \in [Sources -> Seq(Entries)]
  BY <1>1 DEF Init, StoreInit
<1>3. Now \in PastVersions
  BY <1>1 DEF Now, PastVersions, Versions
<1>4. StoreTypes
  <2>1. refreshes \in Seq(PastVersions)
    BY <1>3 DEF Init, StoreInit
  <2>. QED  BY <1>2, <2>1 DEF Init, StoreInit, StoreTypes, Unprobed, AnswerSet, NULL
<1>5. PageTypes /\ FormOK
  <2>1. form = [kind |-> "transfer", from |-> NULL, to |-> NULL, target |-> NULL]
    BY DEF Init, StoreInit, NewForm, selected
  <2>2. form \in Forms
    BY <2>1 DEF Forms, AllKinds, NULL
  <2>3. attempts \in Seq(Nat) /\ Len(attempts) <= AttemptsKept
    BY EmptySeq, TransactAssumption DEF Init
  <2>4. key \in Nat /\ drawn = key /\ pinned \in BOOLEAN /\ busy \in BOOLEAN
    BY DEF Init
  <2>5. FormOK
    BY <2>1 DEF FormOK
  <2>. QED  BY <2>2, <2>3, <2>4, <2>5 DEF PageTypes
<1>6. SendTypes /\ BusyOK /\ AnswersOK
  BY DEF Init, SendTypes, BusyOK, AnswersOK
<1>7. KeysOK
  <2>1. \A n \in 1 .. Len(book["live"]) : book["live"][n].key = NULL
    <3>1. "live" \in Sources
      BY DEF Sources
    <3>2. \A w : Opens(w).key = NULL
      BY DEF Opens
    <3>. QED  BY <1>1, <3>1, <3>2
  <2>. QED  BY <2>1 DEF Init, KeysOK, NULL
<1>8. MoneyOK
  <2> SUFFICES ASSUME NEW s \in Sources, NEW w \in Nat \ {NULL}
               PROVE  \A n \in 0 .. Len(book[s]) : BalanceAt(book[s], w)[n] \in Nat
    BY DEF MoneyOK
  <2>1. PICK e \in Seq(Entries) : e = book[s]
    BY <1>1
  <2>2. PICK N \in Nat : N = Len(e)
    BY <1>1, <2>1
  <2>3. PICK B : B = BalanceAt(e, w)
    OBVIOUS
  <2>4. B[0] = 0 /\ \A n \in 1 .. N : B[n] = B[n - 1] + Signed(e[n], w)
    BY <2>2, <2>3, BalanceSteps
  <2>5. \A n \in 1 .. N : Signed(e[n], w) = 0
    <3>1. \A v \in Nat : Signed(Opens(v), w) = 0
      BY DEF Signed, Opens
    <3>. QED  BY <1>1, <2>1, <2>2, <3>1
  <2> DEFINE S == {n \in 0 .. N : B[n] = 0}
  <2>6. 0 .. N \subseteq S
    <3>1. 0 \in S
      BY <2>4
    <3>2. ASSUME NEW n \in 0 .. N - 1, n \in S PROVE n + 1 \in S
      <4>1. n + 1 \in 1 .. N /\ n + 1 - 1 = n
        OBVIOUS
      <4>. QED  BY <2>4, <2>5, <3>2, <4>1
    <3>. HIDE DEF S
    <3>. QED  BY <3>1, <3>2, P!Induction
  <2>. QED  BY <2>1, <2>2, <2>3, <2>6
<1>. QED  BY <1>4, <1>5, <1>6, <1>7, <1>8 DEF TransactInv, Types

LEMMA NextKeeps ==
    ASSUME TransactInv, [Next]_vars
    PROVE  TransactInv'
<1>1. CASE StoreChanges \/ Edit
  BY <1>1, QuietKeep
<1>2. CASE TogglePin \/ Clear
  BY <1>2, SmallKeep
<1>3. CASE NewKey \/ Remount
  BY <1>3, DrawKeeps
<1>4. CASE Submit \/ RetryLast
  BY <1>4, SendKeeps
<1>5. CASE SendStep
  <2>1. PICK f \in sends : Lands(f) \/ Replies(f) \/ FallsBack(f) \/ Completes(f)
    BY <1>5 DEF SendStep
  <2>. QED  BY <2>1, LandsKeeps, RepliesKeeps, FallsBackKeeps, CompletesKeeps
<1>6. CASE UNCHANGED vars
  BY <1>6 DEF vars, store_vars, page_vars, TransactInv, Types, StoreTypes, PageTypes, SendTypes,
              PastVersions, FormOK, BusyOK, KeysOK, KeyInUse, Used, AnswersOK, Has, Posting, MoneyOK
<1>. QED  BY <1>1, <1>2, <1>3, <1>4, <1>5, <1>6 DEF Next

\* The page and its store keep their types, the form is sound and busy with its one
\* send, keys are used as they should, replies are true and no balance is negative.
THEOREM TransactInductive == Spec => []TransactInv
<1>1. Init => TransactInv
  BY InitHolds
<1>2. TransactInv /\ [Next]_vars => TransactInv'
  BY NextKeeps
<1>. QED  BY <1>1, <1>2, PTL DEF Spec

\* What TransactPage keeps: a form that pays no wallet from itself, a key that was
\* drawn, at most one send of the page in flight, a table of bounded length.
THEOREM TransactTypeCorrect == Spec => []TypeOK
<1>1. TransactInv => TypeOK
  <2> SUFFICES ASSUME TransactInv PROVE TypeOK
    OBVIOUS
  <2>1. Cardinality({f \in sends : f.mounted}) <= 1
    <3>1. CASE \A f \in sends : ~f.mounted
      <4>1. {f \in sends : f.mounted} = {}
        BY <3>1
      <4>. QED  BY <4>1, FS_EmptySet
    <3>2. CASE \E f \in sends : f.mounted
      <4>1. PICK f \in sends : f.mounted
        BY <3>2
      <4>2. {g \in sends : g.mounted} = {f}
        BY <4>1 DEF TransactInv, BusyOK
      <4>3. Cardinality({f}) = 1
        BY FS_Singleton
      <4>. QED  BY <4>2, <4>3
    <3>. QED  BY <3>1, <3>2
  <2>2. key \in 1 .. drawn
    BY DEF TransactInv, Types, PageTypes, KeysOK, NULL
  <2>. QED  BY <2>1, <2>2 DEF TransactInv, Types, PageTypes, FormOK, BusyOK, TypeOK
<1>. QED  BY <1>1, TransactInductive, PTL

\* "Move money, exactly once" (the title of TransactPage): a movement the backend has made and the
\* user was not told of is under the current key, or one whose answer is to come, or
\* one the user gave up; the next submit claims it and does not move money again.
THEOREM RetryStillPossibleHolds == Spec => []RetryStillPossible
<1>1. TransactInv => RetryStillPossible
  <2> SUFFICES ASSUME TransactInv, NEW n \in DOMAIN book["live"]
               PROVE  book["live"][n].key \in {NULL, key} \cup settled \cup {f.key : f \in sends}
    BY DEF RetryStillPossible
  <2>1. n \in 1 .. Len(book["live"])
    <3>1. "live" \in Sources
      BY DEF Sources
    <3>. QED  BY <3>1, LensAre, LenProperties DEF TransactInv, Types
  <2>. QED  BY <2>1 DEF TransactInv, KeysOK
<1>. QED  BY <1>1, TransactInductive, PTL

\* The balances TransactPage shows after an answer of 201 include the movement.
THEOREM AfterIncludesPostingHolds == Spec => []AfterIncludesPosting
<1>1. TransactInv => AfterIncludesPosting
  BY DEF TransactInv, AnswersOK, Has, AfterIncludesPosting
<1>. QED  BY <1>1, TransactInductive, PTL

\* Every balance shown is a natural number of cents, and money and parseAmount are
\* inverse to each other on those, whatever is left of the digits behind the point.
THEOREM AmountsRoundTripHolds == Spec => []AmountsRoundTrip
<1>1. TransactInv => AmountsRoundTrip
  <2> SUFFICES ASSUME TransactInv, NEW w \in Ids(wallets)
               PROVE  LET minor == Balance(wallets, w)
                      IN  /\ ParseMinor(Shown(minor)) = minor
                          /\ ParseMinor([Shown(minor) EXCEPT !.cents = <<@[1]>>]) = (minor \div 10) * 10
                          /\ ParseMinor([Shown(minor) EXCEPT !.cents = <<>>]) = (minor \div 100) * 100
    BY DEF AmountsRoundTrip
  <2>1. PICK m \in Nat : m = Balance(wallets, w)
    BY ShownBalances DEF TransactInv, Types
  <2>2. RoundTrips(m)
    BY AmountRoundTrips
  <2>. QED  BY <2>1, <2>2 DEF RoundTrips
<1>. QED  BY <1>1, TransactInductive, PTL

=============================================================================
