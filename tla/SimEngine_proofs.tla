-------------------------- MODULE SimEngine_proofs --------------------------
(***************************************************************************)
(* Theorems about SimEngine for every number of wallets, keys and calls,   *)
(* and every seed, checked by TLAPS: its books agree at every moment, and  *)
(* calls that use one key post it at most once.                            *)
(***************************************************************************)
EXTENDS SimEngine, Postings_proofs

-----------------------------------------------------------------------------
(* The entries of one wallet *)

Sifts(f, es, w, E) ==
    /\ f \in [0 .. Len(es) -> Seq(E)]
    /\ f[0] = <<>>
    /\ \A n \in 1 .. Len(es) :
         f[n] = IF es[n].wallet = w THEN Append(f[n - 1], es[n]) ELSE f[n - 1]

\* EntriesOf is what its definition says, entry by entry.
LEMMA EntriesOfSteps ==
    ASSUME NEW E, NEW d, d.entries \in Seq(E), NEW w
    PROVE  \E f : Sifts(f, d.entries, w, E) /\ EntriesOf(d, w) = f[Len(d.entries)]
<1> DEFINE es == d.entries
           N == Len(es)
           X == Seq(E)
           More(s, n) == IF es[n].wallet = w THEN Append(s, es[n]) ELSE s
           G == [p \in X \X (1 .. N) |-> More(p[1], p[2])]
           Fits(f) == f = [n \in 0 .. N |-> IF n = 0 THEN <<>> ELSE More(f[n - 1], n)]
           mine == CHOOSE f : Fits(f)
<1>0. N \in Nat /\ <<>> \in X
  OBVIOUS
<1>1. \A s \in X, n \in 1 .. N : More(s, n) \in X
  <2> SUFFICES ASSUME NEW s \in Seq(E), NEW n \in 1 .. N PROVE More(s, n) \in Seq(E)
    OBVIOUS
  <2>1. es[n] \in E
    OBVIOUS
  <2>2. Append(s, es[n]) \in Seq(E)
    BY <2>1
  <2>. QED  BY <2>2
<1>2. G \in [X \X (1 .. N) -> X]
  <2>. HIDE DEF X, More, N
  <2>. QED  BY <1>1
<1>3. PICK f \in [0 .. N -> X] :
         f[0] = <<>> /\ \A n \in 1 .. N : f[n] = G[<<f[n - 1], n>>]
  <2>. HIDE DEF G, N, X
  <2>1. \E f : Unfolds(f, N, X, <<>>, G)
    BY <1>0, <1>2, Recursion
  <2>. QED  BY <2>1 DEF Unfolds
<1>4. ASSUME NEW n \in 1 .. N PROVE f[n] = More(f[n - 1], n)
  <2>1. n - 1 \in 0 .. N
    BY <1>0
  <2>2. f[n - 1] \in X
    <3>. HIDE DEF X, N
    <3>. QED  BY <2>1
  <2>. HIDE DEF X, N, More
  <2>. QED  BY <1>3, <2>2
<1>5. Fits(f)
  <2>. HIDE DEF More, X
  <2>. QED  BY <1>3, <1>4
<1>6. Fits(mine)
  <2>. HIDE DEF Fits
  <2>. QED  BY <1>5
<1>7. /\ mine[0] = <<>>
      /\ \A n \in 1 .. N : mine[n] = More(mine[n - 1], n)
      /\ mine = [n \in 0 .. N |-> mine[n]]
  <2>. HIDE DEF mine, More
  <2>1. DOMAIN mine = 0 .. N
    BY <1>6
  <2>2. mine[0] = <<>>
    BY <1>0, <1>6
  <2>3. ASSUME NEW n \in 1 .. N PROVE mine[n] = More(mine[n - 1], n)
    <3>1. n \in 0 .. N /\ n # 0
      BY <1>0
    <3>2. \A k \in 0 .. N : mine[k] = IF k = 0 THEN <<>> ELSE More(mine[k - 1], k)
      <4>. HIDE DEF N
      <4>. QED  BY <1>6
    <3>. HIDE DEF Fits, N
    <3>. QED  BY <3>1, <3>2
  <2>. HIDE DEF Fits
  <2>4. mine = [n \in 0 .. N |-> mine[n]]
    BY <1>6, <2>1 DEF Fits
  <2>. QED  BY <2>2, <2>3, <2>4
<1>8. \A n \in 0 .. N : mine[n] \in X
  <2> DEFINE S == {n \in 0 .. N : mine[n] \in X}
  <2>. HIDE DEF mine, More, X, N
  <2>1. 0 \in S
    BY <1>0, <1>7
  <2>2. ASSUME NEW n \in 0 .. N - 1, n \in S PROVE n + 1 \in S
    <3>1. n + 1 \in 1 .. N /\ n + 1 \in 0 .. N /\ (n + 1) - 1 = n
      BY <1>0
    <3>2. mine[n + 1] = More(mine[n], n + 1)
      BY <1>7, <3>1
    <3>. QED  BY <1>1, <2>2, <3>1, <3>2
  <2>3. 0 .. N \subseteq S
    <3>. HIDE DEF S
    <3>. QED  BY <1>0, <2>1, <2>2, Induction
  <2>. QED  BY <2>3
<1>9. EntriesOf(d, w) = mine[N]
  BY DEF EntriesOf
<1>. HIDE DEF mine
<1>10. Sifts(mine, es, w, E)
  BY <1>7, <1>8 DEF Sifts
<1>. QED  BY <1>9, <1>10

LEMMA EntriesOfType ==
    ASSUME NEW E, NEW d, d.entries \in Seq(E), NEW w
    PROVE  EntriesOf(d, w) \in Seq(E)
<1>1. PICK f : Sifts(f, d.entries, w, E) /\ EntriesOf(d, w) = f[Len(d.entries)]
  BY EntriesOfSteps
<1>2. Len(d.entries) \in 0 .. Len(d.entries)
  OBVIOUS
<1>. QED  BY <1>1, <1>2 DEF Sifts

\* A wallet that no entry names has none.
LEMMA EntriesOfNobody ==
    ASSUME NEW E, NEW d, d.entries \in Seq(E), NEW w,
           \A n \in 1 .. Len(d.entries) : d.entries[n].wallet # w
    PROVE  EntriesOf(d, w) = <<>>
<1> DEFINE N == Len(d.entries)
<1>1. PICK f : Sifts(f, d.entries, w, E) /\ EntriesOf(d, w) = f[N]
  BY EntriesOfSteps
<1> DEFINE S == {n \in 0 .. N : f[n] = <<>>}
<1>2. N \in Nat
  OBVIOUS
<1>3. 0 \in S
  BY <1>1, <1>2 DEF Sifts
<1>4. ASSUME NEW n \in 0 .. N - 1, n \in S PROVE n + 1 \in S
  <2>1. n + 1 \in 1 .. N /\ n + 1 \in 0 .. N /\ (n + 1) - 1 = n
    BY <1>2
  <2>2. f[n + 1] = f[n]
    BY <1>1, <2>1 DEF Sifts
  <2>. QED  BY <1>4, <2>1, <2>2
<1>5. 0 .. N \subseteq S
  <2>. HIDE DEF S, N
  <2>. QED  BY <1>2, <1>3, <1>4, Induction
<1>. QED  BY <1>1, <1>2, <1>5

\* An entry is added to those of its own wallet and of no other.
LEMMA EntriesOfAppend ==
    ASSUME NEW E, NEW d, d.entries \in Seq(E), NEW e \in E, NEW w,
           NEW c, c.entries = Append(d.entries, e)
    PROVE  EntriesOf(c, w) = IF e.wallet = w THEN Append(EntriesOf(d, w), e)
                             ELSE EntriesOf(d, w)
<1> DEFINE N == Len(d.entries)
<1>1. /\ N \in Nat /\ c.entries \in Seq(E) /\ Len(c.entries) = N + 1
      /\ c.entries[N + 1] = e /\ \A n \in 1 .. N : c.entries[n] = d.entries[n]
  OBVIOUS
<1>2. PICK f : Sifts(f, d.entries, w, E) /\ EntriesOf(d, w) = f[N]
  BY EntriesOfSteps
<1>3. PICK g : Sifts(g, c.entries, w, E) /\ EntriesOf(c, w) = g[N + 1]
  <2>1. PICK g : Sifts(g, c.entries, w, E) /\ EntriesOf(c, w) = g[Len(c.entries)]
    BY <1>1, EntriesOfSteps
  <2>. QED  BY <1>1, <2>1
<1>4. /\ f[0] = <<>>
      /\ \A n \in 1 .. N : f[n] = IF d.entries[n].wallet = w
                                  THEN Append(f[n - 1], d.entries[n]) ELSE f[n - 1]
  BY <1>2 DEF Sifts
<1>5. /\ g[0] = <<>>
      /\ \A n \in 1 .. N + 1 : g[n] = IF c.entries[n].wallet = w
                                      THEN Append(g[n - 1], c.entries[n]) ELSE g[n - 1]
  BY <1>1, <1>3 DEF Sifts
<1> DEFINE S == {n \in 0 .. N : g[n] = f[n]}
<1>6. 0 \in S
  BY <1>1, <1>4, <1>5
<1>7. ASSUME NEW n \in 0 .. N - 1, n \in S PROVE n + 1 \in S
  <2>1. /\ n + 1 \in 1 .. N /\ n + 1 \in 1 .. N + 1 /\ n + 1 \in 0 .. N
        /\ (n + 1) - 1 = n
    BY <1>1
  <2>2. g[n + 1] = f[n + 1]
    BY <1>1, <1>4, <1>5, <1>7, <2>1
  <2>. QED  BY <2>1, <2>2
<1>8. g[N] = f[N]
  <2>1. 0 .. N \subseteq S
    <3>. HIDE DEF S, N
    <3>. QED  BY <1>1, <1>6, <1>7, Induction
  <2>. QED  BY <1>1, <2>1
<1>9. N + 1 \in 1 .. N + 1 /\ (N + 1) - 1 = N
  BY <1>1
<1>. QED  BY <1>1, <1>2, <1>3, <1>5, <1>8, <1>9

-----------------------------------------------------------------------------
(* One side of a commit *)

WalletRecords == [balance : Int, version : Nat]
EntryRecords == [tx : Nat, wallet : Wallets \cup {NULL}, direction : {"debit", "credit"},
                 amount : Nat, balance_after : Int, prev : Nat]

DBType(d) ==
    /\ d = [wallets |-> d.wallets, txs |-> d.txs, entries |-> d.entries]
    /\ SeedWallets \subseteq DOMAIN d.wallets /\ DOMAIN d.wallets \subseteq Wallets
    /\ d.wallets \in [DOMAIN d.wallets -> WalletRecords]
    /\ d.txs \in Seq(MoneyRequests)
    /\ d.entries \in Seq(EntryRecords)

BalanceOf(es) == SumOf([n \in 1 .. Len(es) |-> SignedAmount(es[n])])

\* The entries of a wallet add up to its balance, end with it, and are counted.
Tells(es, wallet) ==
    /\ BalanceOf(es) = wallet.balance
    /\ Len(es) = wallet.version
    /\ es # <<>> => es[Len(es)].balance_after = wallet.balance

\* What holds of the books between the two sides of a commit too.
Sound(d) ==
    /\ DBType(d)
    /\ \A n \in 1 .. Len(d.entries) :
         /\ d.entries[n].prev = n - 1
         /\ d.entries[n].wallet \in DOMAIN d.wallets \cup {NULL}
    /\ \A w \in DOMAIN d.wallets : Tells(EntriesOf(d, w), d.wallets[w])

LEMMA SignedAmountType == \A e \in EntryRecords : SignedAmount(e) \in Int
BY DEF EntryRecords, SignedAmount

LEMMA BalanceOfAppend ==
    ASSUME NEW es \in Seq(EntryRecords), NEW e \in EntryRecords
    PROVE  /\ BalanceOf(Append(es, e)) = BalanceOf(es) + SignedAmount(e)
           /\ BalanceOf(es) \in Int
<1> DEFINE V(x) == [n \in 1 .. Len(x) |-> SignedAmount(x[n])]
<1>1. ASSUME NEW x \in Seq(EntryRecords)
      PROVE  /\ V(x) \in Seq(Int) /\ Len(V(x)) = Len(x)
             /\ \A n \in 1 .. Len(x) : V(x)[n] = SignedAmount(x[n])
  <2>1. \A n \in 1 .. Len(x) : SignedAmount(x[n]) \in Int
    BY SignedAmountType
  <2>2. V(x) \in [1 .. Len(x) -> Int] /\ Len(x) \in Nat
    BY <2>1
  <2>3. V(x) \in Seq(Int) /\ Len(V(x)) = Len(x)
    BY <2>2, ListOf
  <2>. QED  BY <2>3
<1>2. PICK c \in Seq(EntryRecords) : c = Append(es, e)
  <2>1. Append(es, e) \in Seq(EntryRecords)
    OBVIOUS
  <2>. QED  BY <2>1
<1>3. /\ Len(c) = Len(es) + 1 /\ Len(es) \in Nat
      /\ \A n \in 1 .. Len(es) : c[n] = es[n]
      /\ c[Len(es) + 1] = e
  BY <1>2
<1>. HIDE DEF V
<1>4. PICK a \in Int : a = SignedAmount(e)
  BY SignedAmountType
<1>5. PICK q \in Seq(Int) : q = <<a>>
  <2>1. <<a>> \in Seq(Int)
    OBVIOUS
  <2>. QED  BY <2>1
<1>6. Len(q) = 1 /\ q[1] = a /\ SumOf(q) = a
  BY <1>5, SumOfOne
<1>7. PICK p \in Seq(Int) : p = V(es)
  BY <1>1
<1>8. PICK r \in Seq(Int) : r = V(c)
  BY <1>1
<1>9. /\ Len(r) = Len(p) + Len(q)
      /\ \A i \in 1 .. Len(p) : r[i] = p[i]
      /\ \A i \in 1 .. Len(q) : r[Len(p) + i] = q[i]
  <2>1. Len(p) = Len(es) /\ \A n \in 1 .. Len(es) : p[n] = SignedAmount(es[n])
    BY <1>1, <1>7
  <2>2. Len(r) = Len(c) /\ \A n \in 1 .. Len(c) : r[n] = SignedAmount(c[n])
    BY <1>1, <1>8
  <2>3. \A i \in 1 .. Len(p) : i \in 1 .. Len(c) /\ r[i] = p[i]
    BY <1>3, <2>1, <2>2
  <2>4. Len(es) + 1 \in 1 .. Len(c) /\ r[Len(p) + 1] = a
    BY <1>3, <1>4, <2>1, <2>2
  <2>. QED  BY <1>3, <1>6, <2>1, <2>2, <2>3, <2>4
<1>10. SumOf(r) = SumOf(p) + SumOf(q)
  BY <1>9, SumParts
<1>11. SumOf(p) \in Int
  BY SumType
<1>. QED  BY <1>2, <1>4, <1>6, <1>7, <1>8, <1>10, <1>11 DEF BalanceOf, V

LegPosts(d, tx, w, direction, a, c) ==
    /\ Sound(c)
    /\ c.txs = d.txs /\ DOMAIN c.wallets = DOMAIN d.wallets
    /\ \A v \in DOMAIN d.wallets :
         c.wallets[v].balance = d.wallets[v].balance + (IF v = w THEN a ELSE 0)
    /\ \E e \in EntryRecords :
         /\ c.entries = Append(d.entries, e)
         /\ e.tx = tx /\ e.direction = direction /\ e.wallet = w
         /\ e.amount = d.txs[tx].amount

\* A side of a commit posts one entry and keeps the books sound.
LEMMA LegKeeps ==
    ASSUME NEW d, Sound(d), NEW tx \in 1 .. Len(d.txs), d.txs[tx].amount \in Nat,
           NEW w \in DOMAIN d.wallets \cup {NULL}, NEW direction \in {"debit", "credit"},
           NEW c, c = Leg(d, tx, w, direction),
           NEW a, a = IF direction = "debit" THEN -d.txs[tx].amount ELSE d.txs[tx].amount
    PROVE  LegPosts(d, tx, w, direction, a, c)
<1> DEFINE m == d.txs[tx].amount
<1>1. /\ d.entries \in Seq(EntryRecords) /\ Len(d.entries) \in Nat
      /\ d.wallets \in [DOMAIN d.wallets -> WalletRecords]
      /\ DOMAIN d.wallets \subseteq Wallets
      /\ d = [wallets |-> d.wallets, txs |-> d.txs, entries |-> d.entries]
      /\ d.txs \in Seq(MoneyRequests) /\ tx \in Nat /\ a \in Int
      /\ SeedWallets \subseteq DOMAIN d.wallets
  BY DEF Sound, DBType
<1>2. NULL \notin Wallets
  BY SimAssumption
<1>3. PICK after \in Int, e \in EntryRecords :
        /\ e = [tx |-> tx, wallet |-> w, direction |-> direction, amount |-> m,
                balance_after |-> after, prev |-> Len(d.entries)]
        /\ c.entries = Append(d.entries, e)
        /\ c.txs = d.txs
        /\ c = [wallets |-> c.wallets, txs |-> c.txs, entries |-> c.entries]
        /\ DOMAIN c.wallets = DOMAIN d.wallets
        /\ c.wallets \in [DOMAIN d.wallets -> WalletRecords]
        /\ \A v \in DOMAIN d.wallets : v # w => c.wallets[v] = d.wallets[v]
        /\ w # NULL => /\ c.wallets[w].balance = d.wallets[w].balance + a
                       /\ c.wallets[w].version = d.wallets[w].version + 1
                       /\ after = c.wallets[w].balance
  <2> DEFINE E(after) == [tx |-> tx, wallet |-> w, direction |-> direction, amount |-> m,
                          balance_after |-> after, prev |-> Len(d.entries)]
  <2>1. \A after \in Int : E(after) \in EntryRecords
    BY <1>1 DEF EntryRecords
  <2>2. CASE w = NULL
    <3>1. c = [d EXCEPT !.entries = Append(@, E(0))]
      BY <2>2 DEF Leg, Post, SYSTEM_ACCOUNT
    <3>2. /\ c.entries = Append(d.entries, E(0)) /\ c.txs = d.txs /\ c.wallets = d.wallets
          /\ c = [wallets |-> c.wallets, txs |-> c.txs, entries |-> c.entries]
      BY <1>1, <3>1
    <3>3. PICK e \in EntryRecords : e = E(0)
      <4>1. E(0) \in EntryRecords
        BY <2>1
      <4>. HIDE DEF E
      <4>. QED  BY <4>1
    <3>4. c.entries = Append(d.entries, e)
      BY <3>2, <3>3
    <3>5. 0 \in Int
      OBVIOUS
    <3>. QED  BY <1>1, <2>2, <3>2, <3>3, <3>4, <3>5
  <2>3. CASE w # NULL
    <3> DEFINE moved == [d EXCEPT !.wallets[w] = [balance |-> @.balance + a,
                                                 version |-> @.version + 1]]
               after == moved.wallets[w].balance
    <3>1. w \in DOMAIN d.wallets /\ d.wallets[w] \in WalletRecords
      BY <1>1, <2>3
    <3>2. m * (IF direction = "debit" THEN -1 ELSE 1) = a
      BY <1>1
    <3>3. c = Post(moved, tx, w, direction, after)
      BY <2>3, <3>2 DEF Leg
    <3> DEFINE W == [v \in DOMAIN d.wallets |->
                       IF v = w THEN [balance |-> d.wallets[w].balance + a,
                                      version |-> d.wallets[w].version + 1]
                       ELSE d.wallets[v]]
    <3>12. moved = [wallets |-> W, txs |-> d.txs, entries |-> d.entries]
      <4>1. moved = [d EXCEPT !.wallets = W]
        BY <1>1, <3>1
      <4>. HIDE DEF W, moved
      <4>. QED  BY <1>1, <4>1
    <3>4. /\ moved.txs = d.txs /\ moved.entries = d.entries
          /\ DOMAIN moved.wallets = DOMAIN d.wallets
          /\ moved = [wallets |-> moved.wallets, txs |-> moved.txs,
                      entries |-> moved.entries]
          /\ \A v \in DOMAIN d.wallets : v # w => moved.wallets[v] = d.wallets[v]
      <4>. HIDE DEF moved
      <4>. QED  BY <3>12
    <3>5. /\ moved.wallets[w].balance = d.wallets[w].balance + a
          /\ moved.wallets[w].version = d.wallets[w].version + 1
          /\ moved.wallets[w] \in WalletRecords
      <4>. HIDE DEF moved
      <4>. QED  BY <1>1, <3>1, <3>12 DEF WalletRecords
    <3>6. moved.wallets \in [DOMAIN d.wallets -> WalletRecords]
      <4>1. moved.wallets = [v \in DOMAIN d.wallets |-> moved.wallets[v]]
        <5>. HIDE DEF moved
        <5>. QED  BY <3>12
      <4>2. \A v \in DOMAIN d.wallets : moved.wallets[v] \in WalletRecords
        BY <1>1, <3>4, <3>5
      <4>. HIDE DEF moved
      <4>. QED  BY <4>1, <4>2
    <3>7. after \in Int
      BY <3>5 DEF WalletRecords
    <3>. HIDE DEF moved
    <3>8. c = [moved EXCEPT !.entries = Append(@, E(after))]
      BY <3>3, <3>4 DEF Post
    <3>9. /\ c.entries = Append(d.entries, E(after)) /\ c.txs = d.txs
          /\ c.wallets = moved.wallets
          /\ c = [wallets |-> c.wallets, txs |-> c.txs, entries |-> c.entries]
      BY <3>4, <3>8
    <3>10. E(after) \in EntryRecords
      BY <2>1, <3>7
    <3>11. PICK k \in Int : k = after
      BY <3>7
    <3>. HIDE DEF E, after
    <3>. QED  BY <3>4, <3>5, <3>6, <3>9, <3>10, <3>11 DEF E, after
  <2>. QED  BY <2>2, <2>3
<1>4. e.wallet = w /\ e.prev = Len(d.entries) /\ e.balance_after = after
      /\ e.tx = tx /\ e.direction = direction /\ e.amount = m /\ SignedAmount(e) = a
  BY <1>3 DEF SignedAmount
<1>5. DBType(c)
  <2>1. c.entries \in Seq(EntryRecords)
    BY <1>1, <1>3
  <2>. QED  BY <1>1, <1>3, <2>1 DEF DBType
<1>6. ASSUME NEW n \in 1 .. Len(c.entries)
      PROVE  c.entries[n].prev = n - 1 /\ c.entries[n].wallet \in DOMAIN c.wallets \cup {NULL}
  <2>1. Len(c.entries) = Len(d.entries) + 1
    BY <1>1, <1>3
  <2>2. CASE n \in 1 .. Len(d.entries)
    <3>1. c.entries[n] = d.entries[n]
      BY <1>1, <1>3, <2>2
    <3>. QED  BY <1>3, <2>2, <3>1 DEF Sound
  <2>3. CASE n = Len(d.entries) + 1
    <3>1. c.entries[n] = e
      BY <1>1, <1>3, <2>3
    <3>. QED  BY <1>1, <1>3, <1>4, <2>3, <3>1
  <2>. QED  BY <1>1, <2>1, <2>2, <2>3
<1>7. ASSUME NEW v \in DOMAIN c.wallets
      PROVE  Tells(EntriesOf(c, v), c.wallets[v])
  <2> DEFINE es == EntriesOf(d, v)
  <2>1. v \in DOMAIN d.wallets /\ v # NULL /\ es \in Seq(EntryRecords)
    BY <1>1, <1>2, <1>3, EntriesOfType
  <2>2. Tells(es, d.wallets[v])
    BY <2>1 DEF Sound
  <2>3. EntriesOf(c, v) = IF v = w THEN Append(es, e) ELSE es
    <3>1. EntriesOf(c, v) = IF e.wallet = v THEN Append(es, e) ELSE es
      <4>1. c.entries = Append(d.entries, e) /\ d.entries \in Seq(EntryRecords)
        BY <1>1, <1>3
      <4>. HIDE DEF es
      <4>. QED  BY <4>1, EntriesOfAppend DEF es
    <3>. QED  BY <1>4, <3>1
  <2>. HIDE DEF es
  <2>4. CASE v # w
    BY <1>3, <2>1, <2>2, <2>3, <2>4
  <2>5. CASE v = w
    <3>1. BalanceOf(Append(es, e)) = BalanceOf(es) + a /\ BalanceOf(es) \in Int
      BY <1>4, <2>1, BalanceOfAppend
    <3>2. /\ Len(Append(es, e)) = Len(es) + 1
          /\ Append(es, e)[Len(Append(es, e))] = e
      BY <2>1
    <3>3. c.wallets[v].balance = d.wallets[v].balance + a
          /\ c.wallets[v].version = d.wallets[v].version + 1 /\ after = c.wallets[v].balance
      BY <1>3, <2>1, <2>5
    <3>. QED  BY <1>4, <2>2, <2>3, <2>5, <3>1, <3>2, <3>3 DEF Tells
  <2>. QED  BY <2>4, <2>5
<1>8. Sound(c)
  BY <1>5, <1>6, <1>7 DEF Sound
<1>9. ASSUME NEW v \in DOMAIN d.wallets
      PROVE  c.wallets[v].balance = d.wallets[v].balance + (IF v = w THEN a ELSE 0)
  <2>1. d.wallets[v].balance \in Int /\ v # NULL
    BY <1>1, <1>2 DEF WalletRecords
  <2>. QED  BY <1>3, <2>1
<1>. QED  BY <1>3, <1>4, <1>8, <1>9 DEF LegPosts

-----------------------------------------------------------------------------
(* A commit *)

Paired(d) ==
    /\ Len(d.entries) = 2 * Len(d.txs)
    /\ \A n \in 1 .. Len(d.txs) :
         LET debit == d.entries[2 * n - 1]
             credit == d.entries[2 * n]
         IN  /\ debit.tx = n /\ debit.direction = "debit"
             /\ credit.tx = n /\ credit.direction = "credit"
             /\ debit.amount = credit.amount /\ debit.wallet # credit.wallet

Book(d) ==
    /\ Sound(d)
    /\ Paired(d)
    /\ \A n \in 1 .. Len(d.txs) : d.txs[n].amount \in Nat \ {0}

\* The requests a commit is made for.
Postable(d) == {r \in MoneyRequests : /\ {r.from, r.to} \subseteq DOMAIN d.wallets \cup {NULL}
                                      /\ r.from # r.to /\ r.amount > 0}

Change(r, v) == IF v = r.from THEN -r.amount ELSE IF v = r.to THEN r.amount ELSE 0

LEMMA EntriesOfSame ==
    ASSUME NEW d, NEW c, c.entries = d.entries, NEW w
    PROVE  EntriesOf(c, w) = EntriesOf(d, w)
BY DEF EntriesOf

\* A commit appends its transaction with the pair of entries that cancel out,
\* moves the amount between the two wallets, and keeps the books.
LEMMA CommitKeeps ==
    ASSUME NEW d, Book(d), NEW r \in Postable(d), NEW c, c = Commit(d, r)
    PROVE  /\ Book(c)
           /\ c.txs = Append(d.txs, r) /\ DOMAIN c.wallets = DOMAIN d.wallets
           /\ \A v \in DOMAIN d.wallets :
                c.wallets[v].balance = d.wallets[v].balance + Change(r, v)
<1> DEFINE tx == Len(d.txs) + 1
           d1 == [d EXCEPT !.txs = Append(d.txs, r)]
           d2 == Leg(d1, tx, r.from, "debit")
<1>1. /\ d.entries \in Seq(EntryRecords) /\ Len(d.entries) \in Nat
      /\ d.txs \in Seq(MoneyRequests) /\ Len(d.txs) \in Nat
      /\ d.wallets \in [DOMAIN d.wallets -> WalletRecords]
      /\ d = [wallets |-> d.wallets, txs |-> d.txs, entries |-> d.entries]
      /\ Sound(d) /\ Paired(d) /\ DBType(d)
      /\ \A n \in 1 .. Len(d.txs) : d.txs[n].amount \in Nat \ {0}
  BY DEF Book, Sound, DBType
<1>2. /\ r \in MoneyRequests /\ r.amount \in Nat \ {0} /\ r.from # r.to
      /\ r.from \in DOMAIN d.wallets \cup {NULL} /\ r.to \in DOMAIN d.wallets \cup {NULL}
  BY DEF Postable, MoneyRequests
<1>3. /\ d1.entries = d.entries /\ d1.wallets = d.wallets /\ d1.txs = Append(d.txs, r)
      /\ d1 = [wallets |-> d1.wallets, txs |-> d1.txs, entries |-> d1.entries]
  <2> DEFINE t == Append(d.txs, r)
  <2>1. d1 = [wallets |-> d.wallets, txs |-> t, entries |-> d.entries]
    <3>1. d1 = [d EXCEPT !.txs = t]
      OBVIOUS
    <3>2. d = [wallets |-> d.wallets, txs |-> d.txs, entries |-> d.entries]
      BY <1>1
    <3>. HIDE DEF t, d1
    <3>. QED  BY <3>1, <3>2
  <2>. HIDE DEF d1
  <2>. QED  BY <2>1
<1>4. c = Leg(d2, tx, r.to, "credit")
  BY DEF Commit
<1>. HIDE DEF d1
<1>5. /\ d1.txs \in Seq(MoneyRequests) /\ Len(d1.txs) = tx /\ tx \in 1 .. Len(d1.txs)
      /\ d1.txs[tx] = r /\ \A n \in 1 .. Len(d.txs) : d1.txs[n] = d.txs[n]
  BY <1>1, <1>2, <1>3
<1>6. Sound(d1)
  <2>1. DBType(d1)
    BY <1>1, <1>3, <1>5 DEF DBType
  <2>2. \A w \in DOMAIN d.wallets : EntriesOf(d1, w) = EntriesOf(d, w)
    BY <1>3, EntriesOfSame
  <2>. QED  BY <1>1, <1>3, <2>1, <2>2 DEF Sound
<1>7. PICK n1 \in Int : n1 = -r.amount
  BY <1>2
<1>8. /\ Sound(d2)
      /\ d2.txs = d1.txs /\ DOMAIN d2.wallets = DOMAIN d1.wallets
      /\ \A v \in DOMAIN d1.wallets :
           d2.wallets[v].balance = d1.wallets[v].balance + (IF v = r.from THEN n1 ELSE 0)
      /\ \E e \in EntryRecords :
           /\ d2.entries = Append(d1.entries, e)
           /\ e.tx = tx /\ e.direction = "debit" /\ e.wallet = r.from
           /\ e.amount = r.amount
  <2>1. r.from \in DOMAIN d1.wallets \cup {NULL} /\ d1.txs[tx].amount = r.amount
    BY <1>2, <1>3, <1>5
  <2>2. n1 = IF "debit" = "debit" THEN -d1.txs[tx].amount ELSE d1.txs[tx].amount
    BY <1>7, <2>1
  <2>3. LegPosts(d1, tx, r.from, "debit", n1, d2)
    <3>1. PICK w \in DOMAIN d1.wallets \cup {NULL} : w = r.from
      BY <2>1
    <3>2. PICK t \in 1 .. Len(d1.txs) : t = tx
      BY <1>5
    <3>3. PICK z : z = d2
      OBVIOUS
    <3>4. z = Leg(d1, t, w, "debit") /\ d1.txs[t].amount \in Nat
      BY <1>2, <2>1, <3>1, <3>2, <3>3
    <3>5. LegPosts(d1, t, w, "debit", n1, z)
      <4>. HIDE DEF d2, tx
      <4>. QED  BY <1>6, <2>1, <2>2, <3>2, <3>4, LegKeeps
    <3>. QED  BY <3>1, <3>2, <3>3, <3>5
  <2>. HIDE DEF d2, tx
  <2>. QED  BY <2>1, <2>3 DEF LegPosts
<1>. HIDE DEF d2
<1>9. /\ Sound(c)
      /\ c.txs = d2.txs /\ DOMAIN c.wallets = DOMAIN d2.wallets
      /\ \A v \in DOMAIN d2.wallets :
           c.wallets[v].balance = d2.wallets[v].balance + (IF v = r.to THEN r.amount ELSE 0)
      /\ \E e \in EntryRecords :
           /\ c.entries = Append(d2.entries, e)
           /\ e.tx = tx /\ e.direction = "credit" /\ e.wallet = r.to
           /\ e.amount = r.amount
  <2>1. /\ r.to \in DOMAIN d2.wallets \cup {NULL} /\ d2.txs[tx].amount = r.amount
        /\ tx \in 1 .. Len(d2.txs)
    BY <1>2, <1>3, <1>5, <1>8
  <2>2. r.amount = IF "credit" = "debit" THEN -d2.txs[tx].amount ELSE d2.txs[tx].amount
    BY <2>1
  <2>3. LegPosts(d2, tx, r.to, "credit", r.amount, c)
    <3>1. PICK w \in DOMAIN d2.wallets \cup {NULL} : w = r.to
      BY <2>1
    <3>2. PICK t \in 1 .. Len(d2.txs) : t = tx
      BY <2>1
    <3>3. PICK m \in Nat : m = r.amount
      BY <1>2
    <3>4. c = Leg(d2, t, w, "credit") /\ d2.txs[t].amount \in Nat
          /\ m = IF "credit" = "debit" THEN -d2.txs[t].amount ELSE d2.txs[t].amount
      BY <1>2, <1>4, <2>1, <3>1, <3>2, <3>3
    <3>5. LegPosts(d2, t, w, "credit", m, c)
      <4>. HIDE DEF tx
      <4>. QED  BY <1>8, <3>4, LegKeeps
    <3>. QED  BY <3>1, <3>2, <3>3, <3>5
  <2>. HIDE DEF tx
  <2>. QED  BY <2>1, <2>3 DEF LegPosts
<1>10. PICK e1 \in EntryRecords :
          /\ d2.entries = Append(d.entries, e1)
          /\ e1.tx = tx /\ e1.direction = "debit" /\ e1.wallet = r.from
          /\ e1.amount = r.amount
  BY <1>3, <1>8
<1>11. PICK e2 \in EntryRecords :
          /\ c.entries = Append(d2.entries, e2)
          /\ e2.tx = tx /\ e2.direction = "credit" /\ e2.wallet = r.to
          /\ e2.amount = r.amount
  BY <1>9
<1>12. /\ Len(c.entries) = Len(d.entries) + 2
       /\ \A n \in 1 .. Len(d.entries) : c.entries[n] = d.entries[n]
       /\ c.entries[Len(d.entries) + 1] = e1 /\ c.entries[Len(d.entries) + 2] = e2
  <2>1. PICK es \in Seq(EntryRecords) : es = d2.entries
    BY <1>8 DEF Sound, DBType
  <2>2. /\ Len(es) = Len(d.entries) + 1
        /\ \A n \in 1 .. Len(d.entries) : es[n] = d.entries[n]
        /\ es[Len(d.entries) + 1] = e1
    BY <1>1, <1>10, <2>1
  <2>3. /\ Len(c.entries) = Len(es) + 1 /\ Len(es) \in Nat
        /\ \A n \in 1 .. Len(es) : c.entries[n] = es[n]
        /\ c.entries[Len(es) + 1] = e2
    BY <1>11, <2>1
  <2>4. \A n \in 1 .. Len(d.entries) + 1 : c.entries[n] = es[n]
    BY <2>2, <2>3
  <2>. QED  BY <1>1, <2>2, <2>3, <2>4
<1>13. c.txs = d1.txs /\ DOMAIN c.wallets = DOMAIN d.wallets
  BY <1>3, <1>8, <1>9
<1>14. Paired(c)
  <2>1. Len(d.entries) = 2 * Len(d.txs)
    BY <1>1 DEF Paired
  <2>2. Len(c.entries) = 2 * Len(c.txs)
    BY <1>1, <1>5, <1>12, <1>13, <2>1
  <2>3. ASSUME NEW n \in 1 .. Len(c.txs)
        PROVE  /\ c.entries[2 * n - 1].tx = n /\ c.entries[2 * n - 1].direction = "debit"
               /\ c.entries[2 * n].tx = n /\ c.entries[2 * n].direction = "credit"
               /\ c.entries[2 * n - 1].amount = c.entries[2 * n].amount
               /\ c.entries[2 * n - 1].wallet # c.entries[2 * n].wallet
    <3>1. CASE n \in 1 .. Len(d.txs)
      <4>1. 2 * n - 1 \in 1 .. Len(d.entries) /\ 2 * n \in 1 .. Len(d.entries)
        BY <1>1, <2>1, <3>1
      <4>2. /\ c.entries[2 * n - 1] = d.entries[2 * n - 1]
            /\ c.entries[2 * n] = d.entries[2 * n]
        BY <1>12, <4>1
      <4>. QED  BY <1>1, <3>1, <4>2 DEF Paired
    <3>2. CASE n = tx
      <4>1. 2 * n - 1 = Len(d.entries) + 1 /\ 2 * n = Len(d.entries) + 2
        BY <1>1, <2>1, <3>2
      <4>2. c.entries[2 * n - 1] = e1 /\ c.entries[2 * n] = e2
        BY <1>12, <4>1
      <4>. QED  BY <1>2, <1>10, <1>11, <3>2, <4>2
    <3>. QED  BY <1>1, <1>5, <1>13, <3>1, <3>2
  <2>. QED  BY <2>2, <2>3 DEF Paired
<1>15. ASSUME NEW n \in 1 .. Len(c.txs) PROVE c.txs[n].amount \in Nat \ {0}
  BY <1>1, <1>2, <1>5, <1>13
<1>16. ASSUME NEW v \in DOMAIN d.wallets
       PROVE  c.wallets[v].balance = d.wallets[v].balance + Change(r, v)
  <2>1. /\ d2.wallets[v].balance = d.wallets[v].balance + (IF v = r.from THEN n1 ELSE 0)
        /\ c.wallets[v].balance = d2.wallets[v].balance + (IF v = r.to THEN r.amount ELSE 0)
    BY <1>3, <1>8, <1>9
  <2>2. d.wallets[v].balance \in Int
    BY <1>1 DEF WalletRecords
  <2>. QED  BY <1>2, <1>7, <2>1, <2>2 DEF Change
<1>17. c.txs = Append(d.txs, r)
  BY <1>3, <1>13
<1>. QED  BY <1>9, <1>13, <1>14, <1>15, <1>16, <1>17 DEF Book

-----------------------------------------------------------------------------
(* The seed, and a wallet opened later *)

LEMMA FreshTells == Tells(<<>>, NewWallet)
<1> DEFINE es == << >>
           v == [n \in 1 .. Len(es) |-> SignedAmount(es[n])]
<1>1. Len(es) = 0 /\ 1 .. Len(es) = {}
  OBVIOUS
<1>2. v \in [1 .. Len(es) -> Int] /\ Len(es) \in Nat
  BY <1>1
<1>3. v \in Seq(Int) /\ Len(v) = 0
  BY <1>1, <1>2, ListOf
<1>4. PICK u \in Seq(Int) : u = v
  BY <1>3
<1>5. SumOf(u) = 0
  <2>1. Len(u) = 0 /\ \A i \in 1 .. Len(u) : i # 1 => u[i] = 0
    BY <1>3, <1>4
  <2>2. SumOf(u) = IF 1 \in 1 .. Len(u) THEN u[1] ELSE 0
    BY <2>1, SumAlone
  <2>. QED  BY <2>1, <2>2
<1>6. BalanceOf(es) = 0
  BY <1>4, <1>5 DEF BalanceOf
<1>. QED  BY <1>1, <1>6 DEF Tells, NewWallet

\* What the constructor makes is a sound book of the wallets and transactions
\* of the seed: an induction over the transactions.
LEMMA SeededBook ==
    /\ Book(Seeded)
    /\ DOMAIN Seeded.wallets = SeedWallets
    /\ Len(Seeded.txs) = Len(SeedTxs) /\ Len(SeedTxs) \in Nat
<1> DEFINE N == Len(SeedTxs)
           B == [wallets : [SeedWallets -> WalletRecords], txs : Seq(MoneyRequests),
                 entries : Seq(EntryRecords)]
           X == {d \in B : Book(d)}
           x == [wallets |-> [w \in SeedWallets |-> NewWallet],
                 txs |-> <<>>, entries |-> <<>>]
           G == [p \in X \X (1 .. N) |-> Commit(p[1], SeedTxs[p[2]])]
           Fits(f) == f = [n \in 0 .. N |-> IF n = 0 THEN x ELSE Commit(f[n - 1], SeedTxs[n])]
           after == CHOOSE f : Fits(f)
           Q == {r \in MoneyRequests : {r.from, r.to} \subseteq SeedWallets \cup {NULL}
                                      /\ r.from # r.to /\ r.amount > 0}
<1>0. N \in Nat /\ SeedTxs \in Seq(Q)
  BY SeedAssumption
<1>1. x \in X
  <2>1. x \in B
    BY DEF WalletRecords, NewWallet
  <2>2. /\ x.wallets = [w \in SeedWallets |-> NewWallet] /\ x.txs = <<>> /\ x.entries = <<>>
        /\ x = [wallets |-> x.wallets, txs |-> x.txs, entries |-> x.entries]
    OBVIOUS
  <2>. HIDE DEF x
  <2>3. x.entries \in Seq(EntryRecords) /\ Len(x.entries) = 0 /\ Len(x.txs) = 0
    BY <2>1, <2>2
  <2>4. \A w \in SeedWallets : EntriesOf(x, w) = <<>>
    BY <2>3, EntriesOfNobody
  <2>5. DBType(x)
    BY <2>1, <2>2, SimAssumption DEF DBType
  <2>6. Sound(x)
    BY <2>2, <2>3, <2>4, <2>5, FreshTells DEF Sound
  <2>7. Paired(x)
    BY <2>3 DEF Paired
  <2>8. Book(x)
    BY <2>3, <2>6, <2>7 DEF Book
  <2>. HIDE DEF B
  <2>. QED  BY <2>1, <2>8
<1>2. ASSUME NEW d \in X, NEW n \in 1 .. N
      PROVE  /\ Commit(d, SeedTxs[n]) \in X
             /\ Len(Commit(d, SeedTxs[n]).txs) = Len(d.txs) + 1
  <2>1. /\ Book(d) /\ DOMAIN d.wallets = SeedWallets
        /\ d.txs \in Seq(MoneyRequests)
    OBVIOUS
  <2>2. SeedTxs[n] \in Postable(d)
    <3>1. SeedTxs[n] \in Q
      BY <1>0
    <3>. QED  BY <2>1, <3>1 DEF Postable
  <2>3. PICK c : c = Commit(d, SeedTxs[n])
    OBVIOUS
  <2>4. PICK r \in Postable(d) : r = SeedTxs[n]
    BY <2>2
  <2>5. c = Commit(d, r)
    BY <2>3, <2>4
  <2>6. Book(c) /\ c.txs = Append(d.txs, r) /\ DOMAIN c.wallets = SeedWallets
    <3>1. Book(c) /\ c.txs = Append(d.txs, r) /\ DOMAIN c.wallets = DOMAIN d.wallets
      <4>. HIDE DEF X
      <4>. QED  BY <2>1, <2>5, CommitKeeps
    <3>. QED  BY <2>1, <3>1
  <2>7. c \in B
    <3>1. DBType(c)
      BY <2>6 DEF Book, Sound
    <3>. QED  BY <2>6, <3>1 DEF DBType
  <2>8. c \in X
    <3>. HIDE DEF B
    <3>. QED  BY <2>6, <2>7
  <2>9. Len(c.txs) = Len(d.txs) + 1
    BY <2>1, <2>6
  <2>. HIDE DEF X
  <2>. QED  BY <2>3, <2>8, <2>9
<1>. HIDE DEF X, x
<1>3. G \in [X \X (1 .. N) -> X]
  <2>. HIDE DEF N
  <2>. QED  BY <1>2
<1>4. PICK f \in [0 .. N -> X] :
         f[0] = x /\ \A n \in 1 .. N : f[n] = G[<<f[n - 1], n>>]
  <2>. HIDE DEF G, N
  <2>1. \E f : Unfolds(f, N, X, x, G)
    BY <1>0, <1>1, <1>3, Recursion
  <2>. QED  BY <2>1 DEF Unfolds
<1>5. ASSUME NEW n \in 1 .. N PROVE f[n] = Commit(f[n - 1], SeedTxs[n])
  <2>1. n - 1 \in 0 .. N
    BY <1>0
  <2>2. f[n - 1] \in X
    <3>. HIDE DEF N
    <3>. QED  BY <2>1
  <2>. HIDE DEF N
  <2>. QED  BY <1>4, <2>2
<1>6. Fits(f)
  <2>. HIDE DEF X
  <2>. QED  BY <1>4, <1>5
<1>7. Fits(after)
  <2>. HIDE DEF Fits
  <2>. QED  BY <1>6
<1>8. Seeded = after[N]
  BY DEF Seeded, x
<1>9. /\ after[0] = x
      /\ \A n \in 1 .. N : after[n] = Commit(after[n - 1], SeedTxs[n])
  <2>. HIDE DEF after
  <2>1. \A k \in 0 .. N : after[k] = IF k = 0 THEN x ELSE Commit(after[k - 1], SeedTxs[k])
    <3>. HIDE DEF N
    <3>. QED  BY <1>7
  <2>2. 0 \in 0 .. N /\ \A n \in 1 .. N : n \in 0 .. N /\ n # 0
    BY <1>0
  <2>. HIDE DEF Fits, N
  <2>. QED  BY <2>1, <2>2
<1>. HIDE DEF after, Fits
<1> DEFINE S == {n \in 0 .. N : after[n] \in X /\ Len(after[n].txs) = n}
<1>10. 0 \in S
  <2>1. Len(x.txs) = 0
    BY DEF x
  <2>. QED  BY <1>0, <1>1, <1>9, <2>1
<1>11. ASSUME NEW n \in 0 .. N - 1, n \in S PROVE n + 1 \in S
  <2>1. n + 1 \in 1 .. N /\ n + 1 \in 0 .. N /\ (n + 1) - 1 = n
    BY <1>0
  <2>2. after[n + 1] = Commit(after[n], SeedTxs[n + 1])
    BY <1>9, <2>1
  <2>3. after[n] \in X /\ Len(after[n].txs) = n
    BY <1>11
  <2>4. /\ Commit(after[n], SeedTxs[n + 1]) \in X
        /\ Len(Commit(after[n], SeedTxs[n + 1]).txs) = Len(after[n].txs) + 1
    <3>. HIDE DEF N
    <3>. QED  BY <1>2, <2>1, <2>3
  <2>. QED  BY <2>1, <2>2, <2>3, <2>4
<1>12. after[N] \in X /\ Len(after[N].txs) = N
  <2>1. 0 .. N \subseteq S
    <3>. HIDE DEF S, N
    <3>. QED  BY <1>0, <1>10, <1>11, Induction
  <2>. QED  BY <1>0, <2>1
<1>13. Book(after[N]) /\ DOMAIN after[N].wallets = SeedWallets
  BY <1>12 DEF X
<1>. QED  BY <1>0, <1>8, <1>12, <1>13

\* A wallet opened with nothing is in no entry.
Opened(d, w) == [d EXCEPT !.wallets =
                   [v \in DOMAIN @ \cup {w} |-> IF v = w THEN NewWallet ELSE @[v]]]

LEMMA OpeningKeeps ==
    ASSUME NEW d, Book(d), NEW w \in Wallets \ DOMAIN d.wallets, NEW c, c = Opened(d, w)
    PROVE  /\ Book(c) /\ c.txs = d.txs
           /\ DOMAIN c.wallets = DOMAIN d.wallets \cup {w}
           /\ c.wallets[w].balance = 0
           /\ \A v \in DOMAIN d.wallets : c.wallets[v] = d.wallets[v]
<1> DEFINE W == [v \in DOMAIN d.wallets \cup {w} |->
                   IF v = w THEN NewWallet ELSE d.wallets[v]]
<1>1. /\ Sound(d) /\ Paired(d) /\ DBType(d)
      /\ \A n \in 1 .. Len(d.txs) : d.txs[n].amount \in Nat \ {0}
      /\ d = [wallets |-> d.wallets, txs |-> d.txs, entries |-> d.entries]
      /\ SeedWallets \subseteq DOMAIN d.wallets /\ DOMAIN d.wallets \subseteq Wallets
      /\ d.wallets \in [DOMAIN d.wallets -> WalletRecords]
      /\ d.txs \in Seq(MoneyRequests) /\ d.entries \in Seq(EntryRecords)
  BY DEF Book, Sound, DBType
<1>2. c = [wallets |-> W, txs |-> d.txs, entries |-> d.entries]
  <2>1. c = [d EXCEPT !.wallets = W]
    BY DEF Opened
  <2>. HIDE DEF W
  <2>. QED  BY <1>1, <2>1
<1>3. /\ c.wallets = W /\ c.txs = d.txs /\ c.entries = d.entries
      /\ c = [wallets |-> c.wallets, txs |-> c.txs, entries |-> c.entries]
  <2>. HIDE DEF W
  <2>. QED  BY <1>2
<1>4. /\ DOMAIN c.wallets = DOMAIN d.wallets \cup {w} /\ c.wallets[w] = NewWallet
      /\ \A v \in DOMAIN d.wallets : c.wallets[v] = d.wallets[v]
  BY <1>3
<1>5. DBType(c)
  <2>1. NewWallet \in WalletRecords
    BY DEF NewWallet, WalletRecords
  <2>2. c.wallets \in [DOMAIN c.wallets -> WalletRecords]
    BY <1>1, <1>3, <2>1
  <2>. QED  BY <1>1, <1>3, <1>4, <2>2 DEF DBType
<1>6. ASSUME NEW v \in DOMAIN c.wallets PROVE Tells(EntriesOf(c, v), c.wallets[v])
  <2>1. EntriesOf(c, v) = EntriesOf(d, v)
    BY <1>3, EntriesOfSame
  <2>2. CASE v \in DOMAIN d.wallets
    BY <1>1, <1>4, <2>1, <2>2 DEF Sound
  <2>3. CASE v = w
    <3>1. w # NULL
      BY SimAssumption
    <3>2. \A n \in 1 .. Len(d.entries) : d.entries[n].wallet # w
      BY <1>1, <3>1 DEF Sound
    <3>3. EntriesOf(d, w) = <<>>
      BY <1>1, <3>2, EntriesOfNobody
    <3>. QED  BY <1>4, <2>1, <2>3, <3>3, FreshTells
  <2>. QED  BY <1>4, <2>2, <2>3
<1>7. Sound(c)
  BY <1>1, <1>3, <1>4, <1>5, <1>6 DEF Sound
<1>8. Book(c)
  BY <1>1, <1>3, <1>7 DEF Book, Paired
<1>9. c.wallets[w].balance = 0
  BY <1>4 DEF NewWallet
<1>. QED  BY <1>3, <1>4, <1>8, <1>9

-----------------------------------------------------------------------------
(* The inductive invariant *)

\* The books, and no wallet overdrawn.
BookOK ==
    /\ Book(db) /\ Len(SeedTxs) <= Len(db.txs)
    /\ \A w \in DOMAIN db.wallets : db.wallets[w].balance >= 0

Underway(c) == call[c].pc \in {"locking", "holding"}

CallRecord(pc, req, asked, response) ==
    [pc |-> pc, req |-> req, asked |-> asked, response |-> response]

CallShape ==
    call = [c \in Calls |->
              CallRecord(call[c].pc, call[c].req, call[c].asked, call[c].response)]

\* What a call has asked for and been granted, by how far it got.
CallOK(c) ==
    /\ call[c].pc \in {"idle", "arriving", "locking", "holding", "done"}
    /\ call[c].pc # "idle" => call[c].req \in Requests
    /\ call[c].pc \in {"idle", "arriving"} => call[c].asked = {}
    /\ Underway(c) => /\ call[c].req.kind \in Money /\ ~Invalid(call[c].req)
                      /\ call[c].asked \subseteq LockSet(call[c].req)
    /\ call[c].pc = "holding" => /\ Held(c) = LockSet(call[c].req)
                                 /\ ~Unknown(call[c].req) /\ ~Known(c)

CallsOK == CallShape /\ \A c \in Calls : CallOK(c)

\* Each chain holds the calls that asked for the lock and have not ended, once.
LocksOK ==
    /\ locks \in [Locks -> Seq(Calls)]
    /\ \A l \in Locks : \A m, n \in 1 .. Len(locks[l]) :
         locks[l][m] = locks[l][n] => m = n
    /\ \A l \in Locks : \A n \in 1 .. Len(locks[l]) :
         Underway(locks[l][n]) /\ l \in call[locks[l][n]].asked
    /\ \A c \in Calls : Underway(c) =>
         \A l \in call[c].asked : \E n \in 1 .. Len(locks[l]) : locks[l][n] = c

\* A key is remembered with the one transaction that was posted for it.
IdemOK ==
    /\ DOMAIN idem \subseteq Keys \ {NoKey}
    /\ \A k \in DOMAIN idem :
         \E n \in Len(SeedTxs) + 1 .. Len(db.txs) :
           idem[k].response = Response(201, n) /\ db.txs[n] = idem[k].fingerprint
    /\ \A n \in Len(SeedTxs) + 1 .. Len(db.txs) :
         db.txs[n].key \in DOMAIN idem /\ idem[db.txs[n].key].response.body = n

\* A call told 201 is told of a transaction made for its own request.
RepliesOK ==
    \A c \in Calls : (call[c].req.kind \in Money /\ Answered(c, 201)) =>
      /\ call[c].response.body \in 1 .. Len(db.txs)
      /\ db.txs[call[c].response.body] = call[c].req

EInv == BookOK /\ CallsOK /\ LocksOK /\ IdemOK /\ RepliesOK

-----------------------------------------------------------------------------
(* The chains of the locks *)

LEMMA RequestTypes ==
    ASSUME NEW r \in Requests
    PROVE  /\ r.key \in Keys /\ LockSet(r) \subseteq Locks
           /\ r.kind \in Money => r \in MoneyRequests /\ r.key \in LockSet(r)
<1>1. r \in MoneyRequests \cup OtherRequests /\ NULL \notin Keys
  BY SimAssumption
<1>2. r.key \in Keys /\ r.from \in Wallets \cup {NULL} /\ r.to \in Wallets \cup {NULL}
  BY <1>1 DEF MoneyRequests, OtherRequests
<1>3. r.kind \in Money => r \in MoneyRequests
  BY <1>1 DEF OtherRequests, Money
<1>. QED  BY <1>1, <1>2, <1>3 DEF LockSet, Locks

\* One call moves on and no other does.
Moves(c, k) == call' = [call EXCEPT ![c] = k]

LEMMA MovesSteps ==
    ASSUME CallShape, NEW c \in Calls, NEW p, NEW q, NEW a, NEW s,
           Moves(c, CallRecord(p, q, a, s))
    PROVE  /\ CallShape'
           /\ call'[c].pc = p /\ call'[c].req = q /\ call'[c].asked = a
           /\ call'[c].response = s
           /\ \A d \in Calls : d # c => call'[d] = call[d]
<1> DEFINE F(d) == CallRecord(call[d].pc, call[d].req, call[d].asked, call[d].response)
<1>1. PICK k : k = CallRecord(p, q, a, s)
  OBVIOUS
<1>2. call = [d \in Calls |-> F(d)]
  BY DEF CallShape
<1>3. call' = [call EXCEPT ![c] = k]
  BY <1>1 DEF Moves
<1>4. call' = [d \in Calls |-> IF d = c THEN k ELSE F(d)]
  <2>. HIDE DEF F
  <2>. QED  BY <1>2, <1>3
<1>5. \A d \in Calls : call[d] = F(d)
  <2>. HIDE DEF F
  <2>. QED  BY <1>2
<1>6. call'[c] = k /\ \A d \in Calls : d # c => call'[d] = call[d]
  <2>. HIDE DEF F
  <2>. QED  BY <1>4, <1>5
<1>7. k.pc = p /\ k.req = q /\ k.asked = a /\ k.response = s
  BY <1>1 DEF CallRecord
<1>8. CallShape'
  <2> DEFINE H(d) == CallRecord(call'[d].pc, call'[d].req, call'[d].asked,
                                call'[d].response)
  <2>1. call'[c] = H(c)
    BY <1>1, <1>6, <1>7
  <2>2. \A d \in Calls : d # c => call'[d] = H(d)
    BY <1>5, <1>6
  <2>3. call' = [d \in Calls |-> call'[d]]
    <3>. HIDE DEF F
    <3>. QED  BY <1>4
  <2>4. call' = [d \in Calls |-> H(d)]
    <3>. HIDE DEF H
    <3>. QED  BY <2>1, <2>2, <2>3
  <2>. QED  BY <2>4 DEF CallShape
<1>. QED  BY <1>6, <1>7, <1>8

LEMMA CallIsRecord ==
    ASSUME CallShape, NEW c \in Calls
    PROVE  /\ c \in DOMAIN call
           /\ call[c] = CallRecord(call[c].pc, call[c].req, call[c].asked, call[c].response)
BY DEF CallShape, CallRecord

\* A call that holds every lock it asked for gives them back as it ends.
LEMMA AnswerSteps ==
    ASSUME CallShape, NEW c \in Calls, NEW response, Answer(c, response)
    PROVE  /\ Moves(c, CallRecord("done", call[c].req, call[c].asked, response))
           /\ locks' = [l \in Locks |-> IF l \in call[c].asked
                                        THEN Tail(locks[l]) ELSE locks[l]]
<1>1. PICK k : k = [call[c] EXCEPT !.pc = "done", !.response = response]
  OBVIOUS
<1>2. k = CallRecord("done", call[c].req, call[c].asked, response)
  <2>1. PICK z, p, q, a, s : /\ z = call[c] /\ p = call[c].pc /\ q = call[c].req
                             /\ a = call[c].asked /\ s = call[c].response
    OBVIOUS
  <2>2. PICK u : u = [z EXCEPT !.pc = "done"]
    OBVIOUS
  <2>3. z = CallRecord(p, q, a, s)
    BY <2>1, CallIsRecord
  <2>4. u = CallRecord("done", q, a, s)
    BY <2>2, <2>3 DEF CallRecord
  <2>5. k = [u EXCEPT !.response = response]
    BY <1>1, <2>1, <2>2
  <2>6. k = CallRecord("done", q, a, response)
    BY <2>4, <2>5 DEF CallRecord
  <2>. QED  BY <2>1, <2>6
<1>3. call' = [call EXCEPT ![c] = k]
  BY <1>1, CallIsRecord, Zenon DEF Answer
<1>. QED  BY <1>2, <1>3 DEF Moves, Answer

Releases(c) ==
    locks' = [l \in Locks |-> IF l \in call[c].asked THEN Tail(locks[l]) ELSE locks[l]]

\* The locks a call holds are each given to the call that asked next.
LEMMA ReleaseSteps ==
    ASSUME CallsOK, LocksOK, NEW c \in Calls, call[c].pc # "done",
           call[c].asked \subseteq Held(c), Releases(c)
    PROVE  /\ locks' \in [Locks -> Seq(Calls)]
           /\ \A l \in Locks :
                IF l \in call[c].asked
                THEN /\ Head(locks[l]) = c /\ Len(locks'[l]) = Len(locks[l]) - 1
                     /\ Len(locks[l]) \in Nat
                     /\ \A n \in 1 .. Len(locks'[l]) :
                          /\ locks'[l][n] = locks[l][n + 1] /\ n + 1 \in 1 .. Len(locks[l])
                          /\ locks'[l][n] # c
                ELSE /\ locks'[l] = locks[l]
                     /\ \A n \in 1 .. Len(locks[l]) : locks[l][n] # c
<1>1. locks \in [Locks -> Seq(Calls)]
  BY DEF LocksOK
<1>2. ASSUME NEW l \in call[c].asked
      PROVE  /\ l \in Locks /\ locks[l] # <<>> /\ Head(locks[l]) = c
  <2>1. Underway(c)
    BY DEF CallsOK, CallOK, Underway
  <2>2. call[c].req \in Requests /\ call[c].asked \subseteq LockSet(call[c].req)
    BY <2>1 DEF CallsOK, CallOK, Underway
  <2>3. l \in Locks
    BY <2>2, RequestTypes
  <2>4. PICK n \in 1 .. Len(locks[l]) : locks[l][n] = c
    BY <2>1, <2>3 DEF LocksOK
  <2>5. Head(locks[l]) = c
    BY DEF Held
  <2>. QED  BY <1>1, <2>3, <2>4, <2>5
<1>3. ASSUME NEW l \in Locks, l \in call[c].asked
      PROVE  /\ locks'[l] \in Seq(Calls)
             /\ Head(locks[l]) = c /\ Len(locks'[l]) = Len(locks[l]) - 1
             /\ Len(locks[l]) \in Nat
             /\ \A n \in 1 .. Len(locks'[l]) :
                  /\ locks'[l][n] = locks[l][n + 1] /\ n + 1 \in 1 .. Len(locks[l])
                  /\ locks'[l][n] # c
  <2>1. PICK s \in Seq(Calls) : s = locks[l]
    BY <1>1
  <2>2. s # <<>> /\ Head(s) = c
    BY <1>2, <1>3, <2>1
  <2>3. locks'[l] = Tail(s)
    BY <1>3, <2>1 DEF Releases
  <2>4. /\ Tail(s) \in Seq(Calls) /\ Len(Tail(s)) = Len(s) - 1 /\ Len(s) \in Nat
        /\ s[1] = c /\ 1 \in 1 .. Len(s)
        /\ \A n \in 1 .. Len(Tail(s)) : Tail(s)[n] = s[n + 1] /\ n + 1 \in 1 .. Len(s)
    BY <2>2
  <2>5. \A m, n \in 1 .. Len(s) : s[m] = s[n] => m = n
    BY <2>1 DEF LocksOK
  <2>6. \A n \in 1 .. Len(Tail(s)) : n + 1 # 1
    BY <2>4
  <2>7. \A n \in 1 .. Len(Tail(s)) : Tail(s)[n] # c
    BY <2>4, <2>5, <2>6
  <2>. QED  BY <2>1, <2>2, <2>3, <2>4, <2>7
<1>4. ASSUME NEW l \in Locks, l \notin call[c].asked
      PROVE  /\ locks'[l] = locks[l]
             /\ \A n \in 1 .. Len(locks[l]) : locks[l][n] # c
  BY <1>4 DEF Releases, LocksOK
<1>5. locks' \in [Locks -> Seq(Calls)]
  <2>1. \A l \in Locks : locks'[l] \in Seq(Calls)
    BY <1>1, <1>3, <1>4
  <2>2. locks' = [l \in Locks |-> locks'[l]]
    BY DEF Releases
  <2>. QED  BY <2>1, <2>2
<1>. QED  BY <1>3, <1>4, <1>5

\* Whichever way a call ends, the chains lose it and no other call is disturbed.
LEMMA AnswerKeeps ==
    ASSUME CallsOK, LocksOK, NEW c \in Calls, call[c].pc \notin {"idle", "done"},
           call[c].asked \subseteq Held(c), NEW response, Answer(c, response),
           DOMAIN db.wallets \subseteq DOMAIN db'.wallets,
           \A d \in Calls : d # c /\ call[d].pc = "holding" =>
             call[d].req.key \notin DOMAIN idem'
    PROVE  /\ CallsOK' /\ LocksOK'
           /\ call'[c].pc = "done" /\ call'[c].req = call[c].req
           /\ call'[c].response = response
           /\ \A d \in Calls : d # c => call'[d] = call[d]
<1>1. CallShape /\ \A d \in Calls : CallOK(d)
  BY DEF CallsOK
<1>2. Releases(c) /\ Moves(c, CallRecord("done", call[c].req, call[c].asked, response))
  BY <1>1, AnswerSteps DEF Releases
<1>3. /\ CallShape'
      /\ call'[c].pc = "done" /\ call'[c].req = call[c].req
      /\ call'[c].asked = call[c].asked /\ call'[c].response = response
      /\ \A d \in Calls : d # c => call'[d] = call[d]
  BY <1>1, <1>2, MovesSteps
<1>4. /\ locks' \in [Locks -> Seq(Calls)]
      /\ \A l \in Locks :
           IF l \in call[c].asked
           THEN /\ Head(locks[l]) = c /\ Len(locks'[l]) = Len(locks[l]) - 1
                /\ Len(locks[l]) \in Nat
                /\ \A n \in 1 .. Len(locks'[l]) :
                     /\ locks'[l][n] = locks[l][n + 1] /\ n + 1 \in 1 .. Len(locks[l])
                     /\ locks'[l][n] # c
           ELSE /\ locks'[l] = locks[l]
                /\ \A n \in 1 .. Len(locks[l]) : locks[l][n] # c
  BY <1>2, ReleaseSteps
<1>5. CallOK(c)'
  <2>1. call'[c].req \in Requests
    BY <1>1, <1>3 DEF CallOK
  <2>. QED  BY <1>3, <2>1 DEF CallOK, Underway
<1>6. ASSUME NEW d \in Calls, d # c PROVE CallOK(d)'
  <2>1. CallOK(d) /\ call'[d] = call[d]
    BY <1>1, <1>3, <1>6
  <2>2. ASSUME call[d].pc = "holding"
        PROVE  /\ Held(d)' = LockSet(call[d].req)
               /\ (~Unknown(call[d].req))' /\ (~Known(d))'
    <3>1. Held(d) = LockSet(call[d].req) /\ ~Unknown(call[d].req)
          /\ call[d].req \in Requests /\ call[d].asked \subseteq LockSet(call[d].req)
      BY <2>1, <2>2 DEF CallOK, Underway
    <3>2. ASSUME NEW l \in LockSet(call[d].req)
          PROVE  l \in call'[d].asked /\ Head(locks'[l]) = d
      <4>1. l \in call[d].asked /\ Head(locks[l]) = d /\ l \in Locks
        BY <3>1, RequestTypes DEF Held
      <4>2. l \notin call[c].asked
        BY <1>4, <1>6, <4>1
      <4>. QED  BY <1>4, <2>1, <4>1, <4>2
    <3>3. Held(d)' = LockSet(call[d].req)
      BY <2>1, <3>1, <3>2 DEF Held
    <3>. QED  BY <2>1, <2>2, <1>6, <3>1, <3>3 DEF Unknown, Known
  <2>. QED  BY <2>1, <2>2 DEF CallOK, Underway
<1>7. CallsOK'
  BY <1>3, <1>5, <1>6 DEF CallsOK
<1>8. ASSUME NEW l \in Locks, NEW m \in 1 .. Len(locks'[l]), NEW n \in 1 .. Len(locks'[l]),
             locks'[l][m] = locks'[l][n]
      PROVE  m = n
  <2>1. \A i, j \in 1 .. Len(locks[l]) : locks[l][i] = locks[l][j] => i = j
    BY DEF LocksOK
  <2>2. CASE l \in call[c].asked
    <3>1. locks[l][m + 1] = locks[l][n + 1]
          /\ m + 1 \in 1 .. Len(locks[l]) /\ n + 1 \in 1 .. Len(locks[l])
      BY <1>4, <1>8, <2>2
    <3>2. m + 1 = n + 1
      BY <2>1, <3>1
    <3>3. m \in Int /\ n \in Int
      OBVIOUS
    <3>. QED  BY <3>2, <3>3
  <2>3. CASE l \notin call[c].asked
    BY <1>4, <1>8, <2>1, <2>3
  <2>. QED  BY <2>2, <2>3
<1>9. ASSUME NEW l \in Locks, NEW n \in 1 .. Len(locks'[l])
      PROVE  /\ call'[locks'[l][n]].pc \in {"locking", "holding"}
             /\ l \in call'[locks'[l][n]].asked
  <2> DEFINE d == locks'[l][n]
  <2>1. \E m \in 1 .. Len(locks[l]) : d = locks[l][m] /\ d # c
    BY <1>4
  <2>2. d \in Calls
    BY <1>4
  <2>3. Underway(d) /\ l \in call[d].asked
    BY <2>1 DEF LocksOK
  <2>. HIDE DEF d
  <2>4. call'[d] = call[d]
    BY <1>3, <2>1, <2>2
  <2>5. call'[d].pc \in {"locking", "holding"} /\ l \in call'[d].asked
    BY <2>3, <2>4 DEF Underway
  <2>. QED  BY <2>5 DEF d
<1>10. ASSUME NEW d \in Calls, Underway(d)', NEW l \in call'[d].asked
       PROVE  \E n \in 1 .. Len(locks'[l]) : locks'[l][n] = d
  <2>1. d # c
    BY <1>3, <1>10 DEF Underway
  <2>2. call'[d] = call[d] /\ Underway(d) /\ l \in call[d].asked
    BY <1>3, <1>10, <2>1 DEF Underway
  <2>3. l \in Locks
    <3>1. call[d].req \in Requests /\ call[d].asked \subseteq LockSet(call[d].req)
      BY <1>1, <2>2 DEF CallOK, Underway
    <3>. QED  BY <2>2, <3>1, RequestTypes
  <2>4. PICK n \in 1 .. Len(locks[l]) : locks[l][n] = d
    BY <2>2 DEF LocksOK
  <2>5. CASE l \in call[c].asked
    <3>1. PICK s \in Seq(Calls) : s = locks[l]
      BY <2>3 DEF LocksOK
    <3>2. Head(s) = c /\ n \in 1 .. Len(s) /\ s[n] = d
      BY <1>4, <2>3, <2>4, <2>5, <3>1
    <3>3. n # 1
      BY <2>1, <3>2
    <3>4. locks'[l] = Tail(s)
      BY <1>2, <2>3, <2>5, <3>1 DEF Releases
    <3>5. n - 1 \in 1 .. Len(Tail(s)) /\ Tail(s)[n - 1] = d
      BY <3>2, <3>3
    <3>. QED  BY <3>4, <3>5
  <2>6. CASE l \notin call[c].asked
    BY <1>4, <2>3, <2>4, <2>6
  <2>. QED  BY <2>5, <2>6
<1>11. LocksOK'
  <2>1. \A l \in Locks : \A m, n \in 1 .. Len(locks'[l]) :
          locks'[l][m] = locks'[l][n] => m = n
    BY <1>8
  <2>. QED  BY <1>4, <1>9, <1>10, <2>1 DEF LocksOK, Underway
<1>. QED  BY <1>3, <1>7, <1>11

-----------------------------------------------------------------------------
(* The steps of a call that answer nothing yet *)

LEMMA StartKeeps ==
    ASSUME CallsOK, LocksOK, NEW c \in Calls, Start(c)
    PROVE  /\ CallsOK' /\ LocksOK'
           /\ call'[c].pc = "arriving"
           /\ \A d \in Calls : d # c => call'[d] = call[d]
<1>1. CallShape /\ \A d \in Calls : CallOK(d)
  BY DEF CallsOK
<1>2. PICK r \in Requests : call' = [call EXCEPT ![c] = [@ EXCEPT !.pc = "arriving", !.req = r]]
  BY DEF Start
<1>3. Moves(c, CallRecord("arriving", r, call[c].asked, call[c].response))
  <2>1. PICK k : k = [call[c] EXCEPT !.pc = "arriving", !.req = r]
    OBVIOUS
  <2>2. PICK z, p, q, a, s : /\ z = call[c] /\ p = call[c].pc /\ q = call[c].req
                             /\ a = call[c].asked /\ s = call[c].response
    OBVIOUS
  <2>3. PICK u : u = [z EXCEPT !.pc = "arriving"]
    OBVIOUS
  <2>4. z = CallRecord(p, q, a, s)
    BY <1>1, <2>2, CallIsRecord
  <2>5. u = CallRecord("arriving", q, a, s)
    BY <2>3, <2>4 DEF CallRecord
  <2>6. k = [u EXCEPT !.req = r]
    BY <2>1, <2>2, <2>3
  <2>7. k = CallRecord("arriving", r, a, s)
    BY <2>5, <2>6 DEF CallRecord
  <2>8. call' = [call EXCEPT ![c] = k]
    BY <1>1, <1>2, <2>1, CallIsRecord, Zenon
  <2>. QED  BY <2>2, <2>7, <2>8 DEF Moves
<1>4. /\ CallShape'
      /\ call'[c].pc = "arriving" /\ call'[c].req = r /\ call'[c].asked = call[c].asked
      /\ \A d \in Calls : d # c => call'[d] = call[d]
  BY <1>1, <1>3, MovesSteps
<1>5. db' = db /\ idem' = idem /\ locks' = locks /\ call[c].pc = "idle"
  BY DEF Start
<1>6. CallOK(c)'
  <2>1. call[c].asked = {}
    BY <1>1, <1>5 DEF CallOK
  <2>. QED  BY <1>4, <2>1 DEF CallOK, Underway
<1>7. ASSUME NEW d \in Calls, d # c PROVE CallOK(d)'
  BY <1>1, <1>4, <1>5, <1>7 DEF CallOK, Underway, Held, Known, Unknown
<1>8. CallsOK'
  BY <1>4, <1>6, <1>7 DEF CallsOK
<1>9. \A d \in Calls : d # c => Underway(d)' = Underway(d)
  BY <1>4 DEF Underway
<1>10. ~Underway(c) /\ ~(Underway(c)')
  BY <1>4, <1>5 DEF Underway
<1>11. LocksOK'
  <2>1. ASSUME NEW l \in Locks, NEW n \in 1 .. Len(locks'[l])
        PROVE  call'[locks'[l][n]].pc \in {"locking", "holding"}
               /\ l \in call'[locks'[l][n]].asked
    <3>1. PICK d \in Calls : d = locks[l][n]
      BY <1>5 DEF LocksOK
    <3>2. Underway(d) /\ l \in call[d].asked
      BY <1>5, <3>1 DEF LocksOK
    <3>3. call'[d] = call[d]
      BY <1>4, <1>10, <3>2
    <3>. QED  BY <1>5, <3>1, <3>2, <3>3 DEF Underway
  <2>2. ASSUME NEW d \in Calls, Underway(d)', NEW l \in call'[d].asked
        PROVE  \E n \in 1 .. Len(locks'[l]) : locks'[l][n] = d
    <3>1. d # c /\ Underway(d) /\ call'[d] = call[d]
      BY <1>4, <1>9, <1>10, <2>2
    <3>. QED  BY <1>5, <2>2, <3>1 DEF LocksOK
  <2>. QED  BY <1>5, <2>1, <2>2 DEF LocksOK, Underway
<1>. QED  BY <1>4, <1>8, <1>11

\* The lock asked for next is one of those that are left.
LEMMA NextLockIsLeft ==
    ASSUME NEW r \in Requests, NEW left \in SUBSET LockSet(r), left # {}
    PROVE  NextLock(r, left) \in left
<1>1. CASE r.key \in left
  BY <1>1 DEF NextLock
<1>2. CASE r.key \notin left
  <2>1. r.from \in Wallets \cup {NULL} /\ r.to \in Wallets \cup {NULL}
    BY SimAssumption DEF MoneyRequests, OtherRequests
  <2>2. left \in SUBSET Nat
    BY <1>2, <2>1, SimAssumption DEF LockSet
  <2>3. \E w \in left : \A v \in left : w <= v
    BY <2>2, LeastNatural
  <2>. QED  BY <1>2, <2>3 DEF NextLock
<1>. QED  BY <1>1, <1>2

LEMMA AskKeeps ==
    ASSUME CallsOK, LocksOK, NEW c \in Calls, Ask(c)
    PROVE  /\ CallsOK' /\ LocksOK'
           /\ call'[c].pc = "locking"
           /\ \A d \in Calls : d # c => call'[d] = call[d]
<1> DEFINE r == call[c].req
           left == LockSet(r) \ call[c].asked
           l == NextLock(r, left)
<1>1. CallShape /\ \A d \in Calls : CallOK(d)
  BY DEF CallsOK
<1>2. /\ \/ call[c].pc = "arriving" /\ r.kind \in Money /\ ~Invalid(r)
         \/ call[c].pc = "locking"
      /\ left # {}
      /\ locks' = [locks EXCEPT ![l] = Append(@, c)]
      /\ call' = [call EXCEPT ![c] = [@ EXCEPT !.pc = "locking",
                                            !.asked = call[c].asked \cup {l}]]
      /\ db' = db /\ idem' = idem
  BY DEF Ask, AtRoute
<1>3. /\ r \in Requests /\ r.kind \in Money /\ ~Invalid(r)
      /\ call[c].asked \subseteq LockSet(r)
  BY <1>1, <1>2 DEF CallOK, Underway
<1>4. l \in LockSet(r) /\ l \notin call[c].asked /\ l \in Locks
  <2>1. l \in left
    <3>. HIDE DEF r, left
    <3>1. r \in Requests /\ left \in SUBSET LockSet(r) /\ left # {}
      BY <1>2, <1>3 DEF left
    <3>. QED  BY <3>1, NextLockIsLeft
  <2>. HIDE DEF l
  <2>. QED  BY <1>3, <2>1, RequestTypes
<1>. HIDE DEF l
<1>5. Moves(c, CallRecord("locking", r, call[c].asked \cup {l}, call[c].response))
  <2>1. PICK k : k = [call[c] EXCEPT !.pc = "locking", !.asked = call[c].asked \cup {l}]
    OBVIOUS
  <2>2. PICK z, p, q, a, s : /\ z = call[c] /\ p = call[c].pc /\ q = call[c].req
                             /\ a = call[c].asked /\ s = call[c].response
    OBVIOUS
  <2>3. PICK u : u = [z EXCEPT !.pc = "locking"]
    OBVIOUS
  <2>4. z = CallRecord(p, q, a, s)
    BY <1>1, <2>2, CallIsRecord
  <2>5. u = CallRecord("locking", q, a, s)
    BY <2>3, <2>4 DEF CallRecord
  <2>6. k = [u EXCEPT !.asked = a \cup {l}]
    BY <2>1, <2>2, <2>3
  <2>7. k = CallRecord("locking", q, a \cup {l}, s)
    BY <2>5, <2>6 DEF CallRecord
  <2>8. call' = [call EXCEPT ![c] = k]
    <3>1. call' = [call EXCEPT ![c] = [call[c] EXCEPT !.pc = "locking",
                                                        !.asked = call[c].asked \cup {l}]]
      BY <1>2
    <3>. QED  BY <2>1, <3>1, Zenon
  <2>. QED  BY <2>2, <2>7, <2>8 DEF Moves
<1>6. /\ CallShape'
      /\ call'[c].pc = "locking" /\ call'[c].req = r
      /\ call'[c].asked = call[c].asked \cup {l}
      /\ \A d \in Calls : d # c => call'[d] = call[d]
  <2>. HIDE DEF r
  <2>. QED  BY <1>1, <1>5, MovesSteps
<1>7. /\ locks \in [Locks -> Seq(Calls)] /\ locks' \in [Locks -> Seq(Calls)]
      /\ locks'[l] = Append(locks[l], c) /\ locks[l] \in Seq(Calls)
      /\ \A j \in Locks : j # l => locks'[j] = locks[j]
  <2>1. locks \in [Locks -> Seq(Calls)]
    BY DEF LocksOK
  <2>2. locks[l] \in Seq(Calls) /\ Append(locks[l], c) \in Seq(Calls)
    BY <1>4, <2>1
  <2>. QED  BY <1>2, <1>4, <2>1, <2>2
<1>8. /\ Len(locks[l]) \in Nat /\ Len(locks'[l]) = Len(locks[l]) + 1
      /\ locks'[l][Len(locks[l]) + 1] = c
      /\ \A n \in 1 .. Len(locks[l]) : locks'[l][n] = locks[l][n]
  BY <1>7
<1>9. \A n \in 1 .. Len(locks[l]) : locks[l][n] # c
  BY <1>4 DEF LocksOK
<1>10. CallOK(c)'
  BY <1>3, <1>4, <1>6 DEF CallOK, Underway
<1>11. ASSUME NEW d \in Calls, d # c PROVE CallOK(d)'
  <2>1. CallOK(d) /\ call'[d] = call[d]
    BY <1>1, <1>6, <1>11
  <2>2. ASSUME call[d].pc = "holding" PROVE Held(d)' = Held(d)
    <3>1. Held(d) = LockSet(call[d].req) /\ call[d].asked \subseteq LockSet(call[d].req)
          /\ call[d].req \in Requests /\ Underway(d)
      BY <2>1, <2>2 DEF CallOK, Underway
    <3>2. ASSUME NEW j \in call[d].asked PROVE Head(locks'[j]) = Head(locks[j])
      <4>1. j \in Locks
        BY <3>1, RequestTypes
      <4>2. CASE j = l
        <5>1. \E n \in 1 .. Len(locks[j]) : locks[j][n] = d
          BY <3>1 DEF LocksOK
        <5>2. locks[l] # <<>>
          BY <1>7, <4>2, <5>1
        <5>. QED  BY <1>7, <4>2, <5>2
      <4>. QED  BY <1>7, <4>1, <4>2
    <3>. QED  BY <2>1, <3>2 DEF Held
  <2>3. (Unknown(call[d].req)' = Unknown(call[d].req)) /\ (Known(d)' = Known(d))
    BY <1>2, <2>1 DEF Unknown, Known
  <2>4. call[d].pc = "holding" =>
           /\ Held(d)' = LockSet(call[d].req)
           /\ (~Unknown(call[d].req))' /\ (~Known(d))'
    BY <2>1, <2>2, <2>3 DEF CallOK
  <2>. QED  BY <2>1, <2>4 DEF CallOK, Underway
<1>12. CallsOK'
  BY <1>6, <1>10, <1>11 DEF CallsOK
<1>13. ASSUME NEW j \in Locks, NEW m \in 1 .. Len(locks'[j]), NEW n \in 1 .. Len(locks'[j]),
              locks'[j][m] = locks'[j][n]
       PROVE  m = n
  <2>1. \A x, y \in 1 .. Len(locks[j]) : locks[j][x] = locks[j][y] => x = y
    BY DEF LocksOK
  <2>2. CASE j = l
    <3>1. m \in 1 .. Len(locks[l]) \/ m = Len(locks[l]) + 1
      BY <1>8, <2>2
    <3>2. n \in 1 .. Len(locks[l]) \/ n = Len(locks[l]) + 1
      BY <1>8, <2>2
    <3>. QED  BY <1>8, <1>9, <1>13, <2>1, <2>2, <3>1, <3>2
  <2>3. CASE j # l
    BY <1>7, <1>13, <2>1, <2>3
  <2>. QED  BY <2>2, <2>3
<1>14. ASSUME NEW j \in Locks, NEW n \in 1 .. Len(locks'[j])
       PROVE  call'[locks'[j][n]].pc \in {"locking", "holding"}
              /\ j \in call'[locks'[j][n]].asked
  <2>1. CASE j = l /\ n = Len(locks[l]) + 1
    BY <1>6, <1>8, <2>1
  <2>2. CASE ~(j = l /\ n = Len(locks[l]) + 1)
    <3>1. n \in 1 .. Len(locks[j]) /\ locks'[j][n] = locks[j][n]
      BY <1>7, <1>8, <2>2
    <3>2. PICK d \in Calls : d = locks[j][n]
      BY <1>7, <3>1
    <3>3. Underway(d) /\ j \in call[d].asked
      BY <3>1, <3>2 DEF LocksOK
    <3>4. call'[d].pc \in {"locking", "holding"} /\ j \in call'[d].asked
      BY <1>6, <3>3 DEF Underway
    <3>. QED  BY <3>1, <3>2, <3>4
  <2>. QED  BY <2>1, <2>2
<1>15. ASSUME NEW d \in Calls, Underway(d)', NEW j \in call'[d].asked
       PROVE  \E n \in 1 .. Len(locks'[j]) : locks'[j][n] = d
  <2>1. CASE d = c /\ j = l
    <3>1. Len(locks[l]) + 1 \in 1 .. Len(locks'[l])
      BY <1>8
    <3>. QED  BY <1>8, <2>1, <3>1
  <2>2. CASE ~(d = c /\ j = l)
    <3>1. j \in call[d].asked
      BY <1>6, <1>15, <2>2
    <3>2. Underway(d)
      <4>1. CASE d = c
        BY <1>1, <1>2, <3>1, <4>1 DEF CallOK, Underway
      <4>2. CASE d # c
        BY <1>6, <1>15, <4>2 DEF Underway
      <4>. QED  BY <4>1, <4>2
    <3>3. j \in Locks
      <4>1. call[d].req \in Requests /\ call[d].asked \subseteq LockSet(call[d].req)
        BY <1>1, <3>2 DEF CallOK, Underway
      <4>. QED  BY <3>1, <4>1, RequestTypes
    <3>4. PICK n \in 1 .. Len(locks[j]) : locks[j][n] = d
      BY <3>1, <3>2 DEF LocksOK
    <3>5. n \in 1 .. Len(locks'[j]) /\ locks'[j][n] = d
      <4>1. CASE j = l
        <5>1. n \in 1 .. Len(locks[l]) /\ locks[l][n] = d
          BY <3>4, <4>1
        <5>2. n \in 1 .. Len(locks'[l]) /\ locks'[l][n] = d
          BY <1>8, <5>1
        <5>. QED  BY <4>1, <5>2
      <4>2. CASE j # l
        BY <1>7, <3>3, <3>4, <4>2
      <4>. QED  BY <4>1, <4>2
    <3>. QED  BY <3>5
  <2>. QED  BY <2>1, <2>2
<1>16. LocksOK'
  <2>1. \A j \in Locks : \A m, n \in 1 .. Len(locks'[j]) :
          locks'[j][m] = locks'[j][n] => m = n
    BY <1>13
  <2>. QED  BY <1>7, <1>14, <1>15, <2>1 DEF LocksOK, Underway
<1>. QED  BY <1>6, <1>12, <1>16

LEMMA HoldKeeps ==
    ASSUME CallsOK, LocksOK, NEW c \in Calls, Hold(c)
    PROVE  /\ CallsOK' /\ LocksOK'
           /\ call'[c].pc = "holding"
           /\ \A d \in Calls : d # c => call'[d] = call[d]
<1>1. CallShape /\ \A d \in Calls : CallOK(d)
  BY DEF CallsOK
<1>2. /\ call[c].pc = "locking" /\ Held(c) = LockSet(call[c].req)
      /\ ~Known(c) /\ ~Unknown(call[c].req)
      /\ call' = [call EXCEPT ![c] = [@ EXCEPT !.pc = "holding"]]
      /\ db' = db /\ idem' = idem /\ locks' = locks
  BY DEF Hold, Locked
<1>3. Moves(c, CallRecord("holding", call[c].req, call[c].asked, call[c].response))
  <2>1. PICK k : k = [call[c] EXCEPT !.pc = "holding"]
    OBVIOUS
  <2>2. k = CallRecord("holding", call[c].req, call[c].asked, call[c].response)
    <3>1. PICK z, p, q, a, s : /\ z = call[c] /\ p = call[c].pc /\ q = call[c].req
                               /\ a = call[c].asked /\ s = call[c].response
      OBVIOUS
    <3>2. z = CallRecord(p, q, a, s)
      BY <1>1, <3>1, CallIsRecord
    <3>3. k = CallRecord("holding", q, a, s)
      BY <2>1, <3>1, <3>2 DEF CallRecord
    <3>. QED  BY <3>1, <3>3
  <2>3. call' = [call EXCEPT ![c] = k]
    BY <1>1, <1>2, <2>1, CallIsRecord, Zenon
  <2>. QED  BY <2>2, <2>3 DEF Moves
<1>4. /\ CallShape'
      /\ call'[c].pc = "holding" /\ call'[c].req = call[c].req
      /\ call'[c].asked = call[c].asked
      /\ \A d \in Calls : d # c => call'[d] = call[d]
  BY <1>1, <1>3, MovesSteps
<1>5. CallOK(c)'
  <2>1. CallOK(c)
    BY <1>1
  <2>2. /\ (Held(c)' = Held(c)) /\ (Known(c)' = Known(c))
        /\ (Unknown(call[c].req)' = Unknown(call[c].req))
    BY <1>2, <1>4 DEF Held, Known, Unknown
  <2>. QED  BY <1>2, <1>4, <2>1, <2>2 DEF CallOK, Underway
<1>6. ASSUME NEW d \in Calls, d # c PROVE CallOK(d)'
  BY <1>1, <1>2, <1>4, <1>6 DEF CallOK, Underway, Held, Known, Unknown
<1>7. CallsOK'
  BY <1>4, <1>5, <1>6 DEF CallsOK
<1>8. \A d \in Calls : (Underway(d)' = Underway(d)) /\ call'[d].asked = call[d].asked
  BY <1>2, <1>4 DEF Underway
<1>9. LocksOK'
  <2>1. ASSUME NEW l \in Locks, NEW n \in 1 .. Len(locks'[l])
        PROVE  call'[locks'[l][n]].pc \in {"locking", "holding"}
               /\ l \in call'[locks'[l][n]].asked
    <3>1. PICK d \in Calls : d = locks[l][n]
      BY <1>2 DEF LocksOK
    <3>2. Underway(d) /\ l \in call[d].asked
      BY <1>2, <3>1 DEF LocksOK
    <3>. QED  BY <1>2, <1>8, <3>1, <3>2 DEF Underway
  <2>2. ASSUME NEW d \in Calls, Underway(d)', NEW l \in call'[d].asked
        PROVE  \E n \in 1 .. Len(locks'[l]) : locks'[l][n] = d
    BY <1>2, <1>8, <2>2 DEF LocksOK
  <2>. QED  BY <1>2, <2>1, <2>2 DEF LocksOK, Underway
<1>. QED  BY <1>4, <1>7, <1>9

-----------------------------------------------------------------------------
(* The answers *)

LEMMA Granted ==
    ASSUME CallsOK, NEW c \in Calls,
           call[c].pc = "arriving" \/ Locked(c) \/ call[c].pc = "holding"
    PROVE  call[c].asked \subseteq Held(c) /\ call[c].pc \notin {"idle", "done"}
<1>1. CallOK(c)
  BY DEF CallsOK
<1>2. CASE call[c].pc = "arriving"
  BY <1>1, <1>2 DEF CallOK
<1>3. CASE Locked(c) \/ call[c].pc = "holding"
  BY <1>1, <1>3 DEF CallOK, Locked, Underway
<1>. QED  BY <1>2, <1>3

\* An answer that posts nothing; 201 for a payment is an answer given before.
LEMMA QuietAnswer ==
    ASSUME EInv, NEW c \in Calls,
           call[c].pc = "arriving" \/ Locked(c) \/ call[c].pc = "holding",
           NEW response, Answer(c, response), UNCHANGED <<db, idem>>,
           (call[c].req.kind \in Money /\ response.status = 201) =>
             /\ response.body \in 1 .. Len(db.txs)
             /\ db.txs[response.body] = call[c].req
    PROVE  EInv'
<1>1. BookOK /\ CallsOK /\ LocksOK /\ IdemOK /\ RepliesOK
  BY DEF EInv
<1>2. call[c].asked \subseteq Held(c) /\ call[c].pc \notin {"idle", "done"}
  BY <1>1, Granted
<1>3. db' = db /\ idem' = idem
  OBVIOUS
<1>4. \A d \in Calls : d # c /\ call[d].pc = "holding" => call[d].req.key \notin DOMAIN idem'
  BY <1>1, <1>3 DEF CallsOK, CallOK, Known
<1>5. /\ CallsOK' /\ LocksOK'
      /\ call'[c].req = call[c].req /\ call'[c].response = response
      /\ \A d \in Calls : d # c => call'[d] = call[d]
  BY <1>1, <1>2, <1>3, <1>4, AnswerKeeps
<1>6. BookOK' /\ IdemOK'
  BY <1>1, <1>3 DEF BookOK, IdemOK
<1>7. RepliesOK'
  BY <1>1, <1>3, <1>5 DEF RepliesOK, Answered
<1>. QED  BY <1>5, <1>6, <1>7 DEF EInv

LEMMA AnswerReadKeeps ==
    ASSUME EInv, NEW c \in Calls, AnswerRead(c)
    PROVE  EInv'
<1>1. /\ call[c].pc = "arriving" /\ call[c].req.kind \notin Money
      /\ Answer(c, Read(db, call[c].req)) /\ UNCHANGED <<db, idem>>
  BY DEF AnswerRead, AtRoute, Money
<1>. QED  BY <1>1, QuietAnswer

LEMMA RejectMoneyKeeps ==
    ASSUME EInv, NEW c \in Calls, RejectMoney(c)
    PROVE  EInv'
<1>1. call[c].pc = "arriving" /\ Answer(c, Refusal(400)) /\ UNCHANGED <<db, idem>>
  BY DEF RejectMoney, AtRoute
<1>2. Refusal(400).status # 201
  BY DEF Refusal, Response
<1>. QED  BY <1>1, <1>2, QuietAnswer

LEMMA RejectUnknownKeeps ==
    ASSUME EInv, NEW c \in Calls, RejectUnknown(c)
    PROVE  EInv'
<1>1. Locked(c) /\ Answer(c, Refusal(404)) /\ UNCHANGED <<db, idem>>
  BY DEF RejectUnknown
<1>2. Refusal(404).status # 201
  BY DEF Refusal, Response
<1>. QED  BY <1>1, <1>2, QuietAnswer

LEMMA RejectFundsKeeps ==
    ASSUME EInv, NEW c \in Calls, RejectFunds(c)
    PROVE  EInv'
<1>1. call[c].pc = "holding" /\ Answer(c, Refusal(422)) /\ UNCHANGED <<db, idem>>
  BY DEF RejectFunds
<1>2. Refusal(422).status # 201
  BY DEF Refusal, Response
<1>. QED  BY <1>1, <1>2, QuietAnswer

LEMMA ThrowKeeps ==
    ASSUME EInv, NEW c \in Calls, Throw(c)
    PROVE  EInv'
<1>1. call[c].pc = "holding" /\ Answer(c, NoResponse) /\ UNCHANGED <<db, idem>>
  BY DEF Throw
<1>2. NoResponse.status # 201
  BY DEF NoResponse, Refusal, Response
<1>. QED  BY <1>1, <1>2, QuietAnswer

\* A replay tells of the transaction the key was used for, if it was this one.
LEMMA ReplayKeeps ==
    ASSUME EInv, NEW c \in Calls, Replay(c)
    PROVE  EInv'
<1> DEFINE r == call[c].req
           prior == idem[r.key]
<1>1. Locked(c) /\ r.key \in DOMAIN idem /\ UNCHANGED <<db, idem>>
  BY DEF Replay, Known
<1>2. PICK n \in Len(SeedTxs) + 1 .. Len(db.txs) :
         prior.response = Response(201, n) /\ db.txs[n] = prior.fingerprint
  BY <1>1 DEF EInv, IdemOK
<1>3. n \in 1 .. Len(db.txs)
  <2>1. Len(SeedTxs) \in Nat /\ Len(db.txs) \in Nat
    BY SeededBook DEF EInv, BookOK, Book, Sound, DBType
  <2>. QED  BY <2>1
<1>4. CASE prior.fingerprint = r
  <2>1. PICK response : response = [prior.response EXCEPT !.replayed = TRUE]
    OBVIOUS
  <2>2. response.status = 201 /\ response.body = n
    BY <1>2, <2>1 DEF Response
  <2>3. Answer(c, response)
    BY <1>4, <2>1 DEF Replay
  <2>. QED  BY <1>1, <1>2, <1>3, <1>4, <2>2, <2>3, QuietAnswer
<1>5. CASE prior.fingerprint # r
  <2>1. Answer(c, Refusal(422))
    BY <1>5 DEF Replay
  <2>2. Refusal(422).status # 201
    BY DEF Refusal, Response
  <2>. QED  BY <1>1, <2>1, <2>2, QuietAnswer
<1>. QED  BY <1>4, <1>5

LEMMA AnswerWalletKeeps ==
    ASSUME EInv, NEW c \in Calls, AnswerWallet(c)
    PROVE  EInv'
<1>1. BookOK /\ CallsOK /\ LocksOK /\ IdemOK /\ RepliesOK
  BY DEF EInv
<1>2. call[c].pc = "arriving" /\ call[c].req.kind = "wallet" /\ idem' = idem
  BY DEF AnswerWallet, AtRoute
<1>3. call[c].req.kind \notin Money
  BY <1>2 DEF Money
<1>4. CASE call[c].req.amount = 0
  <2>1. Answer(c, Refusal(400)) /\ UNCHANGED <<db, idem>>
    BY <1>2, <1>4 DEF AnswerWallet
  <2>. QED  BY <1>2, <1>3, <2>1, QuietAnswer
<1>5. CASE call[c].req.amount # 0
  <2>1. PICK w \in Wallets \ DOMAIN db.wallets :
          db' = Opened(db, w) /\ Answer(c, Response(201, w))
    BY <1>5 DEF AnswerWallet, Opened
  <2>2. Book(db) /\ \A v \in DOMAIN db.wallets : db.wallets[v].balance >= 0
    BY <1>1 DEF BookOK
  <2>3. /\ Book(db') /\ db'.txs = db.txs
        /\ DOMAIN db'.wallets = DOMAIN db.wallets \cup {w}
        /\ db'.wallets[w].balance = 0
        /\ \A v \in DOMAIN db.wallets : db'.wallets[v] = db.wallets[v]
    BY <2>1, <2>2, OpeningKeeps
  <2>4. BookOK'
    <3>1. Len(SeedTxs) <= Len(db'.txs)
      BY <1>1, <2>3 DEF BookOK
    <3>2. DOMAIN db.wallets \subseteq Wallets /\ w \notin DOMAIN db.wallets
      BY <2>2 DEF Book, Sound, DBType
    <3>3. ASSUME NEW v \in DOMAIN db'.wallets PROVE db'.wallets[v].balance >= 0
      <4>1. CASE v = w
        BY <2>3, <4>1
      <4>2. CASE v \in DOMAIN db.wallets
        BY <2>2, <2>3, <4>2
      <4>. QED  BY <2>3, <4>1, <4>2
    <3>. QED  BY <2>3, <3>1, <3>3 DEF BookOK
  <2>5. call[c].asked \subseteq Held(c) /\ call[c].pc \notin {"idle", "done"}
    BY <1>1, <1>2, Granted
  <2>6. \A d \in Calls : d # c /\ call[d].pc = "holding" =>
          call[d].req.key \notin DOMAIN idem'
    BY <1>1, <1>2 DEF CallsOK, CallOK, Known
  <2>7. /\ CallsOK' /\ LocksOK'
        /\ call'[c].req = call[c].req
        /\ \A d \in Calls : d # c => call'[d] = call[d]
    BY <1>1, <2>1, <2>3, <2>5, <2>6, AnswerKeeps
  <2>8. IdemOK'
    BY <1>1, <1>2, <2>3 DEF IdemOK
  <2>9. RepliesOK'
    BY <1>1, <1>3, <2>3, <2>7 DEF RepliesOK, Answered
  <2>. QED  BY <2>4, <2>7, <2>8, <2>9 DEF EInv
<1>. QED  BY <1>4, <1>5

\* What posting a payment does to the book.
LEMMA PostMoneySteps ==
    ASSUME EInv, NEW c \in Calls, PostMoney(c), NEW r, r = call[c].req
    PROVE  /\ r \in Postable(db) /\ Held(c) = LockSet(r) /\ r.key \notin DOMAIN idem
           /\ r \in Requests /\ r.kind \in Money /\ r.key # NoKey
           /\ Book(db')
           /\ db'.txs = Append(db.txs, r) /\ DOMAIN db'.wallets = DOMAIN db.wallets
           /\ \A v \in DOMAIN db.wallets :
                db'.wallets[v].balance = db.wallets[v].balance + Change(r, v)
<1>1. BookOK /\ CallsOK /\ LocksOK /\ IdemOK /\ RepliesOK
  BY DEF EInv
<1>2. /\ call[c].pc = "holding" /\ {r.from, r.to} # {NULL} /\ ~Insufficient(r)
      /\ db' = Commit(db, r)
  BY DEF PostMoney
<1>3. /\ r \in Requests /\ r.kind \in Money /\ ~Invalid(r)
      /\ Held(c) = LockSet(r) /\ ~Unknown(r) /\ r.key \notin DOMAIN idem
  BY <1>1, <1>2 DEF CallsOK, CallOK, Underway, Known
<1>4. /\ Book(db) /\ \A w \in DOMAIN db.wallets : db.wallets[w].balance >= 0
      /\ db.txs \in Seq(MoneyRequests)
      /\ DOMAIN db.wallets \subseteq Wallets
      /\ db.wallets \in [DOMAIN db.wallets -> WalletRecords]
  BY <1>1 DEF BookOK, Book, Sound, DBType
<1>5. /\ r \in MoneyRequests /\ r.key \in Keys \ {NoKey} /\ r.key \in LockSet(r)
      /\ r.amount \in Int /\ r.amount > 0
  BY <1>3, RequestTypes DEF Invalid, MoneyRequests
<1>6. r \in Postable(db)
  <2>1. {r.from, r.to} \subseteq DOMAIN db.wallets \cup {NULL}
    BY <1>3 DEF Unknown
  <2>2. r.from # r.to
    BY <1>2, <1>3, <1>5 DEF Invalid, MoneyRequests, Money
  <2>. QED  BY <1>5, <2>1, <2>2 DEF Postable
<1>7. /\ Book(db')
      /\ db'.txs = Append(db.txs, r) /\ DOMAIN db'.wallets = DOMAIN db.wallets
      /\ \A v \in DOMAIN db.wallets :
           db'.wallets[v].balance = db.wallets[v].balance + Change(r, v)
  <2>1. PICK q \in Postable(db) : q = r
    BY <1>6
  <2>2. PICK d : d = db'
    OBVIOUS
  <2>3. d = Commit(db, q)
    BY <1>2, <2>1, <2>2
  <2>4. /\ Book(d)
        /\ d.txs = Append(db.txs, q) /\ DOMAIN d.wallets = DOMAIN db.wallets
        /\ \A v \in DOMAIN db.wallets :
             d.wallets[v].balance = db.wallets[v].balance + Change(q, v)
    BY <1>4, <2>3, CommitKeeps
  <2>. QED  BY <2>1, <2>2, <2>4
<1>. QED  BY <1>3, <1>5, <1>6, <1>7

\* The one step that posts: a payment with a key nobody used, under its locks.
LEMMA PostMoneyKeeps ==
    ASSUME EInv, NEW c \in Calls, PostMoney(c)
    PROVE  EInv'
<1> DEFINE N == Len(db.txs)
<1>1. BookOK /\ CallsOK /\ LocksOK /\ IdemOK /\ RepliesOK
  BY DEF EInv
<1>2. PICK r : r = call[c].req
  OBVIOUS
<1>3. /\ call[c].pc = "holding" /\ ~Insufficient(r)
      /\ idem' = [k \in DOMAIN idem \cup {r.key} |->
                    IF k = r.key THEN [fingerprint |-> r, response |-> Response(201, N + 1)]
                    ELSE idem[k]]
      /\ Answer(c, Response(201, N + 1))
  BY <1>2 DEF PostMoney
<1>4. /\ \A w \in DOMAIN db.wallets : db.wallets[w].balance >= 0
      /\ db.txs \in Seq(MoneyRequests) /\ N \in Nat /\ Len(SeedTxs) \in Nat
      /\ DOMAIN db.wallets \subseteq Wallets
      /\ db.wallets \in [DOMAIN db.wallets -> WalletRecords]
  BY <1>1, SeededBook DEF BookOK, Book, Sound, DBType
<1>5. /\ r \in Postable(db) /\ Held(c) = LockSet(r) /\ r.key \notin DOMAIN idem
      /\ r \in Requests /\ r.kind \in Money /\ r.key # NoKey
      /\ Book(db')
      /\ db'.txs = Append(db.txs, r) /\ DOMAIN db'.wallets = DOMAIN db.wallets
      /\ \A v \in DOMAIN db.wallets :
           db'.wallets[v].balance = db.wallets[v].balance + Change(r, v)
  BY <1>2, PostMoneySteps
<1>6. /\ r \in MoneyRequests /\ r.key \in Keys \ {NoKey} /\ r.key \in LockSet(r)
      /\ r.amount \in Int /\ r.amount > 0
  BY <1>5, RequestTypes DEF Postable, MoneyRequests
<1>8. /\ Len(db'.txs) = N + 1 /\ db'.txs[N + 1] = r
      /\ \A n \in 1 .. N : db'.txs[n] = db.txs[n]
  BY <1>4, <1>5, <1>6
<1>9. BookOK'
  <2>1. ASSUME NEW v \in DOMAIN db.wallets PROVE db'.wallets[v].balance >= 0
    <3>1. db.wallets[v].balance \in Int /\ db.wallets[v].balance >= 0
          /\ v \in Wallets /\ v # NULL
      BY <1>4, SimAssumption DEF WalletRecords
    <3>2. v = r.from => db.wallets[v].balance >= r.amount
      BY <1>3, <1>6, <3>1 DEF Insufficient
    <3>. QED  BY <1>5, <1>6, <3>1, <3>2 DEF Change
  <2>2. Len(SeedTxs) <= N + 1
    BY <1>1, <1>4 DEF BookOK
  <2>. QED  BY <1>5, <1>8, <2>1, <2>2 DEF BookOK
<1>10. call[c].asked \subseteq Held(c) /\ call[c].pc \notin {"idle", "done"}
  BY <1>1, <1>3, Granted
<1>11. ASSUME NEW d \in Calls, d # c, call[d].pc = "holding"
       PROVE  call[d].req.key \notin DOMAIN idem'
  <2>1. /\ Held(d) = LockSet(call[d].req) /\ call[d].req.key \notin DOMAIN idem
        /\ call[d].req.key \in LockSet(call[d].req)
    BY <1>1, <1>11, RequestTypes DEF CallsOK, CallOK, Known, Underway
  <2>2. call[d].req.key # r.key
    BY <1>5, <1>6, <1>11, <2>1 DEF Held
  <2>. QED  BY <1>3, <2>1, <2>2
<1>12. /\ CallsOK' /\ LocksOK'
       /\ call'[c].pc = "done" /\ call'[c].req = r
       /\ call'[c].response = Response(201, N + 1)
       /\ \A d \in Calls : d # c => call'[d] = call[d]
  <2>1. PICK response : response = Response(201, N + 1)
    OBVIOUS
  <2>2. Answer(c, response) /\ DOMAIN db.wallets \subseteq DOMAIN db'.wallets
    BY <1>3, <1>5, <2>1
  <2>3. /\ CallsOK' /\ LocksOK'
        /\ call'[c].pc = "done" /\ call'[c].req = call[c].req
        /\ call'[c].response = response
        /\ \A d \in Calls : d # c => call'[d] = call[d]
    BY <1>1, <1>10, <1>11, <2>2, AnswerKeeps
  <2>. QED  BY <1>2, <2>1, <2>3
<1>13. /\ DOMAIN idem' = DOMAIN idem \cup {r.key}
       /\ idem'[r.key] = [fingerprint |-> r, response |-> Response(201, N + 1)]
       /\ \A k \in DOMAIN idem : idem'[k] = idem[k]
  BY <1>3, <1>5
<1>14. IdemOK'
  <2>1. N + 1 \in Len(SeedTxs) + 1 .. Len(db'.txs)
    <3>1. Len(SeedTxs) <= N
      BY <1>1 DEF BookOK
    <3>. QED  BY <1>4, <1>8, <3>1
  <2>2. ASSUME NEW k \in DOMAIN idem'
        PROVE  \E n \in Len(SeedTxs) + 1 .. Len(db'.txs) :
                 idem'[k].response = Response(201, n) /\ db'.txs[n] = idem'[k].fingerprint
    <3>1. CASE k = r.key
      BY <1>8, <1>13, <2>1, <3>1
    <3>2. CASE k # r.key
      <4>1. k \in DOMAIN idem /\ idem'[k] = idem[k]
        BY <1>13, <3>2
      <4>2. PICK n \in Len(SeedTxs) + 1 .. N :
              idem[k].response = Response(201, n) /\ db.txs[n] = idem[k].fingerprint
        BY <1>1, <4>1 DEF IdemOK
      <4>3. n \in Len(SeedTxs) + 1 .. Len(db'.txs) /\ n \in 1 .. N
        BY <1>4, <1>8
      <4>. QED  BY <1>8, <4>1, <4>2, <4>3
    <3>. QED  BY <3>1, <3>2
  <2>3. ASSUME NEW n \in Len(SeedTxs) + 1 .. Len(db'.txs)
        PROVE  db'.txs[n].key \in DOMAIN idem' /\ idem'[db'.txs[n].key].response.body = n
    <3>1. CASE n = N + 1
      BY <1>8, <1>13, <3>1 DEF Response
    <3>2. CASE n # N + 1
      <4>1. n \in Len(SeedTxs) + 1 .. N /\ n \in 1 .. N
        BY <1>4, <1>8, <3>2
      <4>2. db.txs[n].key \in DOMAIN idem /\ idem[db.txs[n].key].response.body = n
        BY <1>1, <4>1 DEF IdemOK
      <4>. QED  BY <1>8, <1>13, <4>1, <4>2
    <3>. QED  BY <3>1, <3>2
  <2>4. DOMAIN idem' \subseteq Keys \ {NoKey}
    BY <1>1, <1>6, <1>13 DEF IdemOK
  <2>. QED  BY <2>2, <2>3, <2>4 DEF IdemOK
<1>15. RepliesOK'
  <2>1. ASSUME NEW d \in Calls, call'[d].req.kind \in Money, Answered(d, 201)'
        PROVE  /\ call'[d].response.body \in 1 .. Len(db'.txs)
               /\ db'.txs[call'[d].response.body] = call'[d].req
    <3>1. CASE d = c
      <4>1. call'[c].response.body = N + 1
        BY <1>12 DEF Response
      <4>. QED  BY <1>4, <1>8, <1>12, <3>1, <4>1
    <3>2. CASE d # c
      <4>1. call'[d] = call[d]
        BY <1>12, <3>2
      <4>2. call[d].response.body \in 1 .. N /\ db.txs[call[d].response.body] = call[d].req
        BY <1>1, <2>1, <4>1 DEF RepliesOK, Answered
      <4>. QED  BY <1>4, <1>8, <4>1, <4>2
    <3>. QED  BY <3>1, <3>2
  <2>. QED  BY <2>1 DEF RepliesOK
<1>. QED  BY <1>9, <1>12, <1>14, <1>15 DEF EInv

-----------------------------------------------------------------------------
(* The theorems *)

LEMMA InitInductive == Init => EInv
<1> SUFFICES ASSUME Init PROVE EInv
  OBVIOUS
<1>1. /\ db = Seeded /\ idem = [k \in {} |-> NULL] /\ locks = [l \in Locks |-> <<>>]
      /\ call = [c \in Calls |-> Idle]
  BY DEF Init
<1>2. BookOK
  <2>1. /\ Book(Seeded) /\ DOMAIN Seeded.wallets = SeedWallets
        /\ Len(Seeded.txs) = Len(SeedTxs) /\ Len(SeedTxs) \in Nat
    BY SeededBook
  <2>2. \A w \in SeedWallets : Seeded.wallets[w].balance >= 0
    BY SeedAssumption
  <2>. QED  BY <1>1, <2>1, <2>2 DEF BookOK
<1>3. \A c \in Calls : /\ call[c].pc = "idle" /\ call[c].asked = {}
                       /\ call[c] = CallRecord(call[c].pc, call[c].req, call[c].asked,
                                               call[c].response)
  BY <1>1 DEF Idle, CallRecord
<1>4. CallShape
  <2>1. call = [c \in Calls |-> call[c]]
    BY <1>1
  <2>. QED  BY <1>3, <2>1 DEF CallShape
<1>5. CallsOK
  BY <1>3, <1>4 DEF CallsOK, CallOK, Underway
<1>6. LocksOK
  <2>1. locks \in [Locks -> Seq(Calls)] /\ \A l \in Locks : Len(locks[l]) = 0
    BY <1>1
  <2>2. \A l \in Locks : 1 .. Len(locks[l]) = {}
    BY <2>1
  <2>. QED  BY <1>3, <2>1, <2>2 DEF LocksOK, Underway
<1>7. IdemOK
  <2>1. Len(db.txs) = Len(SeedTxs) /\ Len(SeedTxs) \in Nat
    BY <1>1, SeededBook
  <2>2. Len(SeedTxs) + 1 .. Len(db.txs) = {}
    BY <2>1
  <2>. QED  BY <1>1, <2>2 DEF IdemOK
<1>8. RepliesOK
  BY <1>3 DEF RepliesOK, Answered
<1>. QED  BY <1>2, <1>5, <1>6, <1>7, <1>8 DEF EInv

LEMMA NextInductive == EInv /\ [Next]_vars => EInv'
<1> SUFFICES ASSUME EInv, [Next]_vars PROVE EInv'
  OBVIOUS
<1>1. ASSUME NEW c \in Calls, Start(c) \/ Ask(c) \/ Hold(c) PROVE EInv'
  <2>1. BookOK /\ CallsOK /\ LocksOK /\ IdemOK /\ RepliesOK
    BY DEF EInv
  <2>2. db' = db /\ idem' = idem
    BY <1>1 DEF Start, Ask, Hold
  <2>3. /\ CallsOK' /\ LocksOK'
        /\ call'[c].pc # "done"
        /\ \A d \in Calls : d # c => call'[d] = call[d]
    <3>1. CASE Start(c)
      BY <2>1, <3>1, StartKeeps
    <3>2. CASE Ask(c)
      BY <2>1, <3>2, AskKeeps
    <3>3. CASE Hold(c)
      BY <2>1, <3>3, HoldKeeps
    <3>. QED  BY <1>1, <3>1, <3>2, <3>3
  <2>4. BookOK' /\ IdemOK'
    BY <2>1, <2>2 DEF BookOK, IdemOK
  <2>5. RepliesOK'
    BY <2>1, <2>2, <2>3 DEF RepliesOK, Answered
  <2>. QED  BY <2>3, <2>4, <2>5 DEF EInv
<1>2. ASSUME NEW c \in Calls, Step(c), ~Ask(c), ~Hold(c) PROVE EInv'
  BY <1>2, AnswerReadKeeps, AnswerWalletKeeps, RejectMoneyKeeps, ReplayKeeps,
     RejectUnknownKeeps, RejectFundsKeeps, ThrowKeeps, PostMoneyKeeps DEF Step
<1>3. ASSUME UNCHANGED vars PROVE EInv'
  <2>1. db' = db /\ idem' = idem /\ locks' = locks /\ call' = call
    BY <1>3 DEF vars
  <2>2. (BookOK' = BookOK) /\ (IdemOK' = IdemOK)
    BY <2>1 DEF BookOK, IdemOK
  <2>3. \A c \in Calls : (Underway(c)' = Underway(c)) /\ (CallOK(c)' = CallOK(c))
    BY <2>1 DEF CallOK, Underway, Held, Known, Unknown
  <2>4. CallsOK' = CallsOK
    BY <2>1, <2>3 DEF CallsOK, CallShape
  <2>5. LocksOK' = LocksOK
    BY <2>1 DEF LocksOK, Underway
  <2>6. RepliesOK' = RepliesOK
    BY <2>1 DEF RepliesOK, Answered
  <2>. QED  BY <2>2, <2>4, <2>5, <2>6 DEF EInv
<1>. QED  BY <1>1, <1>2, <1>3 DEF Next, Step

\* The books agree, the chains of the locks hold exactly the calls that wait for
\* them or hold them, and a key is remembered with the transaction it paid for.
THEOREM SimInductive == Spec => []EInv
<1>. QED  BY InitInductive, NextInductive, PTL DEF Spec

\* Types, and no balance below zero.
THEOREM SimTypeCorrect == Spec => []TypeOK
<1>1. EInv => TypeOK
  <2> SUFFICES ASSUME EInv PROVE TypeOK
    OBVIOUS
  <2>1. /\ db.wallets \in [DOMAIN db.wallets -> WalletRecords]
        /\ SeedWallets \subseteq DOMAIN db.wallets /\ DOMAIN db.wallets \subseteq Wallets
        /\ \A n \in 1 .. Len(db.txs) : db.txs[n].amount \in Nat \ {0}
        /\ \A w \in DOMAIN db.wallets : db.wallets[w].balance >= 0
    BY DEF EInv, BookOK, Book, Sound, DBType
  <2>2. db.wallets \in [DOMAIN db.wallets -> [balance : Nat, version : Nat]]
    <3>1. \A w \in DOMAIN db.wallets : db.wallets[w] \in [balance : Nat, version : Nat]
      BY <2>1 DEF WalletRecords
    <3>. QED  BY <2>1, <3>1
  <2>3. DOMAIN idem \subseteq Keys \ {NoKey}
    BY DEF EInv, IdemOK
  <2>4. \A l \in Locks : \A n \in 1 .. Len(locks[l]) : l \in call[locks[l][n]].asked
    BY DEF EInv, LocksOK
  <2>5. \A c \in Calls :
          /\ call[c].pc \in {"idle", "arriving", "locking", "holding", "done"}
          /\ call[c].pc = "holding" => Held(c) = LockSet(call[c].req)
    BY DEF EInv, CallsOK, CallOK
  <2>. QED  BY <2>1, <2>2, <2>3, <2>4, <2>5 DEF TypeOK
<1>. QED  BY <1>1, SimInductive, PTL

\* What reconcile would answer at any moment is that the books agree.
THEOREM BookOfRecordHolds == Spec => []BookOfRecord
<1>1. EInv => BookOfRecord
  <2> SUFFICES ASSUME EInv PROVE BookOfRecord
    OBVIOUS
  <2>1. Sound(db) /\ Paired(db) /\ db.entries \in Seq(EntryRecords)
    BY DEF EInv, BookOK, Book, Sound, DBType
  <2>2. ASSUME NEW w \in DOMAIN db.wallets
        PROVE  LET r == Reconcile(db, w)
                   es == EntriesOf(db, w)
               IN  /\ r.cached_balance = r.ledger_balance /\ r.chain_valid
                   /\ r.entry_count = db.wallets[w].version
                   /\ es # <<>> => es[Len(es)].balance_after = r.cached_balance
    <3> DEFINE r == Reconcile(db, w)
               es == EntriesOf(db, w)
    <3>1. /\ r.cached_balance = db.wallets[w].balance /\ r.ledger_balance = BalanceOf(es)
          /\ r.entry_count = Len(es)
          /\ r.chain_valid = \A n \in 2 .. Len(db.entries) : db.entries[n].prev = n - 1
      BY DEF Reconcile, BalanceOf
    <3>2. Tells(es, db.wallets[w])
      BY <2>1 DEF Sound
    <3>3. \A n \in 2 .. Len(db.entries) : db.entries[n].prev = n - 1
      BY <2>1 DEF Sound
    <3>. HIDE DEF r, es
    <3>4. /\ r.cached_balance = r.ledger_balance /\ r.chain_valid
          /\ r.entry_count = db.wallets[w].version
          /\ es # <<>> => es[Len(es)].balance_after = r.cached_balance
      BY <3>1, <3>2, <3>3 DEF Tells
    <3>. QED  BY <3>4 DEF r, es
  <2>. QED  BY <2>1, <2>2 DEF BookOfRecord, Paired
<1>. QED  BY <1>1, SimInductive, PTL

\* Calls that use one key post it at most once, and all that are told 201 made
\* the same request and are told of the same transaction.
THEOREM OncePerKeyHolds == Spec => []OncePerKey
<1>1. EInv => OncePerKey
  BY DEF EInv, IdemOK, RepliesOK, OncePerKey
<1>. QED  BY <1>1, SimInductive, PTL

-----------------------------------------------------------------------------
(* SimEngine implements AccountBook *)

\* The balances are below the bound the account book is given.
AllFit == \A w \in DOMAIN db.wallets : db.wallets[w].balance <= Largest

BalanceMap == [w \in Wallets |-> IF w \in DOMAIN db.wallets
                                 THEN db.wallets[w].balance ELSE 0]

TxnList == [n \in 1 .. Len(db.txs) |-> AsPosted(db.txs[n])]

LEMMA SameOperators ==
    /\ \A t, w, x, y : Ledger!CashTxn(t, w, x, y) = CashTxn(t, w, x, y)
    /\ \A j : Ledger!TransferTxn(j) = TransferTxn(j)
    /\ \A r, b, j : Ledger!Verdict(r, b, j) = Verdict(r, b, j)
    /\ \A b, jobs : Ledger!Trail(b, jobs) = Trail(b, jobs)
    /\ Ledger!Amounts = 0 .. Largest
<1>1. \A t, w, x, y : Ledger!CashTxn(t, w, x, y) = CashTxn(t, w, x, y)
  BY DEF Ledger!CashTxn, CashTxn, Ledger!Entry, Entry, Ledger!NULL, NULL
<1>2. \A j : Ledger!TransferTxn(j) = TransferTxn(j)
  BY DEF Ledger!TransferTxn, TransferTxn, Ledger!Entry, Entry
<1>3. \A r, b, j : Ledger!Verdict(r, b, j) = Verdict(r, b, j)
  BY DEF Ledger!Verdict, Verdict
<1>4. \A b, jobs : Ledger!Trail(b, jobs) = Trail(b, jobs)
  BY DEF Ledger!Trail, Trail, Ledger!Move, Move
<1>5. Ledger!Amounts = 0 .. Largest
  BY DEF Ledger!Amounts
<1>. QED  BY <1>1, <1>2, <1>3, <1>4, <1>5

BalancesFit ==
    /\ BalanceMap \in [Wallets -> Int] /\ BalanceMap \in [Wallets -> 0 .. Largest]
    /\ DOMAIN db.wallets \subseteq Wallets
    /\ \A w \in DOMAIN db.wallets : BalanceMap[w] = db.wallets[w].balance
    /\ \A w \in Wallets \ DOMAIN db.wallets : BalanceMap[w] = 0

LEMMA BalanceMapType == EInv /\ AllFit => BalancesFit
<1> SUFFICES ASSUME EInv, AllFit PROVE BalancesFit
  OBVIOUS
<1>1. Largest \in Int /\ Largest >= 0
  BY DEF Largest
<1>2. /\ DOMAIN db.wallets \subseteq Wallets
      /\ db.wallets \in [DOMAIN db.wallets -> WalletRecords]
      /\ \A w \in DOMAIN db.wallets : db.wallets[w].balance >= 0
  BY DEF EInv, BookOK, Book, Sound, DBType
<1>3. \A w \in DOMAIN db.wallets : db.wallets[w].balance \in 0 .. Largest
  BY <1>1, <1>2 DEF WalletRecords, AllFit
<1>4. BalanceMap \in [Wallets -> 0 .. Largest]
  BY <1>1, <1>3 DEF BalanceMap
<1>5. BalanceMap \in [Wallets -> Int]
  BY <1>1, <1>4
<1>. QED  BY <1>2, <1>3, <1>4, <1>5 DEF BalancesFit, BalanceMap

\* The posted transaction is added to the account book's list.
LEMMA TxnListGrows ==
    ASSUME EInv, NEW r \in MoneyRequests, db'.txs = Append(db.txs, r)
    PROVE  /\ TxnList' = Append(TxnList, AsPosted(r))
           /\ TxnList' = TxnList \o <<AsPosted(r)>>
<1> DEFINE N == Len(db.txs)
           S == {AsPosted(q) : q \in MoneyRequests}
           x == [n \in 1 .. N |-> AsPosted(db.txs[n])]
           y == [n \in 1 .. N + 1 |-> AsPosted(db'.txs[n])]
<1>1. db.txs \in Seq(MoneyRequests) /\ N \in Nat
  BY DEF EInv, BookOK, Book, Sound, DBType
<1>2. /\ Len(db'.txs) = N + 1 /\ db'.txs[N + 1] = r
      /\ \A n \in 1 .. N : db'.txs[n] = db.txs[n]
  BY <1>1
<1>3. TxnList = x /\ TxnList' = y
  BY <1>2 DEF TxnList
<1>4. \A n \in 1 .. N : db.txs[n] \in MoneyRequests
  BY <1>1
<1>5. x \in [1 .. N -> S]
  BY <1>4
<1>6. AsPosted(r) \in S
  OBVIOUS
<1>7. /\ y[N + 1] = AsPosted(r) /\ \A n \in 1 .. N : y[n] = x[n]
      /\ y = [n \in 1 .. N + 1 |-> y[n]]
  <2>1. N + 1 \in 1 .. N + 1 /\ \A n \in 1 .. N : n \in 1 .. N + 1
    BY <1>1
  <2>. QED  BY <1>2, <2>1
<1>8. y = Append(x, AsPosted(r))
  <2>1. PICK p : p = AsPosted(r)
    OBVIOUS
  <2>2. x \in Seq(S) /\ Len(x) = N
    <3>. HIDE DEF x, S
    <3>. QED  BY <1>1, <1>5
  <2>3. /\ Append(x, p) \in Seq(S) /\ Len(Append(x, p)) = N + 1
        /\ Append(x, p)[N + 1] = p /\ \A n \in 1 .. N : Append(x, p)[n] = x[n]
    <3>1. p \in S
      BY <1>6, <2>1
    <3>. HIDE DEF x, S
    <3>. QED  BY <1>1, <2>2, <3>1
  <2>4. PICK z \in Seq(S) : z = Append(x, p)
    BY <2>3
  <2>5. z = [n \in 1 .. N + 1 |-> z[n]]
    <3>1. Len(z) = N + 1
      BY <2>3, <2>4
    <3>. HIDE DEF S
    <3>. QED  BY <1>1, <3>1
  <2>6. \A n \in 1 .. N + 1 : z[n] = y[n]
    <3>1. \A n \in 1 .. N + 1 : n \in 1 .. N \/ n = N + 1
      BY <1>1
    <3>. HIDE DEF x, y
    <3>. QED  BY <1>7, <2>1, <2>3, <2>4, <3>1
  <2>. HIDE DEF y, x
  <2>. QED  BY <1>7, <2>1, <2>4, <2>5, <2>6
<1>9. Append(x, AsPosted(r)) = x \o <<AsPosted(r)>>
  <2>1. PICK p \in S : p = AsPosted(r)
    BY <1>6
  <2>2. x \in Seq(S)
    <3>. HIDE DEF x, S
    <3>. QED  BY <1>1, <1>5
  <2>3. Append(x, p) = x \o <<p>>
    <3>. HIDE DEF x, S
    <3>. QED  BY <2>2
  <2>. QED  BY <2>1, <2>3
<1>. HIDE DEF x
<1>. QED  BY <1>3, <1>8, <1>9

\* The balances around a single transfer.
LEMMA TrailOfOne ==
    ASSUME NEW W, NEW bal \in [W -> Int], NEW j, j.amount \in Int
    PROVE  Trail(bal, <<j>>)[0] = bal /\ Trail(bal, <<j>>)[1] = Move(bal, j)
<1>1. PICK jobs : jobs = <<j>>
  OBVIOUS
<1>2. Len(jobs) = 1 /\ jobs[1] = j
  BY <1>1
<1>3. Len(jobs) \in Nat /\ \A n \in 1 .. Len(jobs) : jobs[n].amount \in Int
  BY <1>2
<1>4. PICK after : after = Trail(bal, jobs)
  OBVIOUS
<1>5. after[0] = bal /\ \A n \in 1 .. Len(jobs) : after[n] = Move(after[n - 1], jobs[n])
  BY <1>3, <1>4, TrailSteps
<1>6. after[1] = Move(bal, j)
  BY <1>2, <1>5
<1>. QED  BY <1>1, <1>4, <1>5, <1>6

\* A payment that is posted is performed by the account book.
LEMMA PostPerforms ==
    ASSUME EInv, AllFit, EInv', AllFit', NEW c \in Calls, PostMoney(c)
    PROVE  Ledger!BookNext
<1>1. PICK r : r = call[c].req
  OBVIOUS
<1>2. /\ r \in Postable(db) /\ r \in Requests /\ r.kind \in Money
      /\ db'.txs = Append(db.txs, r) /\ DOMAIN db'.wallets = DOMAIN db.wallets
      /\ \A v \in DOMAIN db.wallets :
           db'.wallets[v].balance = db.wallets[v].balance + Change(r, v)
  BY <1>1, PostMoneySteps
<1>3. /\ r \in MoneyRequests /\ r.amount \in Int /\ r.amount > 0 /\ r.from # r.to
      /\ r.from \in DOMAIN db.wallets \cup {NULL} /\ r.to \in DOMAIN db.wallets \cup {NULL}
      /\ r.kind # "wallet" /\ NULL \notin Wallets
  BY <1>2, SimAssumption DEF Postable, MoneyRequests, Money
<1>4. PICK o : o = AsOperation(r)
  OBVIOUS
<1>5. o \in {AsOperation(q) : q \in {p \in Requests : p.kind \in Money \cup {"wallet"}}}
  BY <1>2, <1>4
<1>6. BalancesFit /\ BalancesFit'
  BY BalanceMapType, PTL
<1>7. PICK B \in [Wallets -> Int] : B = BalanceMap
  BY <1>6 DEF BalancesFit
<1>8. PICK C \in [Wallets -> Int] : C = BalanceMap'
  BY <1>6 DEF BalancesFit
<1>9. /\ \A w \in Wallets : C[w] \in 0 .. Largest
      /\ \A w \in Wallets : C[w] = B[w] + (IF w \in DOMAIN db.wallets THEN Change(r, w) ELSE 0)
      /\ \A w \in DOMAIN db.wallets : w \in Wallets /\ B[w] = db.wallets[w].balance
      /\ DOMAIN db.wallets \subseteq Wallets
  <2>1. \A w \in Wallets : C[w] \in 0 .. Largest
    BY <1>6, <1>8 DEF BalancesFit
  <2>2. \A w \in DOMAIN db.wallets : w \in Wallets /\ B[w] = db.wallets[w].balance
                                     /\ C[w] = db'.wallets[w].balance
    BY <1>2, <1>6, <1>7, <1>8 DEF BalancesFit
  <2>3. \A w \in Wallets \ DOMAIN db.wallets : B[w] = 0 /\ C[w] = 0
    BY <1>2, <1>6, <1>7, <1>8 DEF BalancesFit
  <2>4. \A w \in Wallets : C[w] = B[w] + (IF w \in DOMAIN db.wallets THEN Change(r, w) ELSE 0)
    BY <1>2, <2>2, <2>3
  <2>. QED  BY <2>1, <2>2, <2>4
<1>10. TxnList' = Append(TxnList, AsPosted(r))
  BY <1>2, <1>3, TxnListGrows
<1>11. CASE r.from = NULL
  <2>1. r.to \in DOMAIN db.wallets /\ r.to \in Wallets /\ r.to # NULL
    BY <1>3, <1>9, <1>11
  <2>2. /\ o = [kind |-> "deposit", wallet |-> r.to, amount |-> r.amount]
        /\ AsPosted(r) = CashTxn("deposit", r.to, r.amount, r.amount)
    BY <1>3, <1>4, <1>11, <2>1 DEF AsOperation, AsPosted
  <2>3. o.kind = "deposit" /\ o.wallet = r.to /\ o.amount = r.amount
    BY <2>2
  <2>4. C = [B EXCEPT ![o.wallet] = @ + o.amount]
    <3>1. \A w \in Wallets : C[w] = [B EXCEPT ![r.to] = @ + r.amount][w]
      BY <1>3, <1>9, <1>11, <2>1 DEF Change
    <3>. QED  BY <2>1, <2>3, <3>1
  <2>5. B[o.wallet] + o.amount \in 0 .. Largest
    BY <1>3, <1>9, <1>11, <2>1, <2>3 DEF Change
  <2>6. Ledger!Deposit(o)
    BY <1>2, <1>7, <1>8, <1>10, <2>1, <2>2, <2>3, <2>4, <2>5, SameOperators
       DEF Ledger!Deposit, BalanceMap, TxnList
  <2>. QED  BY <1>5, <2>3, <2>6 DEF Ledger!BookNext, Ledger!Perform
<1>12. CASE r.to = NULL
  <2>1. r.from \in DOMAIN db.wallets /\ r.from \in Wallets /\ r.from # NULL
    BY <1>3, <1>9, <1>12
  <2>2. /\ o = [kind |-> "withdraw", wallet |-> r.from, amount |-> r.amount]
        /\ AsPosted(r) = CashTxn("withdrawal", r.from, r.amount, -r.amount)
    BY <1>3, <1>4, <1>12, <2>1 DEF AsOperation, AsPosted
  <2>3. o.kind = "withdraw" /\ o.wallet = r.from /\ o.amount = r.amount
    BY <2>2
  <2>4. C = [B EXCEPT ![o.wallet] = @ - o.amount]
    <3>1. \A w \in Wallets : C[w] = [B EXCEPT ![r.from] = @ - r.amount][w]
      BY <1>3, <1>9, <1>12, <2>1 DEF Change
    <3>. QED  BY <2>1, <2>3, <3>1
  <2>5. o.amount <= B[o.wallet]
    <3>1. C[r.from] = B[r.from] - r.amount /\ C[r.from] >= 0
      BY <1>3, <1>9, <1>12, <2>1 DEF Change
    <3>. QED  BY <1>3, <2>1, <2>3, <3>1
  <2>6. Ledger!Withdraw(o)
    BY <1>2, <1>7, <1>8, <1>10, <2>1, <2>2, <2>3, <2>4, <2>5, SameOperators
       DEF Ledger!Withdraw, BalanceMap, TxnList
  <2>. QED  BY <1>5, <2>3, <2>6 DEF Ledger!BookNext, Ledger!Perform
<1>13. CASE r.from # NULL /\ r.to # NULL
  <2>1. /\ r.from \in DOMAIN db.wallets /\ r.from \in Wallets
        /\ r.to \in DOMAIN db.wallets /\ r.to \in Wallets
    BY <1>3, <1>9, <1>13
  <2>2. PICK j : j = [from |-> r.from, to |-> r.to, amount |-> r.amount]
    OBVIOUS
  <2>3. /\ j.from = r.from /\ j.to = r.to /\ j.amount = r.amount
        /\ j.amount \in Int /\ j.from # j.to /\ j.from \in Wallets /\ j.to \in Wallets
    BY <1>3, <2>1, <2>2
  <2>4. o = [kind |-> "batch", jobs |-> <<j>>] /\ AsPosted(r) = TransferTxn(j)
    BY <1>3, <1>4, <1>13, <2>2 DEF AsOperation, AsPosted
  <2>5. PICK jobs : jobs = <<j>>
    OBVIOUS
  <2>6. /\ o.kind = "batch" /\ o.jobs = jobs /\ Len(jobs) = 1 /\ jobs[1] = j
        /\ 1 .. Len(jobs) = {1} /\ Len(jobs) \in Nat
    BY <2>4, <2>5
  <2>7. PICK after : after = Trail(B, jobs)
    OBVIOUS
  <2>8. after[0] = B /\ after[1] = Move(B, j)
    BY <2>3, <2>5, <2>7, TrailOfOne
  <2>9. /\ Move(B, j) \in [Wallets -> Int]
        /\ Move(B, j)[j.from] = B[j.from] - j.amount
        /\ Move(B, j)[j.to] = B[j.to] + j.amount
        /\ \A w \in Wallets \ {j.from, j.to} : Move(B, j)[w] = B[w]
    BY <2>3, MoveType, MoveAt
  <2>10. PICK M \in [Wallets -> Int] : M = Move(B, j)
    BY <2>9
  <2>11. \A w \in Wallets : C[w] = M[w]
    BY <1>3, <1>9, <2>1, <2>3, <2>9, <2>10 DEF Change
  <2>12. C = M
    BY <2>11
  <2>13. Verdict(DOMAIN db.wallets, B, j) = "ok"
    <3>1. B[j.from] \in Int /\ B[j.from] - j.amount >= 0
      BY <1>9, <2>3, <2>9, <2>10, <2>11
    <3>2. ~(B[j.from] < j.amount) /\ ~(j.amount <= 0) /\ j.from # j.to
      BY <1>3, <2>3, <3>1
    <3>. QED  BY <2>1, <2>3, <3>2 DEF Verdict
  <2>14. after[1][j.to] \in 0 .. Largest
    BY <1>9, <2>3, <2>8, <2>10, <2>12
  <2>15. ASSUME NEW n \in 1 .. Len(jobs)
         PROVE  /\ Verdict(DOMAIN db.wallets, after[n - 1], jobs[n]) = "ok"
                /\ after[n][jobs[n].to] \in 0 .. Largest
    <3>1. n = 1 /\ n - 1 = 0
      BY <2>6
    <3>. QED  BY <2>6, <2>8, <2>13, <2>14, <3>1
  <2>16. after[Len(jobs)] = C
    BY <2>6, <2>8, <2>10, <2>12
  <2>17. [n \in 1 .. Len(jobs) |-> TransferTxn(jobs[n])] = <<TransferTxn(j)>>
    BY <2>5
  <2>18. TxnList' = TxnList \o [n \in 1 .. Len(jobs) |-> TransferTxn(jobs[n])]
    BY <1>2, <1>3, <2>4, <2>17, TxnListGrows
  <2>19. Ledger!Transfers(jobs)
    BY <1>2, <1>7, <1>8, <2>7, <2>15, <2>16, <2>18, SameOperators
       DEF Ledger!Transfers, BalanceMap, TxnList
  <2>. QED  BY <1>5, <2>6, <2>19 DEF Ledger!BookNext, Ledger!Perform
<1>. QED  BY <1>3, <1>11, <1>12, <1>13

\* So is the opening of a wallet, with nothing in it.
LEMMA WalletPerforms ==
    ASSUME EInv, AllFit, EInv', AllFit', NEW c \in Calls, AnswerWallet(c)
    PROVE  UNCHANGED db \/ Ledger!BookNext
<1> SUFFICES ASSUME db' # db PROVE Ledger!BookNext
  OBVIOUS
<1>1. PICK r : r = call[c].req
  OBVIOUS
<1>2. r \in Requests /\ r.kind = "wallet"
  BY <1>1 DEF EInv, CallsOK, CallOK, AnswerWallet, AtRoute
<1>3. PICK w \in Wallets \ DOMAIN db.wallets : db' = Opened(db, w)
  BY DEF AnswerWallet, Opened
<1>4. /\ db'.txs = db.txs /\ DOMAIN db'.wallets = DOMAIN db.wallets \cup {w}
      /\ db'.wallets[w].balance = 0
      /\ \A v \in DOMAIN db.wallets : db'.wallets[v] = db.wallets[v]
  BY <1>3, OpeningKeeps DEF EInv, BookOK
<1>5. PICK o : o = AsOperation(r)
  OBVIOUS
<1>6. /\ o \in {AsOperation(q) : q \in {p \in Requests : p.kind \in Money \cup {"wallet"}}}
      /\ o.kind = "create" /\ o.amount = 0
  BY <1>2, <1>5 DEF AsOperation
<1>7. BalancesFit /\ BalancesFit'
  BY BalanceMapType, PTL
<1>8. PICK B \in [Wallets -> Int] : B = BalanceMap
  BY <1>7 DEF BalancesFit
<1>9. PICK C \in [Wallets -> Int] : C = BalanceMap'
  BY <1>7 DEF BalancesFit
<1>10. C = [B EXCEPT ![w] = o.amount]
  <2>1. C[w] = 0
    BY <1>4, <1>7, <1>9 DEF BalancesFit
  <2>2. \A v \in Wallets \ {w} : C[v] = B[v]
    BY <1>4, <1>7, <1>8, <1>9 DEF BalancesFit
  <2>. QED  BY <1>6, <2>1, <2>2
<1>11. TxnList' = TxnList
  BY <1>4 DEF TxnList
<1>12. Ledger!Open(o)
  BY <1>4, <1>6, <1>8, <1>9, <1>10, <1>11 DEF Ledger!Open, BalanceMap, TxnList
<1>. QED  BY <1>6, <1>12 DEF Ledger!BookNext, Ledger!Perform

\* SimEngine implements the account book the SQL of the backend implements, as
\* long as its balances are below the bound the account book is given: each call
\* takes effect in one step, or not at all, whatever calls are under way.
THEOREM SimImplementsAccountBook == Spec /\ []AllFit => SerialBook
<1>1. EInv /\ AllFit => Ledger!BookInit
  <2> SUFFICES ASSUME EInv, AllFit PROVE Ledger!BookInit
    OBVIOUS
  <2>1. BalancesFit
    BY BalanceMapType
  <2>. QED  BY <2>1, SameOperators DEF BalancesFit, Ledger!BookInit, BalanceMap
<1>2. EInv /\ AllFit /\ EInv' /\ AllFit' /\ [Next]_vars =>
        [Ledger!BookNext]_(Ledger!book_vars)
  <2> SUFFICES ASSUME EInv, AllFit, EInv', AllFit', [Next]_vars
               PROVE  Ledger!BookNext \/ UNCHANGED db
    BY DEF Ledger!book_vars
  <2>1. ASSUME NEW c \in Calls, PostMoney(c) \/ AnswerWallet(c)
        PROVE  Ledger!BookNext \/ UNCHANGED db
    BY <2>1, PostPerforms, WalletPerforms
  <2>2. ASSUME NEW c \in Calls, Start(c) \/ Step(c), ~PostMoney(c), ~AnswerWallet(c)
        PROVE  UNCHANGED db
    BY <2>2 DEF Start, Step, AnswerRead, RejectMoney, Ask, Replay, RejectUnknown, Hold,
       RejectFunds, Throw
  <2>3. ASSUME UNCHANGED vars PROVE UNCHANGED db
    BY <2>3 DEF vars
  <2>. QED  BY <2>1, <2>2, <2>3 DEF Next
<1>. QED  BY <1>1, <1>2, SimInductive, PTL DEF Spec, SerialBook, Ledger!BookSpec
=============================================================================
