-------------------------- MODULE LedgerView_proofs --------------------------
(***************************************************************************)
(* Proofs about the Ledger page, checked by TLAPS, for any ledgers, any    *)
(* number of requests in flight and of bumps: if the answers of a kind     *)
(* come in the order of their requests, what the page shows once all is    *)
(* quiet is of the wallet it names and no older than the last bump, and    *)
(* the wallet selected is on the list.                                     *)
(***************************************************************************)
EXTENDS LedgerView, SequenceTheorems, TLAPS

P == INSTANCE Postings_proofs

-----------------------------------------------------------------------------
(* Requests in flight are a queue: what counts is the last of them. *)

LastOf(q) == q[Len(q)]

\* Queue p is q with a request sent n times at its end.
Queued(q, r, n, p) ==
    /\ (r.wallet = NULL \/ n = 0) => p = q
    /\ (r.wallet # NULL /\ n # 0) => (p # <<>> /\ LastOf(p) = r)

LEMMA SentLast ==
    ASSUME NEW S, NEW q \in Seq(S), NEW r \in S, NEW n \in Nat
    PROVE  /\ q \o Sent(n, r) \in Seq(S)
           /\ Queued(q, r, n, q \o Sent(n, r))
<1>0. PICK p : p = q \o Sent(n, r)
  OBVIOUS
<1>1. PICK k \in Nat : k = IF r.wallet = NULL THEN 0 ELSE n
  OBVIOUS
<1>2. PICK t : t = [i \in 1 .. k |-> r]
  OBVIOUS
<1>3. t = Sent(n, r)
  BY <1>1, <1>2 DEF Sent
<1>4. Len(t) = k /\ (\A i \in 1 .. k : t[i] = r) /\ \A T : r \in T => t \in Seq(T)
  BY <1>2
<1>5. \A T : q \in Seq(T) /\ r \in T => p \in Seq(T)
  BY <1>0, <1>3, <1>4, ConcatProperties
<1>6. k = 0 => p = q
  <2>1. k = 0 => t = <<>>
    BY <1>4, EmptySeq
  <2>. QED  BY <1>0, <1>3, <2>1, ConcatEmptySeq
<1>7. k # 0 => p # <<>> /\ LastOf(p) = r
  <2>1. Len(q) \in Nat /\ Len(p) = Len(q) + k
        /\ \A i \in 1 .. Len(q) + k : p[i] = IF i <= Len(q) THEN q[i] ELSE t[i - Len(q)]
    <3>1. t \in Seq(S) /\ Len(t) = k /\ p = q \o t
      BY <1>0, <1>3, <1>4
    <3>2. /\ Len(q \o t) = Len(q) + Len(t)
          /\ \A i \in 1 .. Len(q) + Len(t) :
                (q \o t)[i] = IF i <= Len(q) THEN q[i] ELSE t[i - Len(q)]
      BY <3>1, ConcatProperties
    <3>. QED  BY <3>1, <3>2, LenProperties
  <2>2. k # 0 => p[Len(q) + k] = t[k] /\ t[k] = r
    BY <1>4, <2>1
  <2>. QED  BY <1>1, <2>1, <2>2 DEF LastOf
<1>8. p \in Seq(S)
  BY <1>5
<1>9. (r.wallet = NULL \/ n = 0 <=> k = 0) /\ (r.wallet # NULL /\ n # 0 <=> k # 0)
  BY <1>1
<1>10. (r.wallet = NULL \/ n = 0) => p = q
  BY <1>6, <1>9
<1>11. (r.wallet # NULL /\ n # 0) => (p # <<>> /\ LastOf(p) = r)
  BY <1>7, <1>9
<1>. QED  BY <1>0, <1>8, <1>10, <1>11 DEF Queued

\* Taking the first answer of a queue.
LEMMA WithoutFirst ==
    ASSUME NEW S, NEW q \in Seq(S), q # <<>>, NEW p, p = Without(q, 1)
    PROVE  /\ p \in Seq(S)
           /\ p = <<>> => LastOf(q) = q[1]
           /\ p # <<>> => LastOf(p) = LastOf(q)
           /\ \A T : q \in Seq(T) => p \in Seq(T)
<1>1. Len(q) \in Nat \ {0} /\ SubSeq(q, 1, 0) = <<>>
  BY EmptySeq, LenProperties, SubSeqEmpty
<1>2. PICK t : t = SubSeq(q, 2, Len(q))
  OBVIOUS
<1>3. ASSUME NEW T, q \in Seq(T) PROVE t \in Seq(T)
  <2>1. \A i \in 2 .. Len(q) : q[i] \in T
    BY <1>1, <1>3, ElementOfSeq
  <2>. QED  BY <1>1, <1>2, <2>1, SubSeqProperties
<1>4. /\ Len(t) = Len(q) - 1
      /\ \A i \in 1 .. Len(q) - 1 : t[i] = q[i + 1]
  <2>1. \A i \in 2 .. Len(q) : q[i] \in S
    BY <1>1, ElementOfSeq
  <2>2. PICK n \in Nat \ {0} : n = Len(q)
    BY <1>1
  <2>3. /\ Len(t) = IF 2 <= n THEN n - 2 + 1 ELSE 0
        /\ \A i \in 1 .. n - 2 + 1 : t[i] = q[2 + i - 1]
    BY <1>2, <2>1, <2>2, SubSeqProperties
  <2>4. \A i \in 1 .. n - 1 : i \in 1 .. n - 2 + 1 /\ 2 + i - 1 = i + 1
    OBVIOUS
  <2>. QED  BY <2>2, <2>3, <2>4
<1>5. p = t
  <2>1. 1 - 1 = 0 /\ 1 + 1 = 2
    OBVIOUS
  <2>2. p = SubSeq(q, 1, 0) \o SubSeq(q, 2, Len(q))
    BY <2>1 DEF Without
  <2>. QED  BY <1>1, <1>2, <1>3, <2>2, ConcatEmptySeq
<1>6. p = <<>> <=> Len(q) = 1
  BY <1>1, <1>3, <1>4, <1>5, EmptySeq
<1>7. Len(q) # 1 => LastOf(p) = LastOf(q)
  <2>1. Len(q) # 1 => Len(q) - 1 \in 1 .. Len(q) - 1 /\ t[Len(q) - 1] = q[Len(q) - 1 + 1]
    BY <1>1, <1>4
  <2>. QED  BY <1>1, <1>4, <1>5, <2>1 DEF LastOf
<1>. QED  BY <1>3, <1>5, <1>6, <1>7 DEF LastOf

-----------------------------------------------------------------------------
(* The wallets a ledger has opened, and how ledgers grow *)

IdsIn(b, n) == {b[m].to : m \in {k \in 1 .. n : b[k].kind = "wallet"}}

Posts == {Opens(w) : w \in Nat} \cup Movements

LEMMA IdsOfAnswer ==
    /\ \A a : a.source # "none" => Ids(a) = IdsIn(book[a.source], a.version)
    /\ \A a : a.source = "none" => Ids(a) = {}
BY DEF Ids, Opened, IdsIn

LEMMA IdsGrow ==
    ASSUME NEW b, NEW n \in Int, NEW m \in Int, n <= m
    PROVE  IdsIn(b, n) \subseteq IdsIn(b, m)
BY DEF IdsIn

\* What a ledger has opened stays so when something is posted to it.
Longer(b, p, c) ==
    /\ c \in Seq(Posts) /\ Len(c) = Len(b) + 1 /\ Len(b) \in Nat
    /\ \A n \in 0 .. Len(b) : IdsIn(c, n) = IdsIn(b, n)
    /\ IdsIn(c, Len(c)) = IdsIn(b, Len(b)) \cup (IF p.kind = "wallet" THEN {p.to} ELSE {})

LEMMA IdsAppend ==
    ASSUME NEW b \in Seq(Posts), NEW p \in Posts
    PROVE  Longer(b, p, Append(b, p))
<1>0. PICK c : c = Append(b, p)
  OBVIOUS
<1>1. /\ c \in Seq(Posts) /\ Len(c) = Len(b) + 1 /\ Len(b) \in Nat
      /\ \A i \in 1 .. Len(b) : c[i] = b[i]
      /\ c[Len(b) + 1] = p
  BY <1>0, AppendProperties, LenProperties
<1>2. PICK n \in Nat : n = Len(b)
  BY <1>1
<1>3. \A k \in 0 .. n : IdsIn(c, k) = IdsIn(b, k)
  BY <1>1, <1>2 DEF IdsIn
<1>4. IdsIn(c, n + 1) = IdsIn(c, n) \cup (IF p.kind = "wallet" THEN {p.to} ELSE {})
  <2>1. 1 .. n + 1 = (1 .. n) \cup {n + 1}
    OBVIOUS
  <2>2. c[n + 1] = p
    BY <1>1, <1>2
  <2>. QED  BY <2>1, <2>2 DEF IdsIn
<1>. QED  BY <1>0, <1>1, <1>2, <1>3, <1>4 DEF Longer

\* How the ledgers may change: each gets longer, and what was opened stays so.
Grown(b, c) ==
    /\ c \in [Sources -> Seq(Posts)]
    /\ \A s \in Sources :
          /\ Len(b[s]) \in Nat /\ Len(c[s]) \in Nat /\ Len(c[s]) >= Len(b[s])
          /\ \A n \in 0 .. Len(b[s]) : IdsIn(c[s], n) = IdsIn(b[s], n)

LEMMA GrownSame ==
    ASSUME NEW b \in [Sources -> Seq(Posts)]
    PROVE  Grown(b, b)
BY LenProperties DEF Grown

GrownBy(b, s, p, c) ==
    /\ Grown(b, c)
    /\ IdsIn(c[s], Len(c[s])) =
          IdsIn(b[s], Len(b[s])) \cup (IF p.kind = "wallet" THEN {p.to} ELSE {})
    /\ \A t \in Sources \ {s} : c[t] = b[t]

LEMMA GrownAppend ==
    ASSUME NEW b \in [Sources -> Seq(Posts)], NEW s \in Sources, NEW p \in Posts
    PROVE  GrownBy(b, s, p, [b EXCEPT ![s] = Append(@, p)])
<1>0. PICK c : c = [b EXCEPT ![s] = Append(@, p)]
  OBVIOUS
<1>1. PICK e \in Seq(Posts) : e = b[s]
  OBVIOUS
<1>2. PICK d : d = Append(e, p)
  OBVIOUS
<1>3. /\ d \in Seq(Posts) /\ Len(d) = Len(e) + 1 /\ Len(e) \in Nat
      /\ \A n \in 0 .. Len(e) : IdsIn(d, n) = IdsIn(e, n)
      /\ IdsIn(d, Len(d)) = IdsIn(e, Len(e)) \cup (IF p.kind = "wallet" THEN {p.to} ELSE {})
  BY <1>2, IdsAppend DEF Longer
<1>4. c \in [Sources -> Seq(Posts)] /\ c[s] = d /\ \A t \in Sources \ {s} : c[t] = b[t]
  BY <1>0, <1>1, <1>2, <1>3
<1>5. ASSUME NEW t \in Sources
      PROVE  /\ Len(b[t]) \in Nat /\ Len(c[t]) \in Nat /\ Len(c[t]) >= Len(b[t])
             /\ \A n \in 0 .. Len(b[t]) : IdsIn(c[t], n) = IdsIn(b[t], n)
  <2>1. CASE t = s
    <3>1. b[t] = e /\ c[t] = d
      BY <1>1, <1>4, <2>1
    <3>2. Len(d) \in Nat /\ Len(d) >= Len(e)
      BY <1>3
    <3>. QED  BY <1>3, <3>1, <3>2
  <2>2. CASE t # s
    <3>1. Len(b[t]) \in Nat
      BY LenProperties
    <3>2. c[t] = b[t]
      BY <1>4, <2>2
    <3>. QED  BY <3>1, <3>2
  <2>. QED  BY <2>1, <2>2
<1>6. IdsIn(c[s], Len(c[s])) =
          IdsIn(b[s], Len(b[s])) \cup (IF p.kind = "wallet" THEN {p.to} ELSE {})
  BY <1>1, <1>3, <1>4
<1>. QED  BY <1>0, <1>4, <1>5, <1>6 DEF Grown, GrownBy

-----------------------------------------------------------------------------
(* The inductive invariant *)

Versions == [Sources -> Nat]
Reads == [wallet : Nat, since : Versions]
AnswerSet == [source : Sources \cup {"none"}, version : Nat]

All(s) == IdsIn(book[s], Len(book[s]))

\* The ids of a ledger are its own, and what is selected or being created has been
\* opened.
Ledgers ==
    /\ book \in [Sources -> Seq(Posts)]
    /\ \A s \in Sources : All(s) \subseteq IdsOf(s)
    /\ creating \in {{}, {NULL}} \cup {{w} : w \in All("live")}
    /\ selectedId \in {NULL} \cup All("live") \cup All("sim")
    /\ revision \in Nat

PastVersions == {v \in Versions : \A s \in Sources : v[s] <= Len(book[s])}

\* What was bumped and heard of is in the ledgers, and the list shown is what was
\* heard of last.
Past ==
    /\ bumpedAt \in PastVersions /\ heard \in PastVersions
    /\ wallets \in AnswerSet
    /\ wallets.source # "none" => wallets.version = heard[wallets.source]
    /\ refreshes \in Seq(PastVersions)

Fresh(a) == a.source # "none" => a.version >= bumpedAt[a.source]
AfterBump(since) == \A s \in Sources : since[s] >= bumpedAt[s]

\* The list is fresh, or the last one asked for will be.
ListFresh == IF refreshes = <<>> THEN Fresh(wallets) ELSE AfterBump(LastOf(refreshes))

\* The selected wallet is on the list, or it will be on the last one asked for, if
\* the ledger that answers has it.
ListKnows ==
    \A s \in Sources : selectedId \in All(s) =>
        IF refreshes = <<>>
        THEN wallets.source = s => selectedId \in IdsIn(book[s], heard[s])
        ELSE \/ selectedId \in IdsIn(book[s], heard[s])
             \/ selectedId \in IdsIn(book[s], LastOf(refreshes)[s])

StoreInv == Ledgers /\ Past /\ ListFresh /\ ListKnows

\* The rows and the reconciliation shown are of the wallet selected, or the last
\* ones asked for are; and so for the age of the rows.
PageInv ==
    /\ loads \in Seq(Reads) /\ recons \in Seq(Reads)
    /\ loads \in Seq([wallet : Nat \ {NULL}, since : Versions])
    /\ page \in [wallet : Nat, answer : AnswerSet]
    /\ page.wallet = NULL => page.answer.source = "none"
    /\ ~opened => page.wallet = NULL /\ loads = <<>>
    /\ opened /\ selected # NULL =>
          /\ IF loads = <<>> THEN page.wallet = selected /\ Fresh(page.answer)
             ELSE LastOf(loads).wallet = selected /\ AfterBump(LastOf(loads).since)
          /\ IF recons = <<>> THEN recon \in {selected, NULL}
             ELSE LastOf(recons).wallet = selected

ViewInv == StoreInv /\ PageInv

-----------------------------------------------------------------------------
(* Answers, selections and bumps *)

LEMMA AnswerIs ==
    ASSUME NEW since, NEW a \in Answers(since), since \in Versions, Ledgers
    PROVE  /\ a.source \in Sources /\ a.version \in Nat /\ a \in AnswerSet
           /\ a.version >= since[a.source] /\ a.version <= Len(book[a.source])
<1>1. PICK s \in Sources : a \in [source : {s}, version : since[s] .. Len(book[s])]
  BY DEF Answers
<1>2. a.source = s /\ a.version \in since[s] .. Len(book[s]) /\ a = [source |-> s, version |-> a.version]
  BY <1>1
<1>3. since[s] \in Nat /\ Len(book[s]) \in Nat
  BY LenProperties DEF Versions, Ledgers
<1>4. a.version \in Nat /\ a.version >= since[s] /\ a.version <= Len(book[s])
  BY <1>2, <1>3
<1>. QED  BY <1>2, <1>4 DEF AnswerSet

LEMMA NowIs ==
    ASSUME Ledgers
    PROVE  /\ Now \in Versions
           /\ \A s \in Sources : Now[s] = Len(book[s]) /\ Len(book[s]) \in Nat
BY LenProperties DEF Now, Versions, Ledgers

\* Ids are positive numbers, and no two ledgers have one in common.
LEMMA IdsAreApart ==
    ASSUME Ledgers
    PROVE  /\ \A s \in Sources : All(s) \subseteq Nat \ {NULL}
           /\ \A s, t \in Sources : \A w : w \in All(s) /\ w \in All(t) => s = t
<1>1. \A s \in Sources : IdsOf(s) \subseteq Nat \ {NULL}
  <2>1. \A n \in 1 .. Len(LiveWallets) : LiveWallets[n] \in Nat
    BY ConsoleAssumption, ElementOfSeq
  <2>2. \A n \in 1 .. Len(SimWallets) : SimWallets[n] \in Nat
    BY ConsoleAssumption, ElementOfSeq
  <2>. QED  BY ConsoleAssumption, <2>1, <2>2 DEF IdsOf
<1>2. All("live") \cap All("sim") = {}
  BY ConsoleAssumption DEF Ledgers, Sources
<1>. QED  BY <1>1, <1>2 DEF Ledgers, Sources

\* What a list shows has been opened by the ledger it is of.
LEMMA ListIsOpened ==
    ASSUME Ledgers, Past
    PROVE  /\ wallets.source = "none" => Ids(wallets) = {}
           /\ wallets.source # "none" =>
                 /\ wallets.source \in Sources
                 /\ Ids(wallets) = IdsIn(book[wallets.source], heard[wallets.source])
                 /\ Ids(wallets) \subseteq All(wallets.source)
<1>1. wallets.source # "none" => wallets.source \in Sources
  BY DEF Past, AnswerSet
<1>2. \A s \in Sources : IdsIn(book[s], heard[s]) \subseteq All(s)
  <2>1. \A s \in Sources : heard[s] \in Int /\ Len(book[s]) \in Int /\ heard[s] <= Len(book[s])
    BY LenProperties DEF Past, PastVersions, Ledgers, Versions
  <2>. QED  BY <2>1, IdsGrow DEF All
<1>. QED  BY <1>1, <1>2, IdsOfAnswer DEF Past

LEMMA SelectedIs ==
    ASSUME Ledgers, Past
    PROVE  /\ selected \in Nat
           /\ selected = NULL \/ (selected = selectedId /\ selectedId \in Ids(wallets))
<1>1. Ids(wallets) \subseteq Nat
  BY ListIsOpened, IdsAreApart DEF Sources
<1>. QED  BY <1>1 DEF selected, NULL

\* The first wallet of a list is on the list.
LEMMA FirstIs ==
    ASSUME NEW a, a.version \in Nat
    PROVE  FirstListed(a, {}) = NULL \/ FirstListed(a, {}) \in Ids(a)
<1> DEFINE at == {n \in Opened(a) : book[a.source][n].to \notin {}}
<1>1. at \in SUBSET Nat
  BY DEF Opened
<1>2. CASE at # {}
  <2>1. \E n \in at : \A m \in at : n <= m
    <3>. HIDE DEF at
    <3>. QED  BY <1>1, <1>2, P!LeastNatural
  <2>2. FirstListed(a, {}) = book[a.source][CHOOSE n \in at : \A m \in at : n <= m].to
    BY <1>2 DEF FirstListed
  <2>3. PICK k \in at : k = CHOOSE n \in at : \A m \in at : n <= m
    <3>. HIDE DEF at
    <3>. QED  BY <2>1
  <2>4. k \in Opened(a)
    OBVIOUS
  <2>. QED  BY <2>2, <2>3, <2>4 DEF Ids
<1>3. CASE at = {}
  BY <1>3 DEF FirstListed
<1>. QED  BY <1>2, <1>3

-----------------------------------------------------------------------------
(* The steps of the store *)

\* The last of the requests in flight.
LEMMA LastIsPast ==
    ASSUME Past, refreshes # <<>>
    PROVE  LastOf(refreshes) \in PastVersions
<1>1. Len(refreshes) \in 1 .. Len(refreshes)
  BY EmptySeq DEF Past
<1>. QED  BY <1>1, ElementOfSeq DEF Past, LastOf

LEMMA GrownKeepsPast ==
    ASSUME Ledgers, Past, Grown(book, book'), UNCHANGED <<wallets, heard>>
    PROVE  /\ PastVersions \subseteq PastVersions'
           /\ heard' \in PastVersions'
           /\ refreshes \in Seq(PastVersions')
           /\ wallets' \in AnswerSet
           /\ (wallets.source # "none" => wallets.version = heard[wallets.source])'
           /\ \A s \in Sources : \A v \in PastVersions :
                 IdsIn(book'[s], v[s]) = IdsIn(book[s], v[s])
<1>1. PastVersions \subseteq PastVersions'
  <2> SUFFICES ASSUME NEW v \in Versions, NEW s \in Sources, v[s] <= Len(book[s])
               PROVE  v[s] <= Len(book'[s])
    BY DEF PastVersions
  <2>1. v[s] \in Nat /\ Len(book[s]) \in Nat /\ Len(book'[s]) \in Nat /\ Len(book'[s]) >= Len(book[s])
    BY DEF Grown, Versions
  <2>. QED  BY <2>1
<1>2. refreshes \in Seq(PastVersions')
  BY <1>1, SeqMonotonic DEF Past
<1>3. ASSUME NEW s \in Sources, NEW v \in PastVersions
      PROVE  IdsIn(book'[s], v[s]) = IdsIn(book[s], v[s])
  <2>1. v[s] \in Nat /\ Len(book[s]) \in Nat /\ v[s] <= Len(book[s])
    BY DEF Grown, Versions, PastVersions
  <2>2. v[s] \in 0 .. Len(book[s])
    BY <2>1
  <2>. QED  BY <2>2 DEF Grown
<1>. QED  BY <1>1, <1>2, <1>3 DEF Past

\* A step that neither asks for a list nor bumps: it may open a wallet that is not
\* selected, or select one of the list.
LEMMA QuietKeeps ==
    ASSUME StoreInv, Ledgers', Grown(book, book'),
           UNCHANGED <<wallets, refreshes, bumpedAt, heard>>,
           \A s \in Sources : selectedId' \in All(s)' =>
               \/ selectedId' = selectedId /\ selectedId \in All(s)
               \/ wallets.source = s /\ selectedId' \in IdsIn(book[s], heard[s])
    PROVE  StoreInv'
<1>1. /\ PastVersions \subseteq PastVersions'
      /\ heard' \in PastVersions'
      /\ refreshes \in Seq(PastVersions')
      /\ wallets' \in AnswerSet
      /\ (wallets.source # "none" => wallets.version = heard[wallets.source])'
      /\ \A s \in Sources : \A v \in PastVersions :
            IdsIn(book'[s], v[s]) = IdsIn(book[s], v[s])
  BY GrownKeepsPast DEF StoreInv
<1>2. Past'
  BY <1>1 DEF Past, StoreInv
<1>3. ListFresh'
  BY DEF StoreInv, ListFresh, Fresh, AfterBump
<1>4. ASSUME NEW s \in Sources, selectedId' \in All(s)'
      PROVE  IF refreshes = <<>>
             THEN wallets.source = s => selectedId' \in IdsIn(book'[s], heard[s])
             ELSE \/ selectedId' \in IdsIn(book'[s], heard[s])
                  \/ selectedId' \in IdsIn(book'[s], LastOf(refreshes)[s])
  <2>1. IdsIn(book'[s], heard[s]) = IdsIn(book[s], heard[s])
    BY <1>1 DEF StoreInv, Past
  <2>2. refreshes # <<>> =>
            IdsIn(book'[s], LastOf(refreshes)[s]) = IdsIn(book[s], LastOf(refreshes)[s])
    BY <1>1, LastIsPast DEF StoreInv
  <2>3. CASE selectedId' = selectedId /\ selectedId \in All(s)
    BY <2>1, <2>2, <2>3 DEF StoreInv, ListKnows
  <2>4. CASE wallets.source = s /\ selectedId' \in IdsIn(book[s], heard[s])
    BY <2>1, <2>4
  <2>. QED  BY <1>4, <2>3, <2>4
<1>5. ListKnows'
  BY <1>4 DEF ListKnows
<1>. QED  BY <1>2, <1>3, <1>5 DEF StoreInv

\* A bump asks for a list of what the ledgers have now.
LEMMA BumpKeeps ==
    ASSUME StoreInv, Ledgers', Grown(book, book'), UNCHANGED <<wallets, heard>>,
           refreshes' = Append(refreshes, Now'), bumpedAt' = Now'
    PROVE  StoreInv'
<1>1. /\ PastVersions \subseteq PastVersions'
      /\ heard' \in PastVersions'
      /\ refreshes \in Seq(PastVersions')
      /\ wallets' \in AnswerSet
      /\ (wallets.source # "none" => wallets.version = heard[wallets.source])'
  BY GrownKeepsPast DEF StoreInv
<1>2. /\ Now' \in Versions
      /\ \A s \in Sources : Now'[s] = Len(book'[s]) /\ Len(book'[s]) \in Nat
  <2>1. (Ledgers => /\ Now \in Versions
                    /\ \A s \in Sources : Now[s] = Len(book[s]) /\ Len(book[s]) \in Nat)'
    BY NowIs, PTL
  <2>. QED  BY <2>1 DEF Versions, Sources
<1>3. Now' \in PastVersions'
  BY <1>2 DEF PastVersions
<1>4. /\ refreshes' \in Seq(PastVersions') /\ refreshes' # <<>>
      /\ LastOf(refreshes') = Now'
  <2>1. PICK v \in PastVersions' : v = Now'
    BY <1>3
  <2>. QED  BY <1>1, <2>1, AppendProperties DEF LastOf
<1>5. Past'
  BY <1>1, <1>3, <1>4 DEF Past
<1>6. ListFresh'
  BY <1>2, <1>4 DEF ListFresh, AfterBump
<1>7. ListKnows'
  BY <1>2, <1>4 DEF ListKnows, All
<1>. QED  BY <1>5, <1>6, <1>7 DEF StoreInv

Remembers == bumpedAt' = IF revision' # revision THEN Now' ELSE bumpedAt

LEMMA SelectKeeps ==
    ASSUME StoreInv, NEW w \in Ids(wallets), Select(w), UNCHANGED heard, Remembers
    PROVE  StoreInv'
<1>1. /\ selectedId' = w /\ book' = book /\ wallets' = wallets /\ revision' = revision
      /\ refreshes' = refreshes /\ creating' = creating /\ heard' = heard
      /\ bumpedAt' = bumpedAt
  BY DEF Select, Remembers
<1>2. /\ wallets.source \in Sources
      /\ w \in IdsIn(book[wallets.source], heard[wallets.source])
      /\ w \in All(wallets.source)
  BY ListIsOpened DEF StoreInv
<1>3. Ledgers'
  BY <1>1, <1>2 DEF StoreInv, Ledgers, All, Sources
<1>4. Grown(book, book')
  BY <1>1, GrownSame DEF StoreInv, Ledgers
<1>5. ASSUME NEW s \in Sources, selectedId' \in All(s)'
      PROVE  wallets.source = s /\ selectedId' \in IdsIn(book[s], heard[s])
  <2>1. w \in All(s)
    BY <1>1, <1>5 DEF All
  <2>2. wallets.source = s
    BY <1>2, <2>1, IdsAreApart DEF StoreInv
  <2>. QED  BY <1>1, <1>2, <2>2
<1>. QED  BY <1>1, <1>3, <1>4, <1>5, QuietKeeps

LEMMA SubmitKeeps ==
    ASSUME StoreInv, SubmitWallet, UNCHANGED heard, Remembers
    PROVE  StoreInv'
<1>1. /\ selectedId' = selectedId /\ book' = book /\ wallets' = wallets
      /\ revision' = revision /\ refreshes' = refreshes /\ creating' = {NULL}
      /\ heard' = heard /\ bumpedAt' = bumpedAt
  BY DEF SubmitWallet, Remembers
<1>2. Ledgers'
  BY <1>1 DEF StoreInv, Ledgers, All
<1>3. Grown(book, book')
  BY <1>1, GrownSame DEF StoreInv, Ledgers
<1>. QED  BY <1>1, <1>2, <1>3, QuietKeeps DEF All

\* Wallets of the two ledgers, before and after one of them has opened w.
LEMMA OpeningKeeps ==
    ASSUME StoreInv, NEW s \in Sources, NEW w \in Unused(s),
           book' = [book EXCEPT ![s] = Append(@, Opens(w))]
    PROVE  /\ Grown(book, book')
           /\ All(s)' = All(s) \cup {w}
           /\ \A t \in Sources \ {s} : All(t)' = All(t)
           /\ \A t \in Sources : All(t)' \subseteq IdsOf(t)
           /\ w \notin All("live") \cup All("sim") \cup {NULL}
<1>1. w \in NewWallets[s] /\ w \in IdsOf(s) /\ w \notin All(s)
  BY IdsOfAnswer, ConsoleAssumption DEF Unused, IdsOf, All, Sources
<1>2. w \in Nat \ {NULL}
  BY <1>1, ConsoleAssumption
<1>3. \A t \in Sources : w \in All(t) => t = s
  BY <1>1, ConsoleAssumption DEF StoreInv, Ledgers, Sources
<1>4. PICK p \in Posts : p = Opens(w)
  BY <1>2 DEF Posts
<1>5. p.kind = "wallet" /\ p.to = w
  BY <1>4 DEF Opens
<1>6. /\ Grown(book, book')
      /\ IdsIn(book'[s], Len(book'[s])) =
            IdsIn(book[s], Len(book[s])) \cup (IF p.kind = "wallet" THEN {p.to} ELSE {})
      /\ \A t \in Sources \ {s} : book'[t] = book[t]
  <2>1. book \in [Sources -> Seq(Posts)]
    BY DEF StoreInv, Ledgers
  <2>2. PICK c : c = [book EXCEPT ![s] = Append(@, p)]
    OBVIOUS
  <2>3. /\ Grown(book, c)
        /\ IdsIn(c[s], Len(c[s])) =
              IdsIn(book[s], Len(book[s])) \cup (IF p.kind = "wallet" THEN {p.to} ELSE {})
        /\ \A t \in Sources \ {s} : c[t] = book[t]
    BY <2>1, <2>2, GrownAppend DEF GrownBy
  <2>4. c = book'
    BY <1>4, <2>2
  <2>. QED  BY <2>3, <2>4
<1>7. All(s)' = All(s) \cup {w}
  BY <1>5, <1>6 DEF All
<1>8. \A t \in Sources \ {s} : All(t)' = All(t)
  BY <1>6 DEF All
<1>9. \A t \in Sources : All(t)' \subseteq IdsOf(t)
  BY <1>1, <1>7, <1>8 DEF StoreInv, Ledgers
<1>. QED  BY <1>1, <1>2, <1>3, <1>6, <1>7, <1>8, <1>9 DEF Sources

LEMMA OpenedKeeps ==
    ASSUME StoreInv, WalletOpened, UNCHANGED heard, Remembers
    PROVE  StoreInv'
<1>1. PICK w \in Unused("live") :
         book' = [book EXCEPT !["live"] = Append(@, Opens(w))] /\ creating' = {w}
  BY DEF WalletOpened
<1>2. /\ selectedId' = selectedId /\ wallets' = wallets /\ revision' = revision
      /\ refreshes' = refreshes /\ heard' = heard /\ bumpedAt' = bumpedAt
  BY DEF WalletOpened, Remembers
<1>3. "live" \in Sources /\ "sim" \in Sources /\ "live" # "sim"
  BY DEF Sources
<1>4. /\ Grown(book, book')
      /\ All("live")' = All("live") \cup {w}
      /\ \A t \in Sources \ {"live"} : All(t)' = All(t)
      /\ \A t \in Sources : All(t)' \subseteq IdsOf(t)
      /\ w \notin All("live") \cup All("sim") \cup {NULL}
  BY <1>1, <1>3, OpeningKeeps
<1>5. Ledgers'
  <2>1. book' \in [Sources -> Seq(Posts)]
    BY <1>4 DEF Grown
  <2>2. creating' \in {{v} : v \in All("live")'}
    BY <1>1, <1>4
  <2>3. selectedId' \in {NULL} \cup All("live")' \cup All("sim")'
    BY <1>2, <1>3, <1>4 DEF StoreInv, Ledgers
  <2>. QED  BY <1>2, <1>4, <2>1, <2>2, <2>3 DEF StoreInv, Ledgers
<1>6. \A s \in Sources : selectedId' \in All(s)' => selectedId \in All(s)
  BY <1>2, <1>4 DEF StoreInv, Ledgers
<1>. QED  BY <1>2, <1>4, <1>5, <1>6, QuietKeeps

LEMMA OthersKeep ==
    ASSUME StoreInv, OthersPost, UNCHANGED heard, Remembers
    PROVE  StoreInv'
<1>1. PICK p \in Movements : book' = [book EXCEPT !["live"] = Append(@, p)]
  BY DEF OthersPost
<1>2. /\ selectedId' = selectedId /\ wallets' = wallets /\ revision' = revision
      /\ refreshes' = refreshes /\ heard' = heard /\ bumpedAt' = bumpedAt
      /\ creating' = creating
  BY DEF OthersPost, Remembers
<1>3. "live" \in Sources /\ p \in Posts /\ p.kind # "wallet"
  BY ConsoleAssumption DEF Sources, Posts
<1>4. /\ Grown(book, book')
      /\ IdsIn(book'["live"], Len(book'["live"])) =
            IdsIn(book["live"], Len(book["live"])) \cup (IF p.kind = "wallet" THEN {p.to} ELSE {})
      /\ \A t \in Sources \ {"live"} : book'[t] = book[t]
  <2>1. book \in [Sources -> Seq(Posts)]
    BY DEF StoreInv, Ledgers
  <2>. QED  BY <1>1, <1>3, <2>1, GrownAppend DEF GrownBy
<1>5. \A t \in Sources : All(t)' = All(t)
  BY <1>3, <1>4 DEF All
<1>6. Ledgers'
  BY <1>2, <1>4, <1>5 DEF StoreInv, Ledgers, Grown, Sources
<1>. QED  BY <1>2, <1>4, <1>5, <1>6, QuietKeeps

LEMMA AnsweredKeeps ==
    ASSUME StoreInv, WalletAnswered, UNCHANGED heard, Remembers
    PROVE  StoreInv'
<1>1. /\ selectedId' \in creating /\ creating \notin {{}, {NULL}} /\ creating' = {}
      /\ book' = book /\ wallets' = wallets /\ heard' = heard
      /\ revision' = revision + 1 /\ refreshes' = Append(refreshes, Now')
  BY DEF WalletAnswered, Bump
<1>2. bumpedAt' = Now'
  BY <1>1 DEF Remembers, StoreInv, Ledgers
<1>3. Ledgers'
  BY <1>1 DEF StoreInv, Ledgers, All
<1>4. Grown(book, book')
  BY <1>1, GrownSame DEF StoreInv, Ledgers
<1>. QED  BY <1>1, <1>2, <1>3, <1>4, BumpKeeps

LEMMA SimulatedKeeps ==
    ASSUME StoreInv, WalletSimulated, UNCHANGED heard, Remembers
    PROVE  StoreInv'
<1>1. PICK w \in Unused("sim") :
         book' = [book EXCEPT !["sim"] = Append(@, Opens(w))] /\ selectedId' = w
  BY DEF WalletSimulated
<1>2. /\ wallets' = wallets /\ heard' = heard /\ creating' = {}
      /\ revision' = revision + 1 /\ refreshes' = Append(refreshes, Now')
  BY DEF WalletSimulated, Bump
<1>3. "live" \in Sources /\ "sim" \in Sources /\ "live" # "sim"
  BY DEF Sources
<1>4. bumpedAt' = Now'
  BY <1>2 DEF Remembers, StoreInv, Ledgers
<1>5. /\ Grown(book, book')
      /\ All("sim")' = All("sim") \cup {w}
      /\ \A t \in Sources : All(t)' \subseteq IdsOf(t)
  BY <1>1, <1>3, OpeningKeeps
<1>6. Ledgers'
  <2>1. book' \in [Sources -> Seq(Posts)]
    BY <1>5 DEF Grown
  <2>2. revision' \in Nat
    BY <1>2 DEF StoreInv, Ledgers
  <2>3. selectedId' \in All("sim")'
    BY <1>1, <1>5
  <2>. QED  BY <1>2, <1>5, <2>1, <2>2, <2>3 DEF Ledgers
<1>. QED  BY <1>2, <1>4, <1>5, <1>6, BumpKeeps

LEMMA LabKeeps ==
    ASSUME StoreInv, LabEnds, UNCHANGED heard, Remembers
    PROVE  StoreInv'
<1>1. /\ selectedId' = selectedId /\ creating' = creating
      /\ book' = book /\ wallets' = wallets /\ heard' = heard
      /\ revision' = revision + 1 /\ refreshes' = Append(refreshes, Now')
  BY DEF LabEnds, Bump
<1>2. bumpedAt' = Now'
  BY <1>1 DEF Remembers, StoreInv, Ledgers
<1>3. Ledgers'
  BY <1>1 DEF StoreInv, Ledgers, All
<1>4. Grown(book, book')
  BY <1>1, GrownSame DEF StoreInv, Ledgers
<1>. QED  BY <1>1, <1>2, <1>3, <1>4, BumpKeeps

\* The list that arrives is the one asked for first, and of a state of its ledger
\* that is no older than the last one heard of.
LEMMA ListKeeps ==
    ASSUME InOrder, StoreInv, ListShown, Remembers
    PROVE  StoreInv'
<1>1. PICK n \in DOMAIN refreshes : \E a \in Answers(refreshes[n]) :
         /\ n = 1 /\ a.version >= heard[a.source]
         /\ ListArrives(n, a)
         /\ heard' = [heard EXCEPT ![a.source] = a.version]
  BY DEF ListShown, InTurn
<1>1a. PICK a \in Answers(refreshes[n]) :
         /\ n = 1 /\ a.version >= heard[a.source]
         /\ ListArrives(n, a)
         /\ heard' = [heard EXCEPT ![a.source] = a.version]
  BY <1>1
<1>2. /\ book' = book /\ revision' = revision /\ creating' = creating
      /\ refreshes' = Without(refreshes, 1) /\ wallets' = a
      /\ selectedId' = IF selectedId = NULL THEN FirstListed(a, {}) ELSE selectedId
  BY <1>1a DEF ListArrives
<1>3. bumpedAt' = bumpedAt
  BY <1>2 DEF Remembers
<1>4. refreshes \in Seq(PastVersions) /\ refreshes # <<>>
  <2>1. refreshes \in Seq(PastVersions)
    BY DEF StoreInv, Past
  <2>2. DOMAIN refreshes = 1 .. Len(refreshes) /\ n \in DOMAIN refreshes
    BY <2>1, LenProperties
  <2>. QED  BY <2>1, <2>2, EmptySeq
<1>5. /\ refreshes' \in Seq(PastVersions)
      /\ refreshes' = <<>> => LastOf(refreshes) = refreshes[1]
      /\ refreshes' # <<>> => LastOf(refreshes') = LastOf(refreshes)
  BY <1>2, <1>4, WithoutFirst
<1>6. refreshes[1] \in PastVersions
  <2>1. 1 \in 1 .. Len(refreshes)
    BY <1>4, EmptySeq
  <2>. QED  BY <1>4, <2>1, ElementOfSeq
<1>7. PICK v \in PastVersions : v = refreshes[1]
  BY <1>6
<1>8. /\ a.source \in Sources /\ a.version \in Nat /\ a \in AnswerSet
      /\ a.version >= v[a.source] /\ a.version <= Len(book[a.source])
  BY <1>1a, <1>7, AnswerIs DEF PastVersions, StoreInv
<1>9. PICK s \in Sources : s = a.source
  BY <1>8
<1>10. /\ heard \in Versions /\ heard' \in Versions /\ heard'[s] = a.version
       /\ \A t \in Sources \ {s} : heard'[t] = heard[t]
       /\ heard' \in PastVersions
  BY <1>1a, <1>8, <1>9 DEF StoreInv, Past, PastVersions, Versions
<1>11. PastVersions' = PastVersions
  BY <1>2 DEF PastVersions
<1>12. Past'
  BY <1>2, <1>3, <1>5, <1>8, <1>9, <1>10, <1>11 DEF Past, StoreInv
<1>13. Ids(a) = IdsIn(book[s], a.version) /\ Ids(a) \subseteq All(s)
  <2>1. a.version \in Int /\ Len(book[s]) \in Int
    BY <1>8, LenProperties DEF StoreInv, Ledgers
  <2>2. a.source # "none"
    BY <1>8 DEF Sources
  <2>. QED  BY <1>8, <1>9, <2>1, <2>2, IdsOfAnswer, IdsGrow DEF All
<1>14. selectedId' = selectedId \/ selectedId' = NULL \/ selectedId' \in Ids(a)
  BY <1>2, <1>8, FirstIs
<1>15. Ledgers'
  BY <1>2, <1>9, <1>13, <1>14 DEF StoreInv, Ledgers, All, Sources
<1>16. ListFresh'
  <2>1. CASE refreshes' = <<>>
    <3>1. AfterBump(v)
      BY <1>4, <1>5, <1>7, <2>1 DEF StoreInv, ListFresh
    <3>2. bumpedAt[s] \in Nat /\ v[s] \in Nat /\ v[s] >= bumpedAt[s]
      BY <3>1 DEF AfterBump, StoreInv, Past, PastVersions, Versions
    <3>3. a.version >= bumpedAt'[a.source]
      BY <1>3, <1>8, <1>9, <3>2
    <3>. QED  BY <1>2, <2>1, <3>3 DEF ListFresh, Fresh
  <2>2. CASE refreshes' # <<>>
    BY <1>3, <1>4, <1>5, <2>2 DEF StoreInv, ListFresh, AfterBump
  <2>. QED  BY <2>1, <2>2
<1>17. ASSUME NEW t \in Sources, selectedId' \in All(t)'
       PROVE  IF refreshes' = <<>>
              THEN wallets'.source = t => selectedId' \in IdsIn(book'[t], heard'[t])
              ELSE \/ selectedId' \in IdsIn(book'[t], heard'[t])
                   \/ selectedId' \in IdsIn(book'[t], LastOf(refreshes')[t])
  <2>1. selectedId' \in All(t) /\ book'[t] = book[t]
    BY <1>2, <1>17 DEF All
  <2>2. CASE selectedId' = selectedId
    <3>1. IdsIn(book[t], heard[t]) \subseteq IdsIn(book[t], heard'[t])
      <4>1. heard[t] \in Int /\ heard'[t] \in Int /\ heard[t] <= heard'[t]
        BY <1>1a, <1>8, <1>9, <1>10 DEF Versions
      <4>. QED  BY <4>1, IdsGrow
    <3>2. \/ selectedId \in IdsIn(book[t], heard[t])
          \/ selectedId \in IdsIn(book[t], LastOf(refreshes)[t])
      BY <1>4, <2>1, <2>2 DEF StoreInv, ListKnows
    <3>3. CASE refreshes' # <<>>
      BY <1>5, <2>1, <2>2, <3>1, <3>2, <3>3
    <3>4. CASE refreshes' = <<>> /\ t # s
      BY <1>2, <1>9, <3>4
    <3>5. CASE refreshes' = <<>> /\ t = s
      <4>1. IdsIn(book[t], v[t]) \subseteq IdsIn(book[t], heard'[t])
        <5>1. v[t] \in Int /\ heard'[t] \in Int /\ v[t] <= heard'[t]
          BY <1>8, <1>9, <1>10, <3>5 DEF Versions, PastVersions
        <5>. QED  BY <5>1, IdsGrow
      <4>2. LastOf(refreshes) = v
        BY <1>5, <1>7, <3>5
      <4>. QED  BY <2>1, <2>2, <3>1, <3>2, <3>5, <4>1, <4>2
    <3>. QED  BY <3>3, <3>4, <3>5
  <2>3. CASE selectedId' \in Ids(a)
    <3>1. t = s
      BY <1>13, <2>1, <2>3, IdsAreApart DEF StoreInv
    <3>2. selectedId' \in IdsIn(book'[t], heard'[t])
      BY <1>10, <1>13, <2>1, <2>3, <3>1
    <3>. QED  BY <3>2
  <2>4. CASE selectedId' = NULL
    BY <2>1, <2>4, IdsAreApart DEF StoreInv
  <2>. QED  BY <1>14, <2>2, <2>3, <2>4
<1>18. ListKnows'
  BY <1>17 DEF ListKnows
<1>. QED  BY <1>12, <1>15, <1>16, <1>18 DEF StoreInv

LEMMA StoreKeeps ==
    ASSUME InOrder, StoreInv, StoreChanges
    PROVE  StoreInv'
<1>1. Remembers
  BY DEF StoreChanges, Remembers
<1>2. CASE ListShown
  BY <1>1, <1>2, ListKeeps
<1>3. CASE StoreStep /\ UNCHANGED heard
  BY <1>1, <1>3, SelectKeeps, SubmitKeeps, OpenedKeeps, AnsweredKeeps, SimulatedKeeps,
     OthersKeep, LabKeeps DEF StoreStep
<1>. QED  BY <1>2, <1>3 DEF StoreChanges

LEMMA StoreStays ==
    ASSUME StoreInv, UNCHANGED <<store_vars, bumpedAt, heard>>
    PROVE  StoreInv'
<1>1. /\ book' = book /\ wallets' = wallets /\ selectedId' = selectedId
      /\ revision' = revision /\ refreshes' = refreshes /\ creating' = creating
      /\ bumpedAt' = bumpedAt /\ heard' = heard
  BY DEF store_vars
<1>2. Ledgers'
  BY <1>1 DEF StoreInv, Ledgers, All
<1>3. Past'
  BY <1>1 DEF StoreInv, Past, PastVersions
<1>4. ListFresh'
  BY <1>1 DEF StoreInv, ListFresh, Fresh, AfterBump
<1>5. ListKnows'
  BY <1>1 DEF StoreInv, ListKnows, All
<1>. QED  BY <1>2, <1>3, <1>4, <1>5 DEF StoreInv

-----------------------------------------------------------------------------
(* The steps of the page *)

Waits == [wallet : Nat \ {NULL}, since : Versions]

LEMMA RequestIs ==
    ASSUME StoreInv
    PROVE  /\ Request \in Reads /\ Request.wallet = selected /\ Request.since = Now
           /\ selected # NULL => Request \in Waits
           /\ AfterBump(Request.since)
<1>1. selected \in Nat /\ Now \in Versions
  BY SelectedIs, NowIs DEF StoreInv
<1>2. PICK w \in Nat : w = selected
  BY <1>1
<1>3. Request = [wallet |-> w, since |-> Now]
  BY <1>2 DEF Request
<1>4. AfterBump(Now)
  BY NowIs DEF AfterBump, StoreInv, Past, PastVersions, Versions
<1>. QED  BY <1>1, <1>2, <1>3, <1>4 DEF Reads, Waits

\* Requests for the wallet selected, sent n times, go to the end of the queue.
LEMMA QueueKeeps ==
    ASSUME NEW q \in Seq(Reads), NEW r \in Reads, NEW n \in Nat
    PROVE  /\ q \o Sent(n, r) \in Seq(Reads)
           /\ Queued(q, r, n, q \o Sent(n, r))
           /\ (q \in Seq(Waits) /\ (r.wallet # NULL => r \in Waits)) =>
                 q \o Sent(n, r) \in Seq(Waits)
<1>1. CASE r \in Waits
  BY <1>1, SentLast
<1>2. CASE r.wallet = NULL
  BY <1>2, SentLast DEF Queued
<1>3. CASE r.wallet # NULL /\ r \notin Waits
  BY <1>3, SentLast
<1>. QED  BY <1>1, <1>2, <1>3

\* After a step of the store, the effects ask for what another selection or a bump
\* calls for.
LEMMA EffectsKeep ==
    ASSUME StoreInv, StoreInv', PageInv, Effects, Remembers
    PROVE  PageInv'
<1>1. CASE ~opened
  <2>1. UNCHANGED page_vars
    BY <1>1 DEF Effects
  <2>. QED  BY <1>1, <2>1 DEF PageInv, page_vars
<1>2. CASE opened
  <2>1. PICK x, y, r : x = selected /\ y = selected' /\ r = Request'
    OBVIOUS
  <2>2. PICK once \in {0, 1} : once = IF y # x THEN 1 ELSE 0
    OBVIOUS
  <2>3. PICK n \in Nat : /\ n = once + (IF revision' # revision THEN 1 ELSE 0)
                         /\ n = 0 <=> (y = x /\ revision' = revision)
    BY <2>2
  <2>4. /\ loads' = loads \o Sent(n, r) /\ recons' = recons \o Sent(once, r)
        /\ recon' = IF y # x THEN NULL ELSE recon
        /\ opened' = opened /\ page' = page
    BY <1>2, <2>1, <2>2, <2>3 DEF Effects
  <2>5. /\ r \in Reads /\ r.wallet = y
        /\ y # NULL => r \in Waits
        /\ AfterBump(r.since)'
    <3>1. (StoreInv => /\ Request \in Reads /\ Request.wallet = selected /\ Request.since = Now
                       /\ selected # NULL => Request \in Waits
                       /\ AfterBump(Request.since))'
      BY RequestIs, PTL
    <3>. QED  BY <2>1, <3>1 DEF AfterBump, Reads, Waits, Versions
  <2>6. /\ loads' \in Seq(Reads) /\ loads' \in Seq(Waits) /\ recons' \in Seq(Reads)
        /\ (y = NULL \/ n = 0) => loads' = loads
        /\ (y # NULL /\ n # 0) => loads' # <<>> /\ LastOf(loads') = r
        /\ (y = NULL \/ once = 0) => recons' = recons
        /\ (y # NULL /\ once # 0) => recons' # <<>> /\ LastOf(recons') = r
    <3>1. /\ loads' \in Seq(Reads) /\ loads' \in Seq(Waits)
          /\ (y = NULL \/ n = 0) => loads' = loads
          /\ (y # NULL /\ n # 0) => loads' # <<>> /\ LastOf(loads') = r
      BY <2>4, <2>5, QueueKeeps DEF PageInv, Waits, Queued
    <3>2. /\ recons' \in Seq(Reads)
          /\ (y = NULL \/ once = 0) => recons' = recons
          /\ (y # NULL /\ once # 0) => recons' # <<>> /\ LastOf(recons') = r
      BY <2>2, <2>4, <2>5, QueueKeeps DEF PageInv, Queued
    <3>. QED  BY <3>1, <3>2
  <2>7. n = 0 => y = x /\ once = 0 /\ bumpedAt' = bumpedAt
    BY <2>2, <2>3 DEF Remembers
  <2>8. once = 0 <=> y = x
    BY <2>2
  <2>9. ASSUME y # NULL
        PROVE  IF loads' = <<>> THEN page'.wallet = y /\ Fresh(page.answer)'
               ELSE LastOf(loads').wallet = y /\ AfterBump(LastOf(loads).since)'
    <3>1. CASE n = 0
      <4>1. IF loads = <<>> THEN page.wallet = x /\ Fresh(page.answer)
            ELSE LastOf(loads).wallet = x /\ AfterBump(LastOf(loads).since)
        BY <1>2, <2>1, <2>7, <2>9, <3>1 DEF PageInv
      <4>. QED  BY <2>4, <2>6, <2>7, <3>1, <4>1 DEF Fresh, AfterBump
    <3>2. CASE n # 0
      BY <2>5, <2>6, <2>9, <3>2 DEF AfterBump
    <3>. QED  BY <3>1, <3>2
  <2>10. ASSUME y # NULL
         PROVE  IF recons' = <<>> THEN recon' \in {y, NULL} ELSE LastOf(recons').wallet = y
    <3>1. CASE once = 0
      <4>1. IF recons = <<>> THEN recon \in {x, NULL} ELSE LastOf(recons).wallet = x
        BY <1>2, <2>1, <2>8, <2>10, <3>1 DEF PageInv
      <4>. QED  BY <2>4, <2>6, <2>8, <3>1, <4>1
    <3>2. CASE once # 0
      BY <2>5, <2>6, <2>10, <3>2
    <3>. QED  BY <3>1, <3>2
  <2>11. page' = page /\ opened'
    BY <1>2, <2>4
  <2>. QED  BY <2>1, <2>6, <2>9, <2>10, <2>11 DEF PageInv, Waits
<1>. QED  BY <1>1, <1>2

\* With the store as it was, and so the wallet selected.
LEMMA SameSelection ==
    ASSUME UNCHANGED <<store_vars, bumpedAt, heard>>
    PROVE  /\ selected' = selected /\ Now' = Now /\ bumpedAt' = bumpedAt /\ book' = book
           /\ \A a : Fresh(a)' = Fresh(a)
           /\ \A v : AfterBump(v)' = AfterBump(v)
           /\ \A a : Ids(a)' = Ids(a)
<1>1. book' = book /\ wallets' = wallets /\ selectedId' = selectedId /\ bumpedAt' = bumpedAt
  BY DEF store_vars
<1>2. \A a : Ids(a)' = Ids(a)
  BY <1>1 DEF Ids, Opened
<1>3. selected' = selected
  BY <1>1 DEF selected, Ids, Opened
<1>4. Now' = Now
  BY <1>1 DEF Now
<1>5. \A a : Fresh(a)' = Fresh(a)
  BY <1>1 DEF Fresh
<1>6. \A v : AfterBump(v)' = AfterBump(v)
  BY <1>1 DEF AfterBump
<1>. QED  BY <1>1, <1>2, <1>3, <1>4, <1>5, <1>6

LEMMA NoRequestYet == <<>> \in Seq(Reads) /\ <<>> \in Seq(Waits)
BY EmptySeq

LEMMA OpenKeeps ==
    ASSUME StoreInv, PageInv, Open
    PROVE  PageInv'
<1>1. UNCHANGED <<store_vars, bumpedAt, heard>>
  BY DEF Open
<1>2. PICK x, r : x = selected /\ r = Request
  OBVIOUS
<1>3. PICK n \in Nat \ {0} : n = IF revision > 0 THEN 2 ELSE 1
  OBVIOUS
<1>4. /\ opened' /\ ~opened /\ loads' = Sent(n, r) /\ recons' = Sent(1, r)
      /\ page' = page /\ recon' = recon
  BY <1>2, <1>3 DEF Open
<1>5. r \in Reads /\ r.wallet = x /\ (x # NULL => r \in Waits) /\ AfterBump(r.since)
  BY <1>2, RequestIs
<1>6. ASSUME NEW k \in Nat \ {0}
      PROVE  /\ Sent(k, r) \in Seq(Reads) /\ Sent(k, r) \in Seq(Waits)
             /\ x # NULL => Sent(k, r) # <<>> /\ LastOf(Sent(k, r)) = r
  <2>1. /\ <<>> \o Sent(k, r) \in Seq(Reads)
        /\ Queued(<<>>, r, k, <<>> \o Sent(k, r))
        /\ <<>> \o Sent(k, r) \in Seq(Waits)
    BY <1>5, NoRequestYet, QueueKeeps
  <2>2. Sent(k, r) \in Seq(Reads)
    <3>1. CASE r.wallet = NULL
      BY <3>1, EmptySeq DEF Sent
    <3>2. CASE r.wallet # NULL
      BY <1>5, <3>2 DEF Sent
    <3>. QED  BY <3>1, <3>2
  <2>3. <<>> \o Sent(k, r) = Sent(k, r)
    BY <2>2, ConcatEmptySeq
  <2>. QED  BY <1>5, <2>1, <2>2, <2>3 DEF Queued
<1>7. /\ selected' = x /\ \A v : AfterBump(v)' = AfterBump(v)
  BY <1>1, <1>2, SameSelection
<1>8. /\ loads' \in Seq(Reads) /\ loads' \in Seq(Waits)
      /\ x # NULL => loads' # <<>> /\ LastOf(loads') = r
  BY <1>3, <1>4, <1>6
<1>9. /\ recons' \in Seq(Reads)
      /\ x # NULL => recons' # <<>> /\ LastOf(recons') = r
  BY <1>4, <1>6
<1>10. x # NULL => LastOf(loads').wallet = x /\ AfterBump(LastOf(loads).since)'
  BY <1>1, <1>5, <1>8 DEF AfterBump
<1>11. x # NULL => LastOf(recons').wallet = x
  BY <1>5, <1>9
<1>12. page' \in [wallet : Nat, answer : AnswerSet]
       /\ (page'.wallet = NULL => page'.answer.source = "none")
  BY <1>4 DEF PageInv
<1>. QED  BY <1>4, <1>7, <1>8, <1>9, <1>10, <1>11, <1>12 DEF PageInv, Waits

LEMMA LeaveKeeps ==
    ASSUME PageInv, Leave
    PROVE  PageInv'
<1>1. /\ ~opened' /\ loads' = <<>> /\ recons' = <<>> /\ page' = NoRows
  BY DEF Leave
<1>2. NoRows \in [wallet : Nat, answer : AnswerSet] /\ NoRows.wallet = NULL
      /\ NoRows.answer.source = "none"
  BY DEF NoRows, Unprobed, AnswerSet, NULL
<1>. QED  BY <1>1, <1>2, NoRequestYet DEF PageInv, Waits

LEMMA RefreshKeeps ==
    ASSUME StoreInv, PageInv, Refresh
    PROVE  PageInv'
<1>1. UNCHANGED <<store_vars, bumpedAt, heard>>
  BY DEF Refresh
<1>2. PICK x, r : x = selected /\ r = Request
  OBVIOUS
<1>3. /\ opened' = opened /\ opened /\ recons' = recons /\ page' = page /\ recon' = recon
      /\ loads' = loads \o Sent(1, r)
  BY <1>2 DEF Refresh
<1>4. r \in Reads /\ r.wallet = x /\ (x # NULL => r \in Waits) /\ AfterBump(r.since)
  BY <1>2, RequestIs
<1>5. /\ loads' \in Seq(Reads) /\ loads' \in Seq(Waits)
      /\ x # NULL => loads' # <<>> /\ LastOf(loads') = r
  <2>1. loads \in Seq(Reads) /\ loads \in Seq(Waits) /\ 1 \in Nat /\ 1 # 0
    BY DEF PageInv, Waits
  <2>2. /\ loads \o Sent(1, r) \in Seq(Reads) /\ loads \o Sent(1, r) \in Seq(Waits)
        /\ Queued(loads, r, 1, loads \o Sent(1, r))
    BY <1>4, <2>1, QueueKeeps
  <2>. QED  BY <1>3, <1>4, <2>1, <2>2 DEF Queued
<1>6. selected' = x
  BY <1>1, <1>2, SameSelection
<1>7. x # NULL => LastOf(loads').wallet = x /\ AfterBump(LastOf(loads).since)'
  BY <1>1, <1>4, <1>5 DEF AfterBump
<1>. QED  BY <1>2, <1>3, <1>5, <1>6, <1>7 DEF PageInv, Waits

LEMMA ReconcileKeeps ==
    ASSUME StoreInv, PageInv, Reconcile
    PROVE  PageInv'
<1>1. UNCHANGED <<store_vars, bumpedAt, heard>>
  BY DEF Reconcile
<1>2. PICK x, r : x = selected /\ r = Request
  OBVIOUS
<1>3. /\ opened' = opened /\ opened /\ loads' = loads /\ page' = page /\ recon' = recon
      /\ recons' = recons \o Sent(1, r)
  BY <1>2 DEF Reconcile
<1>4. r \in Reads /\ r.wallet = x
  BY <1>2, RequestIs
<1>5. /\ recons' \in Seq(Reads)
      /\ x # NULL => recons' # <<>> /\ LastOf(recons') = r
  BY <1>3, <1>4, QueueKeeps DEF PageInv, Queued
<1>6. selected' = x
  BY <1>1, <1>2, SameSelection
<1>7. x # NULL => IF loads' = <<>> THEN page'.wallet = x /\ Fresh(page.answer)'
                  ELSE LastOf(loads').wallet = x /\ AfterBump(LastOf(loads).since)'
  BY <1>1, <1>2, <1>3 DEF PageInv, Fresh, AfterBump
<1>. QED  BY <1>3, <1>4, <1>5, <1>6, <1>7 DEF PageInv

\* The rows that arrive are those of the first load in flight.
LEMMA LoadKeeps ==
    ASSUME InOrder, StoreInv, PageInv, LoadArrives
    PROVE  PageInv'
<1>1. UNCHANGED <<store_vars, bumpedAt, heard>>
  BY DEF LoadArrives
<1>2. PICK n \in DOMAIN loads : \E a \in Answers(loads[n].since) :
         n = 1 /\ loads' = Without(loads, n) /\ page' = [wallet |-> loads[n].wallet, answer |-> a]
  BY DEF LoadArrives, InTurn
<1>3. PICK a \in Answers(loads[n].since) :
         n = 1 /\ loads' = Without(loads, n) /\ page' = [wallet |-> loads[n].wallet, answer |-> a]
  BY <1>2
<1>4. PICK x : x = selected
  OBVIOUS
<1>5. /\ opened' = opened /\ recons' = recons /\ recon' = recon /\ selected' = x
  BY <1>1, <1>4, SameSelection DEF LoadArrives
<1>6. loads \in Seq(Waits) /\ loads \in Seq(Reads) /\ loads # <<>>
  <2>1. loads \in Seq(Waits) /\ loads \in Seq(Reads)
    BY DEF PageInv, Waits
  <2>2. DOMAIN loads = 1 .. Len(loads) /\ n \in DOMAIN loads
    BY <2>1, LenProperties
  <2>. QED  BY <2>1, <2>2, EmptySeq
<1>7. /\ loads' \in Seq(Waits) /\ loads' \in Seq(Reads)
      /\ loads' = <<>> => LastOf(loads) = loads[1]
      /\ loads' # <<>> => LastOf(loads') = LastOf(loads)
  BY <1>3, <1>6, WithoutFirst
<1>8. PICK f \in Waits : f = loads[1]
  <2>1. 1 \in 1 .. Len(loads)
    BY <1>6, EmptySeq
  <2>. QED  BY <1>6, <2>1, ElementOfSeq
<1>9. f.wallet \in Nat \ {NULL} /\ f.since \in Versions
  BY DEF Waits
<1>10. /\ a.source \in Sources /\ a.version \in Nat /\ a \in AnswerSet
       /\ a.version >= f.since[a.source]
  BY <1>3, <1>8, <1>9, AnswerIs DEF StoreInv
<1>11. page' = [wallet |-> f.wallet, answer |-> a]
  BY <1>3, <1>8
<1>12. /\ page' \in [wallet : Nat, answer : AnswerSet] /\ page'.wallet = f.wallet
       /\ page'.wallet # NULL /\ page'.answer = a
  BY <1>9, <1>10, <1>11
<1>13. opened
  <2>1. ~opened => loads = <<>>
    BY DEF PageInv
  <2>. QED  BY <1>6, <2>1
<1>14. ASSUME x # NULL
       PROVE  IF loads' = <<>> THEN page'.wallet = x /\ Fresh(page.answer)'
              ELSE LastOf(loads').wallet = x /\ AfterBump(LastOf(loads).since)'
  <2>1. LastOf(loads).wallet = x /\ AfterBump(LastOf(loads).since)
    BY <1>4, <1>6, <1>13, <1>14 DEF PageInv
  <2>2. CASE loads' = <<>>
    <3>1. AfterBump(f.since) /\ f.wallet = x
      BY <1>7, <1>8, <2>1, <2>2
    <3>2. PICK s \in Sources : s = a.source
      BY <1>10
    <3>3. f.since[s] \in Nat /\ bumpedAt[s] \in Nat /\ f.since[s] >= bumpedAt[s]
      BY <1>9, <3>1, <3>2 DEF AfterBump, Versions, StoreInv, Past, PastVersions
    <3>4. a.version >= bumpedAt'[a.source]
      BY <1>1, <1>10, <3>2, <3>3
    <3>. QED  BY <1>12, <2>2, <3>1, <3>4 DEF Fresh
  <2>3. CASE loads' # <<>>
    BY <1>1, <1>7, <2>1, <2>3 DEF AfterBump
  <2>. QED  BY <2>2, <2>3
<1>15. recons' \in Seq(Reads)
       /\ (x # NULL => IF recons' = <<>> THEN recon' \in {x, NULL} ELSE LastOf(recons').wallet = x)
  BY <1>4, <1>5, <1>13 DEF PageInv
<1>. QED  BY <1>5, <1>7, <1>12, <1>13, <1>14, <1>15 DEF PageInv, Waits

LEMMA ReconKeeps ==
    ASSUME InOrder, StoreInv, PageInv, ReconArrives
    PROVE  PageInv'
<1>1. UNCHANGED <<store_vars, bumpedAt, heard>>
  BY DEF ReconArrives
<1>2. PICK n \in DOMAIN recons :
         /\ n = 1 /\ recons' = Without(recons, n)
         /\ recon' \in {recons[n].wallet, NULL}
  BY DEF ReconArrives, InTurn
<1>3. PICK x : x = selected
  OBVIOUS
<1>4. /\ opened' = opened /\ loads' = loads /\ page' = page /\ selected' = x
  BY <1>1, <1>3, SameSelection DEF ReconArrives
<1>5. recons \in Seq(Reads) /\ recons # <<>>
  <2>1. recons \in Seq(Reads)
    BY DEF PageInv
  <2>2. DOMAIN recons = 1 .. Len(recons) /\ n \in DOMAIN recons
    BY <2>1, LenProperties
  <2>. QED  BY <2>1, <2>2, EmptySeq
<1>6. /\ recons' \in Seq(Reads)
      /\ recons' = <<>> => LastOf(recons) = recons[1]
      /\ recons' # <<>> => LastOf(recons') = LastOf(recons)
  BY <1>2, <1>5, WithoutFirst
<1>7. ASSUME opened, x # NULL
      PROVE  IF recons' = <<>> THEN recon' \in {x, NULL} ELSE LastOf(recons').wallet = x
  <2>1. LastOf(recons).wallet = x
    BY <1>3, <1>5, <1>7 DEF PageInv
  <2>. QED  BY <1>2, <1>6, <2>1
<1>8. opened /\ x # NULL =>
          IF loads' = <<>> THEN page'.wallet = x /\ Fresh(page.answer)'
          ELSE LastOf(loads').wallet = x /\ AfterBump(LastOf(loads).since)'
  BY <1>1, <1>3, <1>4 DEF PageInv, Fresh, AfterBump
<1>. QED  BY <1>4, <1>6, <1>7, <1>8 DEF PageInv

-----------------------------------------------------------------------------
(* Theorems *)

\* ViewInv holds at first, and every step keeps it.
LEMMA ViewInitial == Init => ViewInv
<1> SUFFICES ASSUME Init PROVE ViewInv
  OBVIOUS
<1>1. /\ \A s \in Sources : Len(book[s]) \in Nat
      /\ book \in [Sources -> Seq(Posts)]
      /\ \A s \in Sources : All(s) \subseteq IdsOf(s)
  <2>1. ASSUME NEW s \in Sources
        PROVE  /\ book[s] \in Seq(Posts) /\ Len(book[s]) \in Nat
               /\ All(s) \subseteq IdsOf(s)
    <3>1. PICK ids \in Seq(Nat) : ids = IF s = "live" THEN LiveWallets ELSE SimWallets
      BY ConsoleAssumption
    <3>2. book[s] = [n \in DOMAIN ids |-> Opens(ids[n])]
      BY <3>1 DEF Init, StoreInit
    <3>3. DOMAIN ids = 1 .. Len(ids) /\ Len(ids) \in Nat
          /\ \A n \in 1 .. Len(ids) : ids[n] \in Nat
      BY LenProperties, ElementOfSeq
    <3>4. \A n \in 1 .. Len(ids) : Opens(ids[n]) \in Posts
      BY <3>3 DEF Posts
    <3>5. book[s] \in [1 .. Len(ids) -> Posts]
      BY <3>2, <3>3, <3>4
    <3>6. book[s] \in Seq(Posts) /\ Len(book[s]) = Len(ids)
      BY <3>3, <3>5
    <3>7. \A n \in 1 .. Len(ids) : book[s][n].to = ids[n]
      BY <3>2, <3>3 DEF Opens
    <3>8. All(s) \subseteq {ids[n] : n \in 1 .. Len(ids)}
      BY <3>6, <3>7 DEF All, IdsIn
    <3>. QED  BY <3>1, <3>3, <3>6, <3>8 DEF IdsOf
  <2>2. book = [s \in Sources |-> book[s]]
    BY DEF Init, StoreInit
  <2>. QED  BY <2>1, <2>2
<1>2. Ledgers
  BY <1>1 DEF Init, StoreInit, Ledgers
<1>3. Now \in PastVersions
  BY <1>2, NowIs DEF PastVersions
<1>4. [s \in Sources |-> 0] \in PastVersions
  BY <1>1 DEF PastVersions, Versions
<1>5. /\ <<Now>> \in Seq(PastVersions) /\ <<Now>> # <<>> /\ LastOf(<<Now>>) = Now
  BY <1>3 DEF LastOf
<1>6. Past
  BY <1>3, <1>4, <1>5 DEF Past, Init, StoreInit, Unprobed, AnswerSet
<1>7. ListFresh
  <2>1. AfterBump(Now)
    BY <1>3 DEF AfterBump, Init, PastVersions, Versions
  <2>. QED  BY <1>5, <2>1 DEF ListFresh, Init, StoreInit
<1>8. ListKnows
  BY <1>2, IdsAreApart DEF ListKnows, Init, StoreInit
<1>9. PageInv
  BY NoRequestYet DEF PageInv, Waits, Init, NoRows, Unprobed, AnswerSet, NULL
<1>. QED  BY <1>2, <1>6, <1>7, <1>8, <1>9 DEF ViewInv, StoreInv

LEMMA ViewSteps ==
    ASSUME InOrder
    PROVE  ViewInv /\ [Next]_vars => ViewInv'
<1> SUFFICES ASSUME ViewInv, [Next]_vars PROVE ViewInv'
  OBVIOUS
<1>. USE DEF ViewInv
<1>1. CASE StoreChanges
  <2>1. StoreInv'
    BY <1>1, StoreKeeps
  <2>. QED  BY <1>1, <2>1, EffectsKeep DEF StoreChanges, Remembers
<1>2. CASE Open
  BY <1>2, OpenKeeps, StoreStays DEF Open
<1>3. CASE Leave
  BY <1>3, LeaveKeeps, StoreStays DEF Leave
<1>4. CASE Refresh
  BY <1>4, RefreshKeeps, StoreStays DEF Refresh
<1>5. CASE Reconcile
  BY <1>5, ReconcileKeeps, StoreStays DEF Reconcile
<1>6. CASE LoadArrives
  BY <1>6, LoadKeeps, StoreStays DEF LoadArrives
<1>7. CASE ReconArrives
  BY <1>7, ReconKeeps, StoreStays DEF ReconArrives
<1>8. CASE UNCHANGED vars
  <2>1. UNCHANGED <<store_vars, bumpedAt, heard>> /\ UNCHANGED page_vars
    BY <1>8 DEF vars
  <2>2. PageInv'
    BY <2>1, SameSelection DEF PageInv, page_vars
  <2>. QED  BY <2>1, <2>2, StoreStays
<1>. QED  BY <1>1, <1>2, <1>3, <1>4, <1>5, <1>6, <1>7, <1>8 DEF Next

\* The inductive invariant of the store and the page.
THEOREM ViewInductive ==
    ASSUME InOrder
    PROVE  Spec => []ViewInv
<1>1. Init => ViewInv
  BY ViewInitial
<1>2. ViewInv /\ [Next]_vars => ViewInv'
  BY ViewSteps
<1>. QED  BY <1>1, <1>2, PTL DEF Spec

\* Once nothing is on its way, the rows and the reconciliation shown are of the
\* wallet the page names, if answers come in the order of their requests: load
\* (web/app.tsx) cancels nothing, and the last one sent is for the wallet selected.
THEOREM OwnRowsHolds ==
    ASSUME InOrder
    PROVE  Spec => []OwnRows
<1>1. ViewInv => OwnRows
  BY DEF ViewInv, PageInv, OwnRows, Quiet
<1>. QED  BY <1>1, ViewInductive, PTL

\* Once nothing is on its way, neither the list of wallets nor the rows shown are
\* older than the last bump, with which the code says that money has moved.
THEOREM FreshSinceBumpHolds ==
    ASSUME InOrder
    PROVE  Spec => []FreshSinceBump
<1>1. ViewInv => FreshSinceBump
  <2> SUFFICES ASSUME ViewInv, Quiet PROVE
          Fresh(wallets) /\ (page.wallet = selected => Fresh(page.answer))
    BY DEF FreshSinceBump, Fresh
  <2>1. Fresh(wallets)
    BY DEF ViewInv, StoreInv, ListFresh, Quiet
  <2>2. CASE selected # NULL /\ opened
    BY <2>1, <2>2 DEF ViewInv, PageInv, Quiet
  <2>3. CASE selected = NULL \/ ~opened
    <3>1. page.wallet = selected => page.answer.source = "none"
      BY <2>3 DEF ViewInv, PageInv
    <3>. QED  BY <2>1, <3>1 DEF Fresh
  <2>. QED  BY <2>2, <2>3
<1>. QED  BY <1>1, ViewInductive, PTL

\* Once the lists asked for are in, the wallet selected is on the one shown, if the
\* ledger it is of has it: a wallet opened on the page is selected before it is on
\* any list, and the bump that follows asks for one that has it.
THEOREM NoLimboHolds ==
    ASSUME InOrder
    PROVE  Spec => []NoLimbo
<1>1. ViewInv => NoLimbo
  <2> SUFFICES ASSUME ViewInv, refreshes = <<>>, wallets.source # "none",
                      selectedId \in Ids([source |-> wallets.source,
                                          version |-> Len(book[wallets.source])])
               PROVE  selected = selectedId
    BY DEF NoLimbo
  <2>1. PICK s \in Sources : s = wallets.source
    BY DEF ViewInv, StoreInv, Past, AnswerSet
  <2>2. selectedId \in All(s)
    <3>1. PICK a : a = [source |-> wallets.source, version |-> Len(book[wallets.source])]
      OBVIOUS
    <3>2. a.source = s /\ a.version = Len(book[s]) /\ s # "none"
      BY <2>1, <3>1
    <3>. QED  BY <3>1, <3>2, IdsOfAnswer DEF All
  <2>3. selectedId \in IdsIn(book[s], heard[s])
    BY <2>1, <2>2 DEF ViewInv, StoreInv, ListKnows
  <2>4. Ids(wallets) = IdsIn(book[s], heard[s])
    BY <2>1, ListIsOpened DEF ViewInv, StoreInv
  <2>. QED  BY <2>3, <2>4 DEF selected
<1>. QED  BY <1>1, ViewInductive, PTL

=============================================================================
