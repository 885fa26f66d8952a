------------------------------- MODULE Console -------------------------------
(***************************************************************************)
(* The web console's shared state (StoreProvider of web/app.tsx) and its   *)
(* way to the ledger (request).  Two ledgers stand behind it: the live     *)
(* backend and the engine simulated in the browser, which answers whenever *)
(* a fetch throws, even when the backend has already done what was asked.  *)
(*                                                                         *)
(* A ledger is the sequence of what was posted to it, so a version of it   *)
(* is a length, and an answer to a read is a source and a version.  A read *)
(* in flight carries the versions of the moment it was sent: it is         *)
(* answered from any version since, and answers come in any order.         *)
(***************************************************************************)
EXTENDS Integers, Sequences, FiniteSets

CONSTANTS LiveWallets,   \* the wallets the backend has at first, a sequence of ids
          SimWallets,    \* and the ones the simulation is seeded with
          NewWallets,    \* source -> the ids it may give to new wallets
          Movements,     \* the money others move on the backend
          MaxBook,       \* bound: the length of each ledger
          MaxReads,      \* bound: reads of one kind in flight
          MaxRevision    \* bound: bumps

NULL == 0
Sources == {"live", "sim"}

\* The backend numbers its wallets, the simulation draws a name that starts with
\* "wal_": no id is given by both.
IdsOf(s) == LET seeded == IF s = "live" THEN LiveWallets ELSE SimWallets
            IN  {seeded[n] : n \in 1 .. Len(seeded)} \cup NewWallets[s]

ASSUME ConsoleAssumption ==
    /\ LiveWallets \in Seq(Nat) /\ SimWallets \in Seq(Nat)
    /\ NewWallets \in [Sources -> SUBSET Nat]
    /\ \A s \in Sources : NULL \notin IdsOf(s)
    /\ IdsOf("live") \cap IdsOf("sim") = {}
    /\ \A p \in Movements : p.kind # "wallet"

VARIABLES book,        \* source -> what was posted to it
          wallets,     \* the list shown, an answer; source "none" before the first
          selectedId,
          revision,
          refreshes,   \* GET /wallets in flight, in the order they were sent
          creating     \* the POST /wallets in flight, at most one: the id the
                       \* backend gave, NULL while it has not carried it out

store_vars == <<book, wallets, selectedId, revision, refreshes, creating>>

-----------------------------------------------------------------------------
(* The ledgers and what a read of them shows.                              *)

Opens(w) == [kind |-> "wallet", key |-> NULL, from |-> NULL, to |-> w, amount |-> 0]

Now == [s \in Sources |-> Len(book[s])]

\* What a read sent at since may be answered with.
Answers(since) ==
    UNION {[source : {s}, version : since[s] .. Len(book[s])] : s \in Sources}

\* GET /wallets lists wallets in the order they were opened; Opened(a) is where in
\* the ledger that was.
Opened(a) == IF a.source = "none" THEN {}
             ELSE {n \in 1 .. a.version : book[a.source][n].kind = "wallet"}

Ids(a) == {book[a.source][n].to : n \in Opened(a)}

\* The first wallet listed that is not one of others, or NULL.
FirstListed(a, others) ==
    LET at == {n \in Opened(a) : book[a.source][n].to \notin others}
    IN  IF at = {} THEN NULL
        ELSE book[a.source][CHOOSE n \in at : \A m \in at : n <= m].to

\* An entry's amount carries its sign in the answers of the backend; request turns
\* it into a direction and an absolute amount.
Signed(p, w) == (IF p.to = w THEN p.amount ELSE 0) - (IF p.from = w THEN p.amount ELSE 0)

\* BalanceAt(posts, w)[n]: what w has after the first n of posts.
BalanceAt(posts, w) ==
    LET sum[n \in 0 .. Len(posts)] == IF n = 0 THEN 0 ELSE sum[n - 1] + Signed(posts[n], w)
    IN  sum

Balance(a, w) == BalanceAt(book[a.source], w)[a.version]

-----------------------------------------------------------------------------
(* The store.                                                              *)

Unprobed == [source |-> "none", version |-> 0]

StoreInit ==
    /\ book = [s \in Sources |->
                 LET ids == IF s = "live" THEN LiveWallets ELSE SimWallets
                 IN  [n \in DOMAIN ids |-> Opens(ids[n])]]
    /\ wallets = Unprobed
    /\ selectedId = NULL
    /\ revision = 0
    /\ refreshes = <<Now>>
    /\ creating = {}

selected == IF selectedId \in Ids(wallets) THEN selectedId ELSE NULL

Without(s, n) == SubSeq(s, 1, n - 1) \o SubSeq(s, n + 1, Len(s))

\* bump: every view that depends on revision reloads, and so does the list.
Bump == /\ revision' = revision + 1
        /\ refreshes' = Append(refreshes, Now')

\* refreshWallets: the list that arrives last is the one shown; the first one
\* with a wallet selects it.
ListArrives(n, a) ==
    /\ n \in DOMAIN refreshes /\ a \in Answers(refreshes[n])
    /\ refreshes' = Without(refreshes, n)
    /\ wallets' = a
    /\ selectedId' = IF selectedId = NULL THEN FirstListed(a, {}) ELSE selectedId
    /\ UNCHANGED <<book, revision, creating>>

\* The wallet switcher, the palette, the wallets page.
Select(w) == /\ w \in Ids(wallets) \ {selectedId}
             /\ selectedId' = w
             /\ UNCHANGED <<book, wallets, revision, refreshes, creating>>

Unused(s) == NewWallets[s] \ Ids([source |-> s, version |-> Len(book[s])])

\* The form of CreateWallet is busy until its answer comes.
SubmitWallet ==
    /\ creating = {}
    /\ \A s \in Sources : Unused(s) # {}
    /\ creating' = {NULL}
    /\ UNCHANGED <<book, wallets, selectedId, revision, refreshes>>

WalletOpened ==
    /\ creating = {NULL}
    /\ \E w \in Unused("live") :
          /\ book' = [book EXCEPT !["live"] = Append(@, Opens(w))]
          /\ creating' = {w}
    /\ UNCHANGED <<wallets, selectedId, revision, refreshes>>

\* Mutant: the new wallet is selected, the list is not asked for again.
WalletAnsweredNoBump ==
    /\ creating \notin {{}, {NULL}}
    /\ selectedId' \in creating
    /\ creating' = {}
    /\ UNCHANGED <<book, wallets, revision, refreshes>>

\* Selected before the list that has it is asked for.
WalletAnswered ==
    /\ creating \notin {{}, {NULL}}
    /\ selectedId' \in creating
    /\ creating' = {}
    /\ UNCHANGED <<book, wallets>>
    /\ Bump

\* The fetch throws, whether or not the backend has opened a wallet.
WalletSimulated ==
    /\ creating # {}
    /\ \E w \in Unused("sim") :
          /\ book' = [book EXCEPT !["sim"] = Append(@, Opens(w))]
          /\ selectedId' = w
    /\ creating' = {}
    /\ Bump
    /\ UNCHANGED wallets

\* Another client, or the lab, moves money on the backend.
OthersPost ==
    /\ Len(book["live"]) < MaxBook
    /\ \E p \in Movements : book' = [book EXCEPT !["live"] = Append(@, p)]
    /\ UNCHANGED <<wallets, selectedId, revision, refreshes, creating>>

\* An experiment of the lab, which stays mounted, ends.
LabEnds == UNCHANGED <<book, wallets, selectedId, creating>> /\ Bump

\* Everything but the arrival of a list, whose order is the page's assumption.
StoreStep ==
    \/ \E w \in Ids(wallets) : Select(w)
    \/ SubmitWallet \/ WalletOpened \/ WalletAnswered \/ WalletSimulated
    \/ OthersPost \/ LabEnds

=============================================================================
