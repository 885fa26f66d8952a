----------------------------- MODULE LedgerView -----------------------------
(***************************************************************************)
(* The Ledger page of web/app.tsx over the store: it loads the entries and *)
(* transactions of the selected wallet and reconciles it, whenever another *)
(* wallet is selected or a bump says that money has moved.  Nothing is     *)
(* cancelled: what arrives last is what is shown.                          *)
(***************************************************************************)
EXTENDS Console

CONSTANT InOrder   \* whether answers of a kind come in the order of the requests

VARIABLES opened,    \* the page is mounted
          loads,     \* loads in flight, in the order they were sent
          recons,    \* GET .../reconcile in flight
          page,      \* the rows shown: the wallet and the answer they are of
          recon,     \* the wallet whose reconciliation is shown, or NULL
          reconBusy,
          bumpedAt,  \* history: the ledgers' versions at the last bump
          heard      \* history: the versions of them the last lists were of

page_vars == <<opened, loads, recons, page, recon, reconBusy>>
vars == <<store_vars, page_vars, bumpedAt, heard>>

NoRows == [wallet |-> NULL, answer |-> Unprobed]

Init == /\ StoreInit
        /\ opened = FALSE
        /\ loads = <<>> /\ recons = <<>>
        /\ page = NoRows /\ recon = NULL /\ reconBusy = FALSE
        /\ bumpedAt = Now /\ heard = [s \in Sources |-> 0]

\* n requests for the selected wallet; none is sent without one.
Request == [wallet |-> selected, since |-> Now]
Sent(n, request) == [i \in 1 .. IF request.wallet = NULL THEN 0 ELSE n |-> request]

\* Mutant: the page does not depend on revision.
EffectsOfSelection ==
    LET other == selected' # selected
        once  == IF other THEN 1 ELSE 0
    IN  IF ~opened THEN UNCHANGED page_vars
        ELSE /\ loads'  = loads  \o Sent(once, Request')
             /\ recons' = recons \o Sent(once, Request')
             /\ recon'  = IF other THEN NULL ELSE recon
             /\ reconBusy' = (reconBusy \/ (other /\ selected' # NULL))
             /\ UNCHANGED <<opened, page>>

\* Mutant: only a bump, and not another selection, loads the page.
EffectsOfBump ==
    LET again == IF revision' # revision THEN 1 ELSE 0
    IN  IF ~opened THEN UNCHANGED page_vars
        ELSE /\ loads' = loads \o Sent(again, Request')
             /\ UNCHANGED <<opened, recons, page, recon, reconBusy>>

\* The effects of a render: another wallet is loaded and reconciled, and what was
\* known of its reconciliation is forgotten; a bump loads again, and only loads.
Effects ==
    LET other == selected' # selected
        once  == IF other THEN 1 ELSE 0
        again == IF revision' # revision THEN 1 ELSE 0
    IN  IF ~opened THEN UNCHANGED page_vars
        ELSE /\ loads'  = loads  \o Sent(once + again, Request')
             /\ recons' = recons \o Sent(once, Request')
             /\ recon'  = IF other THEN NULL ELSE recon
             /\ reconBusy' = (reconBusy \/ (other /\ selected' # NULL))
             /\ UNCHANGED <<opened, page>>

\* go("ledger"): the page is mounted anew and all its effects run.
Open ==
    /\ ~opened /\ opened' = TRUE
    /\ loads' = Sent(IF revision > 0 THEN 2 ELSE 1, Request)
    /\ recons' = Sent(1, Request)
    /\ reconBusy' = (selected # NULL)
    /\ UNCHANGED <<page, recon, store_vars, bumpedAt, heard>>

\* The page is unmounted: answers still to come change nothing.
Leave ==
    /\ opened /\ opened' = FALSE
    /\ loads' = <<>> /\ recons' = <<>>
    /\ page' = NoRows /\ recon' = NULL /\ reconBusy' = FALSE
    /\ UNCHANGED <<store_vars, bumpedAt, heard>>

Refresh ==
    /\ opened
    /\ loads' = loads \o Sent(1, Request)
    /\ UNCHANGED <<opened, recons, page, recon, reconBusy, store_vars, bumpedAt, heard>>

Reconcile ==
    /\ opened /\ ~reconBusy
    /\ recons' = recons \o Sent(1, Request)
    /\ reconBusy' = (selected # NULL)
    /\ UNCHANGED <<opened, loads, page, recon, store_vars, bumpedAt, heard>>

\* The first of the requests of a kind is answered first.
InTurn(n) == InOrder => n = 1

\* load: entries and transactions are awaited and shown together, so one answer
\* stands for both.
LoadArrives ==
    /\ \E n \in DOMAIN loads : \E a \in Answers(loads[n].since) :
          /\ InTurn(n)
          /\ loads' = Without(loads, n)
          /\ page' = [wallet |-> loads[n].wallet, answer |-> a]
    /\ UNCHANGED <<opened, recons, recon, reconBusy, store_vars, bumpedAt, heard>>

\* A ledger that does not know the wallet has no reconciliation of it.
ReconArrives ==
    /\ \E n \in DOMAIN recons : \E a \in Answers(recons[n].since) :
          /\ InTurn(n)
          /\ recons' = Without(recons, n)
          /\ recon' = IF recons[n].wallet \in Ids(a) THEN recons[n].wallet ELSE NULL
    /\ reconBusy' = FALSE
    /\ UNCHANGED <<opened, loads, page, store_vars, bumpedAt, heard>>

\* Lists that come in order are also from states of a ledger in that order.
ListShown ==
    \E n \in DOMAIN refreshes : \E a \in Answers(refreshes[n]) :
        /\ InTurn(n) /\ (InOrder => a.version >= heard[a.source])
        /\ ListArrives(n, a)
        /\ heard' = [heard EXCEPT ![a.source] = a.version]

StoreChanges ==
    /\ ListShown \/ (StoreStep /\ UNCHANGED heard)
    /\ Effects
    /\ bumpedAt' = IF revision' # revision THEN Now' ELSE bumpedAt

Bounded == /\ revision' <= MaxRevision
           /\ \A reads \in {refreshes', loads', recons'} : Len(reads) <= MaxReads

Next == /\ \/ StoreChanges
           \/ Open \/ Leave \/ Refresh \/ Reconcile
           \/ LoadArrives \/ ReconArrives
        /\ Bounded

Spec == Init /\ [][Next]_vars

-----------------------------------------------------------------------------
(* What the page shows.                                                    *)

Quiet == loads = <<>> /\ recons = <<>> /\ refreshes = <<>>

\* "Append-only entries for {owner}": when nothing is on its way, the rows and the
\* reconciliation on the page are those of the wallet it names.  load keeps the
\* wallet it was made for and cancels nothing, so this stands on the order in
\* which answers come.
OwnRows ==
    opened /\ Quiet /\ selected # NULL =>
        page.wallet = selected /\ recon \in {selected, NULL}

\* A bump tells of money that has moved: once all is quiet, neither the list nor
\* the rows are older than it.
FreshSinceBump ==
    Quiet => \A a \in {wallets} \cup (IF page.wallet = selected THEN {page.answer} ELSE {}) :
                a.source # "none" => a.version >= bumpedAt[a.source]

\* The wallet selected does not vanish from a list of the ledger that has it: the
\* pages do not go on saying "Loading wallets".
NoLimbo ==
    refreshes = <<>> /\ wallets.source # "none"
        /\ selectedId \in Ids([source |-> wallets.source, version |-> Len(book[wallets.source])])
      => selected = selectedId

=============================================================================
