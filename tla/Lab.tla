--------------------------------- MODULE Lab ---------------------------------
(***************************************************************************)
(* The Lab page of web/app.tsx: four experiments that post to a ledger     *)
(* through request, read it again and pass a verdict on its guarantees.    *)
(* The model asks whether the verdict is right, so the backend may be      *)
(* faulty; other clients may move the money of the fixture, and a fetch    *)
(* may throw, in which case the simulation answers, which knows only the   *)
(* wallets it has opened itself.                                           *)
(*                                                                         *)
(* An experiment is a list of calls, one after the other, but for the      *)
(* batch, whose requests the backend serves in any order.  A wallet is     *)
(* named by the ledger that opened it and a number.                        *)
(***************************************************************************)
EXTENDS Integers, Sequences, FiniteSets

CONSTANTS Faults,      \* the backends tried, "none" or what is wrong with them
          Moves,       \* what others add to a wallet of the fixture, or take
          BatchSizes,  \* N
          Amounts,     \* of the transfers of the batch, drawn at random
          MaxClicks,   \* bound: experiments, or runs of all of them, started
          MaxMishaps   \* bound: answers lost, errors and moves of others

ASSUME LabAssumption ==
    /\ Faults \subseteq {"none", "no_keys", "no_fingerprint", "no_funds", "lost_update"}
    /\ BatchSizes \subseteq Nat \ {0} /\ Amounts \subseteq Nat \ {0}

VARIABLES fault,     \* of the backend
          accounts,  \* ledger -> the wallets it has opened, in order
          used,      \* ledger -> what happened under the key of this experiment
          fx,        \* the fixture, NoFixture before the first experiment
          results,   \* experiment -> "idle", "running", "pass", "fail", "error"
          run,       \* the experiment that runs: the calls still to make and
                     \* the answers so far
          clicks,
          mishaps,   \* history: what went wrong in this experiment,
          spent      \* and how often anything did

vars == <<fault, accounts, used, fx, results, run, clicks, mishaps, spent>>

Sources == {"live", "sim"}
EXPS == <<"replay", "tamper", "overdraft", "concurrency">>
NoWallet == [source |-> "none", n |-> 0]
NoFixture == [a |-> NoWallet, b |-> NoWallet]
NotRunning == [exp |-> "none", later |-> <<>>, todo |-> <<>>, heard |-> <<>>,
               fixture |-> NoFixture, plan |-> <<>>, out |-> <<>>]
UnusedKey == [first |-> 0, posted |-> 0, served |-> {}]

-----------------------------------------------------------------------------
(* The ledgers.                                                            *)

Has(s, w) == w.source = s /\ w.n \in DOMAIN accounts[s]
Account(w) == accounts[w.source][w.n]

Answer(status, data) == [status |-> status, data |-> data, replayed |-> FALSE]
Ok(answer) == answer.status \in {200, 201}

\* A wallet of the other ledger: no number to the backend, unknown to the simulation.
Foreign(s) == Answer(IF s = "live" THEN 400 ELSE 404, 0)

\* An account after an entry; an update that is lost leaves the entry behind.
Entered(a, change, lost) == [balance |-> a.balance + IF lost THEN 0 ELSE change,
                             sum |-> a.sum + change, entries |-> a.entries + 1]

Moved(s, r, lost) ==
    [n \in DOMAIN accounts[s] |->
       CASE n = r.from.n -> Entered(accounts[s][n], -r.amount, lost)
         [] n = r.to.n   -> Entered(accounts[s][n], r.amount, FALSE)
         [] OTHER        -> accounts[s][n]]

Is(s, f) == s = "live" /\ fault = f

\* Money moves, if the key has not moved it before and the funds are there.
\* keyed is false for a key no other call uses.
Money(s, r, keyed, lost) ==
    LET u == used[s]
        known == \A w \in {r.from, r.to} \ {NoWallet} : Has(s, w)
        again == keyed /\ u.first # 0 /\ ~Is(s, "no_keys")
        short == r.from # NoWallet /\ Account(r.from).balance < r.amount /\ ~Is(s, "no_funds")
        receipt(posted) == IF s = "live" THEN 0 ELSE posted
    IN  CASE ~known -> [answer |-> Foreign(s), accounts |-> accounts[s], used |-> u]
          [] known /\ again ->
               IF r.amount = u.first \/ Is(s, "no_fingerprint")
               THEN [answer |-> [Answer(200, receipt(u.posted)) EXCEPT !.replayed = TRUE],
                     accounts |-> accounts[s],
                     used |-> [u EXCEPT !.served = @ \cup {r.amount}]]
               ELSE [answer |-> Answer(422, 0), accounts |-> accounts[s], used |-> u]
          [] known /\ ~again /\ short ->
               [answer |-> Answer(IF s = "live" THEN 400 ELSE 422, 0),
                accounts |-> accounts[s], used |-> u]
          [] OTHER ->
               [answer |-> Answer(200, receipt(u.posted + 1)),
                accounts |-> Moved(s, r, lost),
                used |-> IF keyed THEN [first |-> r.amount, posted |-> u.posted + 1,
                                        served |-> u.served \cup {r.amount}] ELSE u]

\* What a ledger makes of a request: its answer, and its accounts and key after it.
Served(s, r, keyed, lost) ==
    LET same(answer) == [answer |-> answer, accounts |-> accounts[s], used |-> used[s]]
    IN  CASE r.kind = "wallet" ->
               [same(Answer(201, [source |-> s, n |-> Len(accounts[s]) + 1])) EXCEPT
                  !.accounts = Append(@, [balance |-> 0, sum |-> 0, entries |-> 0])]
          [] r.kind \in {"get", "reconcile"} ->
               same(IF ~Has(s, r.from) THEN Foreign(s)
                    ELSE Answer(200, IF r.kind = "get" THEN Account(r.from).balance
                                     ELSE Account(r.from)))
          [] OTHER -> Money(s, r, keyed, lost)

Mishap(m) == /\ spent < MaxMishaps /\ spent' = spent + 1
             /\ mishaps' = mishaps \cup {m}

\* request: the backend's answer; an error of its own; or, when the fetch throws, the
\* simulation's, whether or not the backend has carried the request out.
Hows == {"answered", "error", "lost", "lost_answer"}

Outcome(how, r, keyed, lost) ==
    LET live == Served("live", r, keyed, lost)
        sim  == Served("sim", r, keyed, FALSE)
        kept(s) == [accounts |-> accounts[s], used |-> used[s]]
        outcome(answer, l, s) == [answer   |-> answer,
                                  accounts |-> [live |-> l.accounts, sim |-> s.accounts],
                                  used     |-> [live |-> l.used, sim |-> s.used]]
    IN  CASE how = "answered"    -> outcome(live.answer, live, kept("sim"))
          [] how = "error"       -> outcome(Answer(500, 0), kept("live"), kept("sim"))
          [] how = "lost"        -> outcome(sim.answer, kept("live"), sim)
          [] how = "lost_answer" -> outcome(sim.answer, live, sim)

Requested(how, outcome) ==
    /\ accounts' = outcome.accounts /\ used' = outcome.used
    /\ IF how = "answered" THEN UNCHANGED <<mishaps, spent>> ELSE Mishap(how)

-----------------------------------------------------------------------------
(* The experiments.                                                        *)

\* The calls of an experiment, by name.
Script ==
    [replay      |-> <<"balance_a", "pay", "pay", "pay", "balance_a">>,
     tamper      |-> <<"balance_a", "original", "tampered", "balance_a">>,
     overdraft   |-> <<"reconcile_a", "balance_a", "overdraw", "balance_a", "reconcile_a">>,
     concurrency |-> <<"balance_a", "balance_b", "batch",
                       "balance_a", "balance_b", "reconcile_a", "reconcile_b">>]

Balances == {"check", "balance_a", "balance_b"}
OneKey == {"pay", "original", "tampered", "overdraw"}

Heard(n) == run.heard[n].data

Asked(step) ==
    LET a == run.fixture.a
        b == run.fixture.b
        ask(kind, from, to, amount) ==
            [kind |-> kind, from |-> from, to |-> to, amount |-> amount]
    IN  CASE step \in {"alpha", "beta"} -> ask("wallet", NoWallet, NoWallet, 0)
          [] step = "fund"        -> ask("deposit", NoWallet, b, 50000)
          [] step = "topup"       -> ask("deposit", NoWallet, a, 100000 - Heard(1) + 50000)
          [] step \in {"check", "balance_a"} -> ask("get", a, NoWallet, 0)
          [] step = "balance_b"   -> ask("get", b, NoWallet, 0)
          [] step = "reconcile_a" -> ask("reconcile", a, NoWallet, 0)
          [] step = "reconcile_b" -> ask("reconcile", b, NoWallet, 0)
          [] step = "pay"         -> ask("transfer", a, b, 2500)
          [] step = "original"    -> ask("transfer", a, b, 1000)
          [] step = "tampered"    -> ask("transfer", a, b, 900000)
          [] step = "overdraw"    -> ask("withdrawal", a, NoWallet, Heard(2) + 1)

ReplayHolds(h) ==
    /\ \A n \in 2 .. 4 : Ok(h[n]) /\ h[n].data = h[2].data
    /\ h[3].replayed /\ h[4].replayed
    /\ h[5].data - h[1].data = -2500

\* Mutant: only the balance is looked at.
TamperHoldsByBalance(h) == Ok(h[2]) /\ h[4].data - h[1].data = -1000

TamperHolds(h) ==
    /\ Ok(h[2])
    /\ h[3].status \in {409, 422} /\ ~h[3].replayed
    /\ h[4].data - h[1].data = -1000

OverdraftHolds(h) ==
    /\ h[3].status \in {400, 422}
    /\ h[4].data = h[2].data
    /\ Ok(h[1]) /\ Ok(h[5]) /\ h[1].data.entries = h[5].data.entries
    /\ h[5].data.balance = h[5].data.sum

\* The batch is in run.out.  The backend always says that the chain is valid.
ConcurrencyHolds(h) ==
    LET delta(p) == IF p.dir = "ab" THEN -p.amount ELSE p.amount
        net[n \in Nat] ==
            IF n = 0 THEN 0
            ELSE net[n - 1] + IF run.out[n] \in {200, 201} THEN delta(run.plan[n]) ELSE 0
    IN  /\ \A n \in DOMAIN run.out : run.out[n] \in {200, 201, 400, 409, 422}
        /\ h[1].data + h[2].data = h[3].data + h[4].data
        /\ h[3].data >= 0 /\ h[4].data >= 0
        /\ h[3].data - h[1].data = net[Len(run.plan)]
        /\ \A n \in 5 .. 6 : Ok(h[n]) /\ h[n].data.balance = h[n].data.sum

Verdict(h) ==
    LET holds == CASE run.exp = "replay"      -> ReplayHolds(h)
                   [] run.exp = "tamper"      -> TamperHolds(h)
                   [] run.exp = "overdraft"   -> OverdraftHolds(h)
                   [] run.exp = "concurrency" -> ConcurrencyHolds(h)
    IN  IF holds THEN "pass" ELSE "fail"

-----------------------------------------------------------------------------
(* The page.                                                               *)

Init == /\ fault \in Faults
        /\ accounts = [s \in Sources |-> <<>>]
        /\ used = [s \in Sources |-> UnusedKey]
        /\ fx = NoFixture
        /\ results = [e \in {EXPS[n] : n \in 1 .. 4} |-> "idle"]
        /\ run = NotRunning
        /\ clicks = 0 /\ mishaps = {} /\ spent = 0

\* The start of run(e): the fixture is made when there is none.  The experiment's key
\* is one neither ledger knows.
Started(exps) ==
    [NotRunning EXCEPT !.exp = exps[1], !.later = Tail(exps), !.fixture = fx,
       !.todo = (IF fx = NoFixture THEN <<"alpha", "beta", "fund">> ELSE <<>>)
                \o <<"check">> \o Script[exps[1]]]

Begin(exps) ==
    /\ run' = Started(exps)
    /\ results' = [results EXCEPT ![exps[1]] = "running"]
    /\ used' = [s \in Sources |-> UnusedKey]
    /\ mishaps' = {}

\* No button is enabled while an experiment runs, nor between two of runAll, which
\* starts the next one before the page is rendered.
Click(exps) == /\ run = NotRunning /\ clicks < MaxClicks
               /\ clicks' = clicks + 1
               /\ Begin(exps)
               /\ UNCHANGED <<fault, accounts, fx, spent>>

Run == \E n \in 1 .. 4 : Click(<<EXPS[n]>>)
RunAll == Click(EXPS)

RunNext == /\ run # NotRunning /\ run.todo = <<>>
           /\ Begin(run.later)
           /\ UNCHANGED <<fault, accounts, fx, clicks, spent>>

NewFixture ==
    /\ fx # NoFixture /\ run = NotRunning
    /\ fx' = NoFixture
    /\ UNCHANGED <<fault, accounts, used, results, run, clicks, mishaps, spent>>

\* Another page, or another client, uses a wallet of the fixture.
OthersMove ==
    \E w \in {fx.a, fx.b}, m \in Moves :
       /\ Has("live", w) /\ Account(w).balance + m >= 0
       /\ accounts' = [accounts EXCEPT !["live"][w.n] = Entered(@, m, FALSE)]
       /\ Mishap("moved")
       /\ UNCHANGED <<fault, used, fx, results, run, clicks>>

-----------------------------------------------------------------------------
(* The calls.                                                              *)

\* Mutant: nothing catches what a call throws.
ConcludedUnlessThrown(verdict) ==
    IF verdict = "error" THEN results ELSE [results EXCEPT ![run.exp] = verdict]

Concluded(verdict) == [results EXCEPT ![run.exp] = verdict]

\* The end of an experiment, or of all of them.
Conclude(verdict) ==
    /\ results' = Concluded(verdict)
    /\ run' = IF run.later = <<>> THEN NotRunning
              ELSE [NotRunning EXCEPT !.exp = run.exp, !.later = run.later]

\* Mutant: the sender is never topped up.
ShortNever(step, answer) == FALSE

Short(step, answer) == step = "check" /\ Ok(answer) /\ answer.data < 100000

\* A balance that cannot be read, or a wallet that cannot be made, ends it.
Throws(step, answer) ==
    \/ step \in Balances /\ ~Ok(answer)
    \/ step = "beta" /\ ~(Ok(answer) /\ Ok(run.heard[1]))

\* The next call is answered.  Whether the fixture was funded or topped up is not
\* looked at.
Hear(step, answer) ==
    LET heard == Append(run.heard, answer)
        rest  == Tail(run.todo)
        setup == step \in {"beta", "fund", "topup"} \/ (step = "check" /\ ~Short(step, answer))
        made  == [a |-> run.heard[1].data, b |-> answer.data]
    IN  CASE Throws(step, answer) -> Conclude("error") /\ UNCHANGED fx
          [] ~Throws(step, answer) /\ rest = <<>> -> Conclude(Verdict(heard)) /\ UNCHANGED fx
          [] OTHER ->
               /\ fx' = IF step = "beta" THEN made ELSE fx
               /\ run' = [run EXCEPT !.fixture = IF step = "beta" THEN made ELSE @,
                                     !.heard = IF setup THEN <<>> ELSE heard,
                                     !.todo = IF Short(step, answer) THEN <<"topup">> \o rest
                                              ELSE rest]
               /\ UNCHANGED results

Call == LET step == Head(run.todo)
        IN  /\ run.todo # <<>> /\ step # "batch"
            /\ \E how \in Hows :
                  \E outcome \in {Outcome(how, Asked(step), step \in OneKey, FALSE)} :
                     Requested(how, outcome) /\ Hear(step, outcome.answer)
            /\ UNCHANGED <<fault, clicks>>

\* The batch is drawn and sent: all of it is in flight.
SendBatch ==
    /\ run.todo # <<>> /\ Head(run.todo) = "batch" /\ run.plan = <<>>
    /\ \E n \in BatchSizes : \E plan \in [1 .. n -> [dir : {"ab", "ba"}, amount : Amounts]] :
          run' = [run EXCEPT !.plan = plan, !.out = [i \in 1 .. n |-> 0]]
    /\ UNCHANGED <<fault, accounts, used, fx, results, clicks, mishaps, spent>>

\* One of them is answered; a backend that does not lock may lose an update of the
\* sender while others are in flight.  The last one lets the experiment go on.
ServeBatch(i) ==
    LET p == run.plan[i]
        a == run.fixture.a
        b == run.fixture.b
        pending == {j \in DOMAIN run.out : run.out[j] = 0}
        request == [kind |-> "transfer", amount |-> p.amount,
                    from |-> IF p.dir = "ab" THEN a ELSE b,
                    to   |-> IF p.dir = "ab" THEN b ELSE a]
    IN  /\ run.plan # <<>> /\ i \in pending
        /\ \E how \in Hows, lost \in {FALSE, fault = "lost_update" /\ pending # {i}} :
              \E outcome \in {Outcome(how, request, FALSE, lost)} :
                 /\ Requested(how, outcome)
                 /\ run' = [run EXCEPT !.out[i] = outcome.answer.status,
                                       !.todo = IF pending = {i} THEN Tail(@) ELSE @]
        /\ UNCHANGED <<fault, fx, results, clicks>>

Step == RunNext \/ Call \/ SendBatch \/ \E i \in DOMAIN run.out : ServeBatch(i)

Next == Run \/ RunAll \/ NewFixture \/ OthersMove \/ Step

\* Every fetch returns or throws in the end.
Spec == Init /\ [][Next]_vars /\ WF_vars(Step)

-----------------------------------------------------------------------------
(* Properties.                                                             *)

\* What an experiment claims, of the ledger that its wallets are of.
Claim(e) ==
    LET a == fx.a
        b == fx.b
        u == used[a.source]
    IN  CASE e = "replay"      -> u.posted = 1
          [] e = "tamper"      -> u.posted = 1 /\ u.served = {1000}
          [] e = "overdraft"   -> u.posted = 0
          [] e = "concurrency" -> \A w \in {a, b} : /\ Account(w).balance = Account(w).sum
                                                    /\ Account(w).balance >= 0

\* An experiment is marked "Verified" only if what it claims is so on the ledger its
\* wallets are of: one posting per key, for one payload, none for an overdraft, and
\* balances that are the sums of their entries and never negative.  Lost answers and
\* errors never make up for a fault.
VerifiedMeansSo ==
    [][\A e \in DOMAIN results :
         (results[e] = "running" /\ results'[e] = "pass") => Claim(e)']_vars

\* A backend that is sound passes every experiment, whatever earlier experiments and
\* other clients have left in the fixture: only what happens in between an
\* experiment's own calls can spoil it.
SoundIsVerified ==
    [][\A e \in DOMAIN results :
         (/\ results[e] = "running" /\ results'[e] # "running"
          /\ fault = "none" /\ mishaps' = {}
          /\ fx.a.source = "live" /\ fx.b.source = "live") => results'[e] = "pass"]_vars

Busy == run # NotRunning \/ \E e \in DOMAIN results : results[e] = "running"

\* Whatever a call answers or throws, an experiment ends, and so do all of them.
ExperimentsEnd == Busy ~> ~Busy

=============================================================================
