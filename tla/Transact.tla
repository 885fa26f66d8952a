------------------------------ MODULE Transact ------------------------------
(***************************************************************************)
(* The Transact page of web/app.tsx over the store: a form whose wallets   *)
(* follow the selection and the list, an idempotency key that is replaced  *)
(* once money has moved, and sends whose answers may be lost.  What a send *)
(* uses after an await (the key, the pin, the balances before) is what the *)
(* render it was pressed in had.                                           *)
(***************************************************************************)
EXTENDS Console

CONSTANTS Kinds,         \* of "deposit", "withdrawal", "transfer"
          Amounts,       \* what is typed, in minor units; 0 for nothing usable
          MaxKeys,       \* bound: keys drawn
          AttemptsKept   \* rows of the attempts table

ASSUME TransactAssumption ==
    /\ Kinds \subseteq {"deposit", "withdrawal", "transfer"}
    /\ Amounts \subseteq Nat /\ AttemptsKept \in Nat

VARIABLES form,      \* kind, from, to, target; the amount is chosen when it is sent
          key,       \* keys are numbered as they are drawn
          drawn,
          pinned,
          busy,
          sends,     \* POSTs in flight; the page that made one may be gone
          attempts,  \* the keys of the table of attempts, newest first
          settled    \* history: keys whose movement the user was told of, or gave up

page_vars == <<form, key, drawn, pinned, busy, attempts, settled>>
vars == <<store_vars, page_vars, sends>>

-----------------------------------------------------------------------------
(* Amounts: cents behind a decimal point, as typed and as shown.           *)

\* Mutant: the missing digits are put in front.
PadFront(digits) ==
    CASE digits = <<>>    -> 0
      [] Len(digits) = 1  -> digits[1]
      [] OTHER            -> 10 * digits[1] + digits[2]

\* f.padEnd(2, '0')
Pad(digits) ==
    CASE digits = <<>>    -> 0
      [] Len(digits) = 1  -> 10 * digits[1]
      [] OTHER            -> 10 * digits[1] + digits[2]

\* A text is its whole part and the digits behind the point; separators and the
\* currency sign are dropped before, anything else is refused.
ParseMinor(text) == IF Len(text.cents) > 2 THEN NULL ELSE text.whole * 100 + Pad(text.cents)

\* money, without its sign: always two digits behind the point.
Shown(minor) == [whole |-> minor \div 100,
                 cents |-> <<(minor % 100) \div 10, minor % 10>>]

-----------------------------------------------------------------------------
(* The form.                                                               *)

Chosen(f) == CASE f.kind = "transfer"   -> [from |-> f.from, to |-> f.to]
               [] f.kind = "withdrawal" -> [from |-> f.target, to |-> NULL]
               [] f.kind = "deposit"    -> [from |-> NULL, to |-> f.target]

Body(f, a) == [kind |-> f.kind, from |-> Chosen(f).from, to |-> Chosen(f).to, amount |-> a]

\* The receiver defaults to the first wallet listed that is not the sender.
Defaulted(f, a) ==
    IF f.to \notin {NULL, f.from} THEN f ELSE [f EXCEPT !.to = FirstListed(a, {f.from})]

NewForm == [kind |-> "transfer", from |-> selected, to |-> NULL, target |-> selected]

Init == /\ StoreInit
        /\ form = NewForm
        /\ key = 1 /\ drawn = 1
        /\ pinned = FALSE /\ busy = FALSE
        /\ sends = {} /\ attempts = <<>> /\ settled = {}

\* The effects of a render: another selected wallet becomes sender and target; a
\* new list, and then a new sender, may change the receiver.
FormFollows ==
    LET listed == IF refreshes' # refreshes THEN Defaulted(form, wallets') ELSE form
        moved  == IF selected' \in {selected, NULL} THEN listed
                  ELSE [listed EXCEPT !.from = selected', !.target = selected']
    IN  form' = IF moved.from = form.from THEN moved ELSE Defaulted(moved, wallets')

\* No wallet is opened while the page is used, and the form is not concerned with
\* balances, so a list is as good as one of the moment it was asked for.
StoreChanges ==
    /\ \/ \E n \in DOMAIN refreshes, s \in Sources :
             ListArrives(n, [source |-> s, version |-> refreshes[n][s]])
       \/ \E w \in Ids(wallets) : Select(w)
    /\ FormFollows
    /\ UNCHANGED <<key, drawn, pinned, busy, sends, attempts, settled>>

\* Mutant: the receiver is not looked at again.
PickFromOnly == \E w \in Ids(wallets) : form' = [form EXCEPT !.from = w]

PickFrom == \E w \in Ids(wallets) : form' = Defaulted([form EXCEPT !.from = w], wallets)
PickTo   == \E w \in Ids(wallets) \ {form.from} : form' = [form EXCEPT !.to = w]
Pick     == \E w \in Ids(wallets) : form' = [form EXCEPT !.target = w]
Choose   == \E k \in Kinds : form' = [form EXCEPT !.kind = k]

Edit == /\ \/ form.kind = "transfer" /\ (PickFrom \/ PickTo)
           \/ form.kind # "transfer" /\ Pick
           \/ Choose
        /\ UNCHANGED <<store_vars, key, drawn, pinned, busy, sends, attempts, settled>>

TogglePin == /\ pinned' = ~pinned
             /\ UNCHANGED <<store_vars, form, key, drawn, busy, sends, attempts, settled>>

\* A key just drawn takes the place of the current one.
Draw == drawn' = drawn + 1 /\ key' = drawn + 1

\* Bounds: every send may yet draw a key, bump the store and ask for the list.
Room == /\ drawn + Cardinality(sends) < MaxKeys
        /\ revision + Cardinality(sends) < MaxRevision
        /\ Len(refreshes) + Cardinality(sends) < MaxReads

NewKey == /\ Room /\ Draw
          /\ settled' = settled \cup {key}
          /\ UNCHANGED <<store_vars, form, pinned, busy, sends, attempts>>

Clear == /\ attempts # <<>> /\ attempts' = <<>>
         /\ UNCHANGED <<store_vars, form, key, drawn, pinned, busy, sends, settled>>

\* The page is left and opened anew: its state starts over, its sends go on.
Remount ==
    /\ Room /\ Draw
    /\ form' = Defaulted(NewForm, wallets)
    /\ pinned' = FALSE /\ busy' = FALSE /\ attempts' = <<>>
    /\ settled' = settled \cup {key}
    /\ sends' = {[f EXCEPT !.mounted = FALSE] : f \in sends}
    /\ UNCHANGED store_vars

-----------------------------------------------------------------------------
(* A send: the POST, the reads after it, the attempt.                      *)

Reply(status, replayed) == [status |-> status, replayed |-> replayed]
NoReply == Reply(0, FALSE)

\* send: what the render knows is kept for the time after the awaits.
Send(useKey, amount) ==
    /\ Room /\ ~busy
    /\ amount # 0 /\ ~(form.kind = "transfer" /\ form.from = form.to)
    /\ busy' = TRUE
    /\ sends' = sends \cup
         {[key |-> useKey, body |-> Body(form, amount), pinned |-> pinned, mounted |-> TRUE,
           landed |-> NoReply, answer |-> NoReply, since |-> Now]}
    /\ UNCHANGED <<store_vars, form, key, drawn, pinned, attempts, settled>>

\* The MAX button types what the list says the sender has.
MaxAmount == LET source == Chosen(form).from
             IN  IF source \in Ids(wallets) THEN ParseMinor(Shown(Balance(wallets, source)))
                 ELSE 0

Submit == \E a \in Amounts \cup {MaxAmount} : Send(key, a)
RetryLast == attempts # <<>> /\ \E a \in Amounts \cup {MaxAmount} : Send(attempts[1], a)

\* What a ledger keeps of a send.
Posting(f) == [kind |-> f.body.kind, key |-> f.key, from |-> f.body.from,
               to |-> f.body.to, amount |-> f.body.amount]

\* What a ledger replies, and whether it posts: the contract of both engines.
Verdict(s, f) ==
    LET now   == [source |-> s, version |-> Len(book[s])]
        prior == {p \in {book[s][n] : n \in DOMAIN book[s]} : p.key = f.key}
        named == {f.body.from, f.body.to} \ {NULL}
    IN  IF s = "live" /\ Cardinality(named) < (IF f.body.kind = "transfer" THEN 2 ELSE 1)
             THEN Reply(400, FALSE)
        ELSE IF Posting(f) \in prior THEN Reply(201, TRUE)
        ELSE IF prior # {} THEN Reply(422, FALSE)
        ELSE IF ~(named \subseteq Ids(now)) THEN Reply(404, FALSE)
        ELSE IF f.body.from # NULL /\ Balance(now, f.body.from) < f.body.amount
             THEN Reply(422, FALSE)
        ELSE Reply(201, FALSE)

PostIf(s, f, reply) ==
    book' = IF reply = Reply(201, FALSE) THEN [book EXCEPT ![s] = Append(@, Posting(f))] ELSE book

Replaced(f, g) == sends' = (sends \ {f}) \cup {g}

\* The backend carries the POST out, maybe after the page has given up on it.
Lands(f) ==
    LET reply == Verdict("live", f)
    IN  /\ f.landed = NoReply
        /\ PostIf("live", f, reply)
        /\ Replaced(f, [f EXCEPT !.landed = reply])
        /\ UNCHANGED <<wallets, selectedId, revision, refreshes, creating, page_vars>>

\* Mutant: the reads do not wait for the POST.
AnsweredEagerly(f, reply) == [f EXCEPT !.answer = reply]

\* The reply is in: the wallets concerned are read from now on.
Answered(f, reply) == [f EXCEPT !.answer = reply, !.since = Now']

\* The backend's reply, or an error of its own after it has posted.
Replies(f) ==
    /\ f.landed # NoReply /\ f.answer = NoReply
    /\ UNCHANGED <<store_vars, page_vars>>
    /\ \E reply \in {f.landed, Reply(500, FALSE)} : Replaced(f, Answered(f, reply))

\* The fetch throws, whether or not the backend has posted; the simulation replies.
\* It throws itself when no wallet is named, and the send is never heard of again.
FallsBack(f) ==
    LET reply == Verdict("sim", f)
    IN  /\ f.answer = NoReply
        /\ IF f.body.from = NULL /\ f.body.to = NULL
           THEN UNCHANGED book /\ sends' = sends \ {f}
           ELSE /\ PostIf("sim", f, reply)
                /\ Replaced(f, Answered(f, reply))
        /\ UNCHANGED <<wallets, selectedId, revision, refreshes, creating, page_vars>>

Ok(f) == f.answer.status = 201

\* Mutant: a refused send loses its key.
KeyAfterAny(f) == IF ~f.pinned THEN Draw ELSE UNCHANGED <<key, drawn>>

\* The key is replaced when money has moved, unless it was pinned when sent.
KeyAfter(f) ==
    IF Ok(f) /\ ~f.pinned /\ ~f.answer.replayed THEN Draw ELSE UNCHANGED <<key, drawn>>

\* Mutant: the form stays busy after a refusal.
BusyAfterRefusal(f) == ~Ok(f)

BusyAfter(f) == FALSE

\* The reads are in.  A page that is gone keeps nothing; the store is bumped anyway.
Completes(f) ==
    /\ f.answer # NoReply
    /\ sends' = sends \ {f}
    /\ UNCHANGED <<book, wallets, selectedId, creating, form, pinned>>
    /\ Bump
    /\ settled' = IF Ok(f) THEN settled \cup {f.key} ELSE settled
    /\ IF f.mounted
       THEN /\ attempts' = SubSeq(<<f.key>> \o attempts, 1,
                                  IF Len(attempts) < AttemptsKept THEN Len(attempts) + 1
                                  ELSE AttemptsKept)
            /\ busy' = BusyAfter(f)
            /\ KeyAfter(f)
       ELSE UNCHANGED <<attempts, busy, key, drawn>>

SendStep == \E f \in sends : Lands(f) \/ Replies(f) \/ FallsBack(f) \/ Completes(f)

Next == \/ StoreChanges \/ Edit \/ TogglePin \/ NewKey \/ Clear \/ Remount
        \/ Submit \/ RetryLast \/ SendStep

\* Every fetch returns or throws in the end.
Spec == Init /\ [][Next]_vars /\ WF_vars(SendStep)

-----------------------------------------------------------------------------
(* Properties.                                                             *)

\* Types; the effects leave no transfer of a wallet to itself in the form; at most
\* one send of the page is in flight, and the form is busy with it.
TypeOK ==
    /\ form.from = form.to => form.from = NULL
    /\ key \in 1 .. drawn
    /\ \A f \in sends : f.mounted => busy
    /\ Cardinality({f \in sends : f.mounted}) <= 1
    /\ Len(attempts) <= AttemptsKept

\* "Move money, exactly once": money moved under a key of which the user has not
\* been told can still be claimed by sending again: its key is the current one, or
\* its answer is to come, unless the user gave the key up.  So an answer lost after
\* the backend posted never makes the next submit move the money again.
RetryStillPossible ==
    \A n \in DOMAIN book["live"] :
        book["live"][n].key \in {NULL, key} \cup settled \cup {f.key : f \in sends}

\* The balances shown after an answer of 201 are read by requests sent when the
\* ledger that gave it has the movement.
AfterIncludesPosting ==
    \A f \in sends : f.answer.status = 201 =>
        \E s \in Sources : \E n \in 1 .. f.since[s] : book[s][n] = Posting(f)

\* Whatever is answered, and by which ledger, a send that names a wallet gives the
\* form back.  (One that names none is lost in the simulation.)
SendEnds == (\E f \in sends : f.mounted /\ {f.body.from, f.body.to} # {NULL}) ~> ~busy

\* A balance shown, or put in by the MAX button, and typed again is the same amount;
\* digits left out behind the point are zeros.
AmountsRoundTrip ==
    \A w \in Ids(wallets) :
        LET minor == Balance(wallets, w)
        IN  /\ ParseMinor(Shown(minor)) = minor
            /\ ParseMinor([Shown(minor) EXCEPT !.cents = <<@[1]>>]) = (minor \div 10) * 10
            /\ ParseMinor([Shown(minor) EXCEPT !.cents = <<>>]) = (minor \div 100) * 100

=============================================================================
