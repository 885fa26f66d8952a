------------------------ MODULE TransferService_proofs ------------------------
(***************************************************************************)
(* Theorems about TransferService for every number of requests, queue and  *)
(* batch sizes, transfers and balances, checked by TLAPS.                  *)
(***************************************************************************)
EXTENDS TransferService, Postings_proofs

-----------------------------------------------------------------------------
(* The invariants *)

In(r, s) == \E i \in 1 .. Len(s) : s[i] = r

Idle == worker \in {"off", "select", "drain", "stopped"}

\* What each place of the worker says of its phase, its timer and its slices.
Shape ==
    /\ worker \in {"off", "select"} => phase = "run"
    /\ worker = "drain" => phase = "drain"
    /\ worker = "stopped" => phase = "final"
    /\ worker = "off" => batch = <<>> /\ timer = "off"
    /\ worker = "select" => (batch # <<>> <=> timer # "off")
    /\ ~Idle /\ phase = "run" => timer = "off"
    /\ Idle => Len(batch) < BatchSize
    /\ worker \in {"single", "answer"} => rest # <<>>
    /\ worker = "answer" => answer # "none"

\* The place of r in the order of arrival acc.
Pos(acc, r) == CHOOSE i \in 1 .. Len(acc) : acc[i] = r

Sorted(acc, s) ==
    \A i, j \in 1 .. Len(s) : i < j => Pos(acc, s[i]) < Pos(acc, s[j])

Ahead(acc, s, t) == \A r, q : In(r, s) /\ In(q, t) => Pos(acc, r) < Pos(acc, q)

\* The jobs the worker has taken from the queue are the first Taken to arrive.
Taken == Len(accepted) - Len(queue)

\* The queue holds the last arrivals; nobody arrives twice, and a caller that
\* has not called is unknown.
Arrivals ==
    /\ \A i, j \in 1 .. Len(accepted) : accepted[i] = accepted[j] => i = j
    /\ Taken \in Nat
    /\ \A i \in 1 .. Len(queue) : queue[i] = accepted[Taken + i]
    /\ \A r \in Requests : caller[r] = "new" =>
         ~In(r, accepted) /\ chan[r] = "empty" /\ returned[r] = "none"

\* The jobs of s are among the first k arrivals.
Old(acc, k, s) == \A r : In(r, s) => In(r, acc) /\ Pos(acc, r) <= k

\* Jobs taken from the queue, in order, that arrived after everything in done.
Upcoming(acc, k, done, s) == Sorted(acc, s) /\ Old(acc, k, s) /\ Ahead(acc, done, s)

\* Nothing takes effect twice or out of turn: what is still to be executed
\* arrived after everything that was.
Order ==
    /\ Sorted(accepted, applied) /\ Old(accepted, Taken, applied)
    /\ Idle => Upcoming(accepted, Taken, applied, batch)
    /\ worker = "filter" =>
         /\ Upcoming(accepted, Taken, applied, valid)
         /\ Upcoming(accepted, Taken, applied, rest)
         /\ Ahead(accepted, valid, rest)
    /\ worker = "call" => Upcoming(accepted, Taken, applied, valid)
    /\ worker = "reply" => \A r : In(r, rest) => In(r, applied)
    /\ worker \in {"retry", "single"} => Upcoming(accepted, Taken, applied, rest)
    /\ worker = "answer" =>
         /\ Sorted(accepted, rest) /\ Old(accepted, Taken, rest)
         /\ Ahead(accepted, applied, Tail(rest))
         /\ answer = "ok" => In(Head(rest), applied)
         /\ answer # "ok" => Ahead(accepted, applied, rest)

\* The transfer of r may yet take effect.
Open(r) ==
    \/ In(r, queue)
    \/ Idle /\ In(r, batch)
    \/ worker \in {"filter", "call"} /\ In(r, valid)
    \/ worker \in {"filter", "retry", "single", "answer"} /\ In(r, rest)

Denied(r) == chan[r] \notin {"empty", "ok"} \/ returned[r] \in Refusals \cup {"error"}

\* A success is told of what took effect, anything else of what never will.
Truth ==
    \A r \in Requests :
        /\ Told(r, "ok") => In(r, applied)
        /\ Denied(r) => ~In(r, applied) /\ ~Open(r)

\* A job whose caller gave up in time does not get past the filter.
Quits ==
    \A r \in quitters :
        /\ ctx[r] = "done"
        /\ ~In(r, applied)
        /\ worker \in {"filter", "call"} => ~In(r, valid)
        /\ worker \in {"retry", "single", "answer"} => ~In(r, rest)

Typed == TypeOK /\ Shape

IInv == Typed /\ Arrivals /\ Order /\ Truth /\ Quits

-----------------------------------------------------------------------------
(* Sequences *)

LEMMA InAppend ==
    ASSUME NEW R, NEW s \in Seq(R), NEW x \in R
    PROVE  /\ Append(s, x) \in Seq(R) /\ Len(Append(s, x)) = Len(s) + 1
           /\ \A r : In(r, Append(s, x)) <=> In(r, s) \/ r = x
<1>1. /\ Append(s, x) \in Seq(R) /\ Len(Append(s, x)) = Len(s) + 1
      /\ \A i \in 1 .. Len(s) : Append(s, x)[i] = s[i]
      /\ Append(s, x)[Len(s) + 1] = x
  OBVIOUS
<1>. QED  BY <1>1 DEF In

LEMMA InTail ==
    ASSUME NEW R, NEW s \in Seq(R), s # <<>>
    PROVE  /\ Head(s) \in R /\ Tail(s) \in Seq(R) /\ Len(Tail(s)) = Len(s) - 1
           /\ \A r : In(r, s) <=> r = Head(s) \/ In(r, Tail(s))
<1>1. /\ Head(s) \in R /\ Tail(s) \in Seq(R) /\ Len(Tail(s)) = Len(s) - 1
      /\ Len(s) \in Nat \ {0} /\ Head(s) = s[1]
      /\ \A i \in 1 .. Len(s) - 1 : Tail(s)[i] = s[i + 1]
  OBVIOUS
<1>2. ASSUME NEW r, In(r, s), r # Head(s) PROVE In(r, Tail(s))
  <2>1. PICK i \in 1 .. Len(s) : s[i] = r
    BY <1>2 DEF In
  <2>2. i - 1 \in 1 .. Len(Tail(s)) /\ Tail(s)[i - 1] = r
    BY <1>1, <1>2, <2>1
  <2>. QED  BY <2>2 DEF In
<1>3. ASSUME NEW r, In(r, Tail(s)) PROVE In(r, s)
  <2>1. PICK i \in 1 .. Len(Tail(s)) : Tail(s)[i] = r
    BY <1>3 DEF In
  <2>2. i + 1 \in 1 .. Len(s) /\ s[i + 1] = r
    BY <1>1, <2>1
  <2>. QED  BY <2>2 DEF In
<1>4. In(Head(s), s)
  BY <1>1 DEF In
<1>. QED  BY <1>1, <1>2, <1>3, <1>4

LEMMA InConcat ==
    ASSUME NEW R, NEW s \in Seq(R), NEW t \in Seq(R)
    PROVE  s \o t \in Seq(R) /\ \A r : In(r, s \o t) <=> In(r, s) \/ In(r, t)
<1>1. /\ s \o t \in Seq(R) /\ Len(s \o t) = Len(s) + Len(t)
      /\ Len(s) \in Nat /\ Len(t) \in Nat
      /\ \A i \in 1 .. Len(s) : (s \o t)[i] = s[i]
      /\ \A i \in 1 .. Len(t) : (s \o t)[Len(s) + i] = t[i]
  OBVIOUS
<1>2. ASSUME NEW r, In(r, s \o t) PROVE In(r, s) \/ In(r, t)
  <2>1. PICK i \in 1 .. Len(s \o t) : (s \o t)[i] = r
    BY <1>2 DEF In
  <2>2. CASE i \in 1 .. Len(s)
    BY <1>1, <2>1, <2>2 DEF In
  <2>3. CASE i \notin 1 .. Len(s)
    <3>1. i - Len(s) \in 1 .. Len(t) /\ Len(s) + (i - Len(s)) = i
      BY <1>1, <2>3
    <3>2. t[i - Len(s)] = r
      BY <1>1, <2>1, <3>1
    <3>. QED  BY <3>1, <3>2 DEF In
  <2>. QED  BY <2>2, <2>3
<1>3. ASSUME NEW r, In(r, s) PROVE In(r, s \o t)
  <2>1. PICK i \in 1 .. Len(s) : s[i] = r
    BY <1>3 DEF In
  <2>2. i \in 1 .. Len(s \o t) /\ (s \o t)[i] = r
    BY <1>1, <2>1
  <2>. QED  BY <2>2 DEF In
<1>4. ASSUME NEW r, In(r, t) PROVE In(r, s \o t)
  <2>1. PICK i \in 1 .. Len(t) : t[i] = r
    BY <1>4 DEF In
  <2>2. Len(s) + i \in 1 .. Len(s \o t) /\ (s \o t)[Len(s) + i] = r
    BY <1>1, <2>1
  <2>. QED  BY <2>2 DEF In
<1>. QED  BY <1>1, <1>2, <1>3, <1>4

\* The elements of a sequence over R are in R.
LEMMA InType ==
    ASSUME NEW R, NEW s \in Seq(R), NEW r, In(r, s)
    PROVE  r \in R
BY DEF In

LEMMA InEmpty == \A r : ~In(r, <<>>)
BY DEF In

\* A job appended behind jobs that arrived before it keeps them in order.
LEMMA SortedAppend ==
    ASSUME NEW acc, NEW R, NEW s \in Seq(R), NEW x \in R, Sorted(acc, s),
           \A r : In(r, s) => Pos(acc, r) < Pos(acc, x)
    PROVE  Sorted(acc, Append(s, x))
<1>1. /\ Len(Append(s, x)) = Len(s) + 1 /\ Len(s) \in Nat
      /\ \A i \in 1 .. Len(s) : Append(s, x)[i] = s[i]
      /\ Append(s, x)[Len(s) + 1] = x
  OBVIOUS
<1>2. SUFFICES ASSUME NEW i \in 1 .. Len(s) + 1, NEW j \in 1 .. Len(s) + 1, i < j
               PROVE  Pos(acc, Append(s, x)[i]) < Pos(acc, Append(s, x)[j])
  BY <1>1 DEF Sorted
<1>3. i \in 1 .. Len(s) /\ Append(s, x)[i] = s[i] /\ In(s[i], s)
  BY <1>1, <1>2 DEF In
<1>4. CASE j = Len(s) + 1
  BY <1>1, <1>3, <1>4
<1>5. CASE j \in 1 .. Len(s)
  BY <1>1, <1>2, <1>3, <1>5 DEF Sorted
<1>. QED  BY <1>1, <1>4, <1>5

LEMMA SortedTail ==
    ASSUME NEW acc, NEW R, NEW s \in Seq(R), s # <<>>, Sorted(acc, s)
    PROVE  /\ Sorted(acc, Tail(s))
           /\ \A r : In(r, Tail(s)) => Pos(acc, Head(s)) < Pos(acc, r)
<1>1. /\ Len(Tail(s)) = Len(s) - 1 /\ Len(s) \in Nat \ {0} /\ Head(s) = s[1]
      /\ \A i \in 1 .. Len(s) - 1 : Tail(s)[i] = s[i + 1]
  OBVIOUS
<1>2. ASSUME NEW i \in 1 .. Len(Tail(s)), NEW j \in 1 .. Len(Tail(s)), i < j
      PROVE  Pos(acc, Tail(s)[i]) < Pos(acc, Tail(s)[j])
  <2>1. i + 1 \in 1 .. Len(s) /\ j + 1 \in 1 .. Len(s) /\ i + 1 < j + 1
    BY <1>1, <1>2
  <2>2. Tail(s)[i] = s[i + 1] /\ Tail(s)[j] = s[j + 1]
    BY <1>1
  <2>. QED  BY <2>1, <2>2 DEF Sorted
<1>3. ASSUME NEW r, In(r, Tail(s)) PROVE Pos(acc, Head(s)) < Pos(acc, r)
  <2>1. PICK i \in 1 .. Len(Tail(s)) : Tail(s)[i] = r
    BY <1>3 DEF In
  <2>2. 1 \in 1 .. Len(s) /\ i + 1 \in 1 .. Len(s) /\ 1 < i + 1 /\ s[i + 1] = r
    BY <1>1, <2>1
  <2>. QED  BY <1>1, <2>2 DEF Sorted
<1>. QED  BY <1>2, <1>3 DEF Sorted

LEMMA SortedConcat ==
    ASSUME NEW acc, NEW R, NEW s \in Seq(R), NEW t \in Seq(R),
           Sorted(acc, s), Sorted(acc, t), Ahead(acc, s, t)
    PROVE  Sorted(acc, s \o t)
<1>1. /\ Len(s \o t) = Len(s) + Len(t) /\ Len(s) \in Nat /\ Len(t) \in Nat
      /\ \A i \in 1 .. Len(s) : (s \o t)[i] = s[i]
      /\ \A i \in 1 .. Len(t) : (s \o t)[Len(s) + i] = t[i]
  OBVIOUS
<1>2. SUFFICES ASSUME NEW i \in 1 .. Len(s \o t), NEW j \in 1 .. Len(s \o t), i < j
               PROVE  Pos(acc, (s \o t)[i]) < Pos(acc, (s \o t)[j])
  BY DEF Sorted
<1>3. CASE j \in 1 .. Len(s)
  <2>1. i \in 1 .. Len(s)
    BY <1>1, <1>2, <1>3
  <2>. QED  BY <1>1, <1>2, <1>3, <2>1 DEF Sorted
<1>4. CASE j \notin 1 .. Len(s)
  <2> DEFINE k == j - Len(s)
  <2>1. k \in 1 .. Len(t) /\ Len(s) + k = j
    BY <1>1, <1>4
  <2>2. (s \o t)[j] = t[k]
    BY <1>1, <2>1
  <2>3. CASE i \in 1 .. Len(s)
    <3>1. (s \o t)[i] = s[i] /\ In(s[i], s) /\ In(t[k], t)
      BY <1>1, <2>1, <2>3 DEF In
    <3>. QED  BY <2>2, <3>1 DEF Ahead
  <2>4. CASE i \notin 1 .. Len(s)
    <3> DEFINE h == i - Len(s)
    <3>1. h \in 1 .. Len(t) /\ Len(s) + h = i /\ h < k
      BY <1>1, <1>2, <2>1, <2>4
    <3>2. (s \o t)[i] = t[h]
      BY <1>1, <3>1
    <3>. QED  BY <2>1, <2>2, <3>1, <3>2 DEF Sorted
  <2>. QED  BY <2>3, <2>4
<1>. QED  BY <1>3, <1>4

\* Places in the order of arrival, when nobody arrives twice.
Distinct(acc) == \A i, j \in 1 .. Len(acc) : acc[i] = acc[j] => i = j

LEMMA PosIs ==
    ASSUME NEW R, NEW acc \in Seq(R), Distinct(acc)
    PROVE  /\ \A i \in 1 .. Len(acc) : Pos(acc, acc[i]) = i
           /\ \A r : In(r, acc) => Pos(acc, r) \in 1 .. Len(acc) /\ acc[Pos(acc, r)] = r
<1>1. ASSUME NEW i \in 1 .. Len(acc) PROVE Pos(acc, acc[i]) = i
  <2>1. \E j \in 1 .. Len(acc) : acc[j] = acc[i]
    OBVIOUS
  <2>2. Pos(acc, acc[i]) \in 1 .. Len(acc) /\ acc[Pos(acc, acc[i])] = acc[i]
    BY <2>1 DEF Pos
  <2>. QED  BY <2>2 DEF Distinct
<1>2. ASSUME NEW r, In(r, acc)
      PROVE  Pos(acc, r) \in 1 .. Len(acc) /\ acc[Pos(acc, r)] = r
  BY <1>2 DEF In, Pos
<1>. QED  BY <1>1, <1>2

\* A new arrival is the last and moves nobody.
LEMMA PosAppend ==
    ASSUME NEW R, NEW acc \in Seq(R), Distinct(acc), NEW x \in R, ~In(x, acc)
    PROVE  /\ Distinct(Append(acc, x))
           /\ \A r : In(r, acc) => Pos(Append(acc, x), r) = Pos(acc, r)
           /\ Pos(Append(acc, x), x) = Len(acc) + 1
<1> DEFINE new == Append(acc, x)
<1>1. /\ new \in Seq(R) /\ Len(new) = Len(acc) + 1 /\ Len(acc) \in Nat
      /\ \A i \in 1 .. Len(acc) : new[i] = acc[i]
      /\ new[Len(acc) + 1] = x
  OBVIOUS
<1>. HIDE DEF new
<1>2. \A i \in 1 .. Len(acc) : new[i] # x
  BY <1>1 DEF In
<1>3. Distinct(new)
  <2> SUFFICES ASSUME NEW i \in 1 .. Len(new), NEW j \in 1 .. Len(new), new[i] = new[j]
               PROVE  i = j
    BY DEF Distinct
  <2>1. CASE i \in 1 .. Len(acc) /\ j \in 1 .. Len(acc)
    BY <1>1, <2>1 DEF Distinct
  <2>2. CASE i = Len(acc) + 1 \/ j = Len(acc) + 1
    BY <1>1, <1>2, <2>2
  <2>. QED  BY <1>1, <2>1, <2>2
<1>4. \A i \in 1 .. Len(new) : Pos(new, new[i]) = i
  BY <1>1, <1>3, PosIs
<1>5. \A r : In(r, acc) => Pos(new, r) = Pos(acc, r)
  <2> SUFFICES ASSUME NEW r, In(r, acc) PROVE Pos(new, r) = Pos(acc, r)
    OBVIOUS
  <2>1. PICK i \in 1 .. Len(acc) : acc[i] = r
    BY DEF In
  <2>2. Pos(acc, r) = i
    BY <2>1, PosIs
  <2>3. i \in 1 .. Len(new) /\ new[i] = r
    BY <1>1, <2>1
  <2>. QED  BY <1>4, <2>2, <2>3
<1>6. Pos(new, x) = Len(acc) + 1
  BY <1>1, <1>4
<1>. QED  BY <1>3, <1>5, <1>6 DEF new

LEMMA UpcomingEmpty ==
    ASSUME NEW acc, NEW k, NEW done
    PROVE  Upcoming(acc, k, done, <<>>) /\ \A s : Ahead(acc, <<>>, s)
<1>1. Len(<<>>) = 0
  OBVIOUS
<1>. QED  BY <1>1, InEmpty DEF Upcoming, Sorted, Old, Ahead

\* The first of some upcoming jobs comes after all that is done, is not among
\* the others, and its execution keeps the others upcoming.
LEMMA UpcomingTail ==
    ASSUME NEW R, NEW acc \in Seq(R), Distinct(acc), NEW k \in Nat,
           NEW done \in Seq(R), NEW s \in Seq(R), s # <<>>,
           Old(acc, k, done), Upcoming(acc, k, done, s)
    PROVE  /\ Upcoming(acc, k, done, Tail(s))
           /\ In(Head(s), s) /\ In(Head(s), acc) /\ Pos(acc, Head(s)) <= k
           /\ ~In(Head(s), done) /\ ~In(Head(s), Tail(s))
           /\ \A r : In(r, Tail(s)) => In(r, s)
           /\ Ahead(acc, done \o <<Head(s)>>, Tail(s))
           /\ \A r : In(r, Tail(s)) => Pos(acc, Head(s)) < Pos(acc, r)
<1>1. /\ Head(s) \in R /\ Tail(s) \in Seq(R)
      /\ \A r : In(r, s) <=> r = Head(s) \/ In(r, Tail(s))
  BY InTail
<1>2. /\ Sorted(acc, Tail(s))
      /\ \A r : In(r, Tail(s)) => Pos(acc, Head(s)) < Pos(acc, r)
  BY SortedTail DEF Upcoming
<1>3. \A r : In(r, acc) => Pos(acc, r) \in Nat
  BY PosIs
<1>4. In(Head(s), acc) /\ Pos(acc, Head(s)) <= k /\ Pos(acc, Head(s)) \in Nat
  BY <1>1, <1>3 DEF Upcoming, Old
<1>5. ~In(Head(s), done) /\ ~In(Head(s), Tail(s))
  BY <1>1, <1>2, <1>4 DEF Upcoming, Ahead
<1>6. Upcoming(acc, k, done, Tail(s))
  BY <1>1, <1>2 DEF Upcoming, Old, Ahead
<1>7. Ahead(acc, done \o <<Head(s)>>, Tail(s))
  <2>1. <<Head(s)>> \in Seq(R) /\ \A r : In(r, <<Head(s)>>) => r = Head(s)
    BY <1>1 DEF In
  <2>2. \A r : In(r, done \o <<Head(s)>>) => In(r, done) \/ r = Head(s)
    BY <2>1, InConcat
  <2>. QED  BY <1>2, <1>6, <2>2 DEF Upcoming, Ahead
<1>. QED  BY <1>1, <1>2, <1>4, <1>5, <1>6, <1>7

LEMMA UpcomingAppend ==
    ASSUME NEW R, NEW acc \in Seq(R), NEW k \in Nat, NEW done \in Seq(R),
           NEW s \in Seq(R), Upcoming(acc, k, done, s),
           NEW x \in R, In(x, acc), Pos(acc, x) <= k,
           \A r : In(r, s) \/ In(r, done) => Pos(acc, r) < Pos(acc, x)
    PROVE  Upcoming(acc, k, done, Append(s, x))
<1>1. \A r : In(r, Append(s, x)) <=> In(r, s) \/ r = x
  BY InAppend
<1>2. Sorted(acc, Append(s, x))
  BY SortedAppend DEF Upcoming
<1>. QED  BY <1>1, <1>2 DEF Upcoming, Old, Ahead

\* What is executed in its turn extends the order of what was.
LEMMA UpcomingDone ==
    ASSUME NEW R, NEW acc \in Seq(R), NEW k \in Nat, NEW done \in Seq(R),
           NEW s \in Seq(R), Sorted(acc, done), Old(acc, k, done),
           Upcoming(acc, k, done, s)
    PROVE  Sorted(acc, done \o s) /\ Old(acc, k, done \o s)
<1>1. \A r : In(r, done \o s) => In(r, done) \/ In(r, s)
  BY InConcat
<1>2. Sorted(acc, done \o s)
  BY SortedConcat DEF Upcoming
<1>. QED  BY <1>1, <1>2 DEF Upcoming, Old

LEMMA OldMore ==
    ASSUME NEW R, NEW acc \in Seq(R), Distinct(acc), NEW k \in Nat, NEW s, Old(acc, k, s)
    PROVE  Old(acc, k + 1, s)
<1>1. \A r : In(r, acc) => Pos(acc, r) \in Nat
  BY PosIs
<1>. QED  BY <1>1 DEF Old

\* A new arrival changes nothing for those who came before.
LEMMA OrderGrows ==
    ASSUME NEW R, NEW acc \in Seq(R), Distinct(acc), NEW x \in R, ~In(x, acc),
           NEW k \in Nat, NEW s, Old(acc, k, s)
    PROVE  /\ Old(Append(acc, x), k, s)
           /\ Sorted(acc, s) => Sorted(Append(acc, x), s)
           /\ \A t : Old(acc, k, t) /\ Ahead(acc, s, t) => Ahead(Append(acc, x), s, t)
<1>1. /\ \A r : In(r, acc) => Pos(Append(acc, x), r) = Pos(acc, r)
      /\ \A r : In(r, acc) => In(r, Append(acc, x))
  BY PosAppend, InAppend
<1>2. \A i \in 1 .. Len(s) : In(s[i], s)
  BY DEF In
<1>3. Sorted(acc, s) => Sorted(Append(acc, x), s)
  BY <1>1, <1>2 DEF Old, Sorted
<1>. QED  BY <1>1, <1>3 DEF Old, Ahead

-----------------------------------------------------------------------------
(* Types, the worker's places and its timer *)

\* What a call of the stored procedure makes of the balances and the book.
LEMMA ExecuteType ==
    ASSUME TypeOK, NEW jobs \in Seq(Requests), Execute(jobs)
    PROVE  /\ balance' \in [Wallets -> 0 .. MaxBalance]
           /\ answer' \in Verdicts
           /\ "lostAck" \notin DbFaults =>
                \/ answer' = "ok" /\ applied' = applied \o jobs
                \/ answer' # "ok" /\ applied' = applied
           /\ applied' = applied \/ applied' = applied \o jobs
<1> DEFINE T == Transfers(jobs)
           verdict == BatchVerdict(Wallets, balance, T, MaxBalance)
<1>1. /\ Len(T) \in Nat /\ Len(T) = Len(jobs)
      /\ \A n \in 1 .. Len(T) : T[n].amount \in Int
  <2>1. \A n \in 1 .. Len(jobs) : T[n] = TransferOf[jobs[n]] /\ jobs[n] \in Requests
    BY DEF Transfers
  <2>2. Len(T) = Len(jobs)
    BY DEF Transfers
  <2>. HIDE DEF T
  <2>. QED  BY <2>1, <2>2, ConstantsAssumption
<1>2. /\ verdict \in Verdicts
      /\ verdict = "ok" => \A n \in 1 .. Len(T) : StepVerdict(Wallets, balance, T, MaxBalance, n) = "ok"
  BY <1>1, BatchVerdictSteps
<1>3. verdict = "ok" => Trail(balance, T)[Len(T)] \in [Wallets -> 0 .. MaxBalance]
  <2>1. balance \in [Wallets -> 0 .. MaxBalance] /\ MaxBalance \in Nat /\ Len(T) \in 0 .. Len(T)
    BY <1>1, ConstantsAssumption DEF TypeOK
  <2>. HIDE DEF T
  <2>. QED  BY <1>1, <1>2, <2>1, TrailInRange
<1>. HIDE DEF T
<1>. QED  BY <1>2, <1>3 DEF Execute, dbVars, TypeOK, T, Verdicts

LEMMA CallerTyped ==
    ASSUME Typed, NEW r \in Requests,
           CallerStep(r) \/ CallerWakes(r) \/ Cancel(r)
    PROVE  Typed'
<1>1. Shape'
  BY DEF Typed, Shape, Idle, CallerStep, CallerWakes, Cancel, RejectMalformed, Enqueue,
         RejectFull, ReturnResult, ReturnCancelled, workerVars
<1>2. CASE RejectMalformed(r) \/ RejectFull(r) \/ ReturnCancelled(r)
  <2>1. PICK result \in Results \cup {"queuefull"} : Return(r, result)
    BY <1>2 DEF RejectMalformed, RejectFull, ReturnCancelled, Results, Refusals
  <2>2. /\ caller' \in [Requests -> {"new", "waiting", "returned"}]
        /\ returned' \in [Requests -> Results \cup {"none", "queuefull"}]
    BY <2>1 DEF Typed, TypeOK, Return
  <2>3. UNCHANGED <<workerVars, dbVars, ctx, chan, queue, stopping, accepted,
                    replies, outside, quitters>>
    BY <1>2 DEF RejectMalformed, RejectFull, ReturnCancelled
  <2>. QED  BY <1>1, <2>2, <2>3 DEF Typed, TypeOK, workerVars, dbVars
<1>3. CASE Enqueue(r)
  <2>1. /\ Append(queue, r) \in Seq(Requests) /\ Append(accepted, r) \in Seq(Requests)
        /\ Len(Append(queue, r)) <= Capacity
    BY <1>3, InAppend, ConstantsAssumption DEF Typed, TypeOK, Enqueue
  <2>. QED  BY <1>1, <1>3, <2>1 DEF Typed, TypeOK, Enqueue, workerVars, dbVars
<1>4. CASE ReturnResult(r)
  BY <1>1, <1>4 DEF Typed, TypeOK, ReturnResult, Return, workerVars, dbVars
<1>5. CASE Cancel(r)
  BY <1>1, <1>5 DEF Typed, TypeOK, Cancel, callerVars, workerVars, dbVars
<1>. QED  BY <1>2, <1>3, <1>4, <1>5 DEF CallerStep, CallerWakes

\* The steps of the worker that take jobs from the queue.
LEMMA TakeTyped ==
    ASSUME Typed, Receive \/ DrainJob
    PROVE  Typed'
<1>1. /\ queue \in Seq(Requests) /\ Len(queue) <= Capacity /\ Capacity \in Nat
      /\ batch \in Seq(Requests) /\ rest \in Seq(Requests)
  BY ConstantsAssumption DEF Typed, TypeOK
<1>2. /\ (worker = "select" /\ phase = "run") \/ (worker = "drain" /\ phase = "drain")
      /\ Len(batch) < BatchSize
      /\ worker = "select" => (batch # <<>> <=> timer # "off")
  <2>1. worker \in {"select", "drain"}
    BY DEF Receive, DrainJob
  <2>2. Shape
    BY DEF Typed
  <2>. QED  BY <2>1, <2>2 DEF Shape, Idle
<1>3. UNCHANGED <<callerSide, dbVars, answer, phase>>
  BY DEF Receive, DrainJob
<1>4. /\ queue # <<>> /\ Head(queue) \in Requests
      /\ Tail(queue) \in Seq(Requests) /\ Len(Tail(queue)) = Len(queue) - 1
  BY <1>1, InTail DEF Receive, DrainJob
<1>5. batch' = Append(batch, Head(queue)) /\ queue' = Tail(queue)
  BY DEF Receive, DrainJob
<1>6. batch' \in Seq(Requests) /\ Len(batch') = Len(batch) + 1 /\ batch' # <<>>
  BY <1>1, <1>4, <1>5, InAppend
<1>7. Len(batch') <= BatchSize /\ Len(queue') <= Capacity
  BY <1>1, <1>2, <1>4, <1>5, <1>6, ConstantsAssumption
<1>8. \/ worker' = "filter" /\ rest' = batch' /\ valid' = <<>>
      \/ ~(Len(batch') >= BatchSize) /\ UNCHANGED <<worker, rest, valid>>
  BY <1>6 DEF Receive, DrainJob, Flush
<1>9. IF worker = "select" THEN timer' = (IF worker' = "filter" THEN "off" ELSE
                                          IF batch = <<>> THEN "armed" ELSE timer)
                           ELSE timer' = timer
  BY <1>2, <1>6, <1>8 DEF Receive, DrainJob, Flush
<1>10. TypeOK'
  <2>1. valid \in Seq(Requests) /\ <<>> \in Seq(Requests)
    BY DEF Typed, TypeOK
  <2>2. /\ queue' \in Seq(Requests) /\ rest' \in Seq(Requests) /\ valid' \in Seq(Requests)
        /\ worker' \in {"filter", worker}
    BY <1>1, <1>4, <1>5, <1>6, <1>8, <2>1
  <2>3. timer' \in {"off", "armed", timer}
    BY <1>9
  <2>. QED
    BY <1>3, <1>6, <1>7, <2>2, <2>3 DEF Typed, TypeOK, callerSide, callerVars, dbVars
<1>11. Shape'
  <2>1. worker' # "filter" => Len(batch') < BatchSize
    BY <1>1, <1>2, <1>6, <1>8, ConstantsAssumption
  <2>2. worker' = "select" => timer' # "off"
    BY <1>2, <1>8, <1>9
  <2>3. worker' = "filter" /\ phase' = "run" => timer' = "off"
    BY <1>2, <1>3, <1>9
  <2>4. phase' = phase
    BY <1>3
  <2>. QED  BY <1>2, <1>6, <1>8, <2>1, <2>2, <2>3, <2>4 DEF Shape, Idle
<1>. QED  BY <1>10, <1>11 DEF Typed

\* The steps of the worker's loop that leave the queue alone.
LEMMA LoopTyped ==
    ASSUME Typed, Start \/ Tick \/ SeeStop \/ DrainEnd \/ TimerFires
    PROVE  Typed'
<1>1. UNCHANGED <<callerSide, dbVars, queue, answer, batch>>
  BY DEF Start, Tick, SeeStop, DrainEnd, TimerFires
<1>2. worker' \in {"select", "filter", "drain", "stopped", worker}
  BY DEF Start, Tick, SeeStop, DrainEnd, TimerFires, Flush
<1>3. phase' \in {"drain", "final", phase} /\ timer' \in {"off", "fired", timer}
  BY DEF Start, Tick, SeeStop, DrainEnd, TimerFires
<1>4. (rest' = rest \/ rest' = batch) /\ (valid' = valid \/ valid' = <<>>)
  BY DEF Start, Tick, SeeStop, DrainEnd, TimerFires, Flush
<1>5. rest' \in Seq(Requests) /\ valid' \in Seq(Requests)
  <2>1. rest \in Seq(Requests) /\ batch \in Seq(Requests) /\ valid \in Seq(Requests)
    BY DEF Typed, TypeOK
  <2>2. rest' \in Seq(Requests)
    BY <1>4, <2>1
  <2>3. <<>> \in Seq(Requests)
    OBVIOUS
  <2>4. valid' \in Seq(Requests)
    BY <1>4, <2>1, <2>3
  <2>. QED  BY <2>2, <2>4
<1>6. TypeOK'
  BY <1>1, <1>2, <1>3, <1>5 DEF Typed, TypeOK, callerSide, callerVars, dbVars
<1>7. CASE Start
  BY <1>6, <1>7 DEF Typed, Shape, Idle, Start
<1>8. CASE Tick
  <2>1. Len(<<>>) = 0 /\ BatchSize \in Nat \ {0}
    BY ConstantsAssumption
  <2>. QED  BY <1>6, <1>8, <2>1 DEF Typed, Shape, Idle, Tick, Flush
<1>9. CASE SeeStop
  BY <1>6, <1>9 DEF Typed, Shape, Idle, SeeStop
<1>10. CASE DrainEnd
  BY <1>6, <1>10 DEF Typed, Shape, Idle, DrainEnd, Flush
<1>11. CASE TimerFires
  BY <1>6, <1>11 DEF Typed, Shape, Idle, TimerFires
<1>. QED  BY <1>7, <1>8, <1>9, <1>10, <1>11

LEMMA SendType ==
    ASSUME Typed, NEW r \in Requests, NEW result \in Results, Send(r, result)
    PROVE  /\ chan' \in [Requests -> Results \cup {"empty"}]
           /\ replies' \in [Requests -> Nat]
BY DEF Typed, TypeOK, Send

LEMMA EndFlushShape ==
    ASSUME Typed, ~Idle, EndFlush, UNCHANGED <<phase, timer, rest>>
    PROVE  Shape'
<1>1. \/ phase = "run" /\ worker' = "select" /\ timer = "off"
      \/ phase = "drain" /\ worker' = "drain"
      \/ phase = "final" /\ worker' = "stopped"
  BY DEF Typed, TypeOK, Shape, EndFlush, Resume
<1>. QED  BY <1>1, ConstantsAssumption DEF EndFlush, Shape, Idle

\* The loops over rest and valid, which send results.
LEMMA SendingTyped ==
    ASSUME Typed, Filter \/ RetryCheck \/ AnswerSingle \/ (ReplyAll /\ rest # <<>>)
    PROVE  Typed'
<1>1. rest # <<>> /\ rest \in Seq(Requests) /\ valid \in Seq(Requests)
  BY DEF Typed, TypeOK, Shape, Filter, RetryCheck, AnswerSingle
<1>2. Head(rest) \in Requests /\ Tail(rest) \in Seq(Requests)
  BY <1>1, InTail
<1>3. worker = "answer" => answer \in Results
  BY DEF Typed, TypeOK, Shape
<1>4. \/ UNCHANGED <<chan, replies>>
      \/ \E result \in Results : Send(Head(rest), result)
  BY <1>1, <1>3 DEF Filter, RetryCheck, AnswerSingle, ReplyAll, Results
<1>5. chan' \in [Requests -> Results \cup {"empty"}] /\ replies' \in [Requests -> Nat]
  BY <1>2, <1>4, SendType DEF Typed, TypeOK
<1>6. /\ rest' = rest \/ rest' = Tail(rest)
      /\ valid' = valid \/ valid' = Append(valid, Head(rest))
  BY <1>1 DEF Filter, RetryCheck, AnswerSingle, ReplyAll
<1>7. rest' \in Seq(Requests) /\ valid' \in Seq(Requests)
  <2>1. Append(valid, Head(rest)) \in Seq(Requests)
    BY <1>1, <1>2, InAppend
  <2>2. valid' \in Seq(Requests)
    BY <1>1, <1>6, <2>1
  <2>. QED  BY <1>1, <1>2, <1>6, <2>2
<1>8. UNCHANGED <<phase, batch, timer, answer, callerVars, ctx, queue,
                  dbVars, stopping, accepted, outside, quitters>>
  BY <1>1 DEF Filter, RetryCheck, AnswerSingle, ReplyAll
<1>9. \/ worker' = worker /\ worker \in {"filter", "retry", "reply"}
      \/ worker = "retry" /\ worker' = "single" /\ rest' = rest
      \/ worker = "answer" /\ worker' = "retry"
  BY <1>1 DEF Filter, RetryCheck, AnswerSingle, ReplyAll
<1>10. TypeOK'
  BY <1>5, <1>7, <1>8, <1>9 DEF Typed, TypeOK, callerVars, dbVars
<1>11. Shape'
  BY <1>1, <1>8, <1>9 DEF Typed, Shape, Idle
<1>. QED  BY <1>10, <1>11 DEF Typed

LEMMA EndingTyped ==
    ASSUME Typed, FilterEnd \/ RetryEnd \/ (ReplyAll /\ rest = <<>>)
    PROVE  Typed'
<1>1. ~Idle
  BY DEF Idle, FilterEnd, RetryEnd, ReplyAll
<1>2. /\ UNCHANGED <<phase, timer, rest, callerVars, ctx, queue, dbVars, stopping,
                     accepted, outside, quitters, chan, replies>>
      /\ \/ EndFlush
         \/ worker = "filter" /\ worker' = "call" /\ UNCHANGED <<batch, valid, answer>>
  <2>1. CASE FilterEnd
    BY <2>1 DEF FilterEnd, callerSide, callerVars
  <2>2. CASE RetryEnd
    BY <2>2 DEF RetryEnd, callerSide, callerVars
  <2>3. CASE ReplyAll /\ rest = <<>>
    BY <2>3 DEF ReplyAll, callerVars
  <2>. QED  BY <2>1, <2>2, <2>3
<1>3. CASE EndFlush
  <2>1. Shape'
    BY <1>1, <1>2, <1>3, EndFlushShape
  <2>2. /\ worker' \in {"select", "drain", "stopped"} /\ batch' = <<>> /\ valid' = <<>>
        /\ answer' = "none"
    BY <1>3 DEF EndFlush, Resume, Typed, TypeOK
  <2>3. <<>> \in Seq(Requests) /\ Len(<<>>) = 0 /\ BatchSize \in Nat \ {0}
    BY ConstantsAssumption
  <2>. QED  BY <1>2, <2>1, <2>2, <2>3 DEF Typed, TypeOK, callerVars, dbVars
<1>4. CASE worker = "filter" /\ worker' = "call" /\ UNCHANGED <<batch, valid, answer>>
  BY <1>2, <1>4 DEF Typed, TypeOK, Shape, Idle, callerVars, dbVars
<1>. QED  BY <1>2, <1>3, <1>4

LEMMA ExecutionTyped ==
    ASSUME Typed, ExecuteBatch \/ ExecuteSingle
    PROVE  Typed'
<1>1. \E jobs \in Seq(Requests) : Execute(jobs)
  <2>1. CASE ExecuteBatch
    BY <2>1 DEF Typed, TypeOK, ExecuteBatch
  <2>2. CASE ExecuteSingle
    <3>1. rest # <<>> /\ rest \in Seq(Requests)
      BY <2>2 DEF Typed, TypeOK, Shape, ExecuteSingle
    <3>2. <<Head(rest)>> \in Seq(Requests)
      BY <3>1, InTail
    <3>. QED  BY <2>2, <3>2 DEF ExecuteSingle
  <2>. QED  BY <2>1, <2>2
<1>2. PICK jobs \in Seq(Requests) : Execute(jobs)
  BY <1>1
<1>3. /\ balance' \in [Wallets -> 0 .. MaxBalance] /\ answer' \in Verdicts
      /\ applied' = applied \/ applied' = applied \o jobs
  BY <1>2, ExecuteType DEF Typed
<1>4. applied' \in Seq(Requests)
  <2>1. applied \in Seq(Requests)
    BY DEF Typed, TypeOK
  <2>2. applied \o jobs \in Seq(Requests)
    BY <2>1, InConcat
  <2>. QED  BY <1>3, <2>1, <2>2
<1>5. /\ UNCHANGED <<phase, batch, timer, valid, queue, callerSide>>
      /\ rest' \in {valid, rest}
  BY DEF ExecuteBatch, ExecuteSingle
<1>6. \/ worker = "call" /\ worker' \in {"reply", "retry"}
      \/ worker = "single" /\ worker' = "answer" /\ rest' = rest
  BY DEF ExecuteBatch, ExecuteSingle
<1>7. answer' \in Results
  BY <1>3 DEF Verdicts, Results, Refusals
<1>8. TypeOK'
  BY <1>3, <1>4, <1>5, <1>6, <1>7 DEF Typed, TypeOK, callerSide, callerVars
<1>9. "none" \notin Results
  BY DEF Results, Refusals
<1>10. Shape'
  BY <1>5, <1>6, <1>7, <1>9 DEF Typed, Shape, Idle
<1>. QED  BY <1>8, <1>10 DEF Typed

LEMMA StepTyped == Typed /\ [Next]_vars => Typed'
<1> SUFFICES ASSUME Typed, [Next]_vars PROVE Typed'
  OBVIOUS
<1>1. CASE Stop \/ UNCHANGED vars
  BY <1>1 DEF Typed, TypeOK, Shape, Idle, Stop, vars, callerVars, workerVars, dbVars
<1>2. CASE OutsidePosting
  <2>1. UNCHANGED <<callerVars, workerVars, ctx, chan, queue, applied, stopping,
                    accepted, replies, quitters>>
    BY <1>2 DEF OutsidePosting
  <2>2. outside' \in 0 .. MaxOutside
    BY <1>2, ConstantsAssumption DEF Typed, TypeOK, OutsidePosting
  <2>3. PICK w \in Wallets, n \in 0 .. MaxBalance : balance' = [balance EXCEPT ![w] = n]
    BY <1>2 DEF OutsidePosting
  <2>4. balance' \in [Wallets -> 0 .. MaxBalance]
    BY <2>3 DEF Typed, TypeOK
  <2>. QED
    BY <2>1, <2>2, <2>4 DEF Typed, TypeOK, Shape, Idle, callerVars, workerVars
<1>3. CASE \E r \in Requests : CallerStep(r) \/ CallerWakes(r) \/ Cancel(r)
  BY <1>3, CallerTyped
<1>4. CASE Work \/ TimerFires
  BY <1>4, TakeTyped, LoopTyped, SendingTyped, EndingTyped, ExecutionTyped DEF Work
<1>. QED  BY <1>1, <1>2, <1>3, <1>4 DEF Next

LEMMA StartTyped == Init => Typed
<1> SUFFICES ASSUME Init PROVE Typed
  OBVIOUS
<1>1. <<>> \in Seq(Requests) /\ Len(<<>>) = 0 /\ BatchSize \in Nat \ {0} /\ Capacity \in Nat
  BY ConstantsAssumption
<1>2. balance \in [Wallets -> 0 .. MaxBalance] /\ outside \in 0 .. MaxOutside
  BY ConstantsAssumption DEF Init
<1>3. TypeOK
  <2>1. /\ caller \in [Requests -> {"new", "waiting", "returned"}]
        /\ ctx \in [Requests -> {"live", "done"}]
        /\ chan \in [Requests -> Results \cup {"empty"}]
        /\ returned \in [Requests -> Results \cup {"none", "queuefull"}]
        /\ replies \in [Requests -> Nat]
    BY DEF Init
  <2>2. /\ queue \in Seq(Requests) /\ Len(queue) <= Capacity
        /\ batch \in Seq(Requests) /\ Len(batch) <= BatchSize
        /\ rest \in Seq(Requests) /\ valid \in Seq(Requests)
        /\ applied \in Seq(Requests) /\ accepted \in Seq(Requests)
    BY <1>1 DEF Init
  <2>. QED  BY <1>2, <2>1, <2>2 DEF Init, TypeOK
<1>4. Shape
  BY <1>1 DEF Init, Shape, Idle
<1>. QED  BY <1>3, <1>4 DEF Typed

LEMMA Typing == Spec => []Typed
BY StartTyped, StepTyped, PTL DEF Spec

\* Every variable keeps its type; the queue and the batch keep to their limits.
THEOREM TypeCorrect == Spec => []TypeOK
BY Typing, PTL DEF Typed

\* The flush timer runs exactly while jobs wait in the slice.
THEOREM TimerFollowsBatch == Spec => []NeverStranded
<1>1. Typed => NeverStranded
  BY DEF Typed, Shape, NeverStranded
<1>. QED  BY <1>1, Typing, PTL

-----------------------------------------------------------------------------
(* The order of arrival *)

\* The queue holds arrivals beyond the first Taken; the next one is its head.
LEMMA QueueFacts ==
    ASSUME Typed, Arrivals
    PROVE  /\ accepted \in Seq(Requests) /\ Distinct(accepted) /\ Taken \in Nat
           /\ \A r : In(r, accepted) => Pos(accepted, r) \in Nat
           /\ \A r : In(r, queue) => In(r, accepted) /\ Pos(accepted, r) > Taken
           /\ queue # <<>> => Pos(accepted, Head(queue)) = Taken + 1
<1>1. /\ accepted \in Seq(Requests) /\ queue \in Seq(Requests)
      /\ Len(accepted) \in Nat /\ Len(queue) \in Nat
  BY DEF Typed, TypeOK
<1>2. /\ Distinct(accepted) /\ Taken \in Nat
      /\ Len(accepted) = Taken + Len(queue)
      /\ \A i \in 1 .. Len(queue) : queue[i] = accepted[Taken + i]
  BY <1>1 DEF Arrivals, Distinct, Taken
<1>3. \A r : In(r, accepted) => Pos(accepted, r) \in Nat
  BY <1>1, <1>2, PosIs
<1>4. ASSUME NEW i \in 1 .. Len(queue)
      PROVE  In(queue[i], accepted) /\ Pos(accepted, queue[i]) = Taken + i
  <2>1. Taken + i \in 1 .. Len(accepted) /\ queue[i] = accepted[Taken + i]
    BY <1>1, <1>2
  <2>. QED  BY <1>1, <1>2, <2>1, PosIs DEF In
<1>5. \A r : In(r, queue) => In(r, accepted) /\ Pos(accepted, r) > Taken
  <2> SUFFICES ASSUME NEW r, In(r, queue)
               PROVE  In(r, accepted) /\ Pos(accepted, r) > Taken
    OBVIOUS
  <2>1. PICK i \in 1 .. Len(queue) : queue[i] = r
    BY DEF In
  <2>. QED  BY <1>2, <1>4, <2>1
<1>6. queue # <<>> => Pos(accepted, Head(queue)) = Taken + 1
  <2> SUFFICES ASSUME queue # <<>> PROVE Pos(accepted, Head(queue)) = Taken + 1
    OBVIOUS
  <2>1. 1 \in 1 .. Len(queue) /\ Head(queue) = queue[1]
    BY <1>1
  <2>. QED  BY <1>4, <2>1
<1>. QED  BY <1>1, <1>2, <1>3, <1>5, <1>6

\* Every job the worker handles, or has handled, has entered the queue.
LEMMA HandledArrived ==
    ASSUME Typed, Arrivals, Order
    PROVE  \A r : In(r, applied) \/ Open(r) => In(r, accepted)
<1>1. \A r : In(r, queue) \/ In(r, applied) => In(r, accepted)
  BY QueueFacts DEF Order, Old
<1>2. Idle => \A r : In(r, batch) => In(r, accepted)
  BY DEF Order, Upcoming, Old
<1>3. worker \in {"filter", "call"} => \A r : In(r, valid) => In(r, accepted)
  BY DEF Order, Upcoming, Old
<1>4. worker \in {"filter", "retry", "single", "answer"} =>
        \A r : In(r, rest) => In(r, accepted)
  BY DEF Order, Upcoming, Old
<1>. QED  BY <1>1, <1>2, <1>3, <1>4 DEF Open

\* Taking the next job from the queue.
Take == /\ queue # <<>> /\ queue' = Tail(queue)
        /\ UNCHANGED <<accepted, caller, chan, returned>>

LEMMA TakeArrivals ==
    ASSUME Typed, Arrivals, Take
    PROVE  Arrivals' /\ Taken' = Taken + 1
<1>1. /\ accepted \in Seq(Requests) /\ queue \in Seq(Requests) /\ queue # <<>>
      /\ Len(queue) \in Nat \ {0} /\ Len(accepted) \in Nat
      /\ Len(Tail(queue)) = Len(queue) - 1
      /\ \A i \in 1 .. Len(queue) - 1 : Tail(queue)[i] = queue[i + 1]
  BY DEF Typed, TypeOK, Take
<1>2. /\ Taken \in Nat /\ Taken = Len(accepted) - Len(queue)
      /\ \A i \in 1 .. Len(queue) : queue[i] = accepted[Taken + i]
  BY DEF Arrivals, Taken
<1>3. Taken' = Taken + 1
  BY <1>1, <1>2 DEF Taken, Take
<1>4. \A i \in 1 .. Len(queue') : queue'[i] = accepted'[Taken' + i]
  <2> SUFFICES ASSUME NEW i \in 1 .. Len(queue) - 1
               PROVE  Tail(queue)[i] = accepted[Taken + 1 + i]
    BY <1>1, <1>3 DEF Take
  <2>1. i + 1 \in 1 .. Len(queue) /\ Taken + (i + 1) = Taken + 1 + i
    BY <1>1, <1>2
  <2>. QED  BY <1>1, <1>2, <2>1
<1>5. Taken' \in Nat
  BY <1>2, <1>3
<1>. QED  BY <1>3, <1>4, <1>5 DEF Arrivals, Take

LEMMA EnqueueArrivals ==
    ASSUME Typed, Arrivals, NEW x \in Requests, Enqueue(x)
    PROVE  Arrivals' /\ Taken' = Taken /\ ~In(x, accepted)
<1>1. /\ accepted \in Seq(Requests) /\ queue \in Seq(Requests)
      /\ Len(queue) \in Nat /\ Len(accepted) \in Nat
      /\ caller \in [Requests -> {"new", "waiting", "returned"}]
  BY DEF Typed, TypeOK
<1>2. /\ Taken \in Nat /\ Taken = Len(accepted) - Len(queue)
      /\ \A i \in 1 .. Len(queue) : queue[i] = accepted[Taken + i]
      /\ Distinct(accepted)
      /\ \A r \in Requests : caller[r] = "new" =>
           ~In(r, accepted) /\ chan[r] = "empty" /\ returned[r] = "none"
  BY DEF Arrivals, Taken, Distinct
<1>3. /\ caller[x] = "new" /\ queue' = Append(queue, x) /\ accepted' = Append(accepted, x)
      /\ caller' = [caller EXCEPT ![x] = "waiting"] /\ UNCHANGED <<chan, returned>>
  BY DEF Enqueue
<1>4. ~In(x, accepted)
  BY <1>2, <1>3
<1>5. Distinct(accepted')
  BY <1>1, <1>2, <1>3, <1>4, PosAppend
<1>6. /\ Len(queue') = Len(queue) + 1 /\ Len(accepted') = Len(accepted) + 1
      /\ \A i \in 1 .. Len(queue) : queue'[i] = queue[i]
      /\ \A i \in 1 .. Len(accepted) : accepted'[i] = accepted[i]
      /\ queue'[Len(queue) + 1] = x /\ accepted'[Len(accepted) + 1] = x
  BY <1>1, <1>3
<1>7. Taken' = Taken
  BY <1>1, <1>2, <1>6 DEF Taken
<1>8. ASSUME NEW i \in 1 .. Len(queue') PROVE queue'[i] = accepted'[Taken + i]
  <2>1. CASE i \in 1 .. Len(queue)
    <3>1. Taken + i \in 1 .. Len(accepted)
      BY <1>1, <1>2, <2>1
    <3>. QED  BY <1>2, <1>6, <2>1, <3>1
  <2>2. CASE i = Len(queue) + 1
    <3>1. Taken + i = Len(accepted) + 1
      BY <1>1, <1>2, <2>2
    <3>. QED  BY <1>6, <2>2, <3>1
  <2>. QED  BY <1>1, <1>6, <2>1, <2>2
<1>9. ASSUME NEW r \in Requests, caller'[r] = "new"
      PROVE  ~In(r, accepted') /\ chan'[r] = "empty" /\ returned'[r] = "none"
  <2>1. r # x /\ caller[r] = "new"
    BY <1>1, <1>3, <1>9
  <2>2. ~In(r, accepted')
    BY <1>1, <1>2, <1>3, <2>1, InAppend
  <2>. QED  BY <1>2, <1>3, <2>1, <2>2
<1>10. Arrivals'
  BY <1>2, <1>5, <1>7, <1>8, <1>9 DEF Arrivals, Distinct
<1>. QED  BY <1>4, <1>7, <1>10

\* A step that leaves the queue alone and tells only callers who have called.
LEMMA QuietArrivals ==
    ASSUME Arrivals, UNCHANGED <<queue, accepted>>,
           \A r \in Requests : caller'[r] = "new" =>
             caller[r] = "new" /\ chan'[r] = chan[r] /\ returned'[r] = returned[r]
    PROVE  Arrivals' /\ Taken' = Taken
<1>1. Taken' = Taken
  BY DEF Taken
<1>. QED  BY <1>1 DEF Arrivals

-----------------------------------------------------------------------------
(* What a step must leave alone for the invariants to be kept *)

LEMMA OrderKept ==
    ASSUME Order, Taken' = Taken,
           UNCHANGED <<accepted, applied, worker, batch, valid, rest, answer>>
    PROVE  Order'
BY DEF Order, Idle

\* Nobody is told anything new, nothing takes effect, no job is reopened.
LEMMA TruthKept ==
    ASSUME Truth, UNCHANGED <<chan, returned, applied>>,
           \A r \in Requests : Open(r)' => Open(r)
    PROVE  Truth'
BY DEF Truth, Told, Denied

\* One job is told how its transfer ended, and is done with.
LEMMA TruthSent ==
    ASSUME Typed, Truth, NEW x \in Requests, NEW result \in Results, Send(x, result),
           UNCHANGED <<returned, applied>>,
           \A r \in Requests : Open(r)' => Open(r),
           result = "ok" => In(x, applied),
           result # "ok" => ~In(x, applied) /\ ~Open(x)'
    PROVE  Truth'
<1>1. /\ chan'[x] = result
      /\ \A r \in Requests \ {x} : chan'[r] = chan[r]
  BY DEF Typed, TypeOK, Send
<1>2. ASSUME NEW r \in Requests \ {x}
      PROVE  /\ Told(r, "ok")' => In(r, applied')
             /\ Denied(r)' => ~In(r, applied') /\ ~Open(r)'
  BY <1>1, <1>2 DEF Truth, Told, Denied
<1>3. /\ Told(x, "ok")' => In(x, applied')
      /\ Denied(x)' => ~In(x, applied') /\ ~Open(x)'
  <2>1. CASE result = "ok"
    <3>1. Denied(x)' => Denied(x)
      BY <1>1, <2>1 DEF Denied
    <3>. QED  BY <2>1, <3>1 DEF Truth
  <2>2. CASE result # "ok"
    BY <1>1, <2>2 DEF Truth, Told
  <2>. QED  BY <2>1, <2>2
<1>. QED  BY <1>2, <1>3 DEF Truth

\* The sender of a result is a job that has entered the queue.
LEMMA SentArrivals ==
    ASSUME Typed, Arrivals, NEW x \in Requests, In(x, accepted), NEW result,
           Send(x, result), UNCHANGED <<queue, accepted, caller, returned>>
    PROVE  Arrivals' /\ Taken' = Taken
<1>1. \A r \in Requests \ {x} : chan'[r] = chan[r]
  BY DEF Typed, TypeOK, Send
<1>2. caller[x] # "new"
  BY DEF Arrivals
<1>. QED  BY <1>1, <1>2, QuietArrivals

-----------------------------------------------------------------------------
(* Steps of the callers *)

LEMMA ReturnKeeps ==
    ASSUME IInv, NEW x \in Requests,
           RejectMalformed(x) \/ RejectFull(x) \/ ReturnResult(x) \/ ReturnCancelled(x)
    PROVE  Arrivals' /\ Order' /\ Truth' /\ Quits'
<1>. Typed /\ Arrivals /\ Order /\ Truth /\ Quits
  BY DEF IInv
<1>1. UNCHANGED <<workerVars, dbVars, ctx, queue, accepted, quitters>>
  BY DEF RejectMalformed, RejectFull, ReturnResult, ReturnCancelled
<1>2. PICK result : Return(x, result) /\
        \/ caller[x] = "new" /\ result \in {"invalid", "queuefull"} /\ UNCHANGED chan
        \/ result = "cancelled" /\ UNCHANGED chan
        \/ chan[x] # "empty" /\ result = chan[x] /\ chan' = [chan EXCEPT ![x] = "empty"]
  BY DEF RejectMalformed, RejectFull, ReturnResult, ReturnCancelled
<1>3. /\ caller'[x] = "returned" /\ returned'[x] = result
      /\ \A r \in Requests \ {x} :
           caller'[r] = caller[r] /\ returned'[r] = returned[r] /\ chan'[r] = chan[r]
  BY <1>2 DEF Typed, TypeOK, Return
<1>4. Arrivals' /\ Taken' = Taken
  BY <1>1, <1>3, QuietArrivals
<1>5. Order'
  BY <1>1, <1>4, OrderKept DEF workerVars, dbVars
<1>6. \A r : Open(r)' <=> Open(r)
  BY <1>1 DEF Open, Idle, workerVars
<1>7. /\ Told(x, "ok")' => Told(x, "ok")
      /\ Denied(x)' => Denied(x) \/ caller[x] = "new"
  <2>1. chan \in [Requests -> Results \cup {"empty"}] /\ "ok" \notin Refusals \cup {"error"}
    BY DEF Typed, TypeOK, Refusals
  <2>2. CASE caller[x] = "new" /\ result \in {"invalid", "queuefull"} /\ UNCHANGED chan
    BY <1>3, <2>2 DEF Told
  <2>3. CASE result = "cancelled" /\ UNCHANGED chan
    BY <1>3, <2>3 DEF Told, Denied, Refusals
  <2>4. CASE chan[x] # "empty" /\ result = chan[x] /\ chan' = [chan EXCEPT ![x] = "empty"]
    <3>1. chan'[x] = "empty"
      BY <2>1, <2>4
    <3>. QED  BY <1>3, <2>1, <2>4, <3>1 DEF Told, Denied
  <2>. QED  BY <1>2, <2>2, <2>3, <2>4
<1>8. caller[x] = "new" => ~In(x, applied) /\ ~Open(x)
  BY HandledArrived DEF Arrivals
<1>9. Truth'
  <2>1. applied' = applied
    BY <1>1 DEF dbVars
  <2>2. \A r \in Requests \ {x} : (Told(r, "ok")' <=> Told(r, "ok")) /\ (Denied(r)' <=> Denied(r))
    BY <1>3 DEF Told, Denied
  <2>. QED  BY <1>6, <1>7, <1>8, <2>1, <2>2 DEF Truth
<1>10. Quits'
  BY <1>1 DEF Quits, workerVars, dbVars
<1>. QED  BY <1>4, <1>5, <1>9, <1>10

LEMMA EnqueueKeeps ==
    ASSUME IInv, NEW x \in Requests, Enqueue(x)
    PROVE  Arrivals' /\ Order' /\ Truth' /\ Quits'
<1>. Typed /\ Arrivals /\ Order /\ Truth /\ Quits
  BY DEF IInv
<1>1. /\ UNCHANGED <<returned, workerVars, dbVars, ctx, chan, quitters>>
      /\ queue' = Append(queue, x) /\ accepted' = Append(accepted, x) /\ caller[x] = "new"
  BY DEF Enqueue
<1>2. Arrivals' /\ Taken' = Taken /\ ~In(x, accepted)
  BY EnqueueArrivals
<1>3. accepted \in Seq(Requests) /\ Distinct(accepted) /\ Taken \in Nat
  BY QueueFacts
<1>4. \A s : Old(accepted, Taken, s) =>
        /\ Old(accepted', Taken, s)
        /\ Sorted(accepted, s) => Sorted(accepted', s)
        /\ \A t : Old(accepted, Taken, t) /\ Ahead(accepted, s, t) => Ahead(accepted', s, t)
  BY <1>1, <1>2, <1>3, OrderGrows
<1>5. \A s : Upcoming(accepted, Taken, applied, s) => Upcoming(accepted', Taken, applied, s)
  BY <1>4 DEF Order, Upcoming
<1>6. Order'
  <2>1. /\ Sorted(accepted', applied) /\ Old(accepted', Taken, applied)
    BY <1>4 DEF Order
  <2>2. worker = "filter" => Ahead(accepted', valid, rest)
    BY <1>4 DEF Order, Upcoming
  <2>3. worker = "answer" =>
         /\ Sorted(accepted', rest) /\ Old(accepted', Taken, rest)
         /\ Ahead(accepted', applied, Tail(rest))
         /\ answer # "ok" => Ahead(accepted', applied, rest)
    <3> SUFFICES ASSUME worker = "answer"
                 PROVE  /\ Sorted(accepted', rest) /\ Old(accepted', Taken, rest)
                        /\ Ahead(accepted', applied, Tail(rest))
                        /\ answer # "ok" => Ahead(accepted', applied, rest)
      OBVIOUS
    <3>1. /\ Sorted(accepted, rest) /\ Old(accepted, Taken, rest) /\ Old(accepted, Taken, applied)
          /\ Ahead(accepted, applied, Tail(rest))
          /\ answer # "ok" => Ahead(accepted, applied, rest)
      BY DEF Order
    <3>2. rest \in Seq(Requests) /\ rest # <<>>
      BY DEF Typed, TypeOK, Shape
    <3>3. Old(accepted, Taken, Tail(rest))
      BY <3>1, <3>2, InTail DEF Old
    <3>. QED  BY <1>4, <3>1, <3>3
  <2>. QED  BY <1>1, <1>2, <1>5, <2>1, <2>2, <2>3 DEF Order, Idle, workerVars, dbVars
<1>7. Truth'
  <2>1. ~In(x, applied) /\ ~Open(x) /\ chan[x] = "empty" /\ returned[x] = "none"
    BY <1>1, <1>2, HandledArrived DEF Arrivals
  <2>2. \A r : r # x => (Open(r)' <=> Open(r))
    <3>1. \A r : In(r, queue') <=> In(r, queue) \/ r = x
      BY <1>1, InAppend DEF Typed, TypeOK
    <3>. QED  BY <1>1, <3>1 DEF Open, Idle, workerVars
  <2>3. ~Told(x, "ok")' /\ ~Denied(x)'
    BY <1>1, <2>1 DEF Told, Denied, Refusals
  <2>. QED  BY <1>1, <2>2, <2>3 DEF Truth, Told, Denied, dbVars
<1>8. Quits'
  BY <1>1 DEF Quits, workerVars, dbVars
<1>. QED  BY <1>2, <1>6, <1>7, <1>8

LEMMA CancelKeeps ==
    ASSUME IInv, NEW x \in Requests, Cancel(x)
    PROVE  Arrivals' /\ Order' /\ Truth' /\ Quits'
<1>. Typed /\ Arrivals /\ Order /\ Truth /\ Quits
  BY DEF IInv
<1>1. UNCHANGED <<callerVars, workerVars, dbVars, chan, queue, accepted>>
  BY DEF Cancel
<1>2. Arrivals' /\ Taken' = Taken
  BY <1>1, QuietArrivals DEF callerVars
<1>3. Order'
  BY <1>1, <1>2, OrderKept DEF workerVars, dbVars
<1>4. \A r : Open(r)' <=> Open(r)
  BY <1>1 DEF Open, Idle, workerVars
<1>5. Truth'
  BY <1>1, <1>4, TruthKept DEF callerVars, dbVars
<1>6. /\ ctx'[x] = "done" /\ \A r \in Requests : ctx[r] = "done" => ctx'[r] = "done"
      /\ \A r \in quitters' \ quitters : r = x /\ (caller[x] = "new" \/ Unfiltered(x))
      /\ quitters \subseteq Requests
  BY DEF Cancel, Typed, TypeOK
<1>7. ASSUME ~In(x, accepted) \/ In(x, queue) \/ (In(x, batch) /\ worker \in {"select", "drain"})
      PROVE  /\ ~In(x, applied)
             /\ worker \in {"filter", "call"} => ~In(x, valid)
             /\ worker \in {"retry", "single", "answer"} => ~In(x, rest)
  <2>1. CASE ~In(x, accepted)
    BY <2>1, HandledArrived DEF Open
  <2>2. CASE In(x, queue)
    <3>1. Pos(accepted, x) > Taken /\ Pos(accepted, x) \in Nat /\ Taken \in Nat
      BY <2>2, QueueFacts
    <3>2. \A s : Old(accepted, Taken, s) => ~In(x, s)
      BY <3>1 DEF Old
    <3>. QED  BY <3>2 DEF Order, Upcoming
  <2>3. CASE In(x, batch) /\ worker \in {"select", "drain"}
    <3>1. Upcoming(accepted, Taken, applied, batch)
      BY <2>3 DEF Order, Idle
    <3>2. In(x, accepted) /\ Pos(accepted, x) \in Nat
      BY <2>3, <3>1, QueueFacts DEF Upcoming, Old
    <3>3. ~In(x, applied)
      BY <2>3, <3>1, <3>2 DEF Upcoming, Ahead
    <3>. QED  BY <2>3, <3>3
  <2>. QED  BY <1>7, <2>1, <2>2, <2>3
<1>8. caller[x] = "new" \/ Unfiltered(x) =>
        ~In(x, accepted) \/ In(x, queue) \/ (In(x, batch) /\ worker \in {"select", "drain"})
  <2>1. Unfiltered(x) => In(x, queue) \/ (In(x, batch) /\ worker \in {"select", "drain"})
    BY DEF Unfiltered, In
  <2>. QED  BY <2>1 DEF Arrivals
<1>9. Quits'
  BY <1>1, <1>6, <1>7, <1>8 DEF Quits, workerVars, dbVars
<1>. QED  BY <1>2, <1>3, <1>5, <1>9

-----------------------------------------------------------------------------
(* Steps of the worker's loop *)

LEMMA TakeKeeps ==
    ASSUME IInv, Receive \/ DrainJob
    PROVE  Arrivals' /\ Order' /\ Truth' /\ Quits'
<1>. Typed /\ Arrivals /\ Order /\ Truth /\ Quits
  BY DEF IInv
<1> DEFINE x == Head(queue)
<1>1. /\ queue # <<>> /\ queue' = Tail(queue) /\ batch' = Append(batch, x)
      /\ Take /\ worker \in {"select", "drain"}
      /\ UNCHANGED <<callerSide, dbVars, answer>>
  BY DEF Receive, DrainJob, Take, callerSide, callerVars
<1>2. /\ batch \in Seq(Requests) /\ applied \in Seq(Requests) /\ x \in Requests
      /\ \A r : In(r, queue) <=> r = x \/ In(r, Tail(queue))
  BY <1>1, InTail DEF Typed, TypeOK
<1>3. Arrivals' /\ Taken' = Taken + 1
  BY <1>1, TakeArrivals
<1>4. /\ accepted \in Seq(Requests) /\ Distinct(accepted) /\ Taken \in Nat
      /\ \A r : In(r, accepted) => Pos(accepted, r) \in Nat
      /\ In(x, accepted) /\ Pos(accepted, x) = Taken + 1
  BY <1>1, <1>2, QueueFacts
<1>. HIDE DEF x
<1>5. /\ Sorted(accepted, applied) /\ Old(accepted, Taken, applied)
      /\ Upcoming(accepted, Taken, applied, batch)
  BY <1>1 DEF Order, Idle
<1>6. Old(accepted, Taken + 1, applied) /\ Upcoming(accepted, Taken + 1, applied, batch)
  BY <1>4, <1>5, OldMore DEF Upcoming
<1>7. Upcoming(accepted, Taken + 1, applied, batch')
  <2>1. \A r : In(r, batch) \/ In(r, applied) => Pos(accepted, r) < Pos(accepted, x)
    BY <1>4, <1>5 DEF Upcoming, Old
  <2>2. Taken + 1 \in Nat /\ Pos(accepted, x) <= Taken + 1
    BY <1>4
  <2>. QED  BY <1>1, <1>2, <1>4, <1>6, <2>1, <2>2, UpcomingAppend
<1>8. \/ worker' = worker
      \/ worker' = "filter" /\ rest' = batch' /\ valid' = <<>>
  <2>1. batch' # <<>>
    BY <1>1, <1>2, InAppend
  <2>. QED  BY <2>1 DEF Receive, DrainJob, Flush
<1>9. Order'
  <2>1. Sorted(accepted, applied)' /\ Old(accepted, Taken, applied)'
    BY <1>1, <1>3, <1>5, <1>6 DEF callerSide, dbVars
  <2>2. Upcoming(accepted, Taken, applied, batch)'
    BY <1>1, <1>3, <1>7 DEF callerSide, dbVars
  <2>3. CASE worker' = worker
    BY <1>1, <2>1, <2>2, <2>3 DEF Order, Idle
  <2>4. CASE worker' = "filter" /\ rest' = batch' /\ valid' = <<>>
    BY <2>1, <2>2, <2>4, UpcomingEmpty DEF Order, Idle
  <2>. QED  BY <1>8, <2>3, <2>4
<1>10. \A r : Open(r)' => Open(r)
  <2>1. \A r : In(r, batch') => In(r, batch) \/ In(r, queue)
    BY <1>1, <1>2, InAppend
  <2>2. \A r : In(r, queue') => In(r, queue)
    BY <1>1, <1>2
  <2>. QED  BY <1>1, <1>8, <2>1, <2>2, InEmpty DEF Open, Idle
<1>11. Truth'
  BY <1>1, <1>10, TruthKept DEF callerSide, callerVars, dbVars
<1>12. Quits'
  BY <1>1, <1>8, InEmpty DEF Quits, callerSide, dbVars
<1>. QED  BY <1>3, <1>9, <1>11, <1>12

LEMMA LoopKeeps ==
    ASSUME IInv, Start \/ Tick \/ SeeStop \/ DrainEnd \/ TimerFires
    PROVE  Arrivals' /\ Order' /\ Truth' /\ Quits'
<1>. Typed /\ Arrivals /\ Order /\ Truth /\ Quits
  BY DEF IInv
<1>1. UNCHANGED <<callerSide, dbVars, answer, batch, queue>>
  BY DEF Start, Tick, SeeStop, DrainEnd, TimerFires
<1>2. Arrivals' /\ Taken' = Taken
  BY <1>1, QuietArrivals DEF callerSide, callerVars
<1>3. \/ UNCHANGED <<worker, rest, valid>>
      \/ Idle /\ Idle'
      \/ Idle /\ worker' = "filter" /\ rest' = batch /\ valid' = <<>>
  BY DEF Start, Tick, SeeStop, DrainEnd, TimerFires, Flush, Idle
<1>4. CASE UNCHANGED <<worker, rest, valid>>
  <2>1. Order'
    BY <1>1, <1>2, <1>4, OrderKept DEF callerSide, dbVars
  <2>2. \A r : Open(r)' <=> Open(r)
    BY <1>1, <1>4 DEF Open, Idle
  <2>3. Truth'
    BY <1>1, <2>2, TruthKept DEF callerSide, callerVars, dbVars
  <2>4. Quits'
    BY <1>1, <1>4 DEF Quits, callerSide, dbVars
  <2>. QED  BY <1>2, <2>1, <2>3, <2>4
<1>5. CASE Idle /\ (Idle' \/ (worker' = "filter" /\ rest' = batch /\ valid' = <<>>))
  <2>1. /\ Sorted(accepted, applied)' /\ Old(accepted, Taken, applied)'
        /\ Upcoming(accepted, Taken, applied, batch)'
    BY <1>1, <1>2, <1>5 DEF Order, callerSide, dbVars
  <2>2. Order'
    <3>1. CASE Idle'
      BY <2>1, <3>1 DEF Order, Idle
    <3>2. CASE worker' = "filter" /\ rest' = batch /\ valid' = <<>>
      BY <1>1, <2>1, <3>2, UpcomingEmpty DEF Order, Idle
    <3>. QED  BY <1>5, <3>1, <3>2
  <2>3. \A r : Open(r)' => Open(r)
    BY <1>1, <1>5, InEmpty DEF Open, Idle
  <2>4. Truth'
    BY <1>1, <2>3, TruthKept DEF callerSide, callerVars, dbVars
  <2>5. Quits'
    BY <1>1, <1>5, InEmpty DEF Quits, Idle, callerSide, dbVars
  <2>. QED  BY <1>2, <2>2, <2>4, <2>5
<1>. QED  BY <1>3, <1>4, <1>5

-----------------------------------------------------------------------------
(* Steps of a flush *)

LEMMA EndingKeeps ==
    ASSUME IInv, FilterEnd \/ RetryEnd \/ (ReplyAll /\ rest = <<>>)
    PROVE  Arrivals' /\ Order' /\ Truth' /\ Quits'
<1>. Typed /\ Arrivals /\ Order /\ Truth /\ Quits
  BY DEF IInv
<1>1. UNCHANGED <<caller, returned, chan, ctx, accepted, quitters, applied, queue>>
  BY DEF FilterEnd, RetryEnd, ReplyAll, callerSide, callerVars, dbVars
<1>2. Arrivals' /\ Taken' = Taken
  BY <1>1, QuietArrivals
<1>3. \/ worker = "filter" /\ worker' = "call" /\ UNCHANGED <<rest, valid>>
      \/ worker' \in {"select", "drain", "stopped"} /\ batch' = <<>>
  <2>1. EndFlush => worker' \in {"select", "drain", "stopped"} /\ batch' = <<>>
    BY DEF EndFlush, Resume, Typed, TypeOK
  <2>. QED  BY <2>1 DEF FilterEnd, RetryEnd, ReplyAll
<1>4. Sorted(accepted, applied)' /\ Old(accepted, Taken, applied)'
  BY <1>1, <1>2 DEF Order
<1>5. Order'
  <2>1. CASE worker = "filter" /\ worker' = "call" /\ UNCHANGED <<rest, valid>>
    BY <1>1, <1>2, <1>4, <2>1 DEF Order, Idle
  <2>2. CASE worker' \in {"select", "drain", "stopped"} /\ batch' = <<>>
    BY <1>4, <2>2, UpcomingEmpty DEF Order, Idle
  <2>. QED  BY <1>3, <2>1, <2>2
<1>6. \A r : Open(r)' => Open(r)
  BY <1>1, <1>3, InEmpty DEF Open, Idle
<1>7. Truth'
  BY <1>1, <1>6, TruthKept
<1>8. Quits'
  BY <1>1, <1>3 DEF Quits
<1>. QED  BY <1>2, <1>5, <1>7, <1>8

\* The filter: a live job passes it, a cancelled one is told so and dropped.
LEMMA FilterKeeps ==
    ASSUME IInv, Filter
    PROVE  Arrivals' /\ Order' /\ Truth' /\ Quits'
<1>. Typed /\ Arrivals /\ Order /\ Truth /\ Quits
  BY DEF IInv
<1>0. rest # <<>> /\ rest \in Seq(Requests) /\ Head(rest) \in Requests
  BY InTail DEF Typed, TypeOK, Shape, Filter
<1>. PICK x \in Requests : x = Head(rest)
  BY <1>0
<1>1. /\ worker = "filter" /\ worker' = "filter" /\ rest # <<>> /\ rest' = Tail(rest)
      /\ UNCHANGED <<caller, returned, ctx, queue, applied, accepted, quitters>>
      /\ \/ Send(x, "cancelled") /\ valid' = valid
         \/ ctx[x] # "done" /\ valid' = Append(valid, x) /\ UNCHANGED <<chan, replies>>
  BY DEF Filter, callerVars, dbVars
<1>2. /\ rest \in Seq(Requests) /\ valid \in Seq(Requests) /\ applied \in Seq(Requests)
      /\ x \in Requests /\ \A r : In(r, rest) <=> r = x \/ In(r, Tail(rest))
  BY <1>0, <1>1, InTail DEF Typed, TypeOK
<1>3. /\ accepted \in Seq(Requests) /\ Distinct(accepted) /\ Taken \in Nat
      /\ \A r : In(r, accepted) => Pos(accepted, r) \in Nat
      /\ \A r : In(r, queue) => Pos(accepted, r) > Taken
  BY QueueFacts
<1>4. /\ Sorted(accepted, applied) /\ Old(accepted, Taken, applied)
      /\ Upcoming(accepted, Taken, applied, valid)
      /\ Upcoming(accepted, Taken, applied, rest)
      /\ Ahead(accepted, valid, rest)
  BY <1>1 DEF Order
<1>5. /\ Upcoming(accepted, Taken, applied, Tail(rest))
      /\ In(x, rest) /\ In(x, accepted) /\ Pos(accepted, x) <= Taken
      /\ ~In(x, applied) /\ ~In(x, Tail(rest))
      /\ \A r : In(r, Tail(rest)) => Pos(accepted, x) < Pos(accepted, r)
  BY <1>1, <1>2, <1>3, <1>4, UpcomingTail
<1>6. Ahead(accepted, valid, Tail(rest))
  BY <1>2, <1>4 DEF Ahead
<1>7. CASE Send(x, "cancelled") /\ valid' = valid
  <2>1. Arrivals' /\ Taken' = Taken
    BY <1>1, <1>2, <1>5, <1>7, SentArrivals
  <2>2. Order'
    BY <1>1, <1>4, <1>5, <1>6, <1>7, <2>1 DEF Order, Idle
  <2>3. \A r : Open(r)' => Open(r)
    BY <1>1, <1>2, <1>7 DEF Open, Idle
  <2>4. ~Open(x)'
    <3>1. ~In(x, queue)
      BY <1>3, <1>5
    <3>2. ~In(x, valid)
      BY <1>3, <1>4, <1>5 DEF Ahead
    <3>. QED  BY <1>1, <1>5, <1>7, <3>1, <3>2 DEF Open, Idle
  <2>5. Truth'
    BY <1>1, <1>2, <1>5, <1>7, <2>3, <2>4, TruthSent DEF Results
  <2>6. Quits'
    BY <1>1, <1>7 DEF Quits
  <2>. QED  BY <2>1, <2>2, <2>5, <2>6
<1>8. CASE ctx[x] # "done" /\ valid' = Append(valid, x) /\ UNCHANGED <<chan, replies>>
  <2>1. Arrivals' /\ Taken' = Taken
    BY <1>1, <1>8, QuietArrivals
  <2>2. \A r : In(r, valid') <=> In(r, valid) \/ r = x
    BY <1>2, <1>8, InAppend
  <2>3. Upcoming(accepted, Taken, applied, valid')
    <3>1. \A r : In(r, valid) \/ In(r, applied) => Pos(accepted, r) < Pos(accepted, x)
      BY <1>4, <1>5 DEF Upcoming, Ahead
    <3>. QED  BY <1>2, <1>3, <1>4, <1>5, <1>8, <3>1, UpcomingAppend
  <2>4. Ahead(accepted, valid', Tail(rest))
    BY <1>5, <1>6, <2>2 DEF Ahead
  <2>5. Order'
    BY <1>1, <1>4, <1>5, <2>1, <2>3, <2>4 DEF Order, Idle
  <2>6. \A r : Open(r)' => Open(r)
    BY <1>1, <1>2, <2>2 DEF Open, Idle
  <2>7. Truth'
    BY <1>1, <1>8, <2>6, TruthKept
  <2>8. Quits'
    BY <1>1, <1>8, <2>2 DEF Quits
  <2>. QED  BY <2>1, <2>5, <2>7, <2>8
<1>. QED  BY <1>1, <1>7, <1>8

\* The fast path: every job of a batch that took effect is told so.
LEMMA ReplyKeeps ==
    ASSUME IInv, ReplyAll, rest # <<>>
    PROVE  Arrivals' /\ Order' /\ Truth' /\ Quits'
<1>. Typed /\ Arrivals /\ Order /\ Truth /\ Quits
  BY DEF IInv
<1> DEFINE x == Head(rest)
<1>1. /\ worker = "reply" /\ worker' = "reply" /\ rest' = Tail(rest) /\ Send(x, "ok")
      /\ UNCHANGED <<caller, returned, ctx, queue, applied, accepted, quitters>>
  BY DEF ReplyAll, callerVars, dbVars
<1>2. x \in Requests /\ \A r : In(r, rest) <=> r = x \/ In(r, Tail(rest))
  BY InTail DEF Typed, TypeOK
<1>3. In(x, applied) /\ In(x, accepted)
  BY <1>1, <1>2 DEF Order, Old
<1>. HIDE DEF x
<1>4. Arrivals' /\ Taken' = Taken
  BY <1>1, <1>2, <1>3, SentArrivals
<1>5. Order'
  BY <1>1, <1>2, <1>4 DEF Order, Idle
<1>6. \A r : Open(r)' => Open(r)
  BY <1>1 DEF Open, Idle
<1>7. Truth'
  BY <1>1, <1>2, <1>3, <1>6, TruthSent DEF Results
<1>8. Quits'
  BY <1>1 DEF Quits
<1>. QED  BY <1>4, <1>5, <1>7, <1>8

\* The fallback looks at the context of its next job.
LEMMA RetryKeeps ==
    ASSUME IInv, RetryCheck
    PROVE  Arrivals' /\ Order' /\ Truth' /\ Quits'
<1>. Typed /\ Arrivals /\ Order /\ Truth /\ Quits
  BY DEF IInv
<1>0. rest # <<>> /\ rest \in Seq(Requests) /\ Head(rest) \in Requests
  BY InTail DEF Typed, TypeOK, Shape, RetryCheck
<1>. PICK x \in Requests : x = Head(rest)
  BY <1>0
<1>1. /\ worker = "retry" /\ rest # <<>>
      /\ UNCHANGED <<caller, returned, ctx, queue, applied, accepted, quitters>>
      /\ \/ Send(x, "cancelled") /\ rest' = Tail(rest) /\ worker' = "retry"
         \/ worker' = "single" /\ UNCHANGED <<rest, chan>>
  BY DEF RetryCheck, callerVars, dbVars
<1>2. /\ rest \in Seq(Requests) /\ applied \in Seq(Requests)
      /\ x \in Requests /\ \A r : In(r, rest) <=> r = x \/ In(r, Tail(rest))
  BY <1>0, <1>1, InTail DEF Typed, TypeOK
<1>3. /\ accepted \in Seq(Requests) /\ Distinct(accepted) /\ Taken \in Nat
      /\ \A r : In(r, accepted) => Pos(accepted, r) \in Nat
      /\ \A r : In(r, queue) => Pos(accepted, r) > Taken
  BY QueueFacts
<1>4. /\ Sorted(accepted, applied) /\ Old(accepted, Taken, applied)
      /\ Upcoming(accepted, Taken, applied, rest)
  BY <1>1 DEF Order
<1>5. /\ Upcoming(accepted, Taken, applied, Tail(rest))
      /\ In(x, accepted) /\ Pos(accepted, x) <= Taken
      /\ ~In(x, applied) /\ ~In(x, Tail(rest))
  BY <1>1, <1>2, <1>3, <1>4, UpcomingTail
<1>6. CASE Send(x, "cancelled") /\ rest' = Tail(rest) /\ worker' = "retry"
  <2>1. Arrivals' /\ Taken' = Taken
    BY <1>1, <1>2, <1>5, <1>6, SentArrivals
  <2>2. Order'
    BY <1>1, <1>4, <1>5, <1>6, <2>1 DEF Order, Idle
  <2>3. \A r : Open(r)' => Open(r)
    BY <1>1, <1>2, <1>6 DEF Open, Idle
  <2>4. ~Open(x)'
    <3>1. ~In(x, queue)
      BY <1>3, <1>5
    <3>. QED  BY <1>1, <1>5, <1>6, <3>1 DEF Open, Idle
  <2>5. Truth'
    BY <1>1, <1>2, <1>5, <1>6, <2>3, <2>4, TruthSent DEF Results
  <2>6. Quits'
    BY <1>1, <1>2, <1>6 DEF Quits
  <2>. QED  BY <2>1, <2>2, <2>5, <2>6
<1>7. CASE worker' = "single" /\ UNCHANGED <<rest, chan>>
  <2>1. Arrivals' /\ Taken' = Taken
    BY <1>1, <1>7, QuietArrivals
  <2>2. Order'
    BY <1>1, <1>4, <1>7, <2>1 DEF Order, Idle
  <2>3. \A r : Open(r)' => Open(r)
    BY <1>1, <1>7 DEF Open, Idle
  <2>4. Truth'
    BY <1>1, <1>7, <2>3, TruthKept
  <2>5. Quits'
    BY <1>1, <1>7 DEF Quits
  <2>. QED  BY <2>1, <2>2, <2>4, <2>5
<1>. QED  BY <1>1, <1>6, <1>7

\* The fallback sends its job the result the job itself had.
LEMMA AnswerKeeps ==
    ASSUME IInv, AnswerSingle
    PROVE  Arrivals' /\ Order' /\ Truth' /\ Quits'
<1>. Typed /\ Arrivals /\ Order /\ Truth /\ Quits
  BY DEF IInv
<1>0. rest # <<>> /\ rest \in Seq(Requests) /\ Head(rest) \in Requests
  BY InTail DEF Typed, TypeOK, Shape, AnswerSingle
<1>. PICK x \in Requests : x = Head(rest)
  BY <1>0
<1>1. /\ worker = "answer" /\ worker' = "retry" /\ rest' = Tail(rest) /\ Send(x, answer)
      /\ UNCHANGED <<caller, returned, ctx, queue, applied, accepted, quitters>>
  BY DEF AnswerSingle, callerVars, dbVars
<1>2. /\ rest # <<>> /\ rest \in Seq(Requests) /\ answer \in Results
      /\ x \in Requests /\ \A r : In(r, rest) <=> r = x \/ In(r, Tail(rest))
  BY <1>0, <1>1, InTail DEF Typed, TypeOK, Shape
<1>3. /\ accepted \in Seq(Requests) /\ Distinct(accepted) /\ Taken \in Nat
      /\ \A r : In(r, accepted) => Pos(accepted, r) \in Nat
      /\ \A r : In(r, queue) => Pos(accepted, r) > Taken
  BY QueueFacts
<1>4. /\ Sorted(accepted, applied) /\ Old(accepted, Taken, applied)
      /\ Sorted(accepted, rest) /\ Old(accepted, Taken, rest)
      /\ Ahead(accepted, applied, Tail(rest))
      /\ answer = "ok" => In(x, applied)
      /\ answer # "ok" => Ahead(accepted, applied, rest)
  BY <1>1 DEF Order
<1>5. /\ In(x, accepted) /\ Pos(accepted, x) <= Taken
      /\ \A r : In(r, Tail(rest)) => Pos(accepted, x) < Pos(accepted, r)
      /\ Sorted(accepted, Tail(rest))
  BY <1>2, <1>4, SortedTail DEF Old
<1>6. Upcoming(accepted, Taken, applied, Tail(rest))
  BY <1>2, <1>4, <1>5 DEF Upcoming, Old
<1>7. Arrivals' /\ Taken' = Taken
  BY <1>1, <1>2, <1>5, SentArrivals
<1>8. Order'
  BY <1>1, <1>4, <1>6, <1>7 DEF Order, Idle
<1>9. \A r : Open(r)' => Open(r)
  BY <1>1, <1>2 DEF Open, Idle
<1>10. answer # "ok" => ~In(x, applied) /\ ~Open(x)'
  <2>1. ~In(x, queue) /\ ~In(x, Tail(rest))
    BY <1>3, <1>5
  <2>2. answer # "ok" => ~In(x, applied)
    BY <1>2, <1>3, <1>4, <1>5 DEF Ahead
  <2>. QED  BY <1>1, <2>1, <2>2 DEF Open, Idle
<1>11. Truth'
  BY <1>1, <1>2, <1>4, <1>9, <1>10, TruthSent
<1>12. Quits'
  BY <1>1, <1>2 DEF Quits
<1>. QED  BY <1>7, <1>8, <1>11, <1>12

\* A batch takes effect whole or not at all, and the worker knows which.
LEMMA ExecuteBatchKeeps ==
    ASSUME "lostAck" \notin DbFaults, IInv, ExecuteBatch
    PROVE  Arrivals' /\ Order' /\ Truth' /\ Quits'
<1>. Typed /\ Arrivals /\ Order /\ Truth /\ Quits
  BY DEF IInv
<1>1. /\ worker = "call" /\ rest' = valid /\ Execute(valid)
      /\ worker' = IF answer' = "ok" THEN "reply" ELSE "retry"
      /\ UNCHANGED <<caller, returned, chan, ctx, queue, valid, accepted, quitters>>
  BY DEF ExecuteBatch, callerSide, callerVars
<1>2. /\ valid \in Seq(Requests) /\ applied \in Seq(Requests)
      /\ accepted \in Seq(Requests) /\ Taken \in Nat
  BY QueueFacts DEF Typed, TypeOK
<1>3. \/ answer' = "ok" /\ applied' = applied \o valid
      \/ answer' # "ok" /\ applied' = applied
  BY <1>1, <1>2, ExecuteType DEF Typed
<1>4. Arrivals' /\ Taken' = Taken
  BY <1>1, QuietArrivals
<1>5. /\ Sorted(accepted, applied) /\ Old(accepted, Taken, applied)
      /\ Upcoming(accepted, Taken, applied, valid)
  BY <1>1 DEF Order
<1>6. CASE answer' = "ok" /\ applied' = applied \o valid
  <2>1. \A r : In(r, applied') <=> In(r, applied) \/ In(r, valid)
    BY <1>2, <1>6, InConcat
  <2>2. Sorted(accepted, applied') /\ Old(accepted, Taken, applied')
    BY <1>2, <1>5, <1>6, UpcomingDone
  <2>3. worker' = "reply"
    BY <1>1, <1>6
  <2>4. Order'
    BY <1>1, <1>4, <2>1, <2>2, <2>3 DEF Order, Idle
  <2>5. \A r : In(r, valid) => Open(r)
    BY <1>1 DEF Open
  <2>6. \A r : Open(r)' => Open(r)
    BY <1>1, <2>3 DEF Open, Idle
  <2>7. Truth'
    BY <1>1, <2>1, <2>5, <2>6 DEF Truth, Told, Denied
  <2>8. Quits'
    BY <1>1, <2>1, <2>3 DEF Quits
  <2>. QED  BY <1>4, <2>4, <2>7, <2>8
<1>7. CASE answer' # "ok" /\ applied' = applied
  <2>1. worker' = "retry"
    BY <1>1, <1>7
  <2>2. Order'
    BY <1>1, <1>4, <1>5, <1>7, <2>1 DEF Order, Idle
  <2>3. \A r : Open(r)' => Open(r)
    BY <1>1, <2>1 DEF Open, Idle
  <2>4. Truth'
    BY <1>1, <1>7, <2>3, TruthKept
  <2>5. Quits'
    BY <1>1, <1>7, <2>1 DEF Quits
  <2>. QED  BY <1>4, <2>2, <2>4, <2>5
<1>. QED  BY <1>3, <1>6, <1>7

LEMMA ExecuteSingleKeeps ==
    ASSUME "lostAck" \notin DbFaults, IInv, ExecuteSingle
    PROVE  Arrivals' /\ Order' /\ Truth' /\ Quits'
<1>. Typed /\ Arrivals /\ Order /\ Truth /\ Quits
  BY DEF IInv
<1>1. /\ worker = "single" /\ worker' = "answer" /\ Execute(<<Head(rest)>>)
      /\ UNCHANGED <<caller, returned, chan, ctx, queue, rest, accepted, quitters>>
  BY DEF ExecuteSingle, callerSide, callerVars
<1>2. rest # <<>> /\ rest \in Seq(Requests) /\ Head(rest) \in Requests
  BY <1>1, InTail DEF Typed, TypeOK, Shape
<1>. PICK x \in Requests : x = Head(rest)
  BY <1>2
<1>3. /\ applied \in Seq(Requests) /\ accepted \in Seq(Requests)
      /\ Distinct(accepted) /\ Taken \in Nat
  BY QueueFacts DEF Typed, TypeOK
<1>4. /\ Sorted(accepted, applied) /\ Old(accepted, Taken, applied)
      /\ Upcoming(accepted, Taken, applied, rest)
  BY <1>1 DEF Order
<1>5. /\ In(x, rest) /\ In(x, accepted) /\ Pos(accepted, x) <= Taken
      /\ Ahead(accepted, applied \o <<x>>, Tail(rest))
      /\ Upcoming(accepted, Taken, applied, Tail(rest))
  BY <1>2, <1>3, <1>4, UpcomingTail
<1>6. <<x>> \in Seq(Requests) /\ \A r : In(r, <<x>>) <=> r = x
  BY DEF In
<1>7. \/ answer' = "ok" /\ applied' = applied \o <<x>>
      \/ answer' # "ok" /\ applied' = applied
  BY <1>1, <1>6, ExecuteType DEF Typed
<1>8. Arrivals' /\ Taken' = Taken
  BY <1>1, QuietArrivals
<1>9. \A r : Open(r)' <=> Open(r)
  BY <1>1 DEF Open, Idle
<1>10. CASE answer' = "ok" /\ applied' = applied \o <<x>>
  <2>1. \A r : In(r, applied') <=> In(r, applied) \/ r = x
    BY <1>3, <1>6, <1>10, InConcat
  <2>2. Upcoming(accepted, Taken, applied, <<x>>)
    <3>1. Sorted(accepted, <<x>>)
      BY DEF Sorted
    <3>. QED  BY <1>4, <1>5, <1>6, <3>1 DEF Upcoming, Old, Ahead
  <2>3. Sorted(accepted, applied') /\ Old(accepted, Taken, applied')
    BY <1>3, <1>4, <1>6, <1>10, <2>2, UpcomingDone
  <2>4. In(Head(rest'), applied')
    BY <1>1, <2>1
  <2>5. Order'
    BY <1>1, <1>4, <1>5, <1>8, <1>10, <2>3, <2>4 DEF Order, Idle, Upcoming
  <2>6. Open(x)
    BY <1>1, <1>5 DEF Open
  <2>7. Truth'
    BY <1>1, <1>9, <2>1, <2>6 DEF Truth, Told, Denied
  <2>8. Quits'
    BY <1>1, <1>5, <2>1 DEF Quits
  <2>. QED  BY <1>8, <2>5, <2>7, <2>8
<1>11. CASE answer' # "ok" /\ applied' = applied
  <2>1. Order'
    BY <1>1, <1>4, <1>5, <1>8, <1>11 DEF Order, Idle, Upcoming
  <2>2. Truth'
    BY <1>1, <1>9, <1>11, TruthKept
  <2>3. Quits'
    BY <1>1, <1>11 DEF Quits
  <2>. QED  BY <1>8, <2>1, <2>2, <2>3
<1>. QED  BY <1>7, <1>10, <1>11

\* Stop, the outside clients and stuttering touch none of this.
LEMMA AsideKeeps ==
    ASSUME IInv, Stop \/ OutsidePosting \/ UNCHANGED vars
    PROVE  Arrivals' /\ Order' /\ Truth' /\ Quits'
<1>. Typed /\ Arrivals /\ Order /\ Truth /\ Quits
  BY DEF IInv
<1>1. UNCHANGED <<callerVars, workerVars, ctx, chan, queue, applied, accepted, quitters>>
  BY DEF Stop, OutsidePosting, vars, dbVars
<1>2. Arrivals' /\ Taken' = Taken
  BY <1>1, QuietArrivals DEF callerVars
<1>3. Order'
  BY <1>1, <1>2, OrderKept DEF workerVars
<1>4. \A r : Open(r)' <=> Open(r)
  BY <1>1 DEF Open, Idle, workerVars
<1>5. Truth'
  BY <1>1, <1>4, TruthKept DEF callerVars
<1>6. Quits'
  BY <1>1 DEF Quits, workerVars
<1>. QED  BY <1>2, <1>3, <1>5, <1>6

-----------------------------------------------------------------------------
(* The theorems *)

LEMMA InitInv == Init => IInv
<1> SUFFICES ASSUME Init PROVE IInv
  OBVIOUS
<1>1. Typed
  BY StartTyped
<1>2. Len(<<>>) = 0
  OBVIOUS
<1>3. Taken = 0
  BY <1>2 DEF Init, Taken
<1>4. Arrivals
  BY <1>2, <1>3, InEmpty DEF Init, Arrivals
<1>5. Upcoming(accepted, Taken, applied, <<>>)
  BY UpcomingEmpty
<1>6. Order
  BY <1>2, <1>5, InEmpty DEF Init, Order, Idle, Sorted, Old
<1>7. Truth /\ Quits
  BY DEF Init, Truth, Quits, Told, Denied, Refusals
<1>. QED  BY <1>1, <1>4, <1>6, <1>7 DEF IInv

LEMMA StepInv ==
    ASSUME "lostAck" \notin DbFaults
    PROVE  IInv /\ [Next]_vars => IInv'
<1> SUFFICES ASSUME IInv, [Next]_vars PROVE IInv'
  OBVIOUS
<1>1. Typed'
  BY StepTyped DEF IInv
<1>2. Arrivals' /\ Order' /\ Truth' /\ Quits'
  <2>1. CASE \E r \in Requests : CallerStep(r) \/ CallerWakes(r) \/ Cancel(r)
    BY <2>1, ReturnKeeps, EnqueueKeeps, CancelKeeps DEF CallerStep, CallerWakes
  <2>2. CASE Work \/ TimerFires
    BY <2>2, TakeKeeps, LoopKeeps, EndingKeeps, FilterKeeps, ReplyKeeps, RetryKeeps,
       AnswerKeeps, ExecuteBatchKeeps, ExecuteSingleKeeps DEF Work
  <2>3. CASE Stop \/ OutsidePosting \/ UNCHANGED vars
    BY <2>3, AsideKeeps
  <2>. QED  BY <2>1, <2>2, <2>3 DEF Next
<1>. QED  BY <1>1, <1>2 DEF IInv

LEMMA Invariance ==
    ASSUME "lostAck" \notin DbFaults
    PROVE  Spec => []IInv
BY InitInv, StepInv, PTL DEF Spec

\* A transfer takes effect once if it is among the executed ones, else never.
LEMMA TimesIs ==
    ASSUME IInv
    PROVE  \A r : /\ In(r, applied) => Times(r) = 1
                  /\ ~In(r, applied) => Times(r) = 0
<1> SUFFICES ASSUME NEW r
             PROVE  /\ In(r, applied) => Times(r) = 1
                    /\ ~In(r, applied) => Times(r) = 0
  OBVIOUS
<1> DEFINE S == {i \in 1 .. Len(applied) : applied[i] = r}
<1>1. Times(r) = Cardinality(S)
  BY DEF Times
<1>2. CASE ~In(r, applied)
  <2>1. S = {}
    BY <1>2 DEF In
  <2>. QED  BY <1>1, <1>2, <2>1, FS_EmptySet
<1>3. CASE In(r, applied)
  <2>1. PICK i \in 1 .. Len(applied) : applied[i] = r
    BY <1>3 DEF In
  <2>2. In(r, accepted) /\ Pos(accepted, r) \in Nat
    BY <1>3, QueueFacts DEF IInv, Order, Old
  <2>3. ASSUME NEW j \in 1 .. Len(applied), applied[j] = r PROVE i = j
    <3>1. ~(i < j) /\ ~(j < i)
      BY <2>1, <2>2, <2>3 DEF IInv, Order, Sorted
    <3>2. Len(applied) \in Nat
      BY DEF IInv, Typed, TypeOK
    <3>. QED  BY <3>1, <3>2
  <2>4. S = {i}
    BY <2>1, <2>3
  <2>. QED  BY <1>1, <1>3, <2>4, FS_Singleton
<1>. QED  BY <1>2, <1>3

\* Transfers take effect in the order their requests entered the queue.
THEOREM FirstComeFirstServedHolds ==
    ASSUME "lostAck" \notin DbFaults
    PROVE  Spec => []FirstComeFirstServed
<1>1. IInv => FirstComeFirstServed
  BY DEF IInv, Order, Sorted, FirstComeFirstServed, Position, Pos
<1>. QED  BY <1>1, Invariance, PTL

\* The fallback after a failed batch executes nothing a second time.
THEOREM AtMostOnceHolds ==
    ASSUME "lostAck" \notin DbFaults
    PROVE  Spec => []AtMostOnce
<1>1. IInv => AtMostOnce
  BY TimesIs DEF AtMostOnce
<1>. QED  BY <1>1, Invariance, PTL

\* "ok" is told of transfers that took effect, an error of those that never do.
THEOREM RepliesTruthfulHolds ==
    ASSUME "lostAck" \notin DbFaults
    PROVE  Spec => []RepliesTruthful
<1>1. ASSUME IInv PROVE RepliesTruthful
  <2> SUFFICES ASSUME NEW r \in Requests
               PROVE  /\ Told(r, "ok") => Times(r) = 1
                      /\ \A result \in Refusals \cup {"error"} :
                           Told(r, result) => Times(r) = 0
                      /\ chan[r] = "cancelled" => Times(r) = 0
    BY DEF RepliesTruthful
  <2>1. (Told(r, "ok") => In(r, applied)) /\ (Denied(r) => ~In(r, applied))
    BY <1>1 DEF IInv, Truth
  <2>2. \A result \in Refusals \cup {"error"} : Told(r, result) => Denied(r)
    BY DEF Told, Denied, Refusals
  <2>3. chan[r] = "cancelled" => Denied(r)
    BY DEF Denied
  <2>. QED  BY <1>1, <2>1, <2>2, <2>3, TimesIs
<1>. QED  BY <1>1, Invariance, PTL

\* Whoever gives up before the batch is flushed is not charged.
THEOREM GaveUpInTimeHolds ==
    ASSUME "lostAck" \notin DbFaults
    PROVE  Spec => []GaveUpInTime
<1>1. IInv => GaveUpInTime
  BY TimesIs DEF IInv, Quits, GaveUpInTime
<1>. QED  BY <1>1, Invariance, PTL

-----------------------------------------------------------------------------
(* What the requests take from a wallet *)

\* Everyone lists all the requests.
LEMMA EveryoneListed ==
    ASSUME IsFiniteSet(Requests)
    PROVE  /\ Cardinality(Requests) \in Nat
           /\ Everyone \in [Places -> Requests]
           /\ \A r \in Requests : \E i \in Places : Everyone[i] = r
<1>1. Cardinality(Requests) \in Nat /\ ExistsBijection(Places, Requests)
  BY FS_CardinalityType DEF Places
<1>2. \E e \in [Places -> Requests] : \A r \in Requests : \E i \in Places : e[i] = r
  BY <1>1 DEF ExistsBijection, Bijection, Injection, Surjection
<1>. QED  BY <1>1, <1>2 DEF Everyone

LEMMA DebitType ==
    ASSUME NEW r \in Requests, NEW w
    PROVE  Debit(r, w) \in Nat
BY ConstantsAssumption DEF Debit, Malformed

\* All that the requests of D take from wallet w.
Share(D, w, i) == IF Everyone[i] \in D THEN Debit(Everyone[i], w) ELSE 0
Paid(D, w) == SumOf([i \in Places |-> Share(D, w, i)])

LEMMA SharesType ==
    ASSUME IsFiniteSet(Requests), NEW D, NEW w
    PROVE  /\ [i \in Places |-> Share(D, w, i)] \in Seq(Int)
           /\ Len([i \in Places |-> Share(D, w, i)]) = Cardinality(Requests)
           /\ \A i \in Places : Share(D, w, i) \in Nat
<1>1. \A i \in Places : Share(D, w, i) \in Nat
  BY EveryoneListed, DebitType DEF Share
<1>2. [i \in Places |-> Share(D, w, i)] \in [1 .. Cardinality(Requests) -> Int]
  BY <1>1 DEF Places
<1>. QED  BY <1>1, <1>2, EveryoneListed, ListOf

LEMMA PaidType ==
    ASSUME IsFiniteSet(Requests), NEW D, NEW w
    PROVE  Paid(D, w) \in Int
BY SharesType, SumType DEF Paid

\* A larger set takes more, at least what is taken by one it has in addition.
LEMMA PaidMore ==
    ASSUME IsFiniteSet(Requests), NEW D, NEW E, D \subseteq E,
           NEW r \in Requests, r \in E, r \notin D, NEW w
    PROVE  Paid(D, w) + Debit(r, w) <= Paid(E, w)
<1>1. PICK k \in Places : Everyone[k] = r
  BY EveryoneListed
<1>2. Debit(r, w) \in Nat
  BY DebitType
<1>3. \A i \in Places : Share(D, w, i) <= Share(E, w, i)
  BY EveryoneListed, DebitType DEF Share
<1>4. Share(D, w, k) + Debit(r, w) <= Share(E, w, k)
  BY <1>1, <1>2 DEF Share
<1>5. PICK u \in Seq(Int) : u = [i \in Places |-> Share(D, w, i)]
  BY SharesType
<1>6. PICK v \in Seq(Int) : v = [i \in Places |-> Share(E, w, i)]
  BY SharesType
<1>7. Len(u) = Cardinality(Requests) /\ Len(v) = Cardinality(Requests)
  BY <1>5, <1>6, SharesType
<1>8. k \in 1 .. Len(u) /\ 1 .. Len(u) = Places
  BY <1>7 DEF Places
<1>9. /\ \A i \in 1 .. Len(u) : u[i] <= v[i]
      /\ u[k] + Debit(r, w) <= v[k]
  BY <1>3, <1>4, <1>5, <1>6, <1>8
<1>10. SumOf(u) + Debit(r, w) <= SumOf(v)
  <2>1. PICK d \in Nat : d = Debit(r, w)
    BY <1>2
  <2>2. Len(u) = Len(v) /\ k \in 1 .. Len(u) /\ u[k] + d <= v[k]
    BY <1>7, <1>8, <1>9, <2>1
  <2>3. SumOf(u) + d <= SumOf(v)
    BY <1>9, <2>2, SumMore
  <2>. QED  BY <2>1, <2>3
<1>. QED  BY <1>5, <1>6, <1>10 DEF Paid

LEMMA PaidOfNone ==
    ASSUME IsFiniteSet(Requests), NEW w
    PROVE  Paid({}, w) = 0
<1>1. \A i \in Places : Share({}, w, i) = 0
  BY DEF Share
<1>2. PICK v \in Seq(Int) : v = [i \in Places |-> Share({}, w, i)]
  BY SharesType
<1>3. \A i \in 1 .. Len(v) : v[i] = 0
  BY <1>1, <1>2, SharesType DEF Places
<1>4. PICK k \in Int : k = 0
  OBVIOUS
<1>5. SumOf(v) = IF k \in 1 .. Len(v) THEN v[k] ELSE 0
  BY <1>3, SumAlone
<1>6. Len(v) \in Nat
  OBVIOUS
<1>. QED  BY <1>2, <1>4, <1>5, <1>6 DEF Paid

LEMMA SpentIsAll ==
    ASSUME IsFiniteSet(Requests), NEW w
    PROVE  Spent(w) = Paid(Requests, w)
<1>1. \A i \in Places : Share(Requests, w, i) = Debit(Everyone[i], w)
  BY EveryoneListed DEF Share
<1>2. [i \in Places |-> Share(Requests, w, i)] = [i \in Places |-> Debit(Everyone[i], w)]
  BY <1>1
<1>. QED  BY <1>2 DEF Spent, Paid

\* A transfer takes from a wallet what its request may take at the most.
LEMMA MoveCosts ==
    ASSUME NEW bal \in [Wallets -> Int], NEW r \in Requests, NEW w \in Wallets,
           ~Malformed(TransferOf[r]), TransferOf[r].from \in Wallets,
           TransferOf[r].to \in Wallets
    PROVE  Move(bal, TransferOf[r])[w] + Debit(r, w) >= bal[w]
<1>1. PICK j \in [from : Int, to : Int, amount : Int] : j = TransferOf[r]
  BY ConstantsAssumption
<1>2. j.amount \in Nat /\ j.from # j.to /\ j.from \in Wallets /\ j.to \in Wallets
  BY <1>1 DEF Malformed
<1>3. Debit(r, w) = IF j.from = w THEN j.amount ELSE 0
  BY <1>1 DEF Debit
<1>4. /\ Move(bal, j)[j.from] = bal[j.from] - j.amount
      /\ Move(bal, j)[j.to] = bal[j.to] + j.amount
      /\ \A x \in Wallets \ {j.from, j.to} : Move(bal, j)[x] = bal[x]
  BY <1>2, MoveAt
<1>5. PICK b \in Int, a \in Nat : b = bal[w] /\ a = j.amount
  BY <1>2
<1>6. CASE w = j.from
  <2>1. Move(bal, j)[w] = b - a /\ Debit(r, w) = a
    BY <1>3, <1>4, <1>5, <1>6
  <2>. QED  BY <1>1, <1>5, <2>1
<1>7. CASE w = j.to
  <2>1. Move(bal, j)[w] = b + a /\ Debit(r, w) = 0
    BY <1>2, <1>3, <1>4, <1>5, <1>7
  <2>. QED  BY <1>1, <1>5, <2>1
<1>8. CASE w \notin {j.from, j.to}
  <2>1. Move(bal, j)[w] = b /\ Debit(r, w) = 0
    BY <1>3, <1>4, <1>5, <1>8
  <2>. QED  BY <1>1, <1>5, <2>1
<1>. QED  BY <1>6, <1>7, <1>8

-----------------------------------------------------------------------------
(* Nobody is refused for the sake of somebody else *)

Executed == {r \in Requests : In(r, applied)}

\* Malformed requests stay outside the queue.
WellFormed == \A r : In(r, accepted) => ~Malformed(TransferOf[r])

\* A wallet has lost no more than what was executed, and others, took from it.
Funds == \A w \in Wallets : balance[w] + Paid(Executed, w) + outside >= Opening[w]

\* No innocent request has been refused, nor is it about to be.
Spared ==
    \A r \in Requests : Innocent(r) =>
        /\ chan[r] \notin Refusals
        /\ returned[r] \notin Refusals
        /\ worker = "answer" /\ Head(rest) = r => answer \notin Refusals

FInv == IInv /\ WellFormed /\ Funds /\ Spared

\* Well-formed jobs, each of them once and none a second time.
Fresh(jobs) ==
    /\ jobs \in Seq(Requests)
    /\ \A i \in 1 .. Len(jobs) : ~Malformed(TransferOf[jobs[i]]) /\ ~In(jobs[i], applied)
    /\ \A i, j \in 1 .. Len(jobs) : i < j => jobs[i] # jobs[j]

LEMMA UpcomingFresh ==
    ASSUME IInv, WellFormed, NEW jobs \in Seq(Requests),
           Upcoming(accepted, Taken, applied, jobs)
    PROVE  Fresh(jobs)
<1>1. \A r : In(r, accepted) => Pos(accepted, r) \in Nat
  BY QueueFacts DEF IInv
<1>2. \A i \in 1 .. Len(jobs) : In(jobs[i], jobs) /\ In(jobs[i], accepted)
  BY DEF Upcoming, Old, In
<1>3. \A i \in 1 .. Len(jobs) : ~In(jobs[i], applied)
  BY <1>1, <1>2 DEF Upcoming, Ahead
<1>4. \A i, j \in 1 .. Len(jobs) : i < j => jobs[i] # jobs[j]
  BY <1>1, <1>2 DEF Upcoming, Sorted
<1>. QED  BY <1>2, <1>3, <1>4 DEF Fresh, WellFormed

\* The balances after n jobs, if all of them pass.
LEMMA TransfersCost ==
    ASSUME IsFiniteSet(Requests), TypeOK, Funds, NEW jobs, Fresh(jobs),
           \A n \in 1 .. Len(jobs) :
             StepVerdict(Wallets, balance, Transfers(jobs), MaxBalance, n) = "ok",
           NEW w \in Wallets
    PROVE  LET done == Executed \cup {jobs[i] : i \in 1 .. Len(jobs)}
           IN  Trail(balance, Transfers(jobs))[Len(jobs)][w] + Paid(done, w) + outside
                 >= Opening[w]
<1> DEFINE N == Len(jobs)
           T == Transfers(jobs)
           after == Trail(balance, T)
           D(n) == Executed \cup {jobs[i] : i \in 1 .. n}
           S == {n \in 0 .. N : after[n][w] + Paid(D(n), w) + outside >= Opening[w]}
<1>1. /\ N \in Nat /\ Len(T) = N
      /\ \A n \in 1 .. N : T[n] = TransferOf[jobs[n]] /\ jobs[n] \in Requests
  BY DEF Transfers, Fresh
<1>2. \A n \in 1 .. N : T[n].amount \in Int
  BY <1>1, ConstantsAssumption
<1>3. /\ balance \in [Wallets -> Int] /\ outside \in Nat /\ Opening[w] \in Int
      /\ MaxBalance \in Nat
  BY ConstantsAssumption DEF TypeOK
<1>4. /\ after \in [0 .. N -> [Wallets -> Int]] /\ after[0] = balance
      /\ \A n \in 1 .. N : after[n] = Move(after[n - 1], T[n])
  <2>1. Len(T) \in Nat /\ \A n \in 1 .. Len(T) : T[n].amount \in Int
    BY <1>1, <1>2
  <2>. HIDE DEF T
  <2>2. /\ after \in [0 .. Len(T) -> [Wallets -> Int]] /\ after[0] = balance
        /\ \A n \in 1 .. Len(T) : after[n] = Move(after[n - 1], T[n])
    BY <1>3, <2>1, TrailSteps
  <2>. HIDE DEF after, N
  <2>. QED  BY <1>1, <2>2
<1>5. \A n \in 1 .. N : StepVerdict(Wallets, balance, T, MaxBalance, n) = "ok"
  OBVIOUS
<1>6. \A n \in 1 .. N : T[n].from \in Wallets /\ T[n].to \in Wallets
  BY <1>5 DEF StepVerdict, Verdict
<1>7. \A n : Paid(D(n), w) \in Int
  BY PaidType
<1>. HIDE DEF after, T
<1>8. 0 \in S
  <2>1. D(0) = Executed
    OBVIOUS
  <2>2. after[0][w] + Paid(D(0), w) + outside >= Opening[w]
    BY <1>4, <2>1 DEF Funds
  <2>3. 0 \in 0 .. N
    BY <1>1
  <2>. HIDE DEF D
  <2>. QED  BY <2>2, <2>3
<1>9. ASSUME NEW n \in 0 .. N - 1, n \in S PROVE n + 1 \in S
  <2>1. /\ n \in 0 .. N /\ n + 1 \in 1 .. N /\ n + 1 \in 0 .. N /\ (n + 1) - 1 = n
    BY <1>1
  <2>2. PICK r \in Requests : r = jobs[n + 1] /\ T[n + 1] = TransferOf[r]
    BY <1>1, <2>1
  <2>3. PICK bal \in [Wallets -> Int] : bal = after[n]
    BY <1>4, <2>1
  <2>4. after[n + 1] = Move(bal, TransferOf[r])
    BY <1>4, <2>1, <2>2, <2>3
  <2>5. ~Malformed(TransferOf[r]) /\ TransferOf[r].from \in Wallets /\ TransferOf[r].to \in Wallets
    BY <1>6, <2>1, <2>2 DEF Fresh
  <2>6. Move(bal, TransferOf[r])[w] + Debit(r, w) >= bal[w]
    BY <2>5, MoveCosts
  <2>7. Paid(D(n), w) + Debit(r, w) <= Paid(D(n + 1), w)
    <3>1. D(n) \subseteq D(n + 1) /\ r \in D(n + 1)
      BY <2>1, <2>2
    <3>2. r \notin Executed
      BY <2>1, <2>2 DEF Fresh, Executed
    <3>3. \A i \in 1 .. n : jobs[i] # r
      BY <2>1, <2>2 DEF Fresh
    <3>4. r \notin D(n)
      BY <3>2, <3>3
    <3>. HIDE DEF D
    <3>. QED  BY <3>1, <3>4, PaidMore
  <2>8. PICK b \in Int, c \in Int, d \in Int, p \in Int, q \in Int :
          /\ b = bal[w] /\ c = Move(bal, TransferOf[r])[w] /\ d = Debit(r, w)
          /\ p = Paid(D(n), w) /\ q = Paid(D(n + 1), w)
    <3>1. bal[w] \in Int /\ Debit(r, w) \in Int
      BY DebitType
    <3>2. after[n + 1][w] \in Int
      BY <1>4, <2>1
    <3>. HIDE DEF D
    <3>. QED  BY <1>7, <2>4, <3>1, <3>2
  <2>9. b + p + outside >= Opening[w]
    BY <1>9, <2>3, <2>8
  <2>10. c + q + outside >= Opening[w]
    <3>1. c + d >= b /\ p + d <= q
      BY <2>6, <2>7, <2>8
    <3>. QED  BY <1>3, <2>9, <3>1
  <2>. QED  BY <2>1, <2>4, <2>8, <2>10
<1>10. N \in S
  <2>1. N \in 0 .. N
    BY <1>1
  <2>. HIDE DEF S, N
  <2>. QED  BY <1>1, <1>8, <1>9, <2>1, Induction
<1>. QED  BY <1>10 DEF after, T

\* Execution takes from a wallet only what the jobs ask of it.
LEMMA ExecuteFunds ==
    ASSUME IsFiniteSet(Requests), TypeOK, Funds, NEW jobs, Fresh(jobs), Execute(jobs),
           UNCHANGED outside
    PROVE  Funds'
<1> DEFINE T == Transfers(jobs)
           verdict == BatchVerdict(Wallets, balance, T, MaxBalance)
<1>1. Len(jobs) \in Nat /\ Len(T) = Len(jobs) /\ jobs \in Seq(Requests) /\ applied \in Seq(Requests)
  BY DEF Transfers, Fresh, TypeOK
<1>2. verdict = "ok" => \A n \in 1 .. Len(jobs) :
        StepVerdict(Wallets, balance, T, MaxBalance, n) = "ok"
  <2>. HIDE DEF T
  <2>. QED  BY <1>1, BatchVerdictSteps
<1>3. CASE verdict = "ok" /\ balance' = Trail(balance, T)[Len(T)] /\ applied' = applied \o jobs
  <2>1. Executed' = Executed \cup {jobs[i] : i \in 1 .. Len(jobs)}
    <3>1. \A r : In(r, applied') <=> In(r, applied) \/ In(r, jobs)
      BY <1>1, <1>3, InConcat
    <3>2. \A i \in 1 .. Len(jobs) : jobs[i] \in Requests
      BY <1>1
    <3>. QED  BY <3>1, <3>2 DEF Executed, In
  <2>2. ASSUME NEW w \in Wallets
        PROVE  balance'[w] + Paid(Executed', w) + outside' >= Opening[w]
    BY <1>1, <1>2, <1>3, <2>1, TransfersCost
  <2>. QED  BY <2>2 DEF Funds, Paid, Share
<1>4. CASE UNCHANGED dbVars
  BY <1>4 DEF Funds, dbVars, Executed, Paid, Share
<1>. QED  BY <1>3, <1>4 DEF Execute

\* Executed on its own, an innocent transfer is not refused.
LEMMA SinglePasses ==
    ASSUME IsFiniteSet(Requests), TypeOK, Funds, NEW r \in Requests, Innocent(r),
           ~In(r, applied), Execute(<<r>>)
    PROVE  answer' \notin Refusals
<1>1. PICK j \in [from : Int, to : Int, amount : Int] : j = TransferOf[r]
  BY ConstantsAssumption
<1>2. PICK T : T = Transfers(<<r>>)
  OBVIOUS
<1>3. Len(T) = 1 /\ T[1] = j
  BY <1>1, <1>2 DEF Transfers
<1>4. j.amount > 0 /\ j.from # j.to /\ {j.from, j.to} \subseteq Wallets
  BY <1>1 DEF Innocent, Malformed
<1>5. balance[j.from] >= j.amount
  <2>1. Paid(Executed, j.from) + Debit(r, j.from) <= Spent(j.from)
    <3>1. r \notin Executed /\ Executed \subseteq Requests
      BY DEF Executed
    <3>. QED  BY <3>1, PaidMore, SpentIsAll
  <2>2. Debit(r, j.from) = j.amount
    BY <1>1 DEF Debit, Innocent
  <2>3. PICK p \in Int, s \in Int : p = Paid(Executed, j.from) /\ s = Spent(j.from)
    BY PaidType, SpentIsAll
  <2>4. Opening[j.from] >= s + MaxOutside
    BY <1>1, <2>3 DEF Innocent
  <2>5. balance[j.from] + p + outside >= Opening[j.from]
    BY <1>4, <2>3 DEF Funds
  <2>6. /\ balance[j.from] \in Int /\ Opening[j.from] \in Int
        /\ outside \in Int /\ MaxOutside \in Int /\ outside <= MaxOutside
    BY <1>4, ConstantsAssumption DEF TypeOK
  <2>. QED  BY <2>1, <2>2, <2>3, <2>4, <2>5, <2>6
<1>6. Trail(balance, T)[0] = balance
  <2>1. balance \in [Wallets -> Int] /\ \A n \in 1 .. Len(T) : T[n].amount \in Int
    BY <1>3, ConstantsAssumption DEF TypeOK
  <2>. QED  BY <1>3, <2>1, TrailSteps
<1>7. StepVerdict(Wallets, balance, T, MaxBalance, 1) \in {"ok", "error"}
  <2>1. Verdict(Wallets, balance, j) = "ok"
    BY <1>4, <1>5, ConstantsAssumption DEF Verdict, TypeOK
  <2>. QED  BY <1>3, <1>6, <2>1 DEF StepVerdict
<1>8. BatchVerdict(Wallets, balance, T, MaxBalance) \in {"ok", "error"}
  <2>1. PICK v : v = BatchVerdict(Wallets, balance, T, MaxBalance)
    OBVIOUS
  <2>2. v # "ok" => \E n \in 1 .. Len(T) : StepVerdict(Wallets, balance, T, MaxBalance, n) = v
    <3>1. Len(T) \in Nat
      BY <1>3
    <3>2. \/ v = "ok"
          \/ \E n \in 1 .. Len(T) : StepVerdict(Wallets, balance, T, MaxBalance, n) = v
      BY <2>1, <3>1, BatchVerdictSteps
    <3>. QED  BY <3>2
  <2>. QED  BY <1>3, <1>7, <2>1, <2>2
<1>. QED  BY <1>2, <1>8 DEF Execute, Refusals

\* Steps that tell nobody anything and move no money.
Quiet ==
    /\ UNCHANGED <<chan, returned, accepted, dbVars, outside>>
    /\ worker' # "answer" \/ UNCHANGED <<worker, rest, answer>>

LEMMA QuietSpares ==
    ASSUME FInv, Quiet
    PROVE  WellFormed' /\ Funds' /\ Spared'
<1>1. WellFormed' /\ Funds'
  BY DEF FInv, Quiet, WellFormed, Funds, Executed, Paid, Share, dbVars
<1>2. Spared'
  BY DEF FInv, Quiet, Spared
<1>. QED  BY <1>1, <1>2

LEMMA LoopQuiet ==
    ASSUME FInv,
           \/ Start \/ Receive \/ Tick \/ SeeStop \/ DrainJob \/ DrainEnd \/ FilterEnd
           \/ RetryEnd \/ TimerFires \/ Stop \/ UNCHANGED vars
           \/ \E r \in Requests : Cancel(r)
    PROVE  Quiet
<1>1. CASE Start \/ Receive \/ Tick \/ SeeStop \/ DrainJob \/ DrainEnd
  BY <1>1 DEF Start, Receive, Tick, SeeStop, DrainJob, DrainEnd, Quiet, Flush, callerSide,
     callerVars
<1>2. CASE FilterEnd \/ RetryEnd
  <2>1. Resume # "answer"
    BY DEF FInv, IInv, Typed, TypeOK, Resume
  <2>. QED  BY <1>2, <2>1 DEF FilterEnd, RetryEnd, EndFlush, Quiet, callerSide, callerVars
<1>3. CASE TimerFires \/ Stop \/ UNCHANGED vars \/ \E r \in Requests : Cancel(r)
  BY <1>3 DEF TimerFires, Stop, Cancel, vars, Quiet, callerSide, callerVars, workerVars
<1>. QED  BY <1>1, <1>2, <1>3

\* What a caller does leaves the funds alone; only a malformed request, or one
\* that was refused, returns a refusal.
LEMMA CallerSpares ==
    ASSUME FInv, NEW x \in Requests, CallerStep(x) \/ CallerWakes(x)
    PROVE  WellFormed' /\ Funds' /\ Spared'
<1>1. /\ UNCHANGED <<workerVars, dbVars, outside>>
      /\ chan \in [Requests -> Results \cup {"empty"}]
      /\ returned \in [Requests -> Results \cup {"none", "queuefull"}]
      /\ accepted \in Seq(Requests)
  BY DEF FInv, IInv, Typed, TypeOK, CallerStep, CallerWakes, RejectMalformed, Enqueue,
     RejectFull, ReturnResult, ReturnCancelled
<1>2. Funds'
  BY <1>1 DEF FInv, Funds, Executed, Paid, Share, dbVars
<1>3. WellFormed'
  <2>1. CASE accepted' = accepted
    BY <2>1 DEF FInv, WellFormed
  <2>2. CASE Enqueue(x)
    <3>1. \A r : In(r, accepted') <=> In(r, accepted) \/ r = x
      BY <1>1, <2>2, InAppend DEF Enqueue
    <3>. QED  BY <2>2, <3>1 DEF FInv, WellFormed, Enqueue
  <2>. QED  BY <2>1, <2>2 DEF CallerStep, CallerWakes, RejectMalformed, RejectFull,
            ReturnResult, ReturnCancelled
<1>4. ASSUME NEW r \in Requests, Innocent(r)
      PROVE  chan'[r] \notin Refusals /\ returned'[r] \notin Refusals
  <2>1. chan[r] \notin Refusals /\ returned[r] \notin Refusals /\ ~Malformed(TransferOf[r])
    BY <1>4 DEF FInv, Spared, Innocent
  <2>2. CASE RejectMalformed(x) \/ RejectFull(x) \/ ReturnCancelled(x) \/ Enqueue(x)
    <3>1. chan' = chan
      BY <2>2 DEF RejectMalformed, RejectFull, ReturnCancelled, Enqueue
    <3>2. \/ returned' = returned
          \/ returned' = [returned EXCEPT ![x] = "invalid"] /\ Malformed(TransferOf[x])
          \/ returned' = [returned EXCEPT ![x] = "queuefull"]
          \/ returned' = [returned EXCEPT ![x] = "cancelled"]
      BY <2>2 DEF RejectMalformed, RejectFull, ReturnCancelled, Enqueue, Return
    <3>. QED  BY <1>1, <2>1, <3>1, <3>2 DEF Refusals
  <2>3. CASE ReturnResult(x)
    <3>1. /\ chan' = [chan EXCEPT ![x] = "empty"]
          /\ returned' = [returned EXCEPT ![x] = chan[x]]
      BY <2>3 DEF ReturnResult, Return
    <3>. QED  BY <1>1, <2>1, <3>1 DEF Refusals
  <2>. QED  BY <2>2, <2>3 DEF CallerStep, CallerWakes
<1>5. Spared'
  <2>1. \A r \in Requests : Innocent(r)' <=> Innocent(r)
    BY DEF Innocent, Spent, Debit
  <2>2. UNCHANGED <<worker, rest, answer>>
    BY <1>1 DEF workerVars
  <2>. QED  BY <1>4, <2>1, <2>2 DEF FInv, Spared
<1>. QED  BY <1>2, <1>3, <1>5

\* Sending a result refuses an innocent request only if the result is a refusal.
LEMMA SendSpares ==
    ASSUME FInv, NEW x \in Requests, NEW result, Send(x, result),
           Innocent(x) => result \notin Refusals,
           UNCHANGED <<returned, accepted, dbVars, outside>>,
           worker' # "answer"
    PROVE  WellFormed' /\ Funds' /\ Spared'
<1>1. WellFormed' /\ Funds'
  BY DEF FInv, WellFormed, Funds, Executed, Paid, Share, dbVars
<1>2. \A r \in Requests : chan'[r] = IF r = x THEN result ELSE chan[r]
  BY DEF FInv, IInv, Typed, TypeOK, Send
<1>3. Spared'
  BY <1>2 DEF FInv, Spared
<1>. QED  BY <1>1, <1>3

LEMMA AnsweringSpares ==
    ASSUME FInv, Filter \/ ReplyAll \/ RetryCheck \/ AnswerSingle
    PROVE  WellFormed' /\ Funds' /\ Spared'
<1>1. /\ UNCHANGED <<returned, accepted, dbVars, outside>>
      /\ worker' # "answer"
  <2>1. Resume # "answer"
    BY DEF FInv, IInv, Typed, TypeOK, Resume
  <2>. QED  BY <2>1 DEF Filter, ReplyAll, RetryCheck, AnswerSingle, EndFlush, callerVars
<1>2. CASE UNCHANGED chan
  BY <1>1, <1>2, QuietSpares DEF Quiet
<1>3. CASE ~UNCHANGED chan
  <2>1. rest # <<>> /\ rest \in Seq(Requests)
    BY <1>3 DEF FInv, IInv, Typed, TypeOK, Shape, Filter, ReplyAll, RetryCheck, AnswerSingle
  <2>2. PICK x \in Requests : x = Head(rest)
    BY <2>1
  <2>3. PICK result : /\ Send(x, result)
                      /\ \/ result \in {"ok", "cancelled"}
                         \/ worker = "answer" /\ result = answer
    BY <1>3, <2>2 DEF Filter, ReplyAll, RetryCheck, AnswerSingle
  <2>4. Innocent(x) => result \notin Refusals
    BY <2>2, <2>3 DEF FInv, Spared, Refusals
  <2>. QED  BY <1>1, <2>3, <2>4, SendSpares
<1>. QED  BY <1>2, <1>3

LEMMA ExecutingSpares ==
    ASSUME IsFiniteSet(Requests), FInv, ExecuteBatch \/ ExecuteSingle
    PROVE  WellFormed' /\ Funds' /\ Spared'
<1>0. IInv /\ WellFormed /\ Funds /\ Spared /\ TypeOK
  BY DEF FInv, IInv, Typed
<1>1. UNCHANGED <<chan, returned, accepted, outside>>
  BY DEF ExecuteBatch, ExecuteSingle, callerSide, callerVars
<1>2. WellFormed'
  BY <1>0, <1>1 DEF WellFormed
<1>3. CASE ExecuteBatch
  <2>1. worker = "call" /\ Execute(valid) /\ worker' # "answer" /\ valid \in Seq(Requests)
    BY <1>0, <1>3 DEF ExecuteBatch, TypeOK
  <2>2. Upcoming(accepted, Taken, applied, valid)
    BY <1>0, <2>1 DEF IInv, Order
  <2>3. Fresh(valid)
    BY <1>0, <2>1, <2>2, UpcomingFresh
  <2>4. Funds'
    BY <1>0, <1>1, <2>1, <2>3, ExecuteFunds
  <2>5. Spared'
    BY <1>0, <1>1, <2>1 DEF Spared
  <2>. QED  BY <1>2, <2>4, <2>5
<1>4. CASE ExecuteSingle
  <2>1. /\ worker = "single" /\ Execute(<<Head(rest)>>) /\ rest' = rest
        /\ rest \in Seq(Requests) /\ rest # <<>>
    BY <1>0, <1>4 DEF ExecuteSingle, TypeOK, IInv, Typed, Shape
  <2>2. Fresh(rest)
    BY <1>0, <2>1, UpcomingFresh DEF IInv, Order
  <2>3. PICK x \in Requests : x = Head(rest) /\ x = rest[1] /\ 1 \in 1 .. Len(rest)
    BY <2>1
  <2>4. ~Malformed(TransferOf[x]) /\ ~In(x, applied)
    BY <2>2, <2>3 DEF Fresh
  <2>5. Fresh(<<x>>)
    BY <2>4 DEF Fresh
  <2>6. Funds'
    BY <1>0, <1>1, <2>1, <2>3, <2>5, ExecuteFunds
  <2>7. Innocent(x) => answer' \notin Refusals
    BY <1>0, <2>1, <2>3, <2>4, SinglePasses
  <2>8. Spared'
    BY <1>0, <1>1, <2>1, <2>3, <2>7 DEF Spared
  <2>. QED  BY <1>2, <2>6, <2>8
<1>. QED  BY <1>3, <1>4

\* Every posting by others counts.
LEMMA OutsideSpares ==
    ASSUME IsFiniteSet(Requests), FInv, OutsidePosting
    PROVE  WellFormed' /\ Funds' /\ Spared'
<1>1. /\ UNCHANGED <<chan, returned, accepted, applied, worker, rest, answer>>
      /\ outside' = outside + 1
  BY DEF OutsidePosting, callerVars, workerVars
<1>2. WellFormed' /\ Spared'
  BY <1>1 DEF FInv, WellFormed, Spared
<1>3. PICK v \in Wallets, d \in {-1, 1} : balance' = [balance EXCEPT ![v] = @ + d]
  BY DEF OutsidePosting
<1>4. ASSUME NEW w \in Wallets
      PROVE  balance'[w] + Paid(Executed, w) + outside' >= Opening[w]
  <2>1. balance[w] + Paid(Executed, w) + outside >= Opening[w]
    BY DEF FInv, Funds
  <2>2. PICK b \in Int, p \in Int : b = balance[w] /\ p = Paid(Executed, w)
    BY PaidType DEF FInv, IInv, Typed, TypeOK
  <2>3. balance'[w] \in {b, b - 1, b + 1}
    BY <1>3, <2>2 DEF FInv, IInv, Typed, TypeOK
  <2>4. outside \in Int /\ Opening[w] \in Int
    BY ConstantsAssumption DEF FInv, IInv, Typed, TypeOK
  <2>. QED  BY <1>1, <2>1, <2>2, <2>3, <2>4
<1>5. Funds'
  BY <1>1, <1>4 DEF Funds, Executed, Paid, Share
<1>. QED  BY <1>2, <1>5

\* Its funds cannot be gone when an innocent transfer is executed on its own, and
\* what the whole batch was refused for is told to nobody.
THEOREM InnocentNeverRefusedHolds ==
    ASSUME IsFiniteSet(Requests), "lostAck" \notin DbFaults
    PROVE  Spec => []InnocentNeverRefused
<1>1. Init => FInv
  <2> SUFFICES ASSUME Init PROVE FInv
    OBVIOUS
  <2>1. IInv
    BY InitInv
  <2>2. WellFormed /\ Spared
    BY InEmpty DEF Init, WellFormed, Spared, Refusals
  <2>3. ASSUME NEW w \in Wallets
        PROVE  balance[w] + Paid(Executed, w) + outside >= Opening[w]
    <3>1. Opening[w] \in Int /\ balance[w] = Opening[w] /\ outside = 0
      BY ConstantsAssumption DEF Init
    <3>2. Executed = {}
      BY InEmpty DEF Init, Executed
    <3>3. Paid({}, w) = 0
      BY PaidOfNone
    <3>. QED  BY <3>1, <3>2, <3>3
  <2>. QED  BY <2>1, <2>2, <2>3 DEF FInv, Funds
<1>2. FInv /\ [Next]_vars => FInv'
  <2> SUFFICES ASSUME FInv, [Next]_vars PROVE FInv'
    OBVIOUS
  <2>1. IInv'
    BY StepInv DEF FInv
  <2>2. WellFormed' /\ Funds' /\ Spared'
    BY QuietSpares, LoopQuiet, CallerSpares, AnsweringSpares, ExecutingSpares, OutsideSpares
    DEF Next, Work
  <2>. QED  BY <2>1, <2>2 DEF FInv
<1>3. FInv => InnocentNeverRefused
  BY DEF FInv, Spared, InnocentNeverRefused, Told
<1>. QED  BY <1>1, <1>2, <1>3, PTL DEF Spec
=============================================================================
