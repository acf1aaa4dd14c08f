--------------------------- MODULE ReceiptProofs ----------------------------
(***************************************************************************)
(* What the receipt of a transaction holds, and that the verifiers of      *)
(* DomainVerification take the receipt of one that did what was approved.  *)
(*                                                                         *)
(* The logs of a transaction are built from sequences, with entries left   *)
(* out; the verifiers pick events from them by address and name. Both are  *)
(* EntriesAt, so what is picked is known in order (EntriesInOrder). A      *)
(* batch that paid everyone lays its logs out in one way (Laid), from      *)
(* which each verifier finds the events it asks for (SameComplete,         *)
(* CrossComplete, SwapComplete, SendComplete). A transaction leaves a      *)
(* bounded number of logs (LogCount).                                      *)
(*                                                                         *)
(* The facts are of single states: VerificationProofs puts them to use.    *)
(***************************************************************************)
EXTENDS DomainVerification, FiniteSetTheorems, TLAPS

\* Most steps are first-order; the ones that calculate say so.
USE Zenon

\* A value that is there is the one that was put there.
LEMMA Found ==
  \A x, y : Some(x) # None /\ Some(x)[1] = x /\ (Some(x) = Some(y) => x = y)
BY SMT DEF Some, None

-----------------------------------------------------------------------------
(* Sequences of logs, and what is picked from them.                        *)

\* A value is a sequence.
Sequenced(s) == Len(s) \in Nat /\ s = [k \in 1..Len(s) |-> s[k]]

\* A value is one of a sequence's.
Among(x, s) == \E k \in DOMAIN s : x = s[k]

\* A sequence is a function on an interval.
LEMMA SequenceOver ==
  ASSUME NEW n \in Nat, NEW f, f = [k \in 1..n |-> f[k]]
  PROVE  /\ DOMAIN f = 1..n /\ Len(f) = n
         /\ \A S : (\A k \in 1..n : f[k] \in S) => f \in Seq(S)
<1>1. DOMAIN f = 1..n /\ Len(f) = n
  BY SMT
<1>2. ASSUME NEW S, \A k \in 1..n : f[k] \in S
      PROVE  f \in Seq(S)
  BY SMT, <1>2
<1> QED BY <1>1, <1>2

\* The entries of a concatenation are those of its parts.
LEMMA ConcatFrom ==
  ASSUME NEW s, NEW t, Sequenced(s), Sequenced(t)
  PROVE  /\ Sequenced(s \o t) /\ Len(s \o t) = Len(s) + Len(t)
         /\ DOMAIN (s \o t) = 1..(Len(s) + Len(t))
         /\ \A k \in 1..(Len(s) + Len(t)) :
              (s \o t)[k] = IF k <= Len(s) THEN s[k] ELSE t[k - Len(s)]
         /\ \A x : Among(x, s \o t) => Among(x, s) \/ Among(x, t)
<1> DEFINE m == Len(s)
           n == Len(t)
           S == {s[k] : k \in 1..m} \cup {t[k] : k \in 1..n}
           st == s \o t
<1>1. m \in Nat /\ n \in Nat /\ DOMAIN s = 1..m /\ DOMAIN t = 1..n
  BY DEF Sequenced
<1>2. s \in Seq(S) /\ t \in Seq(S)
  <2>1. (\A k \in 1..m : s[k] \in S) /\ (\A k \in 1..n : t[k] \in S)
    OBVIOUS
  <2> HIDE DEF S
  <2> QED BY <1>1, <2>1, SequenceOver DEF Sequenced
<1> HIDE DEF S
<1>3. /\ st \in Seq(S) /\ Len(st) = m + n
      /\ \A k \in 1..(m + n) : st[k] = IF k <= m THEN s[k] ELSE t[k - m]
  BY SMT, <1>1, <1>2
<1>4. st \in [1..(m + n) -> S]
  <2>1. \A q \in Seq(S) : q \in [1..Len(q) -> S]
    BY SMT
  <2> QED BY <1>3, <2>1
<1>5. m + n \in Nat /\ \A k \in 1..(m + n) : IF k <= m THEN k \in 1..m ELSE k - m \in 1..n
  BY SMT, <1>1
<1> HIDE DEF st, m, n
<1>6. DOMAIN st = 1..(m + n) /\ st = [k \in 1..(m + n) |-> st[k]]
  BY <1>4
<1>7. Sequenced(st)
  BY <1>3, <1>5, <1>6 DEF Sequenced
<1>8. \A k \in DOMAIN st : (\E j \in DOMAIN s : st[k] = s[j]) \/ (\E j \in DOMAIN t : st[k] = t[j])
  BY <1>1, <1>3, <1>5, <1>6
<1>9. ASSUME NEW x, Among(x, st) PROVE Among(x, s) \/ Among(x, t)
  BY <1>8, <1>9 DEF Among
<1> QED BY <1>3, <1>6, <1>7, <1>9 DEF st, m, n

\* A finite set of positions is numbered in order: each number up to their count is
\* the number of positions up to exactly one of them.
LEMMA Numbered ==
  ASSUME NEW at, IsFiniteSet(at), at \subseteq Nat,
         NEW n \in 1..Cardinality(at)
  PROVE  \E k \in at : Cardinality({j \in at : j <= k}) = n
<1> DEFINE upTo(k) == {j \in at : j <= k}
           number == [k \in at |-> Cardinality(upTo(k))]
           N == Cardinality(at)
           T == {number[k] : k \in at}
<1>0. N \in Nat
  BY FS_CardinalityType
<1>1. ASSUME NEW k \in at
      PROVE  /\ IsFiniteSet(upTo(k)) /\ number[k] \in Nat /\ number[k] \in 1..N
  <2>1. upTo(k) \subseteq at /\ k \in upTo(k)
    BY SMT
  <2>2. IsFiniteSet(upTo(k)) /\ Cardinality(upTo(k)) <= N
    BY <2>1, FS_Subset
  <2>3. Cardinality(upTo(k)) \in Nat /\ Cardinality(upTo(k)) # 0
    BY <2>1, <2>2, FS_CardinalityType, FS_EmptySet
  <2>4. number[k] = Cardinality(upTo(k))
    OBVIOUS
  <2> HIDE DEF upTo, N, number
  <2>5. ASSUME NEW c \in Nat, c # 0, c <= N
        PROVE  c \in 1..N
    BY SMT, <1>0, <2>5
  <2> QED BY <2>2, <2>3, <2>4, <2>5
<1>2. ASSUME NEW j \in at, NEW k \in at, j < k
      PROVE  number[j] < number[k]
  <2>1. upTo(j) \subseteq upTo(k) /\ k \in upTo(k) /\ k \notin upTo(j)
    <3>1. j \in Nat /\ k \in Nat
      OBVIOUS
    <3>2. (\A x \in Nat : x <= j => x <= k) /\ k <= k /\ ~(k <= j)
      BY SMT, <1>2, <3>1
    <3> QED BY <3>2
  <2>2. Cardinality(upTo(j)) <= Cardinality(upTo(k)) /\ Cardinality(upTo(j)) # Cardinality(upTo(k))
    <3> HIDE DEF upTo
    <3> QED BY <2>1, <1>1, FS_Subset
  <2>3. number[j] <= number[k] /\ number[j] # number[k]
    BY <2>2
  <2> HIDE DEF upTo, number
  <2>4. number[j] \in Nat /\ number[k] \in Nat
    BY <1>1
  <2> QED BY SMT, <2>3, <2>4
<1> HIDE DEF number
<1>3. number \in Injection(at, 1..N)
  <2>1. number \in [at -> 1..N]
    BY <1>1 DEF number
  <2>2. \A j, k \in at : number[j] = number[k] => j = k
    <3>1. ASSUME NEW j \in at, NEW k \in at, number[j] = number[k]
          PROVE  ~(j < k) /\ ~(k < j) /\ j \in Nat /\ k \in Nat
      <4>1. ~(number[j] < number[k]) /\ ~(number[k] < number[j])
        <5>1. number[j] \in Nat /\ number[k] \in Nat
          BY <1>1
        <5> QED BY SMT, <3>1, <5>1
      <4> QED BY <1>2, <4>1
    <3>2. \A x, y \in Nat : ~(x < y) /\ ~(y < x) => x = y
      BY SMT
    <3> QED BY <3>1, <3>2
  <2> QED BY <2>1, <2>2 DEF Injection, IsInjective
<1>4. IsFiniteSet(1..N) /\ Cardinality(1..N) = N
  BY SMT, <1>0, FS_Interval
<1>5. number \in Surjection(at, 1..N)
  BY <1>3, <1>4, FS_Injection
<1>6. \E k \in at : number[k] = n
  BY <1>5 DEF Surjection
<1> QED BY <1>6 DEF number

\* There are as many entries as positions.
LEMMA EntriesCount ==
  ASSUME NEW logs, NEW at, IsFiniteSet(at)
  PROVE  Sequenced(EntriesAt(logs, at)) /\ Len(EntriesAt(logs, at)) = Cardinality(at)
<1> DEFINE es == EntriesAt(logs, at)
           numbered(n) == CHOOSE k \in at : Cardinality({j \in at : j <= k}) = n
<1>1. Cardinality(at) \in Nat
  BY FS_CardinalityType
<1>2. es = [n \in 1..Cardinality(at) |-> es[n]]
  <2>1. es = [n \in 1..Cardinality(at) |-> logs[numbered(n)]]
    BY DEF EntriesAt
  <2> HIDE DEF es, numbered
  <2> QED BY <2>1
<1> HIDE DEF es
<1>3. Len(es) = Cardinality(at)
  BY <1>1, <1>2, SequenceOver
<1> QED BY <1>1, <1>2, <1>3 DEF es, Sequenced

\* Positions are finitely many numbers.
Positions(at) == IsFiniteSet(at) /\ at \subseteq Nat

\* Every entry is the log's, at one of the positions.
LEMMA EntriesFrom ==
  ASSUME NEW logs, NEW at, Positions(at), NEW n \in DOMAIN EntriesAt(logs, at)
  PROVE  \E k \in at : EntriesAt(logs, at)[n] = logs[k]
<1> DEFINE numbered == CHOOSE k \in at : Cardinality({j \in at : j <= k}) = n
<1>1. n \in 1..Cardinality(at) /\ EntriesAt(logs, at)[n] = logs[numbered]
  BY DEF EntriesAt
<1>2. numbered \in at
  BY <1>1, Numbered DEF Positions
<1> QED BY <1>1, <1>2

\* The first values of a function.
Values(g, n) == {g[m] : m \in 1..n}

\* A function that repeats no value has as many values as arguments.
LEMMA ImageSize ==
  ASSUME NEW n \in Nat, NEW g, \A j, k \in 1..n : g[j] = g[k] => j = k
  PROVE  IsFiniteSet(Values(g, n)) /\ Cardinality(Values(g, n)) = n
<1> DEFINE T == {g[m] : m \in 1..n}
           h == [m \in 1..n |-> g[m]]
<1>1. IsFiniteSet(1..n) /\ Cardinality(1..n) = n
  BY SMT, FS_Interval
<1>2. h \in Surjection(1..n, T)
  BY DEF Surjection
<1>3. h \in Injection(1..n, T)
  BY DEF Injection, IsInjective
<1> HIDE DEF h, T
<1>4. IsFiniteSet(T) /\ Cardinality(T) = Cardinality(1..n)
  BY <1>1, <1>2, <1>3, FS_Surjection
<1> QED BY <1>1, <1>4 DEF T, Values

\* Positions, given in increasing order.
Rising(g, N) == g \in [1..N -> Nat] /\ \A j, k \in 1..N : j < k => g[j] < g[k]

\* The entries at those positions.
Chosen(logs, g, N) == [n \in 1..N |-> logs[g[n]]]

\* The entries at positions that are given in increasing order.
LEMMA EntriesInOrder ==
  ASSUME NEW logs, NEW N \in Nat, NEW g, Rising(g, N)
  PROVE  EntriesAt(logs, Values(g, N)) = Chosen(logs, g, N)
<1> DEFINE at == Values(g, N)
           upTo(k) == {j \in at : j <= k}
           numbered(n) == CHOOSE k \in at : Cardinality(upTo(k)) = n
<1>1. ASSUME NEW j \in 1..N, NEW k \in 1..N
      PROVE  (g[j] = g[k] => j = k) /\ (g[j] <= g[k] <=> j <= k)
  <2>1. j \in Nat /\ k \in Nat
    BY SMT
  <2>2. g[j] \in Nat /\ g[k] \in Nat /\ (j < k => g[j] < g[k]) /\ (k < j => g[k] < g[j])
    BY DEF Rising
  <2> QED BY SMT, <2>1, <2>2
<1>2. \A j, k \in 1..N : g[j] = g[k] => j = k
  BY <1>1
<1>3. Cardinality(at) = N
  BY <1>2, ImageSize
<1>4. ASSUME NEW n \in 1..N
      PROVE  Cardinality(upTo(g[n])) = n
  <2>1. n \in Nat /\ \A m : m \in 1..n <=> m \in 1..N /\ m <= n
    BY SMT
  <2>2. \A m \in 1..N : g[m] <= g[n] <=> m \in 1..n
    BY <1>1, <2>1
  <2>3. upTo(g[n]) = Values(g, n)
    <3>1. ASSUME NEW j \in upTo(g[n]) PROVE j \in Values(g, n)
      <4>1. PICK m \in 1..N : j = g[m]
        BY DEF Values
      <4>2. m \in 1..n
        BY <2>2, <4>1
      <4> QED BY <4>1, <4>2 DEF Values
    <3>2. ASSUME NEW m \in 1..n PROVE g[m] \in upTo(g[n])
      BY <2>1, <2>2 DEF Values
    <3>3. \A j : j \in Values(g, n) <=> j \in upTo(g[n])
      BY <3>1, <3>2 DEF Values
    <3> QED BY <3>3
  <2>4. \A j, k \in 1..n : g[j] = g[k] => j = k
    BY <1>2, <2>1
  <2>5. Cardinality(Values(g, n)) = n
    BY <2>1, <2>4, ImageSize
  <2> QED BY <2>3, <2>5
<1>5. ASSUME NEW n \in 1..N
      PROVE  numbered(n) = g[n]
  <2>1. g[n] \in at /\ Cardinality(upTo(g[n])) = n
    BY <1>4 DEF Values
  <2>2. ASSUME NEW k \in at, Cardinality(upTo(k)) = n PROVE k = g[n]
    <3>1. PICK m \in 1..N : k = g[m]
      BY DEF Values
    <3> QED BY <1>4, <2>2, <3>1
  <2> HIDE DEF at, upTo
  <2> QED BY <2>1, <2>2
<1>6. EntriesAt(logs, at) = [n \in 1..Cardinality(at) |-> logs[numbered(n)]]
  BY DEF EntriesAt
<1> HIDE DEF numbered
<1>7. EntriesAt(logs, at) = [n \in 1..N |-> logs[numbered(n)]]
  BY <1>3, <1>6
<1> QED BY <1>5, <1>7 DEF Chosen

\* The positions of a contract's events.
At(s, address, event) == {k \in DOMAIN s : s[k].address = address /\ s[k].event = event}

\* Some of a sequence's positions.
LEMMA PositionsFinite ==
  ASSUME NEW s, Sequenced(s), NEW at, at \subseteq DOMAIN s
  PROVE  Positions(at) /\ IsFiniteSet(at)
<1>1. DOMAIN s = 1..Len(s) /\ Len(s) \in Nat
  BY DEF Sequenced
<1>2. IsFiniteSet(1..Len(s)) /\ 1..Len(s) \subseteq Nat
  <2>1. \A n \in Nat : 1 \in Int /\ n \in Int /\ 1..n \subseteq Nat
    BY SMT
  <2> QED BY <1>1, <2>1, FS_Interval
<1> QED BY <1>1, <1>2, FS_Subset DEF Positions

\* What EntriesAt returns of a sequence.
LEMMA EntriesAmong ==
  ASSUME NEW s, Sequenced(s), NEW at, at \subseteq DOMAIN s
  PROVE  /\ Sequenced(EntriesAt(s, at)) /\ Len(EntriesAt(s, at)) = Cardinality(at)
         /\ \A x : Among(x, EntriesAt(s, at)) => \E k \in at : x = s[k]
<1>1. Positions(at) /\ IsFiniteSet(at)
  BY PositionsFinite
<1>2. ASSUME NEW x, Among(x, EntriesAt(s, at))
      PROVE  \E k \in at : x = s[k]
  <2>1. PICK n \in DOMAIN EntriesAt(s, at) : x = EntriesAt(s, at)[n]
    BY <1>2 DEF Among
  <2>2. \E k \in at : EntriesAt(s, at)[n] = s[k]
    BY SMT, <1>1, EntriesFrom
  <2> QED BY <2>1, <2>2
<1> QED BY <1>1, <1>2, EntriesCount

\* What EventsOf returns: events of the log, of that contract and name.
LEMMA EventsFrom ==
  ASSUME NEW s, Sequenced(s), NEW address, NEW event
  PROVE  /\ Sequenced(EventsOf(s, address, event))
         /\ Len(EventsOf(s, address, event)) = Cardinality(At(s, address, event))
         /\ \A x : Among(x, EventsOf(s, address, event)) =>
                     Among(x, s) /\ x.address = address /\ x.event = event
<1> DEFINE at == At(s, address, event)
           es == EntriesAt(s, at)
<1>1. EventsOf(s, address, event) = es
  BY DEF EventsOf, At
<1>2. at \subseteq DOMAIN s /\ \A k \in at : s[k].address = address /\ s[k].event = event
  BY DEF At
<1> HIDE DEF at
<1>3. Sequenced(es) /\ Len(es) = Cardinality(at)
  BY <1>2, EntriesAmong
<1>4. ASSUME NEW x, Among(x, es) PROVE Among(x, s) /\ x.address = address /\ x.event = event
  <2>1. PICK k \in at : x = s[k]
    BY SMT, <1>2, <1>4, EntriesAmong
  <2> QED BY <1>2, <2>1 DEF Among
<1> QED BY <1>1, <1>3, <1>4 DEF at

\* What a log keeps of the payments.
LEMMA MadeFrom ==
  ASSUME NEW s, Sequenced(s)
  PROVE  /\ Sequenced(Made(s)) /\ Len(Made(s)) = Cardinality({k \in DOMAIN s : s[k].amount # 0})
         /\ \A x : Among(x, Made(s)) => Among(x, s) /\ x.amount # 0
<1> DEFINE at == {k \in DOMAIN s : s[k].amount # 0}
           es == EntriesAt(s, at)
<1>1. Made(s) = es
  BY DEF Made
<1>2. at \subseteq DOMAIN s /\ \A k \in at : s[k].amount # 0
  OBVIOUS
<1> HIDE DEF at
<1>3. Sequenced(es) /\ Len(es) = Cardinality(at)
  BY <1>2, EntriesAmong
<1>4. ASSUME NEW x, Among(x, es) PROVE Among(x, s) /\ x.amount # 0
  <2>1. PICK k \in at : x = s[k]
    BY SMT, <1>2, <1>4, EntriesAmong
  <2> QED BY <1>2, <2>1 DEF Among
<1> QED BY <1>1, <1>3, <1>4 DEF at

\* One or two entries.
LEMMA FewEntries ==
  ASSUME NEW x, NEW y
  PROVE  /\ Sequenced(<<x>>) /\ Len(<<x>>) = 1 /\ DOMAIN <<x>> = 1..1 /\ <<x>>[1] = x
         /\ Sequenced(<<x, y>>) /\ Len(<<x, y>>) = 2 /\ DOMAIN <<x, y>> = 1..2
         /\ <<x, y>>[1] = x /\ <<x, y>>[2] = y
         /\ \A z : (Among(z, <<x>>) => z = x) /\ (Among(z, <<x, y>>) => z = x \/ z = y)
<1>1. /\ Len(<<x>>) = 1 /\ DOMAIN <<x>> = 1..1 /\ <<x>>[1] = x
      /\ Len(<<x, y>>) = 2 /\ DOMAIN <<x, y>> = 1..2
      /\ <<x, y>>[1] = x /\ <<x, y>>[2] = y
  BY SMT
<1>2. <<x>> = [k \in 1..1 |-> <<x>>[k]] /\ <<x, y>> = [k \in 1..2 |-> <<x, y>>[k]]
  BY SMT
<1>3. 1 \in Nat /\ 2 \in Nat /\ 1..1 = {1} /\ 1..2 = {1, 2}
  BY SMT
<1>4. ASSUME NEW z
      PROVE  (Among(z, <<x>>) => z = x) /\ (Among(z, <<x, y>>) => z = x \/ z = y)
  <2>1. Among(z, <<x>>) => z = x
    BY <1>1, <1>3 DEF Among
  <2>2. Among(z, <<x, y>>) => z = x \/ z = y
    <3>1. \A k \in DOMAIN <<x, y>> : k = 1 \/ k = 2
      BY <1>1, <1>3
    <3> QED BY <1>1, <3>1 DEF Among
  <2> QED BY <2>1, <2>2
<1> QED BY <1>1, <1>2, <1>3, <1>4 DEF Sequenced

-----------------------------------------------------------------------------
(* The logs of a transaction.                                              *)

\* Positions in pairs: the odd and the even one of the k-th recipient.
LEMMA Paired ==
  ASSUME NEW n \in Nat
  PROVE  /\ 2 * n \in Nat
         /\ \A m \in 1..(2 * n) : (m + 1) \div 2 \in 1..n
         /\ \A m \in 1..(2 * n) : m = 2 * ((m + 1) \div 2) \/ m = 2 * ((m + 1) \div 2) - 1
         /\ \A k \in 1..n : 2 * k \in 1..(2 * n) /\ 2 * k - 1 \in 1..(2 * n)
         /\ \A k \in 1..n : (2 * k + 1) \div 2 = k /\ (2 * k) % 2 # 1
         /\ \A k \in 1..n : (2 * k - 1 + 1) \div 2 = k /\ (2 * k - 1) % 2 = 1
BY SMT

\* The fields of the logs that the verifiers read.
LEMMA PayrollLogFields ==
  ASSUME NEW t, NEW tokenOut, NEW k
  PROVE  /\ PaymentLog(t, tokenOut, k).address = t.to
         /\ PaymentLog(t, tokenOut, k).event = "Payment"
         /\ PaymentLog(t, tokenOut, k).hash = ReferenceHash(t.from, t.data.args.referenceID)
         /\ PaymentLog(t, tokenOut, k).employer = t.from
         /\ PaymentLog(t, tokenOut, k).tokenOut = tokenOut
         /\ PaymentLog(t, tokenOut, k).index = k - 1
         /\ PaymentLog(t, tokenOut, k).recipient = t.data.args.recipients[k]
         /\ PaymentLog(t, tokenOut, k).amount = t.effect.paid[k]
BY DEF PaymentLog

\* The fields of the two events that carry a batch's totals.
LEMMA TotalsLogFields ==
  ASSUME NEW t, NEW tokenIn, NEW tokenOut, NEW totalIn, NEW event, NEW hash, NEW e,
         e = TotalsLog(t, tokenIn, tokenOut, totalIn, event, hash)
  PROVE  /\ e.address = t.to /\ e.event = event /\ e.hash = hash /\ e.employer = t.from
         /\ e.tokenIn = tokenIn /\ e.tokenOut = tokenOut /\ e.totalInput = totalIn
         /\ e.totalOutput = SumOf(t.effect.paid) /\ e.totalFees = t.effect.fee
         /\ e.count = Len(t.data.args.recipients) /\ e.referenceID = t.data.args.referenceID
BY DEF TotalsLog

\* The fields of a token's own event.
LEMMA TransferFields ==
  ASSUME NEW token, NEW from, NEW to, NEW amount
  PROVE  /\ Transfer(token, from, to, amount).address = token
         /\ Transfer(token, from, to, amount).event = "Transfer"
         /\ Transfer(token, from, to, amount).from = from
         /\ Transfer(token, from, to, amount).to = to
         /\ Transfer(token, from, to, amount).amount = amount
BY DEF Transfer

\* Two logs for each recipient, in order.
LEMMA PaymentLogsFrom ==
  ASSUME NEW t, NEW tokenOut, NEW n \in Nat, n = Len(t.data.args.recipients)
  PROVE  /\ Sequenced(PaymentLogs(t, tokenOut)) /\ Len(PaymentLogs(t, tokenOut)) = 2 * n
         /\ \A k \in 1..n : PaymentLogs(t, tokenOut)[2 * k] = PaymentLog(t, tokenOut, k)
         /\ \A k \in 1..n :
              PaymentLogs(t, tokenOut)[2 * k - 1]
                = Transfer(tokenOut, t.to, t.data.args.recipients[k], t.effect.paid[k])
         /\ \A x : Among(x, PaymentLogs(t, tokenOut)) =>
                     x.event = "Transfer" \/ \E k \in 1..n : x = PaymentLog(t, tokenOut, k)
<1> DEFINE s == PaymentLogs(t, tokenOut)
           half(m) == (m + 1) \div 2
           transfer(k) == Transfer(tokenOut, t.to, t.data.args.recipients[k], t.effect.paid[k])
<1>1. s = [m \in 1..(2 * n) |-> IF m % 2 = 1 THEN transfer(half(m))
                                ELSE PaymentLog(t, tokenOut, half(m))]
  BY DEF PaymentLogs
<1>2. \A m \in 1..(2 * n) : s[m] = IF m % 2 = 1 THEN transfer(half(m))
                                   ELSE PaymentLog(t, tokenOut, half(m))
  BY <1>1
<1>3. 2 * n \in Nat /\ \A m \in 1..(2 * n) : half(m) \in 1..n
  BY Paired
<1>4. s = [m \in 1..(2 * n) |-> s[m]] /\ DOMAIN s = 1..(2 * n)
  BY <1>1
<1> HIDE DEF s, transfer
<1>5. Sequenced(s) /\ Len(s) = 2 * n
  BY <1>3, <1>4, SequenceOver DEF Sequenced
<1>6. ASSUME NEW k \in 1..n
      PROVE  s[2 * k] = PaymentLog(t, tokenOut, k) /\ s[2 * k - 1] = transfer(k)
  <2>1. 2 * k \in 1..(2 * n) /\ half(2 * k) = k /\ (2 * k) % 2 # 1
    BY Paired
  <2>2. 2 * k - 1 \in 1..(2 * n) /\ half(2 * k - 1) = k /\ (2 * k - 1) % 2 = 1
    BY Paired
  <2> QED BY <1>2, <2>1, <2>2
<1>7. ASSUME NEW x, Among(x, s)
      PROVE  x.event = "Transfer" \/ \E k \in 1..n : x = PaymentLog(t, tokenOut, k)
  <2>1. PICK m \in 1..(2 * n) : x = s[m]
    BY <1>4, <1>7 DEF Among
  <2>2. transfer(half(m)).event = "Transfer"
    BY SMT, TransferFields DEF transfer
  <2> HIDE DEF half
  <2> QED BY <1>2, <1>3, <2>1, <2>2
<1> QED BY <1>5, <1>6, <1>7 DEF s, transfer

\* The two events that carry a payroll's totals.
ReferenceLog(t, tokenIn, tokenOut, totalIn) ==
  TotalsLog(t, tokenIn, tokenOut, totalIn, "ReferenceConsumed",
            ReferenceHash(t.from, t.data.args.referenceID))
BatchLog(t, tokenIn, tokenOut, totalIn) ==
  TotalsLog(t, tokenIn, tokenOut, totalIn, "BatchExecuted", None)

-----------------------------------------------------------------------------
(* Effects and amounts.                                                    *)

\* The cap is a natural number.
LEMMA CapIsNat ==
  ASSUME NEW amount \in Nat
  PROVE  Cap(amount) \in Nat
<1> DEFINE x == amount * MaxFeeBPS
<1>1. x \in Nat
  BY SMT, VerificationAssumption
<1>2. Cap(amount) = x \div 10000
  BY SMT DEF Cap
<1> HIDE DEF x
<1> QED BY SMT, <1>1, <1>2

\* A fee within the cap is within the contract's maximum, and conversely.
LEMMA CapBounds ==
  ASSUME NEW amount \in Nat, NEW fee \in Nat
  PROVE  fee <= (amount * MaxFeeBPS) \div 10000 <=> fee * 10000 <= amount * MaxFeeBPS
<1> DEFINE x == amount * MaxFeeBPS
<1>1. x \in Nat
  BY SMT, VerificationAssumption
<1> HIDE DEF x
<1>2. fee <= x \div 10000 <=> fee * 10000 <= x
  BY SMT, <1>1
<1> QED BY SMT, <1>2 DEF x

\* The calls are told by their function.
LEMMA EffectsByFunction ==
  ASSUME NEW data
  PROVE  /\ data.function = SameToken => Effects(data) = SameTokenEffects(data.args)
         /\ data.function = CrossToken => Effects(data) = CrossTokenEffects(data.args)
         /\ data.function = ExecuteSwap => Effects(data) = SwapEffects(data.args)
         /\ data.function = "transfer" => Effects(data) = TransferEffects(data.args)
BY SMT DEF Effects, SameToken, CrossToken, ExecuteSwap

\* And so are their logs.
LEMMA LogsByFunction ==
  ASSUME NEW t
  PROVE  /\ t.data.function = SameToken =>
              LogsOf(t) = PayrollLogs(t, t.data.args.token, t.data.args.token,
                                      SumOf(t.effect.paid) + t.effect.fee)
         /\ t.data.function = CrossToken => LogsOf(t) = CrossTokenLogs(t)
         /\ t.data.function = ExecuteSwap => LogsOf(t) = SwapLogs(t)
         /\ t.data.function = "transfer" =>
              LogsOf(t) = Made(<<Transfer(t.to, t.from, t.data.args.recipient, t.effect.paid[1])>>)
BY SMT DEF LogsOf, SameToken, CrossToken, ExecuteSwap

\* A same-token payroll pays in some order and takes a fee.
LEMMA SameEffects ==
  ASSUME NEW a, NEW e \in SameTokenEffects(a), SumOf(a.amounts) \in Nat
  PROVE  e.paid \in Payments(a.amounts) /\ e.fee \in Nat
<1>1. /\ e.paid \in Payments(a.amounts)
      /\ e.fee \in {0, Cap(SumOf(a.amounts)), Cap(SumOf(a.amounts)) + 1}
  BY DEF SameTokenEffects
<1>2. Cap(SumOf(a.amounts)) \in Nat
  BY CapIsNat
<1>3. \A n \in Nat : 0 \in Nat /\ n + 1 \in Nat
  BY SMT
<1> QED BY <1>1, <1>2, <1>3

\* A cross-token payroll returns nothing or the surplus, where there is one.
LEMMA CrossEffects ==
  ASSUME NEW a, NEW e \in CrossTokenEffects(a), a.grossInput \in Nat, a.minTotalOut \in Nat
  PROVE  /\ e.paid \in Payments(a.outputAmounts) /\ e.fee \in Nat
         /\ e.out \in Int
         /\ \/ e.refund = 0
            \/ e.refund = e.out - SumOf(a.outputAmounts) /\ e.refund > 0
<1> DEFINE total == SumOf(a.outputAmounts)
<1>1. PICK out \in {a.minTotalOut - 1, a.minTotalOut, a.minTotalOut + 1} :
        e \in [paid : Payments(a.outputAmounts), out : {out},
               refund : {0} \cup {r \in {out - total} : r > 0},
               fee : {0, Cap(a.grossInput), Cap(a.grossInput) + 1}]
  BY DEF CrossTokenEffects
<1>2. /\ e.paid \in Payments(a.outputAmounts) /\ e.out = out
      /\ e.refund = 0 \/ (e.refund = out - total /\ e.refund > 0)
      /\ e.fee \in {0, Cap(a.grossInput), Cap(a.grossInput) + 1}
  <2> DEFINE R == {0} \cup {r \in {out - total} : r > 0}
  <2>1. \A r \in R : r = 0 \/ (r = out - total /\ r > 0)
    OBVIOUS
  <2> HIDE DEF R, total
  <2> QED BY <1>1, <2>1 DEF R
<1>3. Cap(a.grossInput) \in Nat
  BY CapIsNat
<1>4. \A n \in Nat : 0 \in Nat /\ n + 1 \in Nat /\ n - 1 \in Int /\ n \in Int /\ n + 1 \in Int
  BY SMT
<1>5. e.fee \in Nat /\ e.out \in Int
  BY <1>2, <1>3, <1>4
<1> QED BY <1>2, <1>5

\* A swap pays what it brought or nothing.
LEMMA SwapEffectsOf ==
  ASSUME NEW a, NEW e \in SwapEffects(a), a.amountIn \in Nat
  PROVE  e.fee \in Nat /\ (e.paid = <<0>> \/ e.paid = <<e.out>>)
<1>1. PICK out \in {a.minAmountOut - 1, a.minAmountOut, a.minAmountOut + 1} :
        e \in [paid : {<<0>>, <<out>>}, out : {out}, refund : {0},
               fee : {0, Cap(a.amountIn), Cap(a.amountIn) + 1}]
  BY DEF SwapEffects
<1>2. /\ e.paid = <<0>> \/ e.paid = <<out>>
      /\ e.out = out /\ e.fee \in {0, Cap(a.amountIn), Cap(a.amountIn) + 1}
  BY <1>1
<1>3. Cap(a.amountIn) \in Nat
  BY CapIsNat
<1>4. \A n \in Nat : 0 \in Nat /\ n + 1 \in Nat
  BY SMT
<1> QED BY <1>2, <1>3, <1>4

\* The payments a contract may make, one for each amount.
LEMMA PaymentsOver ==
  ASSUME NEW n, NEW f, f = [k \in 1..n |-> f[k]], NEW paid \in Payments(f)
  PROVE  paid = [k \in 1..n |-> paid[k]]
<1>1. DOMAIN f = 1..n
  OBVIOUS
<1> DEFINE reversed == [k \in DOMAIN f |-> f[Len(f) + 1 - k]]
           skipped == [f EXCEPT ![1] = 0]
<1>2. paid \in {f, reversed, skipped}
  BY DEF Payments
<1>3. reversed = [k \in 1..n |-> reversed[k]]
  BY <1>1
<1>4. skipped = [k \in 1..n |-> skipped[k]]
  BY <1>1
<1> HIDE DEF reversed, skipped
<1> QED BY <1>2, <1>3, <1>4

-----------------------------------------------------------------------------
(* What was credited, and what was approved.                               *)

\* The calls credit their recipients, unless they went to a look-alike contract.
LEMMA CreditedByFunction ==
  ASSUME NEW t, t.to # Elsewhere
  PROVE  /\ t.data.function = SameToken => Credited(t) = PaidLines(t, t.data.args.token)
         /\ t.data.function = CrossToken => Credited(t) = PaidLines(t, t.data.args.tokenOut)
         /\ t.data.function = ExecuteSwap =>
              Credited(t) = <<Credit(t.from, t.data.args.tokenOut, t.effect.paid[1])>>
         /\ t.data.function = "transfer" =>
              Credited(t) = <<Credit(t.data.args.recipient, t.to, t.effect.paid[1])>>
BY SMT DEF Credited, SameToken, CrossToken, ExecuteSwap

\* What was approved, by the intent's type.
LEMMA PaidByType ==
  ASSUME NEW i, NEW t
  PROVE  /\ i.fin.type = "PAYROLL" =>
              (PaidAsApproved(i, t) <=> t.ok /\ t.from = Wallet /\ Credited(t) = ApprovedLines(i.fin))
         /\ i.fin.type = "SEND" =>
              (PaidAsApproved(i, t) <=>
                 /\ t.ok /\ t.from = Wallet
                 /\ Credited(t) = <<Credit(i.fin.recipient, i.fin.token, i.fin.amount)>>)
         /\ i.fin.type = "SWAP" =>
              (PaidAsApproved(i, t) <=>
                 /\ t.ok /\ t.from = Wallet /\ t.effect.paid[1] >= i.fin.minimumOutput
                 /\ Credited(t) = <<Credit(Wallet, i.fin.outputToken, t.effect.paid[1])>>)
<1>1. i.fin.type = "PAYROLL" =>
        (PaidAsApproved(i, t) <=> t.ok /\ t.from = Wallet /\ Credited(t) = ApprovedLines(i.fin))
  BY SMT DEF PaidAsApproved
<1>2. i.fin.type = "SEND" =>
        (PaidAsApproved(i, t) <=>
           /\ t.ok /\ t.from = Wallet
           /\ Credited(t) = <<Credit(i.fin.recipient, i.fin.token, i.fin.amount)>>)
  BY SMT DEF PaidAsApproved
<1>3. i.fin.type = "SWAP" =>
        (PaidAsApproved(i, t) <=>
           /\ t.ok /\ t.from = Wallet /\ t.effect.paid[1] >= i.fin.minimumOutput
           /\ Credited(t) = <<Credit(Wallet, i.fin.outputToken, t.effect.paid[1])>>)
  BY SMT DEF PaidAsApproved
<1> QED BY <1>1, <1>2, <1>3

\* And at what cost.
LEMMA CostByType ==
  ASSUME NEW i, NEW t
  PROVE  /\ i.fin.type = "SEND" => CostAsApproved(i, t)
         /\ i.fin.type = "SWAP" =>
              (CostAsApproved(i, t) <=> t.effect.fee * 10000 <= i.fin.inputAmount * MaxFeeBPS)
         /\ i.fin.type = "PAYROLL" /\ i.fin.crossToken = None =>
              (CostAsApproved(i, t) <=> t.effect.fee * 10000 <= i.fin.total * MaxFeeBPS)
         /\ i.fin.type = "PAYROLL" /\ i.fin.crossToken # None =>
              (CostAsApproved(i, t) <=>
                 /\ t.effect.fee * 10000 <= i.fin.crossToken[1].grossInput * MaxFeeBPS
                 /\ t.effect.out >= i.fin.crossToken[1].minTotalOut
                 /\ t.effect.refund = t.effect.out - i.fin.total)
BY SMT DEF CostAsApproved

\* Two credits are the same if everything in them is.
LEMMA CreditParts ==
  ASSUME NEW to, NEW token, NEW amount, NEW to2, NEW token2, NEW amount2
  PROVE  Credit(to, token, amount) = Credit(to2, token2, amount2)
           <=> to = to2 /\ token = token2 /\ amount = amount2
BY DEF Credit

\* The parameters p of a payroll and the arguments a of its call agree.
BatchOf(p, a, amounts, tokenOut) ==
  /\ Len(p.recipients) \in Nat \ {0} /\ DOMAIN p.recipients = 1..Len(p.recipients)
  /\ Len(a.recipients) = Len(p.recipients) /\ DOMAIN a.recipients = 1..Len(p.recipients)
  /\ amounts = [k \in 1..Len(p.recipients) |-> amounts[k]]
  /\ a.referenceID = p.referenceID
  /\ \A k \in 1..Len(p.recipients) :
       /\ a.recipients[k] = p.recipients[k].address
       /\ amounts[k] = p.recipients[k].minAmountOut
       /\ tokenOut = p.recipients[k].tokenOut
       /\ amounts[k] \in Nat \ {0}
  /\ p.total = SumOf(amounts) /\ p.total \in Nat

\* The first n recipients were paid these amounts.
PaidEach(t, n, amounts) == \A k \in 1..n : t.effect.paid[k] = amounts[k]

\* The recipients have what was approved exactly if every amount is the approved one.
LEMMA LinesAgree ==
  ASSUME NEW p, NEW t, NEW amounts, NEW tokenOut, BatchOf(p, t.data.args, amounts, tokenOut)
  PROVE  PaidLines(t, tokenOut) = ApprovedLines(p)
           <=> PaidEach(t, Len(p.recipients), amounts)
<1> DEFINE n == Len(p.recipients)
           paid(k) == Credit(t.data.args.recipients[k], tokenOut, t.effect.paid[k])
           due(k) == Credit(p.recipients[k].address, p.recipients[k].tokenOut,
                            p.recipients[k].minAmountOut)
<1>1. PaidLines(t, tokenOut) = [k \in 1..n |-> paid(k)]
  BY DEF PaidLines, BatchOf
<1>2. ApprovedLines(p) = [k \in 1..n |-> due(k)]
  BY DEF ApprovedLines, Map, BatchOf
<1>3. ASSUME NEW k \in 1..n PROVE paid(k) = due(k) <=> t.effect.paid[k] = amounts[k]
  <2>1. /\ t.data.args.recipients[k] = p.recipients[k].address
        /\ amounts[k] = p.recipients[k].minAmountOut
        /\ tokenOut = p.recipients[k].tokenOut
    BY DEF BatchOf
  <2> QED BY SMT, <2>1, CreditParts
<1> HIDE DEF paid, due, n
<1>4. PaidLines(t, tokenOut) = ApprovedLines(p) <=> \A k \in 1..n : paid(k) = due(k)
  <2>1. ASSUME PaidLines(t, tokenOut) = ApprovedLines(p), NEW k \in 1..n PROVE paid(k) = due(k)
    <3>1. PaidLines(t, tokenOut)[k] = paid(k) /\ ApprovedLines(p)[k] = due(k)
      BY <1>1, <1>2
    <3> QED BY <2>1, <3>1
  <2>2. ASSUME \A k \in 1..n : paid(k) = due(k) PROVE PaidLines(t, tokenOut) = ApprovedLines(p)
    BY <1>1, <1>2, <2>2
  <2> QED BY <2>1, <2>2
<1> QED BY <1>3, <1>4 DEF n, PaidEach

\* The receipt of a transaction that the reader calls successful.
LEMMA ReceiptSuccess ==
  ASSUME NEW T, NEW view, TransactionReceipt(T, view) # None,
         NEW r, r = TransactionReceipt(T, view)[1], r.status = "SUCCESS"
  PROVE  /\ T # None /\ T[1].ok /\ ValidateLogs(LogsOf(T[1]))
         /\ r.hasTransaction = view.body /\ r.from = T[1].from /\ r.to = T[1].to
         /\ r.value = T[1].value /\ r.data = T[1].data /\ r.logs = LogsOf(T[1])
<1> DEFINE t == T[1]
           logs == normalizeReceiptLogs(IF t.ok THEN LogsOf(t) ELSE <<>>)
           full == [status |-> IF t.ok THEN "SUCCESS" ELSE "REVERTED",
                    hasTransaction |-> view.body, from |-> t.from, to |-> t.to,
                    value |-> t.value, data |-> t.data, logs |-> logs[1]]
<1>1. Unknown.status # "SUCCESS"
  BY DEF Unknown
<1>2. Some(Unknown)[1] = Unknown /\ Some(full)[1] = full
  BY Found
<1>3. TransactionReceipt(T, view) \in {Some(Unknown), None, Some(full)}
  BY DEF TransactionReceipt
<1>4. r = full
  <2> HIDE DEF full
  <2> QED BY <1>1, <1>2, <1>3
<1>5. TransactionReceipt(T, view) # Some(Unknown)
  BY <1>1, <1>2
<1>6. T # None /\ logs # None
  <2> HIDE DEF logs, full
  <2> QED BY <1>5 DEF TransactionReceipt, logs, full
<1> HIDE DEF logs
<1>7. /\ r.status = (IF t.ok THEN "SUCCESS" ELSE "REVERTED")
      /\ r.hasTransaction = view.body /\ r.from = t.from /\ r.to = t.to
      /\ r.value = t.value /\ r.data = t.data /\ r.logs = logs[1]
  BY SMT, <1>4
<1>8. t.ok
  <2> HIDE DEF t
  <2> QED BY SMT, <1>7
<1>9. ValidateLogs(LogsOf(t)) /\ logs = Some(LogsOf(t))
  BY <1>6, <1>8 DEF logs, normalizeReceiptLogs
<1>10. logs[1] = LogsOf(t)
  BY <1>9, Found
<1> QED BY <1>6, <1>7, <1>8, <1>9, <1>10

-----------------------------------------------------------------------------
(* What is called for an approved draft of each kind.                      *)

\* The receipt says of a transaction what it was and what it logged.
OfTransaction(r, t) == /\ r.from = t.from /\ r.to = t.to /\ r.value = t.value
                       /\ r.data = t.data /\ r.logs = LogsOf(t)

\* One log, kept if it moved anything.
LEMMA MadeOne ==
  ASSUME NEW e
  PROVE  /\ Sequenced(Made(<<e>>)) /\ (\A x : Among(x, Made(<<e>>)) => x = e)
         /\ e.amount # 0 => Len(Made(<<e>>)) = 1 /\ Made(<<e>>)[1] = e
         /\ e.amount = 0 => Len(Made(<<e>>)) = 0
<1> DEFINE at == {k \in DOMAIN <<e>> : <<e>>[k].amount # 0}
<1>1. Sequenced(<<e>>) /\ DOMAIN <<e>> = {1} /\ <<e>>[1] = e
  <2>1. 1..1 = {1}
    BY SMT
  <2> QED BY <2>1, FewEntries
<1>2. Sequenced(Made(<<e>>)) /\ Len(Made(<<e>>)) = Cardinality(at)
  BY <1>1, MadeFrom
<1>3. ASSUME NEW x, Among(x, Made(<<e>>)) PROVE x = e
  <2>1. Among(x, <<e>>)
    BY <1>1, <1>3, MadeFrom
  <2> QED BY <2>1, FewEntries
<1>4. ASSUME e.amount # 0 PROVE Len(Made(<<e>>)) = 1 /\ Made(<<e>>)[1] = e
  <2>1. at = {1}
    BY <1>1, <1>4
  <2>2. Len(Made(<<e>>)) = 1
    BY <1>2, <2>1, FS_Singleton
  <2>3. 1 \in DOMAIN Made(<<e>>)
    <3>1. DOMAIN Made(<<e>>) = 1..1 /\ 1 \in 1..1
      BY SMT, <1>2, <2>2 DEF Sequenced
    <3> QED BY <3>1
  <2> QED BY <1>3, <2>2, <2>3 DEF Among
<1>5. ASSUME e.amount = 0 PROVE Len(Made(<<e>>)) = 0
  <2>1. at = {}
    BY <1>1, <1>5
  <2> QED BY <1>2, <2>1, FS_EmptySet
<1> QED BY <1>2, <1>3, <1>4, <1>5

\* The fields of a swap's event.
LEMMA SwapLogFields ==
  ASSUME NEW t, NEW e, e = MainnetSwapExecutedLog(t)
  PROVE  /\ e.address = t.to /\ e.event = "MainnetSwapExecuted" /\ e.caller = t.from
         /\ e.tokenIn = t.data.args.tokenIn /\ e.tokenOut = t.data.args.tokenOut
         /\ e.amountIn = t.data.args.amountIn /\ e.feeAmount = t.effect.fee
         /\ e.netAmountIn = t.data.args.amountIn - t.effect.fee
         /\ e.amountOut = t.effect.out /\ e.minAmountOut = t.data.args.minAmountOut
BY DEF MainnetSwapExecutedLog

\* A payroll's parameters and the arguments of its call, in the two variants.
SameOf(p, a) ==
  /\ p.type = "PAYROLL" /\ p.crossToken = None
  /\ BatchOf(p, a, a.amounts, a.token) /\ a.token = p.tokenIn
  /\ \A k \in 1..Len(p.recipients) : p.recipients[k].amountIn = a.amounts[k]

CrossOf(p, a) ==
  /\ p.type = "PAYROLL" /\ p.crossToken # None
  /\ BatchOf(p, a, a.outputAmounts, a.tokenOut) /\ a.tokenIn = p.tokenIn
  /\ Map(p.recipients, LAMBDA x : x.minAmountOut) = a.outputAmounts
  /\ p.crossToken[1].grossInput = a.grossInput /\ p.crossToken[1].minTotalOut = a.minTotalOut
  /\ a.grossInput \in Nat /\ a.minTotalOut \in Nat

\* The one event of a name, and what it says.
LEMMA OneEvent ==
  ASSUME NEW s, Sequenced(s), NEW address, NEW event, Len(EventsOf(s, address, event)) = 1
  PROVE  /\ Among(EventsOf(s, address, event)[1], s)
         /\ EventsOf(s, address, event)[1].event = event
<1> DEFINE es == EventsOf(s, address, event)
<1>1. Sequenced(es) /\ Len(es) = 1
  BY EventsFrom
<1>2. 1 \in DOMAIN es
  <2> HIDE DEF es
  <2> QED BY SMT, <1>1 DEF Sequenced
<1>3. Among(es[1], es)
  <2> HIDE DEF es
  <2> QED BY <1>2 DEF Among
<1>4. \A x : Among(x, es) => Among(x, s) /\ x.event = event
  BY SMT, EventsFrom
<1> HIDE DEF es
<1> QED BY <1>3, <1>4 DEF es

\* The fields of the two events that only a cross-token payroll has.
LEMMA SwapExecutedFields ==
  ASSUME NEW t, NEW e, e = SwapExecutedLog(t)
  PROVE  /\ e.address = t.to /\ e.event = "SwapExecuted" /\ e.employer = t.from
         /\ e.hash = ReferenceHash(t.from, t.data.args.referenceID)
         /\ e.tokenIn = t.data.args.tokenIn /\ e.tokenOut = t.data.args.tokenOut
         /\ e.grossInput = t.data.args.grossInput /\ e.feeAmount = t.effect.fee
         /\ e.netAmountIn = t.data.args.grossInput - t.effect.fee
         /\ e.amountOut = t.effect.out /\ e.minTotalOut = t.data.args.minTotalOut
BY DEF SwapExecutedLog

\* The refund's event.
LEMMA SurplusFields ==
  ASSUME NEW t, NEW e, e = SurplusRefundedLog(t)
  PROVE  /\ e.address = t.to /\ e.event = "SurplusRefunded" /\ e.employer = t.from
         /\ e.hash = ReferenceHash(t.from, t.data.args.referenceID)
         /\ e.tokenOut = t.data.args.tokenOut /\ e.amount = t.effect.refund
BY DEF SurplusRefundedLog

\* The planned call of an approved intent, as its verifier finds it: bound to the intent's
\* parameters.  One predicate for each kind of intent.
SameCallable(i, c) ==
  /\ PlanPayroll(i) = Some(c) /\ ~ValidateCrossToken(i.fin) /\ validatePayrollPlan(i.fin, c)
  /\ c.to = PayrollAddress /\ c.data.function = SameToken
  /\ SameOf(i.fin, c.data.args) /\ bindsSameToken(i.fin, c.data)
  /\ expectedValue(i) = 0

CrossCallable(i, c) ==
  /\ PlanPayroll(i) = Some(c) /\ ValidateCrossToken(i.fin) /\ validatePayrollPlan(i.fin, c)
  /\ c.to = PayrollAddress /\ c.data.function = CrossToken
  /\ CrossOf(i.fin, c.data.args) /\ bindsCrossToken(i.fin, c.data)
  /\ expectedValue(i) = IF i.fin.tokenIn = "USDC"
                        THEN i.fin.crossToken[1].grossInput * NativeScale ELSE 0

SwapOf(p, a) ==
  /\ p.type = "SWAP" /\ a.tokenIn = p.inputToken /\ a.tokenOut = p.outputToken
  /\ a.amountIn = p.inputAmount /\ a.minAmountOut = p.minimumOutput
  /\ a.amountIn \in Nat \ {0} /\ a.minAmountOut \in Nat \ {0}

SwapCallable(i, c) ==
  /\ PlanSwap(i) = Some(c) /\ validateSwapPlan(i.fin, c)
  /\ c.to = SwapAddress /\ c.data.function = ExecuteSwap
  /\ SwapOf(i.fin, c.data.args) /\ bindsSwap(i.fin, c.data)
  /\ expectedValue(i) = IF i.fin.inputToken = "USDC" THEN i.fin.inputAmount * NativeScale ELSE 0

SendCallable(i, q) ==
  /\ PlanSend(i) = Some(q) /\ i.fin.type = "SEND" /\ CanonicalToken(i.fin.token)
  /\ q.wallet = Wallet /\ q.destination = i.fin.recipient /\ q.token = i.fin.token
  /\ q.amount = i.fin.amount /\ i.fin.amount \in Nat \ {0}
  /\ expectedValue(i) = 0

\* What was planned has its call.
Callable(i) == \/ \E c : SameCallable(i, c)
               \/ \E c : CrossCallable(i, c)
               \/ \E c : SwapCallable(i, c)
               \/ \E q : SendCallable(i, q)

-----------------------------------------------------------------------------
(* Which verifier judges a plan.                                           *)

\* The outcome of a payroll or a swap, in terms of its verifier's comparison.
Judged(i, r, matches) == DomainOutcome(i, r) = mapDomainResult(DomainStatus(r, matches))

\* What a comparison leads to.
LEMMA JudgedAs ==
  ASSUME NEW i, NEW r, r.status = "SUCCESS", NEW matches, Judged(i, r, matches)
  PROVE  /\ DomainOutcome(i, r) = "VERIFIED" => matches
         /\ matches => DomainOutcome(i, r) # "FAILED"
         /\ matches /\ r.hasTransaction => DomainOutcome(i, r) = "VERIFIED"
<1>1. /\ mapDomainResult("VERIFIED") = "VERIFIED" /\ mapDomainResult("UNVERIFIED") = "PENDING"
      /\ mapDomainResult("FAILED") = "FAILED"
  BY SMT DEF mapDomainResult
<1>2. DomainStatus(r, matches) = IF ~r.hasTransaction THEN "UNVERIFIED"
                                 ELSE IF matches THEN "VERIFIED" ELSE "FAILED"
  BY DEF DomainStatus
<1> QED BY <1>1, <1>2 DEF Judged

\* Which comparison each kind of intent is judged by.
LEMMA SameJudged ==
  ASSUME NEW i, IntentValid(i), i.status = "APPROVED", NEW c, SameCallable(i, c), NEW r
  PROVE  Judged(i, r, sameTokenMatches(i.fin, c, r))
<1>1. PlanPayroll(i) # None /\ PlanPayroll(i)[1] = c /\ i.fin.type = "PAYROLL"
  BY Found DEF SameCallable, SameOf
<1>2. validatePayrollPlan(i.fin, c) /\ ~ValidateCrossToken(i.fin)
  BY DEF SameCallable
<1>3. DomainOutcome(i, r) = mapDomainResult(verifyPayroll(i.fin, c, r))
  BY <1>1, <1>2 DEF DomainOutcome
<1> QED BY <1>2, <1>3 DEF Judged, verifyPayroll

\* The cross-token verifier judges a cross-token payroll.
LEMMA CrossJudged ==
  ASSUME NEW i, IntentValid(i), i.status = "APPROVED", NEW c, CrossCallable(i, c), NEW r
  PROVE  Judged(i, r, crossTokenMatches(i.fin, c, r))
<1>1. PlanPayroll(i) # None /\ PlanPayroll(i)[1] = c /\ i.fin.type = "PAYROLL"
  BY Found DEF CrossCallable, CrossOf
<1>2. validatePayrollPlan(i.fin, c) /\ ValidateCrossToken(i.fin)
  BY DEF CrossCallable
<1>3. DomainOutcome(i, r) = mapDomainResult(verifyPayroll(i.fin, c, r))
  BY <1>1, <1>2 DEF DomainOutcome
<1> QED BY <1>2, <1>3 DEF Judged, verifyPayroll

\* The swap verifier judges a swap.
LEMMA SwapJudged ==
  ASSUME NEW i, IntentValid(i), i.status = "APPROVED", NEW c, SwapCallable(i, c), NEW r
  PROVE  Judged(i, r, swapMatches(i.fin, c, r))
<1>1. PlanSwap(i) # None /\ PlanSwap(i)[1] = c /\ i.fin.type = "SWAP"
  BY Found DEF SwapCallable, SwapOf
<1>2. validateSwapPlan(i.fin, c)
  BY DEF SwapCallable
<1>3. DomainOutcome(i, r) = mapDomainResult(verifySwap(i.fin, c, r))
  BY <1>1, <1>2 DEF DomainOutcome
<1> QED BY <1>3 DEF Judged, verifySwap

\* A send's verifier says yes or no.
LEMMA SendJudged ==
  ASSUME NEW i, IntentValid(i), i.status = "APPROVED", NEW q, SendCallable(i, q), NEW r
  PROVE  DomainOutcome(i, r) = IF verifySend(q, r) THEN "VERIFIED" ELSE "FAILED"
<1>1. PlanSend(i) # None /\ PlanSend(i)[1] = q /\ i.fin.type = "SEND"
  BY Found DEF SendCallable
<1> QED BY <1>1 DEF DomainOutcome

\* An outcome other than pending or an error comes from a receipt that says so: a verified
\* one from a success, a failed one from a revert or a success.
LEMMA OutcomeByReceipt ==
  ASSUME NEW i, NEW T, NEW view
  PROVE  /\ VerifyOutcome(i, TransactionReceipt(T, view)) = "VERIFIED" =>
              /\ TransactionReceipt(T, view) # None
              /\ TransactionReceipt(T, view)[1].status = "SUCCESS"
              /\ DomainOutcome(i, TransactionReceipt(T, view)[1]) = "VERIFIED"
         /\ VerifyOutcome(i, TransactionReceipt(T, view)) = "FAILED" =>
              /\ TransactionReceipt(T, view) # None
              /\ \/ TransactionReceipt(T, view)[1].status = "REVERTED"
                 \/ /\ TransactionReceipt(T, view)[1].status = "SUCCESS"
                    /\ DomainOutcome(i, TransactionReceipt(T, view)[1]) = "FAILED"
<1> DEFINE receipt == TransactionReceipt(T, view)
           status == receipt[1].status
<1> HIDE DEF receipt, status
<1>1. CASE receipt = None
  <2>1. VerifyOutcome(i, receipt) = "ERROR"
    BY <1>1 DEF VerifyOutcome
  <2> QED BY <2>1 DEF receipt
<1>2. CASE receipt # None
  <2>1. VerifyOutcome(i, receipt) = CASE status = "REVERTED" -> "FAILED"
                                      [] status = "SUCCESS"  -> DomainOutcome(i, receipt[1])
                                      [] OTHER               -> "PENDING"
    BY <1>2 DEF VerifyOutcome, status
  <2>2. CASE status = "REVERTED"
    <3>1. VerifyOutcome(i, receipt) = "FAILED"
      BY SMT, <2>1, <2>2
    <3> QED BY <1>2, <2>2, <3>1 DEF receipt, status
  <2>3. CASE status = "SUCCESS"
    <3>1. VerifyOutcome(i, receipt) = DomainOutcome(i, receipt[1])
      BY SMT, <2>1, <2>3
    <3> QED BY <1>2, <2>3, <3>1 DEF receipt, status
  <2>4. CASE status \notin {"REVERTED", "SUCCESS"}
    <3>1. VerifyOutcome(i, receipt) = "PENDING"
      BY SMT, <2>1, <2>4
    <3> QED BY <3>1 DEF receipt
  <2> QED BY <2>2, <2>3, <2>4
<1> QED BY <1>1, <1>2

-----------------------------------------------------------------------------
(* The logs of a batch that paid everyone.                                 *)

\* Where every log moved something all of them are kept.
LEMMA MadeAll ==
  ASSUME NEW s, Sequenced(s), \A k \in 1..Len(s) : s[k].amount # 0
  PROVE  Made(s) = s
<1> DEFINE N == Len(s)
           g == [k \in 1..N |-> k]
<1>1. N \in Nat /\ s = [k \in 1..N |-> s[k]] /\ DOMAIN s = 1..N
  <2>1. N \in Nat /\ s = [k \in 1..N |-> s[k]]
    BY DEF Sequenced
  <2> HIDE DEF N
  <2> QED BY <2>1
<1>2. /\ g \in [1..N -> Nat] /\ \A k \in 1..N : g[k] = k
  <2>1. 1..N \subseteq Nat
    BY SMT, <1>1
  <2> QED BY <2>1
<1>3. {k \in DOMAIN s : s[k].amount # 0} = Values(g, N)
  <2>1. Values(g, N) = 1..N
    <3> HIDE DEF g
    <3> QED BY <1>2 DEF Values
  <2> QED BY <1>1, <2>1
<1> HIDE DEF g, N
<1>4. EntriesAt(s, Values(g, N)) = Chosen(s, g, N)
  <2>1. Rising(g, N)
    BY <1>2 DEF Rising
  <2> QED BY <1>1, <2>1, EntriesInOrder
<1>5. EntriesAt(s, Values(g, N)) = s
  BY <1>1, <1>2, <1>4 DEF Chosen
<1> QED BY <1>3, <1>5 DEF Made

\* An event that occurs once.
LEMMA SingleEvent ==
  ASSUME NEW s, Sequenced(s), NEW m \in DOMAIN s, NEW address, NEW event,
         s[m].address = address, s[m].event = event,
         \A j \in DOMAIN s : s[j].event = event => j = m
  PROVE  Len(EventsOf(s, address, event)) = 1 /\ EventsOf(s, address, event)[1] = s[m]
<1> DEFINE es == EventsOf(s, address, event)
<1>1. At(s, address, event) = {m}
  BY DEF At
<1>2. Cardinality({m}) = 1
  BY FS_Singleton
<1>3. Len(es) = 1
  <2>1. Len(es) = Cardinality(At(s, address, event))
    BY EventsFrom
  <2> QED BY <1>1, <1>2, <2>1
<1>4. Among(es[1], s) /\ es[1].event = event
  BY SMT, <1>3, OneEvent
<1> HIDE DEF es
<1>5. es[1] = s[m]
  BY <1>4 DEF Among
<1> QED BY <1>3, <1>5 DEF es

\* An event that does not occur.
LEMMA NoEvent ==
  ASSUME NEW s, Sequenced(s), NEW address, NEW event, \A j \in DOMAIN s : s[j].event # event
  PROVE  EventsOf(s, address, event) = <<>>
<1> DEFINE es == EventsOf(s, address, event)
<1>1. At(s, address, event) = {}
  BY DEF At
<1>2. Cardinality({}) = 0
  BY FS_EmptySet
<1>3. Len(es) = 0 /\ Sequenced(es)
  <2>1. Len(es) = Cardinality(At(s, address, event)) /\ Sequenced(es)
    BY EventsFrom
  <2> QED BY <1>1, <1>2, <2>1
<1> HIDE DEF es
<1>4. es = [k \in 1..0 |-> es[k]]
  BY <1>3 DEF Sequenced
<1>5. es = <<>>
  BY SMT, <1>4
<1> QED BY <1>5 DEF es

\* A batch's logs where everyone was paid something, after `o` others.
Laid(logs, o, t, tokenIn, tokenOut, totalIn, n) ==
  /\ Sequenced(logs) /\ o + 2 * n + 2 <= Len(logs)
  /\ \A k \in 1..n : logs[o + 2 * k] = PaymentLog(t, tokenOut, k)
  /\ \A k \in 1..n : logs[o + 2 * k - 1].event = "Transfer"
  /\ logs[o + 2 * n + 1] = ReferenceLog(t, tokenIn, tokenOut, totalIn)
  /\ logs[o + 2 * n + 2] = BatchLog(t, tokenIn, tokenOut, totalIn)
  /\ \A j \in 1..Len(logs) : j \notin (o + 1)..(o + 2 * n + 2) =>
       logs[j].event \in {"SwapExecuted", "SurplusRefunded"}

\* The positions of a batch's logs.
LEMMA Offsets ==
  ASSUME NEW o \in Nat, NEW n \in Nat, NEW j \in (o + 1)..(o + 2 * n + 2)
  PROVE  \/ \E k \in 1..n : j = o + 2 * k
         \/ \E k \in 1..n : j = o + 2 * k - 1
         \/ j = o + 2 * n + 1
         \/ j = o + 2 * n + 2
<1> DEFINE m == j - o
           k == (m + 1) \div 2
<1>1. m \in 1..(2 * n + 2) /\ j = o + m
  BY SMT
<1>2. CASE m \in 1..(2 * n)
  <2>1. k \in 1..n /\ (m = 2 * k \/ m = 2 * k - 1)
    <3> HIDE DEF m
    <3> QED BY SMT, <1>2
  <2>2. j = o + 2 * k \/ j = o + 2 * k - 1
    <3> HIDE DEF k
    <3> QED BY SMT, <1>1, <2>1
  <2> QED BY <2>1, <2>2
<1>3. CASE m \notin 1..(2 * n)
  <2>1. m = 2 * n + 1 \/ m = 2 * n + 2
    BY SMT, <1>1, <1>3
  <2>2. j = o + 2 * n + 1 \/ j = o + 2 * n + 2
    <3> HIDE DEF m
    <3> QED BY SMT, <1>1, <2>1
  <2> QED BY <2>2
<1> QED BY <1>2, <1>3

\* Each event of a laid-out batch has its places.
LEMMA LaidKinds ==
  ASSUME NEW logs, NEW o \in Nat, NEW t, NEW tokenIn, NEW tokenOut, NEW totalIn, NEW n \in Nat,
         Laid(logs, o, t, tokenIn, tokenOut, totalIn, n), NEW j \in 1..Len(logs)
  PROVE  /\ logs[j].event = "Payment" => \E k \in 1..n : j = o + 2 * k
         /\ logs[j].event = "ReferenceConsumed" => j = o + 2 * n + 1
         /\ logs[j].event = "BatchExecuted" => j = o + 2 * n + 2
         /\ logs[j].event \in {"SwapExecuted", "SurplusRefunded"} =>
              j \notin (o + 1)..(o + 2 * n + 2)
<1>1. CASE j \notin (o + 1)..(o + 2 * n + 2)
  <2>1. logs[j].event \in {"SwapExecuted", "SurplusRefunded"}
    BY <1>1 DEF Laid
  <2> QED BY <1>1, <2>1
<1>2. ASSUME NEW k \in 1..n, j = o + 2 * k PROVE logs[j].event = "Payment"
  <2>1. logs[j] = PaymentLog(t, tokenOut, k)
    BY <1>2 DEF Laid
  <2> QED BY SMT, <2>1, PayrollLogFields
<1>3. ASSUME NEW k \in 1..n, j = o + 2 * k - 1 PROVE logs[j].event = "Transfer"
  BY <1>3 DEF Laid
<1>4. ASSUME j = o + 2 * n + 1 PROVE logs[j].event = "ReferenceConsumed"
  <2>1. logs[j] = ReferenceLog(t, tokenIn, tokenOut, totalIn)
    BY <1>4 DEF Laid
  <2> QED BY SMT, <2>1, TotalsLogFields DEF ReferenceLog
<1>5. ASSUME j = o + 2 * n + 2 PROVE logs[j].event = "BatchExecuted"
  <2>1. logs[j] = BatchLog(t, tokenIn, tokenOut, totalIn)
    BY <1>5 DEF Laid
  <2> QED BY SMT, <2>1, TotalsLogFields DEF BatchLog
<1>6. CASE j \in (o + 1)..(o + 2 * n + 2)
  <2>1. \/ \E k \in 1..n : j = o + 2 * k
        \/ \E k \in 1..n : j = o + 2 * k - 1
        \/ j = o + 2 * n + 1
        \/ j = o + 2 * n + 2
    BY <1>6, Offsets
  <2> QED BY <1>2, <1>3, <1>4, <1>5, <2>1
<1> QED BY <1>1, <1>6

\* The payments are these, in order.
Paying(payments, t, tokenOut, n) ==
  /\ Len(payments) = n /\ DOMAIN payments = 1..n
  /\ \A k \in 1..n : payments[k] = PaymentLog(t, tokenOut, k)

\* The one event is this one.
Only(es, e) == Len(es) = 1 /\ es[1] = e

\* The verifiers find the payments of a laid-out batch in order, and its totals.
LEMMA LaidEvents ==
  ASSUME NEW logs, NEW o \in Nat, NEW t, NEW tokenIn, NEW tokenOut, NEW totalIn, NEW n \in Nat,
         Laid(logs, o, t, tokenIn, tokenOut, totalIn, n)
  PROVE  /\ Paying(EventsOf(logs, t.to, "Payment"), t, tokenOut, n)
         /\ Only(EventsOf(logs, t.to, "ReferenceConsumed"),
                 ReferenceLog(t, tokenIn, tokenOut, totalIn))
         /\ Only(EventsOf(logs, t.to, "BatchExecuted"), BatchLog(t, tokenIn, tokenOut, totalIn))
<1> DEFINE L == Len(logs)
           g == [k \in 1..n |-> o + 2 * k]
           ref == o + 2 * n + 1
           batch == o + 2 * n + 2
<1>1. Sequenced(logs) /\ DOMAIN logs = 1..L /\ L \in Nat /\ o + 2 * n + 2 <= L
  <2>1. Sequenced(logs) /\ L \in Nat /\ logs = [k \in 1..L |-> logs[k]] /\ o + 2 * n + 2 <= L
    BY DEF Laid, Sequenced
  <2> HIDE DEF L
  <2> QED BY <2>1
<1>2. ref \in 1..L /\ batch \in 1..L /\ \A k \in 1..n : o + 2 * k \in 1..L
  <2> HIDE DEF L
  <2> QED BY SMT, <1>1
<1>3. Rising(g, n) /\ \A k \in 1..n : g[k] = o + 2 * k
  BY SMT DEF Rising
<1>4. At(logs, t.to, "Payment") = Values(g, n)
  <2>1. ASSUME NEW j \in At(logs, t.to, "Payment") PROVE j \in Values(g, n)
    <3>1. j \in 1..Len(logs) /\ logs[j].event = "Payment"
      BY <1>1, <2>1 DEF At
    <3> HIDE DEF g
    <3>2. \E k \in 1..n : j = o + 2 * k
      BY SMT, <3>1, LaidKinds
    <3> QED BY <1>3, <3>2 DEF Values
  <2>2. ASSUME NEW k \in 1..n PROVE g[k] \in At(logs, t.to, "Payment")
    <3>1. logs[o + 2 * k] = PaymentLog(t, tokenOut, k)
      BY DEF Laid
    <3>2. /\ PaymentLog(t, tokenOut, k).address = t.to
          /\ PaymentLog(t, tokenOut, k).event = "Payment"
      BY SMT, PayrollLogFields
    <3> HIDE DEF g, L
    <3> QED BY <1>1, <1>2, <1>3, <3>1, <3>2 DEF At
  <2> HIDE DEF g
  <2> QED BY <2>1, <2>2 DEF Values
<1>5. EventsOf(logs, t.to, "Payment") = Chosen(logs, g, n)
  <2>1. EventsOf(logs, t.to, "Payment") = EntriesAt(logs, At(logs, t.to, "Payment"))
    BY DEF EventsOf, At
  <2> HIDE DEF g
  <2> QED BY <1>3, <1>4, <2>1, EntriesInOrder
<1> HIDE DEF g
<1>6. Paying(EventsOf(logs, t.to, "Payment"), t, tokenOut, n)
  <2>1. Chosen(logs, g, n) = [k \in 1..n |-> logs[g[k]]]
    BY DEF Chosen
  <2>2. \A k \in 1..n : logs[g[k]] = PaymentLog(t, tokenOut, k)
    BY <1>3 DEF Laid
  <2>3. DOMAIN Chosen(logs, g, n) = 1..n
    BY <2>1
  <2>4. Len(Chosen(logs, g, n)) = n
    BY SMT, <2>3
  <2>5. \A k \in 1..n : Chosen(logs, g, n)[k] = PaymentLog(t, tokenOut, k)
    BY <2>1, <2>2
  <2> QED BY <1>5, <2>3, <2>4, <2>5 DEF Paying
<1> HIDE DEF ref, batch, L
<1>7. Only(EventsOf(logs, t.to, "ReferenceConsumed"), ReferenceLog(t, tokenIn, tokenOut, totalIn))
  <2>1. logs[ref] = ReferenceLog(t, tokenIn, tokenOut, totalIn) /\ ref \in DOMAIN logs
    BY <1>1, <1>2 DEF Laid, ref
  <2>2. logs[ref].address = t.to /\ logs[ref].event = "ReferenceConsumed"
    BY SMT, <2>1, TotalsLogFields DEF ReferenceLog
  <2>3. \A j \in DOMAIN logs : logs[j].event = "ReferenceConsumed" => j = ref
    BY SMT, <1>1, LaidKinds DEF ref, L
  <2> QED BY SMT, <1>1, <2>1, <2>2, <2>3, SingleEvent DEF Only
<1>8. Only(EventsOf(logs, t.to, "BatchExecuted"), BatchLog(t, tokenIn, tokenOut, totalIn))
  <2>1. logs[batch] = BatchLog(t, tokenIn, tokenOut, totalIn) /\ batch \in DOMAIN logs
    BY <1>1, <1>2 DEF Laid, batch
  <2>2. logs[batch].address = t.to /\ logs[batch].event = "BatchExecuted"
    BY SMT, <2>1, TotalsLogFields DEF BatchLog
  <2>3. \A j \in DOMAIN logs : logs[j].event = "BatchExecuted" => j = batch
    BY SMT, <1>1, LaidKinds DEF batch, L
  <2> QED BY SMT, <1>1, <2>1, <2>2, <2>3, SingleEvent DEF Only
<1> QED BY <1>6, <1>7, <1>8

\* st is s and then t.
Joined(st, s, t) == /\ Sequenced(st) /\ Len(st) = Len(s) + Len(t)
                    /\ \A k \in 1..Len(s) : st[k] = s[k]
                    /\ \A k \in 1..Len(t) : st[Len(s) + k] = t[k]

\* Where the parts of a concatenation are.
LEMMA ConcatParts ==
  ASSUME NEW s, NEW t, Sequenced(s), Sequenced(t)
  PROVE  Joined(s \o t, s, t)
<1> DEFINE m == Len(s)
           n == Len(t)
           st == s \o t
<1>1. /\ Sequenced(st) /\ Len(st) = m + n
      /\ \A k \in 1..(m + n) : st[k] = IF k <= m THEN s[k] ELSE t[k - m]
  BY ConcatFrom
<1>2. m \in Nat /\ n \in Nat
  BY DEF Sequenced
<1> HIDE DEF m, n, st
<1>3. ASSUME NEW k \in 1..m PROVE st[k] = s[k]
  <2>1. k \in 1..(m + n) /\ k <= m
    BY SMT, <1>2
  <2> QED BY <1>1, <2>1
<1>4. ASSUME NEW k \in 1..n PROVE st[m + k] = t[k]
  <2> DEFINE j == m + k
  <2>1. j \in 1..(m + n) /\ (j <= m) = FALSE /\ j - m = k
    BY SMT, <1>2
  <2> HIDE DEF j
  <2>2. st[j] = t[j - m]
    BY <1>1, <2>1
  <2> QED BY <2>1, <2>2 DEF j
<1> QED BY <1>1, <1>3, <1>4 DEF m, n, st, Joined

\* Where every recipient was paid, no log of a batch is missing.
LEMMA PaymentLogsMade ==
  ASSUME NEW t, NEW tokenOut, NEW n \in Nat, n = Len(t.data.args.recipients),
         \A k \in 1..n : t.effect.paid[k] # 0
  PROVE  Made(PaymentLogs(t, tokenOut)) = PaymentLogs(t, tokenOut)
<1> DEFINE s == PaymentLogs(t, tokenOut)
<1>1. Sequenced(s) /\ Len(s) = 2 * n
  BY PaymentLogsFrom
<1>2. ASSUME NEW k \in 1..n PROVE s[2 * k].amount # 0
  <2>1. s[2 * k] = PaymentLog(t, tokenOut, k)
    BY PaymentLogsFrom
  <2> QED BY SMT, <2>1, PayrollLogFields
<1>3. ASSUME NEW k \in 1..n PROVE s[2 * k - 1].amount # 0
  <2>1. s[2 * k - 1] = Transfer(tokenOut, t.to, t.data.args.recipients[k], t.effect.paid[k])
    BY PaymentLogsFrom
  <2> QED BY SMT, <2>1, TransferFields
<1> HIDE DEF s
<1>4. ASSUME NEW m \in 1..(2 * n) PROVE s[m].amount # 0
  <2>1. PICK k \in 1..n : m = 2 * k \/ m = 2 * k - 1
    BY <1>4, Paired
  <2> QED BY <1>2, <1>3, <2>1
<1> QED BY <1>1, <1>4, MadeAll DEF s

\* The logs of a batch that paid everyone.
LEMMA PayrollLaid ==
  ASSUME NEW t, NEW tokenIn, NEW tokenOut, NEW totalIn, NEW n \in Nat,
         n = Len(t.data.args.recipients), \A k \in 1..n : t.effect.paid[k] # 0
  PROVE  LET logs == PayrollLogs(t, tokenIn, tokenOut, totalIn)
         IN Laid(logs, 0, t, tokenIn, tokenOut, totalIn, n) /\ Len(logs) = 2 * n + 2
<1> DEFINE ref == ReferenceLog(t, tokenIn, tokenOut, totalIn)
           batch == BatchLog(t, tokenIn, tokenOut, totalIn)
           totals == <<ref, batch>>
           s == PaymentLogs(t, tokenOut)
           logs == s \o totals
           N == 2 * n
<1>1. PayrollLogs(t, tokenIn, tokenOut, totalIn) = logs
  <2>1. PayrollLogs(t, tokenIn, tokenOut, totalIn) = Made(s) \o totals
    BY DEF PayrollLogs, ReferenceLog, BatchLog
  <2>2. Made(s) = s
    BY PaymentLogsMade
  <2> QED BY <2>1, <2>2
<1>2. Sequenced(totals) /\ Len(totals) = 2 /\ totals[1] = ref /\ totals[2] = batch
  <2> HIDE DEF ref, batch
  <2> QED BY FewEntries
<1>3. Sequenced(s) /\ Len(s) = N
  BY PaymentLogsFrom
<1>4. ASSUME NEW k \in 1..n
      PROVE  s[2 * k] = PaymentLog(t, tokenOut, k) /\ s[2 * k - 1].event = "Transfer"
  <2>1. /\ s[2 * k] = PaymentLog(t, tokenOut, k)
        /\ s[2 * k - 1] = Transfer(tokenOut, t.to, t.data.args.recipients[k], t.effect.paid[k])
    BY PaymentLogsFrom
  <2> QED BY SMT, <2>1, TransferFields
<1> HIDE DEF ref, batch, totals, s
<1>5. N \in Nat
  BY SMT
<1>6. Joined(logs, s, totals)
  BY <1>2, <1>3, ConcatParts
<1> HIDE DEF logs, N
<1>7. /\ Sequenced(logs) /\ Len(logs) = N + 2
      /\ \A m \in 1..N : logs[m] = s[m]
      /\ logs[N + 1] = ref /\ logs[N + 2] = batch
  <2>1. 1 \in 1..2 /\ 2 \in 1..2
    BY SMT
  <2> QED BY <1>2, <1>3, <1>6, <2>1 DEF Joined
<1>8. ASSUME NEW k \in 1..n
      PROVE  logs[0 + 2 * k] = PaymentLog(t, tokenOut, k) /\ logs[0 + 2 * k - 1].event = "Transfer"
  <2>1. 2 * k \in 1..N /\ 2 * k - 1 \in 1..N
    BY Paired DEF N
  <2>2. logs[2 * k] = s[2 * k] /\ logs[2 * k - 1] = s[2 * k - 1]
    BY <1>7, <2>1
  <2>3. 0 + 2 * k = 2 * k /\ 0 + 2 * k - 1 = 2 * k - 1
    BY SMT
  <2> QED BY <1>4, <2>2, <2>3
<1>9. /\ 0 + N + 1 = N + 1 /\ 0 + N + 2 = N + 2 /\ N + 2 <= N + 2
      /\ (0 + 1)..(N + 2) = 1..(N + 2)
  BY SMT, <1>5
<1>10. Laid(logs, 0, t, tokenIn, tokenOut, totalIn, n)
  BY <1>7, <1>8, <1>9 DEF Laid, ref, batch, N
<1> QED BY <1>1, <1>7, <1>10 DEF N, logs

\* Refunds are all that comes last.
Refunds(back) == Sequenced(back) /\ \A x : Among(x, back) => x.event = "SurplusRefunded"

\* Where the event before a batch's and those after it are.
Around(logs, e, back, n) == /\ Len(logs) = 2 * n + 3 + Len(back) /\ logs[1] = e
                            /\ \A k \in 1..Len(back) : logs[2 * n + 3 + k] = back[k]

\* A batch's logs between the swap's event and the refund's.
LEMMA LaidAfter ==
  ASSUME NEW body, NEW t, NEW tokenIn, NEW tokenOut, NEW totalIn, NEW n \in Nat,
         Laid(body, 0, t, tokenIn, tokenOut, totalIn, n), Len(body) = 2 * n + 2,
         NEW e, e.event = "SwapExecuted",
         NEW back, Refunds(back),
         NEW logs, logs = (<<e>> \o body) \o back
  PROVE  Laid(logs, 1, t, tokenIn, tokenOut, totalIn, n) /\ Around(logs, e, back, n)
<1> DEFINE front == <<e>>
           fb == front \o body
           N == 2 * n
           B == Len(back)
<1>1. Sequenced(front) /\ Len(front) = 1 /\ front[1] = e
  BY FewEntries
<1>2. Sequenced(body) /\ N \in Nat /\ B \in Nat
  <2>1. N \in Nat
    BY SMT
  <2> QED BY <2>1 DEF Laid, Sequenced, Refunds
<1> HIDE DEF front
<1>3. /\ Sequenced(fb) /\ Len(fb) = N + 3 /\ fb[1] = e
      /\ \A m \in 1..(N + 2) : fb[1 + m] = body[m]
  <2>1. Joined(fb, front, body)
    BY <1>1, <1>2, ConcatParts
  <2>2. 1 + (N + 2) = N + 3 /\ 1 \in 1..1
    BY SMT, <1>2
  <2> HIDE DEF fb, N
  <2>3. Len(body) = N + 2
    BY DEF N
  <2> QED BY <1>1, <2>1, <2>2, <2>3 DEF Joined
<1> HIDE DEF fb, N, B
<1>4. /\ Sequenced(logs) /\ Len(logs) = N + 3 + B
      /\ \A m \in 1..(N + 3) : logs[m] = fb[m]
      /\ \A k \in 1..B : logs[N + 3 + k] = back[k]
  <2>1. logs = fb \o back
    BY DEF fb, front
  <2>2. Joined(logs, fb, back)
    BY <1>3, <2>1, ConcatParts DEF Refunds
  <2> QED BY <1>3, <2>2 DEF B, Joined
<1>5. logs[1] = e
  <2>1. 1 \in 1..(N + 3)
    BY SMT, <1>2
  <2> QED BY <1>3, <1>4, <2>1
<1>6. ASSUME NEW m \in 1..(N + 2) PROVE logs[1 + m] = body[m]
  <2>1. 1 + m \in 1..(N + 3)
    BY SMT, <1>2
  <2> QED BY <1>3, <1>4, <2>1
<1>7. \A k \in 1..B : logs[N + 3 + k] = back[k]
  BY <1>4
<1>8. ASSUME NEW k \in 1..n
      PROVE  /\ logs[1 + 2 * k] = PaymentLog(t, tokenOut, k)
             /\ logs[1 + 2 * k - 1].event = "Transfer"
  <2>1. /\ 2 * k \in 1..(N + 2) /\ 2 * k - 1 \in 1..(N + 2) /\ 0 + 2 * k = 2 * k
        /\ 0 + 2 * k - 1 = 2 * k - 1 /\ 1 + 2 * k - 1 = 1 + (2 * k - 1)
    BY SMT DEF N
  <2>2. body[2 * k] = PaymentLog(t, tokenOut, k) /\ body[2 * k - 1].event = "Transfer"
    BY <2>1 DEF Laid
  <2> QED BY <1>6, <2>1, <2>2
<1>9. /\ logs[1 + N + 1] = ReferenceLog(t, tokenIn, tokenOut, totalIn)
      /\ logs[1 + N + 2] = BatchLog(t, tokenIn, tokenOut, totalIn)
  <2>1. /\ N + 1 \in 1..(N + 2) /\ N + 2 \in 1..(N + 2) /\ 0 + N + 1 = N + 1 /\ 0 + N + 2 = N + 2
        /\ 1 + N + 1 = 1 + (N + 1) /\ 1 + N + 2 = 1 + (N + 2)
    BY SMT, <1>2
  <2>2. /\ body[N + 1] = ReferenceLog(t, tokenIn, tokenOut, totalIn)
        /\ body[N + 2] = BatchLog(t, tokenIn, tokenOut, totalIn)
    BY <2>1 DEF Laid, N
  <2> QED BY <1>6, <2>1, <2>2
<1>10. ASSUME NEW j \in 1..Len(logs), j \notin (1 + 1)..(1 + N + 2)
       PROVE  logs[j].event \in {"SwapExecuted", "SurplusRefunded"}
  <2>1. j = 1 \/ \E k \in 1..B : j = N + 3 + k
    <3>1. j = 1 \/ (j - (N + 3) \in 1..B /\ j = N + 3 + (j - (N + 3)))
      BY SMT, <1>2, <1>4, <1>10
    <3> QED BY <3>1
  <2>2. ASSUME NEW k \in 1..B PROVE back[k].event = "SurplusRefunded"
    <3>1. k \in DOMAIN back
      <4>1. back = [m \in 1..B |-> back[m]]
        BY DEF Sequenced, Refunds, B
      <4> QED BY <4>1
    <3>2. Among(back[k], back)
      BY <3>1 DEF Among
    <3> QED BY <3>2 DEF Refunds
  <2> QED BY <1>5, <1>7, <2>1, <2>2
<1>11. 1 + N + 2 <= Len(logs)
  BY SMT, <1>2, <1>4
<1>12. Laid(logs, 1, t, tokenIn, tokenOut, totalIn, n)
  BY <1>4, <1>8, <1>9, <1>10, <1>11 DEF Laid, N
<1> QED BY <1>4, <1>5, <1>7, <1>12 DEF N, B, Around

-----------------------------------------------------------------------------
(* Completeness: what did as approved is accepted.                         *)

\* The call of an intent, by its type.
LEMMA CallByType ==
  ASSUME NEW i
  PROVE  /\ i.fin.type = "PAYROLL" => CallOf(i) = PlanPayroll(i)[1]
         /\ i.fin.type = "SWAP" => CallOf(i) = PlanSwap(i)[1]
         /\ i.fin.type = "SEND" =>
              /\ CallOf(i).to = i.fin.token /\ CallOf(i).data.function = "transfer"
              /\ CallOf(i).data.args = [recipient |-> i.fin.recipient, amount |-> i.fin.amount]
BY SMT DEF CallOf

\* A transfer of the approved amount is what the send verifier looks for.
LEMMA SendComplete ==
  ASSUME NEW i, NEW q, SendCallable(i, q), NEW t, Faithful(i, t), NEW r, OfTransaction(r, t),
         r.status = "SUCCESS", r.hasTransaction
  PROVE  verifySend(q, r)
<1> DEFINE p == i.fin
           args == [recipient |-> p.recipient, amount |-> p.amount]
           made == Transfer(t.to, t.from, t.data.args.recipient, t.effect.paid[1])
<1>1. /\ p.type = "SEND" /\ CanonicalToken(p.token) /\ p.amount # 0 /\ expectedValue(i) = 0
      /\ q.wallet = Wallet /\ q.destination = p.recipient /\ q.token = p.token /\ q.amount = p.amount
  BY DEF SendCallable
<1>2. t.to = p.token /\ t.data.function = "transfer" /\ t.data.args = args /\ t.value = 0
  BY <1>1, CallByType DEF Faithful
<1>3. t.data.args.recipient = p.recipient
  BY SMT, <1>2
<1>4. t.from = Wallet /\ Credited(t) = <<Credit(p.recipient, p.token, p.amount)>>
  BY SMT, <1>1, PaidByType DEF Faithful
<1> HIDE DEF args
<1>5. t.effect.paid[1] = p.amount
  <2>1. t.to # Elsewhere
    BY <1>1, <1>2 DEF CanonicalToken, Elsewhere
  <2> DEFINE x == Credit(t.data.args.recipient, t.to, t.effect.paid[1])
             y == Credit(p.recipient, p.token, p.amount)
  <2>2. Credited(t) = <<x>>
    BY SMT, <1>2, <2>1, CreditedByFunction
  <2>3. x = y
    <3> HIDE DEF x, y
    <3>1. <<x>>[1] = x /\ <<y>>[1] = y
      BY FewEntries
    <3>2. <<x>> = <<y>>
      BY <1>4, <2>2 DEF y
    <3> QED BY <3>1, <3>2
  <2> QED BY SMT, <2>3, CreditParts
<1>6. r.logs = Made(<<made>>)
  <2>1. LogsOf(t) = Made(<<made>>)
    BY SMT, <1>2, LogsByFunction
  <2> QED BY <2>1 DEF OfTransaction
<1>7. /\ made.address = p.token /\ made.event = "Transfer" /\ made.from = Wallet
      /\ made.to = p.recipient /\ made.amount = p.amount
  BY SMT, <1>2, <1>3, <1>4, <1>5, TransferFields
<1> HIDE DEF made
<1>8. 1 \in DOMAIN r.logs /\ r.logs[1] = made
  <2>1. made.amount # 0
    BY <1>1, <1>7
  <2>2. Sequenced(Made(<<made>>)) /\ Len(Made(<<made>>)) = 1 /\ Made(<<made>>)[1] = made
    BY <2>1, MadeOne
  <2>3. Sequenced(r.logs) /\ Len(r.logs) = 1 /\ r.logs[1] = made
    BY <1>6, <2>2
  <2> QED BY SMT, <2>3 DEF Sequenced
<1>9. hasTransferEvent(r.logs, p.token, Wallet, p.recipient, p.amount)
  BY <1>7, <1>8 DEF hasTransferEvent
<1>10. decodeTransfer(r.data) = Some(args)
  BY <1>2 DEF OfTransaction, decodeTransfer
<1>11. r.from = Wallet /\ r.to = p.token /\ r.value = 0
  BY <1>2, <1>4 DEF OfTransaction
<1>12. Some([recipient |-> q.destination, amount |-> q.amount]) = Some(args)
  BY <1>1 DEF args
<1> QED BY <1>1, <1>9, <1>10, <1>11, <1>12 DEF verifySend

\* A swap that brought the approved output is what the swap verifier looks for.
LEMMA SwapComplete ==
  ASSUME NEW i, NEW c, SwapCallable(i, c), NEW t, Faithful(i, t), t.effect \in Effects(t.data),
         NEW r, OfTransaction(r, t), ValidateLogs(r.logs)
  PROVE  swapMatches(i.fin, c, r)
<1> DEFINE p == i.fin
           a == t.data.args
           e == MainnetSwapExecutedLog(t)
           made == Transfer(a.tokenOut, t.to, t.from, t.effect.paid[1])
           executed == EventsOf(r.logs, SwapAddress, "MainnetSwapExecuted")
<1>1. /\ p.type = "SWAP" /\ c.to = SwapAddress /\ c.data.function = ExecuteSwap
      /\ SwapOf(p, c.data.args) /\ bindsSwap(p, c.data)
      /\ expectedValue(i) = IF p.inputToken = "USDC" THEN p.inputAmount * NativeScale ELSE 0
  BY DEF SwapCallable, SwapOf
<1>2. CallOf(i) = c
  <2>1. PlanSwap(i)[1] = c
    BY Found DEF SwapCallable
  <2> QED BY <1>1, <2>1, CallByType
<1>3. /\ t.to = SwapAddress /\ t.data = c.data /\ t.value = expectedValue(i)
      /\ PaidAsApproved(i, t) /\ CostAsApproved(i, t)
  BY <1>1, <1>2 DEF Faithful
<1>4. t.from = Wallet /\ t.effect.paid[1] >= p.minimumOutput
  BY SMT, <1>1, <1>3, PaidByType
<1>5. t.effect.fee * 10000 <= p.inputAmount * MaxFeeBPS
  BY SMT, <1>1, <1>3, CostByType
<1>6. t.data.function = ExecuteSwap /\ SwapOf(p, a)
  BY <1>1, <1>3
<1>7. /\ a.tokenIn = p.inputToken /\ a.tokenOut = p.outputToken
      /\ a.amountIn = p.inputAmount /\ a.minAmountOut = p.minimumOutput
      /\ p.inputAmount \in Nat /\ p.minimumOutput \in Nat \ {0}
  BY <1>6 DEF SwapOf
<1>8. t.effect.fee \in Nat /\ t.effect.paid[1] = t.effect.out /\ t.effect.paid[1] # 0
  <2>1. t.effect \in SwapEffects(a)
    BY <1>6, EffectsByFunction
  <2>2. t.effect.fee \in Nat /\ (t.effect.paid = <<0>> \/ t.effect.paid = <<t.effect.out>>)
    BY <1>7, <2>1, SwapEffectsOf
  <2>3. t.effect.paid[1] # 0
    BY SMT, <1>4, <1>7
  <2> QED BY SMT, <2>2, <2>3
<1>9. /\ e.address = SwapAddress /\ e.event = "MainnetSwapExecuted" /\ e.caller = Wallet
      /\ e.tokenIn = p.inputToken /\ e.tokenOut = p.outputToken
      /\ e.amountIn = p.inputAmount /\ e.feeAmount = t.effect.fee
      /\ e.netAmountIn = p.inputAmount - t.effect.fee
      /\ e.amountOut = t.effect.out /\ e.minAmountOut = p.minimumOutput
  BY <1>3, <1>4, <1>7, SwapLogFields
<1>10. /\ made.address = p.outputToken /\ made.event = "Transfer" /\ made.to = Wallet
       /\ made.amount = t.effect.out /\ made.amount # 0
  BY SMT, <1>4, <1>7, <1>8, TransferFields
<1>11. r.logs = <<e>> \o Made(<<made>>)
  <2>1. LogsOf(t) = SwapLogs(t)
    BY <1>6, LogsByFunction
  <2> QED BY <2>1 DEF OfTransaction, SwapLogs
<1> HIDE DEF e, made
<1>12. /\ Sequenced(r.logs) /\ DOMAIN r.logs = 1..2 /\ r.logs[1] = e /\ r.logs[2] = made
  <2> DEFINE s1 == <<e>>
             s2 == Made(<<made>>)
  <2>1. Sequenced(s1) /\ Len(s1) = 1 /\ s1[1] = e
    BY FewEntries
  <2>2. Sequenced(s2) /\ Len(s2) = 1 /\ s2[1] = made
    BY <1>10, MadeOne
  <2>3. r.logs = s1 \o s2
    BY <1>11
  <2> HIDE DEF s1, s2
  <2>4. Joined(r.logs, s1, s2)
    BY <2>1, <2>2, <2>3, ConcatParts
  <2>5. /\ Sequenced(r.logs) /\ Len(r.logs) = 1 + 1 /\ (\A k \in 1..1 : r.logs[k] = s1[k])
        /\ \A k \in 1..1 : r.logs[1 + k] = s2[k]
    BY <2>1, <2>2, <2>4 DEF Joined
  <2>6. DOMAIN r.logs = 1..Len(r.logs)
    BY <2>5 DEF Sequenced
  <2> QED BY SMT, <2>1, <2>2, <2>5, <2>6
<1>13. Len(executed) = 1 /\ executed[1] = e
  <2>1. 1 \in DOMAIN r.logs /\ \A j \in DOMAIN r.logs : j = 1 \/ j = 2
    BY SMT, <1>12
  <2>2. \A j \in DOMAIN r.logs : r.logs[j].event = "MainnetSwapExecuted" => j = 1
    BY <1>10, <1>12, <2>1
  <2> QED BY SMT, <1>9, <1>12, <2>1, <2>2, SingleEvent
<1>14. hasOutputTransfer(r.logs, p.outputToken, Wallet, t.effect.out)
  <2>1. 2 \in DOMAIN r.logs
    BY SMT, <1>12
  <2> QED BY <1>10, <1>12, <2>1 DEF hasOutputTransfer
<1> HIDE DEF executed
<1>15. /\ executed[1].amountOut >= p.minimumOutput
       /\ executed[1].netAmountIn + executed[1].feeAmount = p.inputAmount
       /\ executed[1].feeAmount * 10000 <= p.inputAmount * MaxFeeBPS
  BY SMT, <1>4, <1>5, <1>7, <1>8, <1>9, <1>13
<1>16. /\ r.from = Wallet /\ r.to = SwapAddress /\ r.data = c.data /\ bindsSwap(p, r.data)
       /\ r.value = IF p.inputToken = "USDC" THEN p.inputAmount * NativeScale ELSE 0
  BY <1>1, <1>3, <1>4 DEF OfTransaction
<1>17. /\ executed[1].caller = Wallet
       /\ executed[1].tokenIn = p.inputToken /\ executed[1].tokenOut = p.outputToken
       /\ executed[1].amountIn = p.inputAmount /\ executed[1].minAmountOut = p.minimumOutput
       /\ hasOutputTransfer(r.logs, p.outputToken, Wallet, executed[1].amountOut)
  BY <1>9, <1>13, <1>14
<1> QED BY SMT, <1>13, <1>15, <1>16, <1>17 DEF swapMatches, executed

\* A payroll's call.
LEMMA PayrollCalled ==
  ASSUME NEW i, i.fin.type = "PAYROLL", NEW c, PlanPayroll(i) = Some(c), c.to = PayrollAddress,
         NEW t, Faithful(i, t)
  PROVE  /\ t.to = PayrollAddress /\ t.data = c.data /\ t.value = expectedValue(i)
         /\ t.from = Wallet /\ Credited(t) = ApprovedLines(i.fin) /\ CostAsApproved(i, t)
         /\ t.to # Elsewhere
<1>1. PlanPayroll(i)[1] = c
  BY Found
<1>2. CallOf(i) = c
  BY <1>1, CallByType
<1>3. /\ t.to = c.to /\ t.data = c.data /\ t.value = expectedValue(i)
      /\ PaidAsApproved(i, t) /\ CostAsApproved(i, t)
  BY <1>2 DEF Faithful
<1>4. t.from = Wallet /\ Credited(t) = ApprovedLines(i.fin)
  BY SMT, <1>3, PaidByType
<1>5. t.to # Elsewhere
  BY <1>3 DEF PayrollAddress, Elsewhere
<1> QED BY <1>3, <1>4, <1>5

\* A batch whose recipients were credited as approved was paid in full.
LEMMA PaidInFull ==
  ASSUME NEW p, NEW t, NEW amounts, NEW tokenOut, BatchOf(p, t.data.args, amounts, tokenOut),
         PaidLines(t, tokenOut) = ApprovedLines(p), t.effect.paid \in Payments(amounts)
  PROVE  /\ PaidEach(t, Len(p.recipients), amounts) /\ SumOf(t.effect.paid) = p.total
         /\ \A k \in 1..Len(p.recipients) : t.effect.paid[k] # 0
<1> DEFINE n == Len(p.recipients)
<1>1. PaidEach(t, n, amounts)
  BY LinesAgree
<1>2. /\ amounts = [k \in 1..n |-> amounts[k]] /\ p.total = SumOf(amounts)
      /\ \A k \in 1..n : amounts[k] # 0
  BY DEF BatchOf
<1> HIDE DEF n
<1>3. t.effect.paid = [k \in 1..n |-> t.effect.paid[k]]
  BY <1>2, PaymentsOver
<1>4. \A k \in 1..n : t.effect.paid[k] = amounts[k]
  BY <1>1 DEF PaidEach
<1>5. t.effect.paid = amounts
  <2>1. [k \in 1..n |-> t.effect.paid[k]] = [k \in 1..n |-> amounts[k]]
    BY <1>4
  <2> QED BY <1>2, <1>3, <2>1
<1> QED BY <1>1, <1>2, <1>4, <1>5 DEF n

\* A batch of the wallet that paid everyone.
PaidBatch(p, t, amounts, tokenOut) ==
  /\ BatchOf(p, t.data.args, amounts, tokenOut) /\ t.from = Wallet
  /\ PaidEach(t, Len(p.recipients), amounts) /\ SumOf(t.effect.paid) = p.total

\* Payments that are each as approved, and carry the reference.
PaymentsMatch(payments, p, hash, token, amounts) ==
  /\ \A k \in DOMAIN payments :
       PaymentMatches(payments[k], k, hash, token, p.recipients[k].address, amounts[k])
  /\ payments[1].hash = hash

\* Totals that are as approved, with their fee and the reference.
Reports(e, p, tokenOut, totalIn, fee, hash) ==
  TotalsMatch(e, p, tokenOut, totalIn, p.total, fee) /\ e.hash = hash /\ e.totalFees = fee

\* The events of a batch that paid everyone say so.
LEMMA PaymentsReported ==
  ASSUME NEW p, NEW t, NEW amounts, NEW tokenOut, PaidBatch(p, t, amounts, tokenOut),
         NEW payments, Paying(payments, t, tokenOut, Len(p.recipients))
  PROVE  PaymentsMatch(payments, p, ReferenceHash(Wallet, p.referenceID), tokenOut, amounts)
<1> DEFINE hash == ReferenceHash(Wallet, p.referenceID)
           n == Len(p.recipients)
<1>1. /\ DOMAIN payments = 1..n /\ \A k \in 1..n : payments[k] = PaymentLog(t, tokenOut, k)
  BY DEF Paying
<1>2. /\ t.data.args.referenceID = p.referenceID /\ n \in Nat \ {0}
      /\ t.from = Wallet /\ PaidEach(t, n, amounts)
      /\ \A k \in 1..n : t.data.args.recipients[k] = p.recipients[k].address
  BY DEF BatchOf, PaidBatch
<1>3. 1 \in 1..n
  BY SMT, <1>2
<1>4. ASSUME NEW k \in 1..n
      PROVE  /\ payments[k].hash = hash /\ payments[k].index = k - 1 /\ payments[k].employer = Wallet
             /\ payments[k].tokenOut = tokenOut
             /\ payments[k].recipient = p.recipients[k].address /\ payments[k].amount = amounts[k]
  <2>1. payments[k] = PaymentLog(t, tokenOut, k)
    BY <1>1
  <2>2. t.effect.paid[k] = amounts[k]
    BY <1>2 DEF PaidEach
  <2>3. t.data.args.recipients[k] = p.recipients[k].address
    BY <1>2
  <2> DEFINE e == PaymentLog(t, tokenOut, k)
  <2>4. /\ e.hash = ReferenceHash(t.from, t.data.args.referenceID) /\ e.employer = t.from
        /\ e.tokenOut = tokenOut /\ e.index = k - 1 /\ e.recipient = t.data.args.recipients[k]
        /\ e.amount = t.effect.paid[k]
    BY SMT, PayrollLogFields
  <2> HIDE DEF e
  <2>5. payments[k] = e
    BY <2>1 DEF e
  <2> QED BY <1>2, <2>2, <2>3, <2>4, <2>5
<1> HIDE DEF hash
<1>5. PaymentsMatch(payments, p, hash, tokenOut, amounts)
  BY <1>1, <1>3, <1>4 DEF PaymentsMatch, PaymentMatches
<1> QED BY <1>5 DEF hash

\* So do its totals.
LEMMA TotalsReported ==
  ASSUME NEW p, NEW t, NEW amounts, NEW tokenOut, PaidBatch(p, t, amounts, tokenOut),
         NEW totalIn, NEW event, NEW hash
  PROVE  Reports(TotalsLog(t, p.tokenIn, tokenOut, totalIn, event, hash), p, tokenOut, totalIn,
                 t.effect.fee, hash)
<1> DEFINE e == TotalsLog(t, p.tokenIn, tokenOut, totalIn, event, hash)
<1>1. /\ t.data.args.referenceID = p.referenceID /\ Len(t.data.args.recipients) = Len(p.recipients)
      /\ t.from = Wallet /\ SumOf(t.effect.paid) = p.total
  BY DEF BatchOf, PaidBatch
<1>2. /\ e.hash = hash /\ e.employer = t.from
      /\ e.tokenIn = p.tokenIn /\ e.tokenOut = tokenOut /\ e.totalInput = totalIn
      /\ e.totalOutput = SumOf(t.effect.paid) /\ e.totalFees = t.effect.fee
      /\ e.count = Len(t.data.args.recipients) /\ e.referenceID = t.data.args.referenceID
  BY SMT, TotalsLogFields
<1> HIDE DEF e
<1>3. Reports(e, p, tokenOut, totalIn, t.effect.fee, hash)
  BY <1>1, <1>2 DEF TotalsMatch, Reports
<1> QED BY <1>3 DEF e

\* A same-token payroll that paid as approved is what its verifier looks for.
LEMMA SameComplete ==
  ASSUME NEW i, NEW c, SameCallable(i, c), NEW t, Faithful(i, t), t.effect \in Effects(t.data),
         NEW r, OfTransaction(r, t), ValidateLogs(r.logs)
  PROVE  sameTokenMatches(i.fin, c, r)
<1> DEFINE p == i.fin
           n == Len(p.recipients)
           a == t.data.args
           amounts == a.amounts
           token == p.tokenIn
           fee == t.effect.fee
           totalIn == p.total + fee
           hash == ReferenceHash(Wallet, p.referenceID)
           payments == EventsOf(r.logs, PayrollAddress, "Payment")
           refs == EventsOf(r.logs, PayrollAddress, "ReferenceConsumed")
           batches == EventsOf(r.logs, PayrollAddress, "BatchExecuted")
<1>1. /\ PlanPayroll(i) = Some(c) /\ c.to = PayrollAddress /\ c.data.function = SameToken
      /\ SameOf(p, c.data.args) /\ bindsSameToken(p, c.data) /\ expectedValue(i) = 0
      /\ p.type = "PAYROLL" /\ p.crossToken = None
  BY DEF SameCallable, SameOf
<1>2. /\ t.to = PayrollAddress /\ t.data = c.data /\ t.value = 0 /\ t.from = Wallet
      /\ Credited(t) = ApprovedLines(p) /\ CostAsApproved(i, t) /\ t.to # Elsewhere
  BY <1>1, PayrollCalled
<1>3. t.data.function = SameToken /\ SameOf(p, a)
  BY <1>1, <1>2
<1>4. /\ BatchOf(p, a, amounts, token) /\ a.token = token
      /\ \A k \in 1..n : p.recipients[k].amountIn = amounts[k]
  BY <1>3 DEF SameOf
<1>5. /\ n \in Nat /\ n = Len(a.recipients) /\ p.total = SumOf(amounts) /\ p.total \in Nat
  BY <1>4 DEF BatchOf
<1>6. t.effect.paid \in Payments(amounts) /\ fee \in Nat
  <2>1. t.effect \in SameTokenEffects(a)
    BY <1>3, EffectsByFunction
  <2> QED BY <1>5, <2>1, SameEffects
<1>7. /\ PaidEach(t, n, amounts) /\ SumOf(t.effect.paid) = p.total
      /\ \A k \in 1..n : t.effect.paid[k] # 0
  <2>1. PaidLines(t, token) = ApprovedLines(p)
    BY <1>2, <1>3, <1>4, CreditedByFunction
  <2> HIDE DEF amounts, token, p
  <2> QED BY <1>4, <1>6, <2>1, PaidInFull
<1>8. r.logs = PayrollLogs(t, token, token, totalIn)
  <2>1. LogsOf(t) = PayrollLogs(t, a.token, a.token, SumOf(t.effect.paid) + t.effect.fee)
    BY <1>3, LogsByFunction
  <2> QED BY <1>4, <1>7, <2>1 DEF OfTransaction
<1>9. n = Len(p.recipients) /\ hash = ReferenceHash(Wallet, p.referenceID)
  OBVIOUS
<1> HIDE DEF p, n, amounts, token, totalIn, hash
<1>10. Laid(r.logs, 0, t, token, token, totalIn, n) /\ Len(r.logs) = 2 * n + 2
  <2> DEFINE logs == PayrollLogs(t, token, token, totalIn)
  <2>1. Laid(logs, 0, t, token, token, totalIn, n) /\ Len(logs) = 2 * n + 2
    BY <1>5, <1>7, PayrollLaid
  <2> QED BY <1>8, <2>1
<1>11. /\ Paying(payments, t, token, n)
       /\ Only(refs, ReferenceLog(t, token, token, totalIn))
       /\ Only(batches, BatchLog(t, token, token, totalIn))
  <2>1. 0 \in Nat
    BY SMT
  <2> QED BY <1>2, <1>5, <1>10, <2>1, LaidEvents
<1>12. ASSUME NEW event \in {"SwapExecuted", "SurplusRefunded"}
       PROVE  EventsOf(r.logs, PayrollAddress, event) = <<>>
  <2>1. Sequenced(r.logs) /\ DOMAIN r.logs = 1..Len(r.logs)
    BY <1>10 DEF Laid, Sequenced
  <2>2. ASSUME NEW j \in 1..Len(r.logs) PROVE r.logs[j].event # event
    <3>1. j \in (0 + 1)..(0 + 2 * n + 2)
      BY SMT, <1>5, <1>10
    <3>2. 0 \in Nat
      BY SMT
    <3>3. r.logs[j].event \in {"SwapExecuted", "SurplusRefunded"} => j \notin (0 + 1)..(0 + 2 * n + 2)
      BY SMT, <1>5, <1>10, <3>2, LaidKinds
    <3> QED BY <1>12, <3>1, <3>3
  <2> QED BY <2>1, <2>2, NoEvent
<1> HIDE DEF payments, refs, batches
<1>13. PaidBatch(p, t, amounts, token)
  BY <1>9, <1>2, <1>4, <1>7 DEF PaidBatch
<1>14. PaymentsMatch(payments, p, hash, token, amounts)
  BY <1>9, <1>11, <1>13, PaymentsReported
<1>15. Reports(refs[1], p, token, totalIn, fee, hash)
  <2>1. refs[1] = TotalsLog(t, p.tokenIn, token, totalIn, "ReferenceConsumed",
                            ReferenceHash(t.from, a.referenceID))
    BY <1>11 DEF Only, ReferenceLog, token
  <2>2. ReferenceHash(t.from, a.referenceID) = hash
    BY <1>2, <1>4 DEF BatchOf, hash
  <2>3. Reports(TotalsLog(t, p.tokenIn, token, totalIn, "ReferenceConsumed", hash), p, token,
                totalIn, t.effect.fee, hash)
    BY <1>13, TotalsReported
  <2> QED BY <2>1, <2>2, <2>3
<1>16. Reports(batches[1], p, token, totalIn, fee, None)
  <2>1. batches[1] = TotalsLog(t, p.tokenIn, token, totalIn, "BatchExecuted", None)
    BY <1>11 DEF Only, BatchLog, token
  <2>2. Reports(TotalsLog(t, p.tokenIn, token, totalIn, "BatchExecuted", None), p, token,
                totalIn, t.effect.fee, None)
    BY <1>13, TotalsReported
  <2> QED BY <2>1, <2>2
<1>17. fee <= (p.total * MaxFeeBPS) \div 10000
  <2>1. fee * 10000 <= p.total * MaxFeeBPS
    BY SMT, <1>1, <1>2, CostByType DEF p
  <2> HIDE DEF fee
  <2> QED BY SMT, <1>5, <1>6, <2>1, CapBounds
<1>18. payments[1].hash = hash /\ refs[1].hash = hash /\ refs[1].totalFees = fee
  BY <1>14, <1>15 DEF PaymentsMatch, Reports
<1>19. \A k \in DOMAIN payments :
         PaymentMatches(payments[k], k, payments[1].hash, token, p.recipients[k].address,
                        p.recipients[k].amountIn)
  BY <1>4, <1>11, <1>14, <1>18 DEF PaymentsMatch, Paying
<1>20. \A e \in {refs[1], batches[1]} :
         TotalsMatch(e, p, token, p.total + refs[1].totalFees, p.total, refs[1].totalFees)
  BY <1>15, <1>16, <1>18 DEF totalIn, Reports
<1>21. /\ r.from = Wallet /\ r.to = PayrollAddress /\ r.value = 0
       /\ r.data = c.data /\ bindsSameToken(p, r.data)
  BY <1>1, <1>2 DEF OfTransaction
<1>22. Len(payments) = n /\ Len(refs) = 1 /\ Len(batches) = 1
  BY <1>11 DEF Paying, Only
<1>23. sameTokenMatches(p, c, r)
  <2>1. /\ EventsOf(r.logs, PayrollAddress, "SwapExecuted") = <<>>
        /\ EventsOf(r.logs, PayrollAddress, "SurplusRefunded") = <<>>
    BY <1>12
  <2>2. refs[1].totalFees <= (p.total * MaxFeeBPS) \div 10000
    BY SMT, <1>17, <1>18
  <2>3. ValidateLogs(r.logs) /\ refs[1].hash = payments[1].hash
    BY <1>18
  <2> QED BY SMTT(60), <1>19, <1>20, <1>21, <1>22, <2>1, <2>2, <2>3
          DEF sameTokenMatches, payments, refs, batches, token, n
<1> QED BY <1>23 DEF p

\* The events of a cross-token payroll that paid everyone: one swap, and a refund where
\* something went back.
LEMMA CrossLaid ==
  ASSUME NEW t, NEW n \in Nat, n = Len(t.data.args.recipients),
         \A k \in 1..n : t.effect.paid[k] # 0
  PROVE  LET a == t.data.args
             logs == CrossTokenLogs(t)
         IN /\ Laid(logs, 1, t, a.tokenIn, a.tokenOut, a.grossInput, n)
            /\ Only(EventsOf(logs, t.to, "SwapExecuted"), SwapExecutedLog(t))
            /\ t.effect.refund # 0 =>
                 Only(EventsOf(logs, t.to, "SurplusRefunded"), SurplusRefundedLog(t))
            /\ t.effect.refund = 0 => EventsOf(logs, t.to, "SurplusRefunded") = <<>>
<1> DEFINE tokenIn == t.data.args.tokenIn
           tokenOut == t.data.args.tokenOut
           totalIn == t.data.args.grossInput
           body == PayrollLogs(t, tokenIn, tokenOut, totalIn)
           e == SwapExecutedLog(t)
           f == SurplusRefundedLog(t)
           back == Made(<<f>>)
           logs == CrossTokenLogs(t)
           N == 2 * n
<1>1. logs = (<<e>> \o body) \o back
  BY DEF CrossTokenLogs
<1>2. Laid(body, 0, t, tokenIn, tokenOut, totalIn, n) /\ Len(body) = 2 * n + 2
  <2> HIDE DEF tokenIn, tokenOut, totalIn
  <2> QED BY PayrollLaid
<1>3. /\ e.event = "SwapExecuted" /\ e.address = t.to
      /\ f.event = "SurplusRefunded" /\ f.address = t.to /\ f.amount = t.effect.refund
  <2>1. e.event = "SwapExecuted" /\ e.address = t.to
    BY SwapExecutedFields
  <2>2. f.event = "SurplusRefunded" /\ f.address = t.to /\ f.amount = t.effect.refund
    BY SurplusFields
  <2> QED BY <2>1, <2>2
<1> HIDE DEF tokenIn, tokenOut, totalIn, body, e, f
<1>4. /\ Sequenced(back) /\ \A x : Among(x, back) => x = f
  BY MadeOne
<1>5. f.amount # 0 => Len(back) = 1 /\ back[1] = f
  BY MadeOne
<1>6. f.amount = 0 => Len(back) = 0
  BY MadeOne
<1> HIDE DEF logs, back
<1>7. Refunds(back)
  BY <1>3, <1>4 DEF Refunds
<1>8. /\ Laid(logs, 1, t, tokenIn, tokenOut, totalIn, n) /\ Len(logs) = 2 * n + 3 + Len(back)
      /\ logs[1] = e /\ \A k \in 1..Len(back) : logs[2 * n + 3 + k] = back[k]
  <2>1. e.event = "SwapExecuted"
    BY <1>3
  <2>2. Laid(logs, 1, t, tokenIn, tokenOut, totalIn, n) /\ Around(logs, e, back, n)
    BY <1>1, <1>2, <1>7, <2>1, LaidAfter
  <2> QED BY <2>2 DEF Around
<1>9. /\ N \in Nat /\ Len(logs) = N + 3 + Len(back) /\ Sequenced(logs) /\ DOMAIN logs = 1..Len(logs)
  <2>1. N \in Nat
    BY SMT
  <2> QED BY <1>8, <2>1 DEF Laid, Sequenced
<1>10. \A k \in 1..Len(back) : logs[N + 3 + k] = back[k]
  BY <1>8
<1> HIDE DEF N
<1>11. ASSUME NEW j \in 1..Len(logs), logs[j].event \in {"SwapExecuted", "SurplusRefunded"}
       PROVE  j = 1 \/ j > N + 3
  <2>1. 1 \in Nat
    BY SMT
  <2>2. j \notin (1 + 1)..(1 + 2 * n + 2)
    BY SMT, <1>8, <1>11, <2>1, LaidKinds
  <2> QED BY SMT, <2>2 DEF N
<1>12. CASE f.amount # 0
  <2>1. Len(logs) = N + 4 /\ logs[N + 4] = f
    <3>1. Len(back) = 1 /\ back[1] = f
      BY <1>5, <1>12
    <3>2. N + 3 + 1 = N + 4 /\ 1 \in 1..1
      BY SMT, <1>9
    <3>3. Len(logs) = N + 4
      BY <1>9, <3>1, <3>2
    <3>4. logs[N + 3 + 1] = f
      BY <1>10, <3>1, <3>2
    <3> QED BY <3>2, <3>3, <3>4
  <2>2. \A j \in 1..Len(logs) : j > N + 3 => j = N + 4
    BY SMT, <1>9, <2>1
  <2>3. \A j \in 1..Len(logs) : logs[j].event = "SwapExecuted" => j = 1
    BY <1>3, <1>11, <2>1, <2>2
  <2>4. \A j \in 1..Len(logs) : logs[j].event = "SurplusRefunded" => j = N + 4
    BY <1>3, <1>8, <1>11, <2>2
  <2>5. 1 \in 1..Len(logs) /\ N + 4 \in 1..Len(logs)
    BY SMT, <1>9, <2>1
  <2>6. Only(EventsOf(logs, t.to, "SwapExecuted"), e)
    BY SMT, <1>3, <1>8, <1>9, <2>3, <2>5, SingleEvent DEF Only
  <2>7. Only(EventsOf(logs, t.to, "SurplusRefunded"), f)
    BY SMT, <1>3, <1>9, <2>1, <2>4, <2>5, SingleEvent DEF Only
  <2> QED BY <1>3, <1>8, <1>12, <2>6, <2>7 DEF tokenIn, tokenOut, totalIn, e, f, logs
<1>13. CASE f.amount = 0
  <2>1. Len(logs) = N + 3
    <3>1. N + 3 + 0 = N + 3
      BY SMT, <1>9
    <3> QED BY <1>6, <1>9, <1>13, <3>1
  <2>2. \A j \in 1..Len(logs) : (j > N + 3) = FALSE
    BY SMT, <1>9, <2>1
  <2>3. \A j \in 1..Len(logs) : logs[j].event = "SwapExecuted" => j = 1
    BY <1>11, <2>2
  <2>4. \A j \in 1..Len(logs) : logs[j].event # "SurplusRefunded"
    BY <1>3, <1>8, <1>11, <2>2
  <2>5. 1 \in 1..Len(logs)
    BY SMT, <1>9, <2>1
  <2>6. Only(EventsOf(logs, t.to, "SwapExecuted"), e)
    BY SMT, <1>3, <1>8, <1>9, <2>3, <2>5, SingleEvent DEF Only
  <2>7. EventsOf(logs, t.to, "SurplusRefunded") = <<>>
    BY <1>9, <2>4, NoEvent
  <2> QED BY <1>3, <1>8, <1>13, <2>6, <2>7 DEF tokenIn, tokenOut, totalIn, e, f, logs
<1> QED BY <1>12, <1>13

\* The encoder refuses a cross-token call whose minimum does not cover its obligations.
LEMMA MinimumCovers ==
  ASSUME NEW p, NEW data, bindsCrossToken(p, data)
  PROVE  data.args.minTotalOut >= SumOf(data.args.outputAmounts)
<1>1. DecodeCrossTokenPayrollCall(data) # None
  BY DEF bindsCrossToken
<1> QED BY <1>1 DEF DecodeCrossTokenPayrollCall, validateCrossTokenCall

\* A cross-token payroll that paid as approved is what its verifier looks for.
LEMMA CrossComplete ==
  ASSUME NEW i, NEW c, CrossCallable(i, c), NEW t, Faithful(i, t), t.effect \in Effects(t.data),
         NEW r, OfTransaction(r, t), ValidateLogs(r.logs)
  PROVE  crossTokenMatches(i.fin, c, r)
<1> DEFINE p == i.fin
           n == Len(p.recipients)
           a == t.data.args
           amounts == a.outputAmounts
           token == a.tokenOut
           gross == p.crossToken[1].grossInput
           minimum == p.crossToken[1].minTotalOut
           fee == t.effect.fee
           out == t.effect.out
           hash == ReferenceHash(Wallet, p.referenceID)
           obligations == SumOf(Map(p.recipients, LAMBDA x : x.minAmountOut))
           events(e) == EventsOf(r.logs, PayrollAddress, e)
           swap == events("SwapExecuted")[1]
           payments == events("Payment")
           refs == events("ReferenceConsumed")
           batches == events("BatchExecuted")
           refunds == events("SurplusRefunded")
<1>1. /\ PlanPayroll(i) = Some(c) /\ c.to = PayrollAddress /\ c.data.function = CrossToken
      /\ CrossOf(p, c.data.args) /\ bindsCrossToken(p, c.data)
      /\ expectedValue(i) = IF p.tokenIn = "USDC" THEN gross * NativeScale ELSE 0
      /\ p.type = "PAYROLL" /\ p.crossToken # None
  BY DEF CrossCallable, CrossOf
<1>2. /\ t.to = PayrollAddress /\ t.data = c.data /\ t.value = expectedValue(i) /\ t.from = Wallet
      /\ Credited(t) = ApprovedLines(p) /\ CostAsApproved(i, t) /\ t.to # Elsewhere
  BY <1>1, PayrollCalled
<1>3. t.data.function = CrossToken /\ CrossOf(p, a)
  BY <1>1, <1>2
<1>4. /\ BatchOf(p, a, amounts, token) /\ a.tokenIn = p.tokenIn /\ gross = a.grossInput
      /\ minimum = a.minTotalOut /\ gross \in Nat /\ minimum \in Nat
      /\ obligations = SumOf(amounts)
  BY <1>3 DEF CrossOf
<1>5. /\ n \in Nat /\ n # 0 /\ n = Len(a.recipients) /\ p.total = SumOf(amounts) /\ p.total \in Nat
      /\ a.referenceID = p.referenceID
      /\ \A k \in 1..n : amounts[k] = p.recipients[k].minAmountOut /\ token = p.recipients[k].tokenOut
  BY <1>4 DEF BatchOf
<1>6. minimum >= p.total
  <2>1. a.minTotalOut >= SumOf(a.outputAmounts)
    BY <1>1, <1>2, MinimumCovers
  <2> QED BY <1>4, <1>5, <2>1
<1>7. /\ fee * 10000 <= gross * MaxFeeBPS /\ out >= minimum /\ t.effect.refund = out - p.total
  BY SMT, <1>1, <1>2, CostByType
<1>8. t.effect.paid \in Payments(amounts) /\ fee \in Nat /\ out \in Int
  <2>1. t.effect \in CrossTokenEffects(a)
    BY <1>3, EffectsByFunction
  <2> QED BY <1>4, <2>1, CrossEffects
<1>9. /\ PaidEach(t, n, amounts) /\ SumOf(t.effect.paid) = p.total
      /\ \A k \in 1..n : t.effect.paid[k] # 0
  <2>1. PaidLines(t, token) = ApprovedLines(p)
    BY <1>2, <1>3, CreditedByFunction
  <2> HIDE DEF amounts, token, p
  <2> QED BY <1>4, <1>8, <2>1, PaidInFull
<1>10. r.logs = CrossTokenLogs(t)
  <2>1. LogsOf(t) = CrossTokenLogs(t)
    BY <1>3, LogsByFunction
  <2> QED BY <2>1 DEF OfTransaction
<1>11. /\ Laid(r.logs, 1, t, a.tokenIn, a.tokenOut, a.grossInput, n)
       /\ Only(events("SwapExecuted"), SwapExecutedLog(t))
       /\ t.effect.refund # 0 => Only(refunds, SurplusRefundedLog(t))
       /\ t.effect.refund = 0 => refunds = <<>>
  <2> HIDE DEF n
  <2> QED BY <1>2, <1>5, <1>9, <1>10, CrossLaid
<1>12. n = Len(p.recipients) /\ hash = ReferenceHash(Wallet, p.referenceID) /\ token = a.tokenOut
  OBVIOUS
<1> HIDE DEF p, n, amounts, token, hash, gross
<1>13. Laid(r.logs, 1, t, p.tokenIn, token, gross, n)
  BY <1>4, <1>11, <1>12
<1>14. /\ Paying(payments, t, token, n)
       /\ Only(refs, ReferenceLog(t, p.tokenIn, token, gross))
       /\ Only(batches, BatchLog(t, p.tokenIn, token, gross))
  <2>1. 1 \in Nat
    BY SMT
  <2> QED BY <1>2, <1>5, <1>13, <2>1, LaidEvents
<1>15. PaidBatch(p, t, amounts, token)
  BY <1>2, <1>4, <1>9, <1>12 DEF PaidBatch
<1> HIDE DEF payments, refs, batches, refunds, swap
<1>16. PaymentsMatch(payments, p, hash, token, amounts)
  BY <1>12, <1>14, <1>15, PaymentsReported
<1>17. Reports(refs[1], p, token, gross, fee, hash)
  <2>1. refs[1] = TotalsLog(t, p.tokenIn, token, gross, "ReferenceConsumed",
                            ReferenceHash(t.from, a.referenceID))
    BY <1>14 DEF Only, ReferenceLog
  <2>2. ReferenceHash(t.from, a.referenceID) = hash
    BY <1>2, <1>5, <1>12
  <2>3. Reports(TotalsLog(t, p.tokenIn, token, gross, "ReferenceConsumed", hash), p, token,
                gross, t.effect.fee, hash)
    BY <1>15, TotalsReported
  <2> QED BY <2>1, <2>2, <2>3
<1>18. Reports(batches[1], p, token, gross, fee, None)
  <2>1. batches[1] = TotalsLog(t, p.tokenIn, token, gross, "BatchExecuted", None)
    BY <1>14 DEF Only, BatchLog
  <2>2. Reports(TotalsLog(t, p.tokenIn, token, gross, "BatchExecuted", None), p, token,
                gross, t.effect.fee, None)
    BY <1>15, TotalsReported
  <2> QED BY <2>1, <2>2
<1>19. /\ swap.hash = hash /\ swap.employer = Wallet /\ swap.tokenIn = p.tokenIn
       /\ swap.tokenOut = token /\ swap.grossInput = gross /\ swap.minTotalOut = minimum
       /\ swap.feeAmount = fee /\ swap.netAmountIn = gross - fee /\ swap.amountOut = out
  <2>1. swap = SwapExecutedLog(t)
    BY <1>11 DEF Only, swap
  <2>2. /\ swap.employer = t.from /\ swap.hash = ReferenceHash(t.from, t.data.args.referenceID)
        /\ swap.tokenIn = t.data.args.tokenIn /\ swap.tokenOut = t.data.args.tokenOut
        /\ swap.grossInput = t.data.args.grossInput /\ swap.feeAmount = t.effect.fee
        /\ swap.netAmountIn = t.data.args.grossInput - t.effect.fee
        /\ swap.amountOut = t.effect.out /\ swap.minTotalOut = t.data.args.minTotalOut
    BY <2>1, SwapExecutedFields
  <2> QED BY <1>2, <1>4, <1>5, <1>12, <2>2
<1>20. surplusMatches(refunds, hash, token, out - p.total)
  <2>1. CASE out - p.total > 0
    <3>1. refunds[1] = SurplusRefundedLog(t) /\ Len(refunds) = 1
      <4>1. t.effect.refund # 0
        BY SMT, <1>7, <2>1
      <4> QED BY <1>11, <4>1 DEF Only, refunds
    <3>2. /\ refunds[1].employer = t.from /\ refunds[1].tokenOut = t.data.args.tokenOut
          /\ refunds[1].hash = ReferenceHash(t.from, t.data.args.referenceID)
          /\ refunds[1].amount = t.effect.refund
      BY <3>1, SurplusFields
    <3>3. /\ refunds[1].employer = Wallet /\ refunds[1].tokenOut = token
          /\ refunds[1].hash = hash /\ refunds[1].amount = out - p.total
      BY SMT, <1>2, <1>5, <1>7, <1>12, <3>2
    <3> QED BY <2>1, <3>1, <3>3 DEF surplusMatches
  <2>2. CASE ~(out - p.total > 0)
    <3>1. t.effect.refund = 0
      BY SMT, <1>4, <1>5, <1>6, <1>7, <1>8, <2>2
    <3>2. refunds = <<>>
      BY <1>11, <3>1 DEF refunds
    <3> QED BY <2>2, <3>2 DEF surplusMatches
  <2> QED BY <2>1, <2>2
<1>21. /\ swap.netAmountIn + swap.feeAmount = gross /\ swap.feeAmount * 10000 <= gross * MaxFeeBPS
       /\ swap.amountOut >= minimum /\ swap.amountOut >= obligations
  <2>1. obligations = p.total
    BY <1>4, <1>5
  <2> HIDE DEF fee, out, minimum, obligations
  <2> QED BY SMT, <1>4, <1>5, <1>6, <1>7, <1>8, <1>19, <2>1
<1>22. p.recipients[1].tokenOut = token
  <2>1. 1 \in 1..n
    BY SMT, <1>5
  <2> QED BY <1>5, <2>1
<1>23. refs[1].hash = hash /\ \A e \in {refs[1], batches[1]} :
         TotalsMatch(e, p, token, gross, obligations, swap.feeAmount)
  <2>1. obligations = p.total
    BY <1>4, <1>5
  <2> HIDE DEF obligations
  <2> QED BY <1>17, <1>18, <1>19, <2>1 DEF Reports
<1>24. \A k \in DOMAIN payments :
         PaymentMatches(payments[k], k, hash, token, p.recipients[k].address,
                        p.recipients[k].minAmountOut)
  BY <1>5, <1>14, <1>16 DEF PaymentsMatch, Paying
<1>25. /\ r.from = Wallet /\ r.to = PayrollAddress /\ r.data = c.data /\ bindsCrossToken(p, r.data)
       /\ r.value = IF p.tokenIn = "USDC" THEN gross * NativeScale ELSE 0
  BY <1>1, <1>2 DEF OfTransaction
<1>26. /\ Len(payments) = n
       /\ \A e \in {"SwapExecuted", "ReferenceConsumed", "BatchExecuted"} : Len(events(e)) = 1
  BY <1>11, <1>14 DEF Paying, Only, refs, batches
<1>27. surplusMatches(refunds, hash, token, swap.amountOut - obligations)
  <2>1. obligations = p.total
    BY <1>4, <1>5
  <2> HIDE DEF obligations
  <2> QED BY <1>19, <1>20, <2>1
<1>28. crossTokenMatches(p, c, r)
  BY SMT, <1>19, <1>21, <1>22, <1>23, <1>24, <1>25, <1>26, <1>27
     DEF crossTokenMatches, payments, refs, batches, refunds, swap, n, hash, gross
<1> QED BY <1>28 DEF p

-----------------------------------------------------------------------------
(* The outcome is complete.                                                *)

\* Without a transaction there is no outcome; a successful one is never reported as reverted,
\* and its receipt is a success once the node returns all of it.
LEMMA ReceiptOf ==
  ASSUME NEW T, NEW view
  PROVE  /\ T = None => TransactionReceipt(T, view) = Some(Unknown)
         /\ T # None /\ T[1].ok /\ TransactionReceipt(T, view) # None =>
              TransactionReceipt(T, view)[1].status # "REVERTED"
         /\ T # None /\ T[1].ok /\ view = Complete /\ ValidateLogs(LogsOf(T[1])) =>
              /\ TransactionReceipt(T, view) # None
              /\ TransactionReceipt(T, view)[1].status = "SUCCESS"
<1>1. T = None => TransactionReceipt(T, view) = Some(Unknown)
  BY DEF TransactionReceipt
<1>2. ASSUME T # None, T[1].ok
      PROVE  /\ TransactionReceipt(T, view) # None =>
                  TransactionReceipt(T, view)[1].status # "REVERTED"
             /\ view = Complete /\ ValidateLogs(LogsOf(T[1])) =>
                  /\ TransactionReceipt(T, view) # None
                  /\ TransactionReceipt(T, view)[1].status = "SUCCESS"
  <2> DEFINE t == T[1]
             logs == normalizeReceiptLogs(IF t.ok THEN LogsOf(t) ELSE <<>>)
             full == [status |-> IF t.ok THEN "SUCCESS" ELSE "REVERTED",
                      hasTransaction |-> view.body, from |-> t.from, to |-> t.to,
                      value |-> t.value, data |-> t.data, logs |-> logs[1]]
  <2>1. Unknown.status = "UNKNOWN"
    BY DEF Unknown
  <2>2. full.status = "SUCCESS"
    <3> HIDE DEF logs
    <3> QED BY SMT, <1>2
  <2>3. TransactionReceipt(T, view) \in {Some(Unknown), None, Some(full)}
    BY DEF TransactionReceipt
  <2>4. ASSUME view = Complete, ValidateLogs(LogsOf(t)) PROVE TransactionReceipt(T, view) = Some(full)
    <3>1. logs # None
      BY <1>2, <2>4, Found DEF normalizeReceiptLogs
    <3>2. view.found /\ view.deep
      BY <2>4 DEF Complete
    <3> HIDE DEF full, logs
    <3> QED BY <1>2, <3>1, <3>2 DEF TransactionReceipt, full, logs
  <2> HIDE DEF full
  <2>5. /\ Some(Unknown)[1] = Unknown /\ Some(full)[1] = full
        /\ Some(Unknown) # None /\ Some(full) # None
    BY Found
  <2> QED BY <2>1, <2>2, <2>3, <2>4, <2>5
<1> QED BY <1>1, <1>2

\* The outcome of a receipt.
LEMMA OutcomeOfReceipt ==
  ASSUME NEW i, NEW receipt, receipt # None
  PROVE  /\ receipt[1].status = "SUCCESS" =>
              VerifyOutcome(i, receipt) = DomainOutcome(i, receipt[1])
         /\ receipt[1].status = "UNKNOWN" => VerifyOutcome(i, receipt) = "PENDING"
<1> DEFINE status == receipt[1].status
<1>1. VerifyOutcome(i, receipt) = CASE status = "REVERTED" -> "FAILED"
                                    [] status = "SUCCESS"  -> DomainOutcome(i, receipt[1])
                                    [] OTHER               -> "PENDING"
  BY DEF VerifyOutcome
<1> HIDE DEF status
<1>2. /\ status = "SUCCESS" => VerifyOutcome(i, receipt) = DomainOutcome(i, receipt[1])
      /\ status = "UNKNOWN" => VerifyOutcome(i, receipt) = "PENDING"
  BY SMT, <1>1
<1> QED BY <1>2 DEF status

\* A payroll or a swap that did what was approved satisfies its verifier's comparison.
LEMMA FaithfulMatches ==
  ASSUME NEW i, IntentValid(i), i.status = "APPROVED", Callable(i), i.fin.type # "SEND",
         NEW t, Faithful(i, t), t.effect \in Effects(t.data),
         NEW r, OfTransaction(r, t), ValidateLogs(r.logs), r.status = "SUCCESS"
  PROVE  /\ DomainOutcome(i, r) # "FAILED"
         /\ r.hasTransaction => DomainOutcome(i, r) = "VERIFIED"
<1>1. ASSUME NEW c, SameCallable(i, c)
      PROVE  /\ DomainOutcome(i, r) # "FAILED"
             /\ r.hasTransaction => DomainOutcome(i, r) = "VERIFIED"
  <2> DEFINE matches == sameTokenMatches(i.fin, c, r)
  <2>1. Judged(i, r, matches)
    BY <1>1, SameJudged
  <2>2. matches
    BY <1>1, SameComplete
  <2> HIDE DEF matches
  <2>3. /\ matches => DomainOutcome(i, r) # "FAILED"
        /\ matches /\ r.hasTransaction => DomainOutcome(i, r) = "VERIFIED"
    BY SMT, <2>1, JudgedAs
  <2> QED BY <2>2, <2>3
<1>2. ASSUME NEW c, CrossCallable(i, c)
      PROVE  /\ DomainOutcome(i, r) # "FAILED"
             /\ r.hasTransaction => DomainOutcome(i, r) = "VERIFIED"
  <2> DEFINE matches == crossTokenMatches(i.fin, c, r)
  <2>1. Judged(i, r, matches)
    BY <1>2, CrossJudged
  <2>2. matches
    BY <1>2, CrossComplete
  <2> HIDE DEF matches
  <2>3. /\ matches => DomainOutcome(i, r) # "FAILED"
        /\ matches /\ r.hasTransaction => DomainOutcome(i, r) = "VERIFIED"
    BY SMT, <2>1, JudgedAs
  <2> QED BY <2>2, <2>3
<1>3. ASSUME NEW c, SwapCallable(i, c)
      PROVE  /\ DomainOutcome(i, r) # "FAILED"
             /\ r.hasTransaction => DomainOutcome(i, r) = "VERIFIED"
  <2> DEFINE matches == swapMatches(i.fin, c, r)
  <2>1. Judged(i, r, matches)
    BY <1>3, SwapJudged
  <2>2. matches
    BY <1>3, SwapComplete
  <2> HIDE DEF matches
  <2>3. /\ matches => DomainOutcome(i, r) # "FAILED"
        /\ matches /\ r.hasTransaction => DomainOutcome(i, r) = "VERIFIED"
    BY SMT, <2>1, JudgedAs
  <2> QED BY <2>2, <2>3
<1> QED BY <1>1, <1>2, <1>3 DEF Callable, SendCallable

\* It is never called failed, whatever the node returns of it.
LEMMA ContractComplete ==
  ASSUME NEW i, IntentValid(i), i.status = "APPROVED", Callable(i), i.fin.type # "SEND",
         NEW T, T # None, Faithful(i, T[1]), T[1].effect \in Effects(T[1].data), NEW view
  PROVE  VerifyOutcome(i, TransactionReceipt(T, view)) # "FAILED"
<1> DEFINE receipt == TransactionReceipt(T, view)
           r == receipt[1]
           t == T[1]
<1>1. t.ok
  BY DEF Faithful, PaidAsApproved
<1>2. SUFFICES ASSUME receipt # None, r.status = "SUCCESS" PROVE DomainOutcome(i, r) # "FAILED"
  BY <1>1, OutcomeByReceipt, ReceiptOf
<1>3. OfTransaction(r, t) /\ ValidateLogs(r.logs)
  <2>1. /\ r.from = T[1].from /\ r.to = T[1].to /\ ValidateLogs(LogsOf(T[1]))
        /\ r.value = T[1].value /\ r.data = T[1].data /\ r.logs = LogsOf(T[1])
    BY SMT, <1>2, ReceiptSuccess
  <2> QED BY <2>1 DEF OfTransaction
<1> HIDE DEF receipt, r, t
<1>4. Faithful(i, t) /\ t.effect \in Effects(t.data)
  BY DEF t
<1> QED BY <1>2, <1>3, <1>4, FaithfulMatches

\* Every payment that did what was approved is verified from its whole receipt.
LEMMA OutcomeComplete ==
  ASSUME NEW i, IntentValid(i), i.status = "APPROVED", Callable(i),
         NEW T, T # None, Faithful(i, T[1]), T[1].effect \in Effects(T[1].data),
         ValidateLogs(LogsOf(T[1]))
  PROVE  VerifyOutcome(i, TransactionReceipt(T, Complete)) = "VERIFIED"
<1> DEFINE receipt == TransactionReceipt(T, Complete)
           r == receipt[1]
           t == T[1]
<1>1. t.ok
  BY DEF Faithful, PaidAsApproved
<1>2. receipt # None /\ r.status = "SUCCESS"
  BY <1>1, ReceiptOf
<1>3. OfTransaction(r, t) /\ ValidateLogs(r.logs) /\ r.hasTransaction
  <2>1. /\ r.from = T[1].from /\ r.to = T[1].to /\ ValidateLogs(LogsOf(T[1]))
        /\ r.value = T[1].value /\ r.data = T[1].data /\ r.logs = LogsOf(T[1])
        /\ r.hasTransaction = Complete.body
    BY SMT, <1>2, ReceiptSuccess
  <2>2. Complete.body = TRUE
    BY DEF Complete
  <2>3. r.hasTransaction = TRUE
    BY <2>1, <2>2
  <2> QED BY <2>1, <2>3 DEF OfTransaction
<1>4. VerifyOutcome(i, receipt) = DomainOutcome(i, r)
  BY <1>2, OutcomeOfReceipt
<1> HIDE DEF receipt, r, t
<1>5. Faithful(i, t) /\ t.effect \in Effects(t.data)
  BY DEF t
<1>6. CASE i.fin.type # "SEND"
  <2>1. DomainOutcome(i, r) = "VERIFIED"
    BY <1>2, <1>3, <1>5, <1>6, FaithfulMatches
  <2> QED BY <1>4, <2>1 DEF receipt
<1>7. CASE i.fin.type = "SEND"
  <2>1. PICK q : SendCallable(i, q)
    BY <1>7 DEF Callable, SameCallable, CrossCallable, SwapCallable, SameOf, CrossOf, SwapOf
  <2>2. verifySend(q, r)
    BY <1>2, <1>3, <1>5, <2>1, SendComplete
  <2>3. DomainOutcome(i, r) = "VERIFIED"
    BY <2>1, <2>2, SendJudged
  <2> QED BY <1>4, <2>3 DEF receipt
<1> QED BY <1>6, <1>7

-----------------------------------------------------------------------------
(* How many logs a transaction leaves.                                     *)

\* Leaving out the payments of nothing adds no logs.
LEMMA MadeAtMost ==
  ASSUME NEW s, Sequenced(s)
  PROVE  Sequenced(Made(s)) /\ Len(Made(s)) \in 0..Len(s)
<1> DEFINE at == {k \in DOMAIN s : s[k].amount # 0}
           n == Len(s)
<1>1. Sequenced(Made(s)) /\ Len(Made(s)) = Cardinality(at)
  BY MadeFrom
<1>2. n \in Nat /\ DOMAIN s = 1..n
  BY DEF Sequenced
<1>3. at \subseteq 1..n
  BY <1>2
<1> HIDE DEF at, n
<1>4. IsFiniteSet(1..n) /\ Cardinality(1..n) = n
  <2>1. 1 \in Int /\ n \in Int /\ n - 1 + 1 = n /\ ((1 > n) => n = 0)
    BY SMT, <1>2
  <2>2. /\ IsFiniteSet(1..n)
        /\ Cardinality(1..n) = IF 1 > n THEN 0 ELSE n - 1 + 1
    BY <2>1, FS_Interval
  <2> QED BY <2>1, <2>2
<1>5. IsFiniteSet(at) /\ Cardinality(at) <= n
  BY <1>3, <1>4, FS_Subset
<1>6. Cardinality(at) \in Nat
  BY <1>5, FS_CardinalityType
<1>7. Cardinality(at) \in 0..n
  BY SMT, <1>2, <1>5, <1>6
<1> QED BY <1>1, <1>7 DEF n

\* The most logs a batch leaves: two for each recipient, and its two totals.
LEMMA PayrollLogCount ==
  ASSUME NEW t, NEW tokenIn, NEW tokenOut, NEW totalIn, NEW n \in Nat,
         n = Len(t.data.args.recipients)
  PROVE  /\ Sequenced(PayrollLogs(t, tokenIn, tokenOut, totalIn))
         /\ Len(PayrollLogs(t, tokenIn, tokenOut, totalIn)) \in 0..(2 * n + 2)
<1> DEFINE ref == ReferenceLog(t, tokenIn, tokenOut, totalIn)
           batch == BatchLog(t, tokenIn, tokenOut, totalIn)
           totals == <<ref, batch>>
           s == PaymentLogs(t, tokenOut)
           made == Made(s)
<1>1. PayrollLogs(t, tokenIn, tokenOut, totalIn) = made \o totals
  BY DEF PayrollLogs, ReferenceLog, BatchLog
<1>2. Sequenced(totals) /\ Len(totals) = 2
  <2> HIDE DEF ref, batch
  <2> QED BY FewEntries
<1>3. Sequenced(s) /\ Len(s) = 2 * n
  BY PaymentLogsFrom
<1> HIDE DEF totals, s
<1>4. Sequenced(made) /\ Len(made) \in 0..(2 * n)
  <2>1. Sequenced(Made(s)) /\ Len(Made(s)) \in 0..Len(s)
    BY <1>3, MadeAtMost
  <2> QED BY <1>3, <2>1
<1> HIDE DEF made
<1>5. Joined(made \o totals, made, totals)
  BY <1>2, <1>4, ConcatParts
<1>6. Sequenced(made \o totals) /\ Len(made \o totals) = Len(made) + 2
  BY <1>2, <1>5 DEF Joined
<1>7. Len(made) + 2 \in 0..(2 * n + 2)
  BY SMT, <1>4
<1> QED BY <1>1, <1>6, <1>7

\* The most logs the transaction of an intent leaves.
MostLogs(p) ==
  IF p.type = "PAYROLL" THEN 2 * Len(p.recipients) + (IF p.crossToken = None THEN 2 ELSE 4)
  ELSE IF p.type = "SWAP" THEN 2 ELSE 1

\* One entry, and those of a sequence.
LEMMA OneMore ==
  ASSUME NEW x, NEW s, Sequenced(s), NEW m \in Nat, Len(s) \in 0..m
  PROVE  Sequenced(<<x>> \o s) /\ Len(<<x>> \o s) \in 0..(m + 1)
<1> DEFINE one == <<x>>
<1>1. Sequenced(one) /\ Len(one) = 1
  BY FewEntries
<1> HIDE DEF one
<1>2. Joined(one \o s, one, s)
  BY <1>1, ConcatParts
<1>3. Sequenced(one \o s) /\ Len(one \o s) = 1 + Len(s)
  BY <1>1, <1>2 DEF Joined
<1>4. 1 + Len(s) \in 0..(m + 1)
  BY SMT
<1> QED BY <1>3, <1>4 DEF one

\* What is made of one entry is one or nothing.
LEMMA MadeOneOrNone ==
  ASSUME NEW e
  PROVE  Sequenced(Made(<<e>>)) /\ Len(Made(<<e>>)) \in 0..1
<1> DEFINE one == <<e>>
<1>1. Sequenced(one) /\ Len(one) = 1
  BY FewEntries
<1> HIDE DEF one
<1>2. Sequenced(Made(one)) /\ Len(Made(one)) \in 0..Len(one)
  BY <1>1, MadeAtMost
<1> QED BY <1>1, <1>2 DEF one

\* A planned transaction leaves no more logs than that.
LEMMA LogCount ==
  ASSUME NEW i, Callable(i), NEW t, Faithful(i, t)
  PROVE  Len(LogsOf(t)) \in 0..MostLogs(i.fin)
<1> DEFINE p == i.fin
           a == t.data.args
<1>1. ASSUME NEW c, SameCallable(i, c) PROVE Len(LogsOf(t)) \in 0..MostLogs(p)
  <2>1. /\ PlanPayroll(i) = Some(c) /\ c.to = PayrollAddress /\ c.data.function = SameToken
        /\ SameOf(p, c.data.args) /\ p.type = "PAYROLL" /\ p.crossToken = None
    BY <1>1 DEF SameCallable, SameOf
  <2>2. t.data = c.data
    BY <2>1, PayrollCalled
  <2>3. t.data.function = SameToken /\ Len(p.recipients) \in Nat /\ Len(p.recipients) = Len(a.recipients)
    BY <2>1, <2>2 DEF SameOf, BatchOf
  <2>4. LogsOf(t) = PayrollLogs(t, a.token, a.token, SumOf(t.effect.paid) + t.effect.fee)
    BY <2>3, LogsByFunction
  <2>5. MostLogs(p) = 2 * Len(p.recipients) + 2
    BY <2>1 DEF MostLogs
  <2> QED BY <2>3, <2>4, <2>5, PayrollLogCount
<1>2. ASSUME NEW c, CrossCallable(i, c) PROVE Len(LogsOf(t)) \in 0..MostLogs(p)
  <2> DEFINE n == Len(p.recipients)
             body == PayrollLogs(t, a.tokenIn, a.tokenOut, a.grossInput)
             e == SwapExecutedLog(t)
             f == SurplusRefundedLog(t)
             back == Made(<<f>>)
             front == <<e>> \o body
  <2>1. /\ PlanPayroll(i) = Some(c) /\ c.to = PayrollAddress /\ c.data.function = CrossToken
        /\ CrossOf(p, c.data.args) /\ p.type = "PAYROLL" /\ p.crossToken # None
    BY <1>2 DEF CrossCallable, CrossOf
  <2>2. t.data = c.data
    BY <2>1, PayrollCalled
  <2>3. t.data.function = CrossToken /\ n \in Nat /\ n = Len(a.recipients)
    BY <2>1, <2>2 DEF CrossOf, BatchOf
  <2>4. LogsOf(t) = front \o back
    <3>1. LogsOf(t) = CrossTokenLogs(t)
      BY <2>3, LogsByFunction
    <3> QED BY <3>1 DEF CrossTokenLogs
  <2>5. MostLogs(p) = 2 * n + 4
    BY <2>1 DEF MostLogs
  <2>6. Sequenced(body) /\ Len(body) \in 0..(2 * n + 2)
    BY <2>3, PayrollLogCount
  <2>7. Sequenced(back) /\ Len(back) \in 0..1
    <3> HIDE DEF f
    <3> QED BY MadeOneOrNone
  <2> HIDE DEF n, body, e, back
  <2>8. 2 * n + 2 \in Nat /\ (2 * n + 2) + 1 = 2 * n + 3
    BY SMT, <2>3
  <2>9. Sequenced(front) /\ Len(front) \in 0..(2 * n + 3)
    <3> DEFINE m == 2 * n + 2
    <3>1. m \in Nat /\ Len(body) \in 0..m /\ m + 1 = 2 * n + 3
      BY <2>6, <2>8
    <3> HIDE DEF m
    <3>2. Sequenced(front) /\ Len(front) \in 0..(m + 1)
      BY <2>6, <3>1, OneMore
    <3> QED BY <3>1, <3>2
  <2> HIDE DEF front
  <2>10. Joined(front \o back, front, back)
    BY <2>7, <2>9, ConcatParts
  <2>11. Len(LogsOf(t)) = Len(front) + Len(back)
    BY <2>4, <2>10 DEF Joined
  <2>12. Len(front) + Len(back) \in 0..(2 * n + 4)
    <3> DEFINE f1 == Len(front)
               b1 == Len(back)
    <3>1. n \in Nat /\ f1 \in 0..(2 * n + 3) /\ b1 \in 0..1
      BY <2>3, <2>7, <2>9
    <3> HIDE DEF f1, b1
    <3>2. f1 + b1 \in 0..(2 * n + 4)
      BY SMT, <3>1
    <3> QED BY <3>2 DEF f1, b1
  <2> QED BY <2>5, <2>11, <2>12
<1>3. ASSUME NEW c, SwapCallable(i, c) PROVE Len(LogsOf(t)) \in 0..MostLogs(p)
  <2> DEFINE e == MainnetSwapExecutedLog(t)
             f == Transfer(a.tokenOut, t.to, t.from, t.effect.paid[1])
             back == Made(<<f>>)
  <2>1. p.type = "SWAP" /\ PlanSwap(i)[1] = c /\ c.data.function = ExecuteSwap
    BY <1>3, Found DEF SwapCallable, SwapOf
  <2>2. t.data.function = ExecuteSwap
    BY <2>1, CallByType DEF Faithful
  <2>3. LogsOf(t) = <<e>> \o back
    <3>1. LogsOf(t) = SwapLogs(t)
      BY <2>2, LogsByFunction
    <3> QED BY <3>1 DEF SwapLogs
  <2>4. Sequenced(back) /\ Len(back) \in 0..1
    <3> HIDE DEF f
    <3> QED BY MadeOneOrNone
  <2> HIDE DEF e, back
  <2>5. 1 \in Nat /\ 1 + 1 = 2
    BY SMT
  <2>6. Len(<<e>> \o back) \in 0..(1 + 1)
    BY <2>4, <2>5, OneMore
  <2>7. MostLogs(p) = 2
    BY <2>1 DEF MostLogs
  <2> QED BY <2>3, <2>5, <2>6, <2>7
<1>4. ASSUME NEW q, SendCallable(i, q) PROVE Len(LogsOf(t)) \in 0..MostLogs(p)
  <2> DEFINE f == Transfer(t.to, t.from, a.recipient, t.effect.paid[1])
  <2>1. p.type = "SEND"
    BY <1>4 DEF SendCallable
  <2>2. t.data.function = "transfer"
    BY <2>1, CallByType DEF Faithful
  <2>3. LogsOf(t) = Made(<<f>>)
    BY SMT, <2>2, LogsByFunction
  <2>4. MostLogs(p) = 1
    BY <2>1 DEF MostLogs
  <2> HIDE DEF f
  <2> QED BY <2>3, <2>4, MadeOneOrNone
<1> QED BY <1>1, <1>2, <1>3, <1>4 DEF Callable

=============================================================================
