------------------------- MODULE VerificationProofs -------------------------
(***************************************************************************)
(* The verdict on a mined transaction (DomainVerification): VERIFIED means *)
(* that the balances moved as was approved; a contract call that did what  *)
(* was approved is never judged FAILED; and a payment that did is VERIFIED *)
(* as soon as the node returns all of it, if its logs fit in a receipt.    *)
(*                                                                         *)
(* A verifier that accepts a receipt has found in it the payments that the *)
(* balances show (SendSound, SwapSound, SameSound, CrossSound).  The       *)
(* planner's calls have the form the verifiers expect (PlannedCallable).   *)
(* The invariant, VerdictInv, adds to PlanningInv that a mined transaction *)
(* has an effect its calldata allows.                                      *)
(***************************************************************************)
EXTENDS PlanningProofs, ReceiptProofs

\* Most steps are first-order; the ones that calculate say so.
USE Zenon

-----------------------------------------------------------------------------
(* Soundness: what a verifier accepts moved the balances as approved.      *)

\* What may be in a payroll's logs.
PayrollEntry(x, t, tokenIn, tokenOut, totalIn) ==
  \/ x.event = "Transfer"
  \/ \E k \in 1..Len(t.data.args.recipients) : x = PaymentLog(t, tokenOut, k)
  \/ x = ReferenceLog(t, tokenIn, tokenOut, totalIn)
  \/ x = BatchLog(t, tokenIn, tokenOut, totalIn)

\* A payroll's logs, whoever was paid.
LEMMA PayrollLogsFrom ==
  ASSUME NEW t, NEW tokenIn, NEW tokenOut, NEW totalIn, Len(t.data.args.recipients) \in Nat
  PROVE  /\ Sequenced(PayrollLogs(t, tokenIn, tokenOut, totalIn))
         /\ \A x : Among(x, PayrollLogs(t, tokenIn, tokenOut, totalIn)) =>
                     PayrollEntry(x, t, tokenIn, tokenOut, totalIn)
<1> DEFINE s == PaymentLogs(t, tokenOut)
           ref == ReferenceLog(t, tokenIn, tokenOut, totalIn)
           batch == BatchLog(t, tokenIn, tokenOut, totalIn)
           totals == <<ref, batch>>
<1>1. PayrollLogs(t, tokenIn, tokenOut, totalIn) = Made(s) \o totals
  BY DEF PayrollLogs, ReferenceLog, BatchLog
<1>2. Sequenced(s)
  BY PaymentLogsFrom
<1> HIDE DEF s
<1>3. Sequenced(Made(s))
  BY <1>2, MadeFrom
<1> HIDE DEF ref, batch
<1>4. Sequenced(totals)
  BY FewEntries
<1>5. ASSUME NEW x, Among(x, Made(s) \o totals)
      PROVE  PayrollEntry(x, t, tokenIn, tokenOut, totalIn)
  <2>1. CASE Among(x, Made(s))
    <3>1. Among(x, s)
      BY <1>2, <2>1, MadeFrom
    <3>2. x.event = "Transfer" \/ \E k \in 1..Len(t.data.args.recipients) : x = PaymentLog(t, tokenOut, k)
      BY SMT, <3>1, PaymentLogsFrom DEF s
    <3> QED BY <3>2 DEF PayrollEntry
  <2>2. CASE Among(x, totals)
    <3>1. x = ref \/ x = batch
      BY <2>2, FewEntries
    <3> QED BY <3>1 DEF PayrollEntry, ref, batch
  <2> HIDE DEF totals
  <2> QED BY <1>3, <1>4, <1>5, <2>1, <2>2, ConcatFrom
<1> HIDE DEF totals
<1>6. Sequenced(Made(s) \o totals)
  BY <1>3, <1>4, ConcatFrom
<1> QED BY <1>1, <1>5, <1>6

\* An entry of a payroll's logs is told by its event.
LEMMA EntryByEvent ==
  ASSUME NEW x, NEW t, NEW tokenIn, NEW tokenOut, NEW totalIn,
         PayrollEntry(x, t, tokenIn, tokenOut, totalIn)
  PROVE  /\ x.event \in {"Transfer", "Payment", "ReferenceConsumed", "BatchExecuted"}
         /\ x.event = "Payment" =>
              \E k \in 1..Len(t.data.args.recipients) : x = PaymentLog(t, tokenOut, k)
         /\ x.event = "ReferenceConsumed" => x = ReferenceLog(t, tokenIn, tokenOut, totalIn)
         /\ x.event = "BatchExecuted" => x = BatchLog(t, tokenIn, tokenOut, totalIn)
<1> DEFINE ref == ReferenceLog(t, tokenIn, tokenOut, totalIn)
           batch == BatchLog(t, tokenIn, tokenOut, totalIn)
<1>1. \A k : PaymentLog(t, tokenOut, k).event = "Payment"
  BY SMT, PayrollLogFields
<1>2. ref.event = "ReferenceConsumed" /\ batch.event = "BatchExecuted"
  BY SMT, TotalsLogFields DEF ReferenceLog, BatchLog
<1> HIDE DEF ref, batch
<1>3. x.event = "Transfer" \/ (\E k \in 1..Len(t.data.args.recipients) : x = PaymentLog(t, tokenOut, k))
        \/ x = ref \/ x = batch
  BY DEF PayrollEntry, ref, batch
<1>4. CASE \E k \in 1..Len(t.data.args.recipients) : x = PaymentLog(t, tokenOut, k)
  BY <1>1, <1>4
<1> QED BY <1>2, <1>3, <1>4 DEF ref, batch

\* A sum of natural numbers is one.
LEMMA SumIsNat ==
  ASSUME NEW s, NEW n \in Nat, DOMAIN s = 1..n, \A k \in 1..n : s[k] \in Nat
  PROVE  SumOf(s) \in Nat
<1> DEFINE units(k) == {k} \X (1..s[k])
           T == {units(k) : k \in 1..n}
           f == [k \in 1..n |-> units(k)]
<1>1. IsFiniteSet(1..n)
  BY SMT, FS_Interval
<1>2. f \in Surjection(1..n, T)
  BY DEF Surjection
<1>3. IsFiniteSet(T)
  <2> HIDE DEF f, T
  <2> QED BY <1>1, <1>2, FS_Surjection
<1>4. ASSUME NEW k \in 1..n PROVE IsFiniteSet(units(k))
  <2>1. s[k] \in Nat
    OBVIOUS
  <2>2. IsFiniteSet(1..s[k])
    BY SMT, <2>1, FS_Interval
  <2>3. IsFiniteSet({k})
    BY FS_Singleton
  <2> QED BY <2>2, <2>3, FS_Product
<1>5. \A U \in T : IsFiniteSet(U)
  BY <1>4
<1>6. SumOf(s) = Cardinality(UNION T)
  BY DEF SumOf
<1> HIDE DEF T
<1>7. IsFiniteSet(UNION T)
  BY <1>3, <1>5, FS_UNION
<1> QED BY <1>6, <1>7, FS_CardinalityType

\* A send that the verifier accepts moved the approved amount.
LEMMA SendSound ==
  ASSUME NEW i, i.fin.type = "SEND", CanonicalToken(i.fin.token),
         NEW t, t.ok, NEW r, OfTransaction(r, t),
         NEW q, q.wallet = Wallet, q.destination = i.fin.recipient, q.token = i.fin.token,
         q.amount = i.fin.amount, verifySend(q, r)
  PROVE  PaidAsApproved(i, t) /\ CostAsApproved(i, t)
<1> DEFINE args == [recipient |-> i.fin.recipient, amount |-> i.fin.amount]
           made == Transfer(t.to, t.from, t.data.args.recipient, t.effect.paid[1])
<1>1. /\ t.from = Wallet /\ t.to = i.fin.token /\ decodeTransfer(t.data) = Some(args)
      /\ hasTransferEvent(LogsOf(t), i.fin.token, Wallet, i.fin.recipient, i.fin.amount)
  BY DEF verifySend, OfTransaction
<1>2. t.data.function = "transfer" /\ t.data.args = args
  <2> HIDE DEF args
  <2> QED BY <1>1, Found DEF decodeTransfer
<1>3. t.data.args.recipient = i.fin.recipient
  BY SMT, <1>2
<1> HIDE DEF args
<1>4. LogsOf(t) = Made(<<made>>)
  BY SMT, <1>2, LogsByFunction
<1>5. PICK k \in DOMAIN LogsOf(t) : LogsOf(t)[k].amount = i.fin.amount
  BY <1>1 DEF hasTransferEvent
<1>6. LogsOf(t)[k] = made
  <2>1. Among(LogsOf(t)[k], Made(<<made>>))
    BY <1>4 DEF Among
  <2> HIDE DEF made
  <2> QED BY <2>1, MadeOne
<1>7. made.amount = t.effect.paid[1]
  BY DEF Transfer
<1> HIDE DEF made
<1>8. t.effect.paid[1] = i.fin.amount
  BY <1>5, <1>6, <1>7
<1>9. t.to # Elsewhere
  BY <1>1 DEF CanonicalToken, Elsewhere
<1>10. Credited(t) = <<Credit(i.fin.recipient, i.fin.token, i.fin.amount)>>
  BY SMT, <1>1, <1>2, <1>3, <1>8, <1>9, CreditedByFunction
<1>11. PaidAsApproved(i, t)
  BY SMT, <1>1, <1>10, PaidByType
<1>12. CostAsApproved(i, t)
  BY SMT, CostByType
<1> QED BY <1>11, <1>12

\* A swap's logs: its event and the transfer of what it paid.
LEMMA SwapLogsFrom ==
  ASSUME NEW t, NEW made, made = Transfer(t.data.args.tokenOut, t.to, t.from, t.effect.paid[1])
  PROVE  /\ Sequenced(SwapLogs(t))
         /\ \A x : Among(x, SwapLogs(t)) => x = MainnetSwapExecutedLog(t) \/ x = made
<1> DEFINE e == MainnetSwapExecutedLog(t)
<1>1. SwapLogs(t) = <<e>> \o Made(<<made>>)
  BY DEF SwapLogs
<1> HIDE DEF e
<1>2. Sequenced(<<e>>) /\ \A x : Among(x, <<e>>) => x = e
  BY FewEntries
<1>3. Sequenced(Made(<<made>>)) /\ \A x : Among(x, Made(<<made>>)) => x = made
  BY MadeOne
<1> DEFINE s1 == <<e>>
           s2 == Made(<<made>>)
<1> HIDE DEF s1, s2
<1>4. Sequenced(s1 \o s2) /\ \A x : Among(x, s1 \o s2) => Among(x, s1) \/ Among(x, s2)
  BY <1>2, <1>3, ConcatFrom DEF s1, s2
<1> QED BY <1>1, <1>2, <1>3, <1>4 DEF s1, s2, e

\* A swap that the verifier accepts brought the wallet the approved output.
LEMMA SwapSound ==
  ASSUME NEW i, i.fin.type = "SWAP", NEW t, t.ok, NEW r, OfTransaction(r, t),
         NEW c, c.data.function = ExecuteSwap, c.data.args.tokenOut = i.fin.outputToken,
         swapMatches(i.fin, c, r)
  PROVE  PaidAsApproved(i, t) /\ CostAsApproved(i, t)
<1> DEFINE p == i.fin
           executed == EventsOf(r.logs, SwapAddress, "MainnetSwapExecuted")
           e == executed[1]
           made == Transfer(t.data.args.tokenOut, t.to, t.from, t.effect.paid[1])
<1>0. e.feeAmount * 10000 <= p.inputAmount * MaxFeeBPS
  BY SMT DEF swapMatches
<1>1. /\ r.from = Wallet /\ r.to = SwapAddress /\ r.data = c.data
      /\ Len(executed) = 1 /\ e.amountOut >= p.minimumOutput
      /\ hasOutputTransfer(r.logs, p.outputToken, Wallet, e.amountOut)
  BY SMT DEF swapMatches
<1>2. /\ t.from = Wallet /\ t.to = SwapAddress /\ t.data.function = ExecuteSwap
      /\ t.data.args.tokenOut = p.outputToken /\ r.logs = SwapLogs(t)
  <2>1. t.from = Wallet /\ t.to = SwapAddress /\ t.data = c.data /\ r.logs = LogsOf(t)
    BY <1>1 DEF OfTransaction
  <2>2. t.data.function = ExecuteSwap /\ t.data.args.tokenOut = p.outputToken
    BY <2>1
  <2>3. LogsOf(t) = SwapLogs(t)
    BY <2>2, LogsByFunction
  <2> QED BY <2>1, <2>2, <2>3
<1>3. Sequenced(r.logs) /\ \A x : Among(x, r.logs) => x = MainnetSwapExecutedLog(t) \/ x = made
  BY <1>2, SwapLogsFrom
<1>4. made.event = "Transfer" /\ made.amount = t.effect.paid[1]
  BY SMT, TransferFields
<1> HIDE DEF made
<1>5. e = MainnetSwapExecutedLog(t)
  <2>1. Sequenced(executed)
    BY <1>3, EventsFrom
  <2>2. Among(e, executed)
    <3>1. 1 \in DOMAIN executed
      BY SMT, <1>1, <2>1 DEF Sequenced
    <3> HIDE DEF executed
    <3> QED BY <3>1 DEF Among
  <2>3. Among(e, r.logs) /\ e.event = "MainnetSwapExecuted"
    BY SMT, <1>3, <2>2, EventsFrom
  <2>4. e # made
    BY <1>4, <2>3
  <2> QED BY <1>3, <2>3, <2>4
<1> HIDE DEF executed, e
<1>6. e.amountOut = t.effect.out /\ e.feeAmount = t.effect.fee /\ e.event = "MainnetSwapExecuted"
  BY <1>5, SwapLogFields
<1>7. t.effect.paid[1] = e.amountOut
  <2>1. PICK k \in DOMAIN r.logs : r.logs[k].event = "Transfer" /\ r.logs[k].amount = e.amountOut
    BY <1>1 DEF hasOutputTransfer
  <2>2. Among(r.logs[k], r.logs)
    BY DEF Among
  <2>3. r.logs[k] = made
    BY <1>3, <1>5, <1>6, <2>1, <2>2
  <2> QED BY <1>4, <2>1, <2>3
<1>8. t.to # Elsewhere
  BY <1>2 DEF SwapAddress, Elsewhere
<1>9. Credited(t) = <<Credit(Wallet, p.outputToken, t.effect.paid[1])>>
  BY SMT, <1>2, <1>8, CreditedByFunction
<1>10. PaidAsApproved(i, t)
  <2>1. t.effect.paid[1] >= p.minimumOutput
    BY <1>1, <1>7
  <2> QED BY SMT, <1>2, <1>9, <2>1, PaidByType
<1>11. CostAsApproved(i, t)
  BY SMT, <1>0, <1>6, CostByType
<1> QED BY <1>10, <1>11

\* Every payment event of the logs is one of the transaction's recipients'.
OnlyPayments(logs, t, tokenOut) ==
  \A x : Among(x, logs) /\ x.event = "Payment" =>
            \E k \in 1..Len(t.data.args.recipients) : x = PaymentLog(t, tokenOut, k)

\* The payments are numbered in order and have these amounts.
Numbering(payments, amounts) ==
  \A k \in DOMAIN payments : payments[k].index = k - 1 /\ payments[k].amount = amounts[k]

\* Payments that carry their recipients' positions are in order, so each of them has the
\* amount that its event says.
LEMMA PaymentsSound ==
  ASSUME NEW t, NEW tokenOut, NEW n \in Nat, n = Len(t.data.args.recipients),
         NEW logs, Sequenced(logs), NEW payments,
         payments = EventsOf(logs, PayrollAddress, "Payment"), Len(payments) = n,
         OnlyPayments(logs, t, tokenOut), NEW amounts, Numbering(payments, amounts)
  PROVE  PaidEach(t, n, amounts)
<1>1. Sequenced(payments) /\ \A x : Among(x, payments) => Among(x, logs) /\ x.event = "Payment"
  BY SMT, EventsFrom
<1>2. DOMAIN payments = 1..n
  BY <1>1 DEF Sequenced
<1> SUFFICES ASSUME NEW k \in 1..n PROVE t.effect.paid[k] = amounts[k]
  BY DEF PaidEach
<1>3. Among(payments[k], payments)
  BY <1>2 DEF Among
<1>4. PICK m \in 1..n : payments[k] = PaymentLog(t, tokenOut, m)
  BY <1>1, <1>3 DEF OnlyPayments
<1>5. payments[k].index = m - 1 /\ payments[k].amount = t.effect.paid[m]
  BY SMT, <1>4 DEF PaymentLog
<1>6. payments[k].index = k - 1 /\ payments[k].amount = amounts[k]
  BY <1>2 DEF Numbering
<1>7. m - 1 = k - 1
  BY <1>5, <1>6
<1>8. m = k
  BY SMT, <1>7
<1> QED BY <1>5, <1>6, <1>8

\* A same-token payroll that the verifier accepts paid every recipient.
LEMMA SameSound ==
  ASSUME NEW i, NEW t, t.ok, NEW r, OfTransaction(r, t),
         NEW c, c.data.function = SameToken, SameOf(i.fin, c.data.args),
         t.effect \in Effects(t.data), sameTokenMatches(i.fin, c, r)
  PROVE  PaidAsApproved(i, t) /\ CostAsApproved(i, t)
<1> DEFINE p == i.fin
           n == Len(p.recipients)
           a == t.data.args
           payments == EventsOf(r.logs, PayrollAddress, "Payment")
           ref == EventsOf(r.logs, PayrollAddress, "ReferenceConsumed")[1]
           total == SumOf(t.effect.paid) + t.effect.fee
<1>1. ref.totalFees <= (p.total * MaxFeeBPS) \div 10000
  BY SMT DEF sameTokenMatches
<1>2. /\ r.from = Wallet /\ r.to = PayrollAddress /\ r.data = c.data
      /\ Len(payments) = n /\ Len(EventsOf(r.logs, PayrollAddress, "ReferenceConsumed")) = 1
  BY SMT DEF sameTokenMatches
<1>3. \A k \in DOMAIN payments :
        payments[k].index = k - 1 /\ payments[k].amount = p.recipients[k].amountIn
  BY SMT DEF sameTokenMatches, PaymentMatches
<1>4. /\ t.from = Wallet /\ t.to = PayrollAddress /\ t.data = c.data /\ r.logs = LogsOf(t)
  BY <1>2 DEF OfTransaction
<1>5. t.data.function = SameToken /\ SameOf(p, a)
  BY <1>4
<1>6. r.logs = PayrollLogs(t, a.token, a.token, total)
  BY <1>4, <1>5, LogsByFunction
<1>7. /\ n \in Nat /\ n = Len(a.recipients)
      /\ BatchOf(p, a, a.amounts, a.token) /\ p.type = "PAYROLL" /\ p.crossToken = None
      /\ \A k \in 1..n : p.recipients[k].amountIn = a.amounts[k]
  BY <1>5 DEF SameOf, BatchOf
<1>8. /\ Sequenced(r.logs)
      /\ \A x : Among(x, r.logs) => PayrollEntry(x, t, a.token, a.token, total)
  BY <1>6, <1>7, PayrollLogsFrom
<1> HIDE DEF payments, ref, total
<1>9. OnlyPayments(r.logs, t, a.token)
  BY SMT, <1>7, <1>8, EntryByEvent DEF OnlyPayments
<1>10. PaidEach(t, n, a.amounts)
  <2> DEFINE amounts == a.amounts
             token == a.token
  <2>1. DOMAIN payments = 1..n
    BY SMT, <1>2, <1>8, EventsFrom DEF payments, Sequenced
  <2>2. Numbering(payments, amounts)
    BY <1>3, <1>7, <2>1 DEF Numbering
  <2>3. n \in Nat /\ n = Len(t.data.args.recipients) /\ Len(payments) = n /\ Sequenced(r.logs)
    BY <1>2, <1>7, <1>8
  <2>4. payments = EventsOf(r.logs, PayrollAddress, "Payment") /\ OnlyPayments(r.logs, t, token)
    BY <1>9 DEF payments
  <2> HIDE DEF p, n, amounts, token
  <2>5. PaidEach(t, n, amounts)
    BY <2>2, <2>3, <2>4, PaymentsSound
  <2> QED BY <2>5 DEF amounts
<1>11. Credited(t) = ApprovedLines(p)
  <2>1. t.to # Elsewhere
    BY <1>4 DEF PayrollAddress, Elsewhere
  <2>2. Credited(t) = PaidLines(t, a.token)
    BY <1>5, <2>1, CreditedByFunction
  <2>3. PaidLines(t, a.token) = ApprovedLines(p)
    <3> DEFINE amounts == a.amounts
               token == a.token
    <3>1. BatchOf(p, t.data.args, amounts, token) /\ PaidEach(t, Len(p.recipients), amounts)
      BY <1>7, <1>10
    <3> HIDE DEF amounts, token, p
    <3>2. PaidLines(t, token) = ApprovedLines(p)
      BY <3>1, LinesAgree
    <3> QED BY <3>2 DEF token
  <2> QED BY <2>2, <2>3
<1>12. PaidAsApproved(i, t)
  BY SMT, <1>4, <1>7, <1>11, PaidByType
<1>13. ref.totalFees = t.effect.fee
  <2>1. Among(ref, r.logs) /\ ref.event = "ReferenceConsumed"
    BY SMT, <1>2, <1>8, OneEvent DEF ref
  <2>2. ref = ReferenceLog(t, a.token, a.token, total)
    BY SMT, <1>8, <2>1, EntryByEvent
  <2> QED BY SMT, <2>2, TotalsLogFields DEF ReferenceLog
<1>14. t.effect.fee \in Nat /\ p.total \in Nat
  <2>1. p.total = SumOf(a.amounts) /\ p.total \in Nat
    BY <1>7 DEF BatchOf
  <2>2. t.effect \in SameTokenEffects(a)
    BY <1>5, EffectsByFunction
  <2> QED BY <2>1, <2>2, SameEffects
<1>15. t.effect.fee * 10000 <= p.total * MaxFeeBPS
  <2> HIDE DEF p
  <2> QED BY SMT, <1>1, <1>13, <1>14, CapBounds
<1>16. CostAsApproved(i, t)
  BY SMT, <1>7, <1>15, CostByType
<1> QED BY <1>12, <1>16

\* What may be in a cross-token payroll's logs.
CrossEntry(x, t) ==
  \/ x = SwapExecutedLog(t)
  \/ PayrollEntry(x, t, t.data.args.tokenIn, t.data.args.tokenOut, t.data.args.grossInput)
  \/ x = SurplusRefundedLog(t)

\* A cross-token payroll's logs, whoever was paid.
LEMMA CrossLogsFrom ==
  ASSUME NEW t, Len(t.data.args.recipients) \in Nat
  PROVE  Sequenced(CrossTokenLogs(t)) /\ \A x : Among(x, CrossTokenLogs(t)) => CrossEntry(x, t)
<1> DEFINE a == t.data.args
           e == SwapExecutedLog(t)
           refund == SurplusRefundedLog(t)
           s1 == <<e>>
           s2 == PayrollLogs(t, a.tokenIn, a.tokenOut, a.grossInput)
           s3 == Made(<<refund>>)
           s12 == s1 \o s2
<1>1. CrossTokenLogs(t) = s12 \o s3
  BY DEF CrossTokenLogs
<1> HIDE DEF e, refund
<1>2. Sequenced(s1) /\ \A x : Among(x, s1) => x = e
  BY FewEntries
<1>3. Sequenced(s2)
  BY PayrollLogsFrom
<1>4. \A x : Among(x, s2) => PayrollEntry(x, t, a.tokenIn, a.tokenOut, a.grossInput)
  BY PayrollLogsFrom
<1>5. Sequenced(s3) /\ \A x : Among(x, s3) => x = refund
  BY SMT, MadeOne
<1> HIDE DEF s1, s2, s3
<1>6. Sequenced(s12) /\ \A x : Among(x, s12) => Among(x, s1) \/ Among(x, s2)
  BY SMT, <1>2, <1>3, ConcatFrom
<1> HIDE DEF s12
<1>7. Sequenced(s12 \o s3) /\ \A x : Among(x, s12 \o s3) => Among(x, s12) \/ Among(x, s3)
  BY SMT, <1>5, <1>6, ConcatFrom
<1>8. ASSUME NEW x, Among(x, s12 \o s3) PROVE CrossEntry(x, t)
  <2>1. x = e \/ PayrollEntry(x, t, a.tokenIn, a.tokenOut, a.grossInput) \/ x = refund
    BY <1>2, <1>4, <1>5, <1>6, <1>7, <1>8
  <2> QED BY <2>1 DEF CrossEntry, e, refund
<1> QED BY <1>1, <1>7, <1>8

\* An entry of a cross-token payroll's logs is told by its event.
LEMMA CrossByEvent ==
  ASSUME NEW x, NEW t, CrossEntry(x, t)
  PROVE  /\ x.event = "Payment" =>
              \E k \in 1..Len(t.data.args.recipients) : x = PaymentLog(t, t.data.args.tokenOut, k)
         /\ x.event = "ReferenceConsumed" =>
              x = ReferenceLog(t, t.data.args.tokenIn, t.data.args.tokenOut, t.data.args.grossInput)
         /\ x.event = "BatchExecuted" =>
              x = BatchLog(t, t.data.args.tokenIn, t.data.args.tokenOut, t.data.args.grossInput)
         /\ x.event = "SwapExecuted" => x = SwapExecutedLog(t)
         /\ x.event = "SurplusRefunded" => x = SurplusRefundedLog(t)
<1>1. CASE x = SwapExecutedLog(t)
  <2>1. x.event = "SwapExecuted"
    BY <1>1 DEF SwapExecutedLog
  <2> QED BY <1>1, <2>1
<1>2. CASE x = SurplusRefundedLog(t)
  <2>1. x.event = "SurplusRefunded"
    BY <1>2 DEF SurplusRefundedLog
  <2> QED BY <1>2, <2>1
<1>3. CASE PayrollEntry(x, t, t.data.args.tokenIn, t.data.args.tokenOut, t.data.args.grossInput)
  BY SMT, <1>3, EntryByEvent
<1> QED BY <1>1, <1>2, <1>3 DEF CrossEntry

\* What the refund must have been.
LEMMA RefundSound ==
  ASSUME NEW refund, NEW out \in Int, NEW total \in Nat, out >= total,
         refund = 0 \/ (refund = out - total /\ refund > 0),
         out - total > 0 => refund = out - total
  PROVE  refund = out - total
BY SMT

\* A cross-token payroll that the verifier accepts paid every recipient and returned the rest.
LEMMA CrossSound ==
  ASSUME NEW i, NEW t, t.ok, NEW r, OfTransaction(r, t),
         NEW c, c.data.function = CrossToken, CrossOf(i.fin, c.data.args),
         t.effect \in Effects(t.data), crossTokenMatches(i.fin, c, r)
  PROVE  PaidAsApproved(i, t) /\ CostAsApproved(i, t)
<1> DEFINE p == i.fin
           n == Len(p.recipients)
           a == t.data.args
           events(e) == EventsOf(r.logs, PayrollAddress, e)
           payments == events("Payment")
           swap == events("SwapExecuted")[1]
           refunds == events("SurplusRefunded")
           obligations == SumOf(Map(p.recipients, LAMBDA x : x.minAmountOut))
           hash == ReferenceHash(Wallet, p.referenceID)
<1>1. swap.feeAmount * 10000 <= p.crossToken[1].grossInput * MaxFeeBPS
  BY SMT DEF crossTokenMatches
<1>2. /\ r.from = Wallet /\ r.to = PayrollAddress /\ r.data = c.data /\ Len(payments) = n
      /\ Len(events("SwapExecuted")) = 1
      /\ swap.amountOut >= p.crossToken[1].minTotalOut /\ swap.amountOut >= obligations
  BY SMT DEF crossTokenMatches
<1>3. \A k \in DOMAIN payments :
        payments[k].index = k - 1 /\ payments[k].amount = p.recipients[k].minAmountOut
  BY SMT DEF crossTokenMatches, PaymentMatches
<1>4. surplusMatches(refunds, hash, p.recipients[1].tokenOut, swap.amountOut - obligations)
  BY SMT DEF crossTokenMatches
<1>5. /\ t.from = Wallet /\ t.to = PayrollAddress /\ t.data = c.data /\ r.logs = LogsOf(t)
  BY <1>2 DEF OfTransaction
<1>6. t.data.function = CrossToken /\ CrossOf(p, a)
  BY <1>5
<1>7. r.logs = CrossTokenLogs(t)
  BY <1>5, <1>6, LogsByFunction
<1>8. /\ n \in Nat /\ n = Len(a.recipients) /\ p.type = "PAYROLL" /\ p.crossToken # None
      /\ BatchOf(p, a, a.outputAmounts, a.tokenOut)
      /\ \A k \in 1..n : p.recipients[k].minAmountOut = a.outputAmounts[k]
      /\ p.total = SumOf(a.outputAmounts) /\ p.total \in Nat
      /\ p.crossToken[1].grossInput = a.grossInput /\ p.crossToken[1].minTotalOut = a.minTotalOut
      /\ a.grossInput \in Nat /\ a.minTotalOut \in Nat
  BY <1>6 DEF CrossOf, BatchOf
<1>9. obligations = p.total
  BY <1>6, <1>8 DEF CrossOf
<1>10. Sequenced(r.logs) /\ \A x : Among(x, r.logs) => CrossEntry(x, t)
  BY <1>7, <1>8, CrossLogsFrom
<1> HIDE DEF payments, swap, refunds, obligations, hash
<1>11. PaidEach(t, n, a.outputAmounts)
  <2> DEFINE amounts == a.outputAmounts
             token == a.tokenOut
  <2>1. OnlyPayments(r.logs, t, token)
    BY SMT, <1>8, <1>10, CrossByEvent DEF OnlyPayments
  <2>2. DOMAIN payments = 1..n
    BY SMT, <1>2, <1>10, EventsFrom DEF payments, Sequenced
  <2>3. Numbering(payments, amounts)
    BY <1>3, <1>8, <2>2 DEF Numbering
  <2>4. n \in Nat /\ n = Len(t.data.args.recipients) /\ Len(payments) = n /\ Sequenced(r.logs)
    BY <1>2, <1>8, <1>10
  <2>5. payments = EventsOf(r.logs, PayrollAddress, "Payment")
    BY DEF payments
  <2> HIDE DEF p, n, amounts, token
  <2>6. PaidEach(t, n, amounts)
    BY <2>1, <2>3, <2>4, <2>5, PaymentsSound
  <2> QED BY <2>6 DEF amounts
<1>12. Credited(t) = ApprovedLines(p)
  <2>1. t.to # Elsewhere
    BY <1>5 DEF PayrollAddress, Elsewhere
  <2>2. Credited(t) = PaidLines(t, a.tokenOut)
    BY <1>6, <2>1, CreditedByFunction
  <2>3. PaidLines(t, a.tokenOut) = ApprovedLines(p)
    <3> DEFINE amounts == a.outputAmounts
               token == a.tokenOut
    <3>1. BatchOf(p, t.data.args, amounts, token) /\ PaidEach(t, Len(p.recipients), amounts)
      BY <1>8, <1>11
    <3> HIDE DEF amounts, token, p
    <3>2. PaidLines(t, token) = ApprovedLines(p)
      BY <3>1, LinesAgree
    <3> QED BY <3>2 DEF token
  <2> QED BY <2>2, <2>3
<1>13. PaidAsApproved(i, t)
  BY SMT, <1>5, <1>8, <1>12, PaidByType
<1>14. swap.feeAmount = t.effect.fee /\ swap.amountOut = t.effect.out
  <2>1. Among(swap, r.logs) /\ swap.event = "SwapExecuted"
    BY SMT, <1>2, <1>10, OneEvent DEF swap
  <2>2. swap = SwapExecutedLog(t)
    BY SMT, <1>10, <2>1, CrossByEvent
  <2> QED BY <2>2, SwapExecutedFields
<1>15. /\ t.effect.out \in Int
       /\ \/ t.effect.refund = 0
          \/ t.effect.refund = t.effect.out - p.total /\ t.effect.refund > 0
  <2>1. t.effect \in CrossTokenEffects(a)
    BY <1>6, EffectsByFunction
  <2> QED BY <1>8, <2>1, CrossEffects
<1>16. ASSUME t.effect.out - p.total > 0 PROVE t.effect.refund = t.effect.out - p.total
  <2>1. Len(refunds) = 1 /\ refunds[1].amount = t.effect.out - p.total
    BY <1>4, <1>9, <1>14, <1>16 DEF surplusMatches
  <2>2. Among(refunds[1], r.logs) /\ refunds[1].event = "SurplusRefunded"
    BY SMT, <1>10, <2>1, OneEvent DEF refunds
  <2>3. refunds[1] = SurplusRefundedLog(t)
    BY SMT, <1>10, <2>2, CrossByEvent
  <2>4. refunds[1].amount = t.effect.refund
    BY <2>3, SurplusFields
  <2> QED BY <2>1, <2>4
<1>17. t.effect.refund = t.effect.out - p.total
  <2>1. t.effect.out >= p.total
    BY <1>2, <1>9, <1>14
  <2> HIDE DEF p
  <2> QED BY <1>8, <1>15, <1>16, <2>1, RefundSound
<1>18. t.effect.out >= p.crossToken[1].minTotalOut
  BY <1>2, <1>14
<1>19. CostAsApproved(i, t)
  BY SMT, <1>1, <1>8, <1>14, <1>17, <1>18, CostByType
<1> QED BY <1>13, <1>19

\* What is called verified moved the balances as approved.
LEMMA OutcomeSound ==
  ASSUME NEW i, IntentValid(i), i.status = "APPROVED", Callable(i), NEW T, NEW view,
         T # None /\ T[1].ok => T[1].effect \in Effects(T[1].data),
         VerifyOutcome(i, TransactionReceipt(T, view)) = "VERIFIED"
  PROVE  T # None /\ PaidAsApproved(i, T[1]) /\ CostAsApproved(i, T[1])
<1> DEFINE r == TransactionReceipt(T, view)[1]
           t == T[1]
<1>1. /\ TransactionReceipt(T, view) # None /\ r.status = "SUCCESS"
      /\ DomainOutcome(i, r) = "VERIFIED"
  BY OutcomeByReceipt
<1>2. T # None /\ t.ok /\ OfTransaction(r, t)
  <2>1. /\ T # None /\ T[1].ok
        /\ r.from = T[1].from /\ r.to = T[1].to
        /\ r.value = T[1].value /\ r.data = T[1].data /\ r.logs = LogsOf(T[1])
    BY SMT, <1>1, ReceiptSuccess
  <2> QED BY <2>1 DEF OfTransaction
<1>3. t.effect \in Effects(t.data)
  BY <1>2
<1> HIDE DEF r, t
<1>4. ASSUME NEW c, SameCallable(i, c) PROVE PaidAsApproved(i, t) /\ CostAsApproved(i, t)
  <2> DEFINE matches == sameTokenMatches(i.fin, c, r)
  <2>1. Judged(i, r, matches)
    BY <1>4, SameJudged
  <2>2. matches
    <3> HIDE DEF matches
    <3> QED BY SMT, <1>1, <2>1, JudgedAs
  <2> QED BY <1>2, <1>3, <1>4, <2>2, SameSound DEF SameCallable
<1>5. ASSUME NEW c, CrossCallable(i, c) PROVE PaidAsApproved(i, t) /\ CostAsApproved(i, t)
  <2> DEFINE matches == crossTokenMatches(i.fin, c, r)
  <2>1. Judged(i, r, matches)
    BY <1>5, CrossJudged
  <2>2. matches
    <3> HIDE DEF matches
    <3> QED BY SMT, <1>1, <2>1, JudgedAs
  <2> QED BY <1>2, <1>3, <1>5, <2>2, CrossSound DEF CrossCallable
<1>6. ASSUME NEW c, SwapCallable(i, c) PROVE PaidAsApproved(i, t) /\ CostAsApproved(i, t)
  <2> DEFINE matches == swapMatches(i.fin, c, r)
  <2>1. Judged(i, r, matches)
    BY <1>6, SwapJudged
  <2>2. matches
    <3> HIDE DEF matches
    <3> QED BY SMT, <1>1, <2>1, JudgedAs
  <2> QED BY <1>2, <1>6, <2>2, SwapSound DEF SwapCallable, SwapOf
<1>7. ASSUME NEW q, SendCallable(i, q) PROVE PaidAsApproved(i, t) /\ CostAsApproved(i, t)
  <2>1. verifySend(q, r)
    BY <1>1, <1>7, SendJudged
  <2> QED BY <1>2, <1>7, <2>1, SendSound DEF SendCallable
<1> QED BY <1>2, <1>4, <1>5, <1>6, <1>7 DEF Callable, t

-----------------------------------------------------------------------------
(* The planned calls, as their verifiers find them.                        *)

\* The batch of a call that the contract takes is the draft's.
LEMMA BatchFrom ==
  ASSUME NEW d, d.recipients \in Seq([address : STRING, amount : Nat]), NEW p, PayrollOf(p, d),
         NEW a, a.recipients = Addresses(d), a.referenceID = d.referenceID,
         NEW tokenOut, \A k \in DOMAIN d.recipients : p.recipients[k].tokenOut = tokenOut,
         validateBatch(Addresses(d), Amounts(d), d.referenceID)
  PROVE  BatchOf(p, a, Amounts(d), tokenOut)
<1> DEFINE n == Len(d.recipients)
<1>1. /\ Len(p.recipients) = n /\ DOMAIN p.recipients = 1..n /\ DOMAIN d.recipients = 1..n
      /\ Len(Addresses(d)) = n
  BY PayrollFields DEF PayrollOf
<1>2. /\ DOMAIN Addresses(d) = 1..n /\ DOMAIN Amounts(d) = 1..n
      /\ Amounts(d) = [k \in 1..n |-> d.recipients[k].amount]
      /\ \A k \in 1..n : /\ Addresses(d)[k] = d.recipients[k].address
                         /\ Amounts(d)[k] = d.recipients[k].amount
  BY <1>1 DEF Addresses, Amounts
<1>3. Amounts(d) = [k \in 1..n |-> Amounts(d)[k]]
  <2> HIDE DEF n
  <2> QED BY <1>2
<1>4. Len(Addresses(d)) \in 1..MaxRecipients /\ \A k \in 1..n : PositiveUint128(Amounts(d)[k])
  BY <1>2 DEF validateBatch
<1>5. n \in Nat \ {0} /\ \A k \in 1..n : Amounts(d)[k] \in Nat \ {0}
  BY SMT, <1>1, <1>4, TypedAssumption DEF PositiveUint128
<1>6. SumOf(Amounts(d)) \in Nat
  <2> HIDE DEF n
  <2> QED BY <1>2, <1>5, SumIsNat
<1>7. /\ p.total = SumOf(Amounts(d)) /\ p.referenceID = d.referenceID
      /\ \A k \in 1..n : /\ p.recipients[k].address = d.recipients[k].address
                         /\ p.recipients[k].minAmountOut = d.recipients[k].amount
  BY <1>1 DEF PayrollOf
<1> HIDE DEF n
<1> QED BY <1>1, <1>2, <1>3, <1>5, <1>6, <1>7 DEF BatchOf, n

\* The fields of the arguments of the three calls.
LEMMA ArgsFields ==
  ASSUME NEW d
  PROVE  /\ SameArgs(d).token = d.token /\ SameArgs(d).recipients = Addresses(d)
         /\ SameArgs(d).amounts = Amounts(d) /\ SameArgs(d).referenceID = d.referenceID
         /\ CrossArgs(d).tokenIn = d.token /\ CrossArgs(d).tokenOut = d.outputToken
         /\ CrossArgs(d).recipients = Addresses(d) /\ CrossArgs(d).outputAmounts = Amounts(d)
         /\ CrossArgs(d).grossInput = d.grossInput /\ CrossArgs(d).minTotalOut = d.minTotalOut
         /\ CrossArgs(d).minHopPrice = d.minHopPrice /\ CrossArgs(d).deadline = d.swapDeadline
         /\ CrossArgs(d).referenceID = d.referenceID
         /\ SwapArgs(d).tokenIn = d.tokenIn /\ SwapArgs(d).tokenOut = d.tokenOut
         /\ SwapArgs(d).amountIn = d.amountIn /\ SwapArgs(d).minAmountOut = d.minAmountOut
         /\ SwapArgs(d).minHopPrice = d.minHopPrice /\ SwapArgs(d).deadline = d.swapDeadline
BY SMT DEF SameArgs, CrossArgs, SwapArgs

\* A planned same-token payroll's call.
LEMMA SameCalled ==
  ASSUME NEW d, NEW i, Intended(d, i), i.status = "APPROVED", d.type = "PAYROLL",
         d.outputToken = "", Plan(i) # None
  PROVE  SameCallable(i, PayrollCall(SameToken, SameArgs(d)))
<1> DEFINE p == i.fin
           a == SameArgs(d)
           c == PayrollCall(SameToken, a)
<1>1. /\ PayrollOf(p, d) /\ validateBinding(i) /\ IntentValid(i) /\ ValidateSameToken(p)
      /\ ~ValidateCrossToken(p) /\ p.type = "PAYROLL"
      /\ d.recipients \in Seq([address : STRING, amount : Nat])
  BY PayrollIntended DEF IntentValid
<1>2. PlanPayroll(i) = EncodeSameTokenPayroll(a)
  <2>1. PlanPayroll(i) = planSameToken(p)
    BY <1>1 DEF PlanPayroll
  <2>2. planSameToken(p) = EncodeSameTokenPayroll(a)
    BY <1>1 DEF planSameToken, PayrollOf, SameArgs
  <2> QED BY <2>1, <2>2
<1>3. validateSameTokenCall(a)
  <2>1. ~validateSameTokenCall(a) => PlanPayroll(i) = None
    BY <1>2 DEF EncodeSameTokenPayroll
  <2> QED BY <2>1, PayrollUnsealed
<1>4. PlanPayroll(i) = Some(c)
  BY <1>2, <1>3, PayrollEncoded DEF EncodeSameTokenPayroll
<1>5. /\ a.token = d.token /\ a.recipients = Addresses(d) /\ a.amounts = Amounts(d)
      /\ a.referenceID = d.referenceID
  BY ArgsFields
<1> HIDE DEF a
<1>6. c.contract = "WIZPAY_PAYROLL" /\ c.to = PayrollAddress /\ c.data.function = SameToken
      /\ c.data.args = a
  BY DEF PayrollCall
<1> HIDE DEF c
<1>7. DecodeSameTokenPayrollCall(c.data) = Some(a) /\ Some(a) # None /\ Some(a)[1] = a
  BY <1>3, <1>6, Optional DEF DecodeSameTokenPayrollCall
<1>8. bindsSameToken(p, c.data)
  BY <1>1, <1>5, <1>7 DEF bindsSameToken, PayrollOf
<1>9. /\ p.crossToken = None /\ p.tokenIn = d.token /\ Len(p.recipients) = Len(d.recipients)
      /\ \A k \in DOMAIN d.recipients : /\ p.recipients[k].amountIn = d.recipients[k].amount
                                        /\ p.recipients[k].tokenOut = d.token
  BY <1>1 DEF PayrollOf, ValidateSameToken
<1>10. validateBatch(Addresses(d), Amounts(d), d.referenceID)
  BY <1>3, <1>5 DEF validateSameTokenCall
<1>11. BatchOf(p, a, a.amounts, a.token)
  <2> HIDE DEF p
  <2> QED BY <1>1, <1>5, <1>9, <1>10, BatchFrom
<1>12. \A k \in 1..Len(p.recipients) : p.recipients[k].amountIn = a.amounts[k]
  <2>1. DOMAIN d.recipients = 1..Len(p.recipients)
    BY <1>1, <1>9, PayrollFields
  <2>2. \A k \in DOMAIN d.recipients : Amounts(d)[k] = d.recipients[k].amount
    BY DEF Amounts
  <2> QED BY <1>5, <1>9, <2>1, <2>2
<1>13. SameOf(p, a)
  BY <1>1, <1>5, <1>9, <1>11, <1>12 DEF SameOf
<1>14. validatePayrollPlan(p, c)
  BY <1>1, <1>6, <1>8 DEF validatePayrollPlan
<1>15. expectedValue(i) = 0
  BY <1>1 DEF expectedValue, contractNativeValue
<1> QED BY <1>1, <1>4, <1>6, <1>8, <1>13, <1>14, <1>15 DEF SameCallable, a, c

\* A planned cross-token payroll's call.
LEMMA CrossCalled ==
  ASSUME NEW d, NEW i, Intended(d, i), i.status = "APPROVED", d.type = "PAYROLL",
         d.outputToken # "", Plan(i) # None
  PROVE  CrossCallable(i, PayrollCall(CrossToken, CrossArgs(d)))
<1> DEFINE p == i.fin
           a == CrossArgs(d)
           c == PayrollCall(CrossToken, a)
           m == p.crossToken[1]
<1>1. /\ PayrollOf(p, d) /\ validateBinding(i) /\ IntentValid(i) /\ ValidateCrossToken(p)
      /\ ~ValidateSameToken(p) /\ p.type = "PAYROLL"
      /\ d.recipients \in Seq([address : STRING, amount : Nat])
  BY PayrollIntended DEF IntentValid
<1>2. 1 \in DOMAIN d.recipients
  <2>1. Len(d.recipients) \in 1..MaxRecipients
    BY <1>1 DEF ValidateCrossToken, validateCrossTokenTimeline, PayrollOf
  <2> QED BY <1>1, <2>1, FirstPosition
<1>3. /\ p.tokenIn = d.token /\ p.referenceID = d.referenceID /\ addressesOf(p) = Addresses(d)
      /\ Map(p.recipients, LAMBDA r : r.minAmountOut) = Amounts(d)
      /\ p.crossToken # None /\ p.recipients[1].tokenOut = d.outputToken
      /\ \A k \in DOMAIN d.recipients : p.recipients[k].tokenOut = d.outputToken
      /\ m.grossInput = d.grossInput /\ m.minTotalOut = d.minTotalOut
      /\ m.minHopPrice = d.minHopPrice /\ m.deadline = d.swapDeadline
  BY <1>1, <1>2 DEF PayrollOf
<1>4. PlanPayroll(i) = EncodeCrossTokenPayroll(a)
  <2>1. PlanPayroll(i) = planCrossToken(p)
    BY <1>1 DEF PlanPayroll
  <2>2. planCrossToken(p) = EncodeCrossTokenPayroll(a)
    BY <1>3 DEF planCrossToken, CrossArgs
  <2> QED BY <2>1, <2>2
<1>5. validateCrossTokenCall(a)
  <2>1. ~validateCrossTokenCall(a) => PlanPayroll(i) = None
    BY <1>4 DEF EncodeCrossTokenPayroll
  <2> QED BY <2>1, PayrollUnsealed
<1>6. PlanPayroll(i) = Some(c)
  BY <1>4, <1>5, PayrollEncoded DEF EncodeCrossTokenPayroll
<1>7. /\ a.tokenIn = d.token /\ a.tokenOut = d.outputToken /\ a.recipients = Addresses(d)
      /\ a.outputAmounts = Amounts(d) /\ a.grossInput = d.grossInput
      /\ a.minTotalOut = d.minTotalOut /\ a.minHopPrice = d.minHopPrice
      /\ a.deadline = d.swapDeadline /\ a.referenceID = d.referenceID
  BY ArgsFields
<1> HIDE DEF a
<1>8. c.contract = "WIZPAY_PAYROLL" /\ c.to = PayrollAddress /\ c.data.function = CrossToken
      /\ c.data.args = a
  BY DEF PayrollCall
<1> HIDE DEF c, m
<1>9. DecodeCrossTokenPayrollCall(c.data) = Some(a) /\ Some(a) # None /\ Some(a)[1] = a
  BY <1>5, <1>8, Optional DEF DecodeCrossTokenPayrollCall
<1>10. bindsCrossToken(p, c.data)
  BY <1>3, <1>7, <1>9 DEF bindsCrossToken, m
<1>11. validateBatch(Addresses(d), Amounts(d), d.referenceID)
  BY <1>5, <1>7 DEF validateCrossTokenCall
<1>12. BatchOf(p, a, a.outputAmounts, a.tokenOut)
  <2> HIDE DEF p
  <2> QED BY <1>1, <1>3, <1>7, <1>11, BatchFrom
<1>13. a.grossInput \in Nat /\ a.minTotalOut \in Nat
  <2>1. WellFormed(d)
    BY PlanningAssumption DEF Intended
  <2> QED BY <1>7, <2>1 DEF WellFormed
<1>14. CrossOf(p, a)
  BY <1>1, <1>3, <1>7, <1>12, <1>13 DEF CrossOf, m
<1>15. validatePayrollPlan(p, c)
  BY <1>1, <1>8, <1>10 DEF validatePayrollPlan
<1>16. expectedValue(i) = IF p.tokenIn = "USDC" THEN m.grossInput * NativeScale ELSE 0
  BY <1>1 DEF expectedValue, contractNativeValue, m
<1> QED BY <1>1, <1>6, <1>8, <1>10, <1>14, <1>15, <1>16 DEF CrossCallable, a, c, m

\* A planned swap's call.
LEMMA SwapCalled ==
  ASSUME NEW d, NEW i, Intended(d, i), i.status = "APPROVED", d.type = "SWAP", Plan(i) # None
  PROVE  SwapCallable(i, SwapCall(d))
<1> DEFINE p == i.fin
           a == SwapArgs(d)
           c == SwapCall(d)
<1>1. p = swapFinancial(d) /\ validateParams(i) /\ i.route = RouteFor(d.type)
  BY Frozen, FinancialKinds
<1>2. /\ p.type = "SWAP" /\ p.inputToken = d.tokenIn /\ p.outputToken = d.tokenOut
      /\ p.inputAmount = d.amountIn
  BY <1>1, SwapFields
<1>3. /\ p.minimumOutput = d.minAmountOut /\ p.minHopPrice = d.minHopPrice
      /\ p.deadline = d.swapDeadline
  BY <1>1, SwapFields
<1>4. Phase12ExecutableSwap(p)
  <2>1. FinancialValid(p)
    BY <1>1 DEF validateParams
  <2> QED BY SMT, <1>2, <2>1 DEF FinancialValid
<1>5. PlanSwap(i) = EncodeExecuteSwap(a)
  BY <1>1, <1>2, <1>3, <1>4 DEF PlanSwap, IntentValid, validateBinding, SwapArgs
<1>6. EncodeExecuteSwap(a) = IF validateExecuteSwap(a) THEN Some(c) ELSE None
  BY SMT DEF EncodeExecuteSwap, NewEncodedCall, DeploymentOf, SwapCall, ExecuteSwap
<1>7. Plan(i) = IF PlanSwap(i) = None THEN None ELSE contractPlan(i, PlanSwap(i)[1])
  BY SMT, <1>1, <1>2 DEF Plan, IntentValid
<1>8. validateExecuteSwap(a) /\ PlanSwap(i) = Some(c)
  BY <1>5, <1>6, <1>7
<1>9. /\ a.tokenIn = d.tokenIn /\ a.tokenOut = d.tokenOut /\ a.amountIn = d.amountIn
      /\ a.minAmountOut = d.minAmountOut /\ a.minHopPrice = d.minHopPrice
      /\ a.deadline = d.swapDeadline
  BY ArgsFields
<1> HIDE DEF a
<1>10. c.contract = "WIZPAY_SWAP_EXECUTOR" /\ c.to = SwapAddress /\ c.data.function = ExecuteSwap
      /\ c.data.args = a
  BY DEF SwapCall, a
<1> HIDE DEF c
<1>11. DecodeExecuteSwapCall(c.data) = Some(a) /\ Some(a) # None /\ Some(a)[1] = a
  BY <1>8, <1>10, Optional DEF DecodeExecuteSwapCall
<1>12. bindsSwap(p, c.data)
  BY <1>2, <1>3, <1>9, <1>11 DEF bindsSwap
<1>13. a.amountIn \in Nat \ {0} /\ a.minAmountOut \in Nat \ {0}
  <2>1. PositiveUint128(a.amountIn) /\ PositiveUint128(a.minAmountOut)
    BY <1>8 DEF validateExecuteSwap
  <2> QED BY SMT, <2>1, TypedAssumption DEF PositiveUint128
<1>14. SwapOf(p, a)
  BY <1>2, <1>3, <1>9, <1>13 DEF SwapOf
<1>15. validateSwapPlan(p, c)
  BY <1>4, <1>10, <1>12 DEF validateSwapPlan
<1>16. expectedValue(i) = IF p.inputToken = "USDC" THEN p.inputAmount * NativeScale ELSE 0
  BY <1>2 DEF expectedValue, contractNativeValue
<1> QED BY <1>8, <1>10, <1>12, <1>14, <1>15, <1>16 DEF SwapCallable, a, c

\* A planned send.
LEMMA SendCalled ==
  ASSUME NEW d, NEW i, Intended(d, i), i.status = "APPROVED", d.type = "SEND"
  PROVE  SendCallable(i, SendPlanOf(d))
<1> DEFINE q == SendPlanOf(d)
<1>1. i.fin = sendFinancial(d) /\ validateParams(i)
  BY Frozen, FinancialKinds
<1>2. /\ i.fin.type = "SEND" /\ i.fin.token = d.token /\ i.fin.recipient = d.recipient
      /\ i.fin.amount = d.amount
  <2>1. /\ sendFinancial(d).type = "SEND" /\ sendFinancial(d).token = d.token
        /\ sendFinancial(d).recipient = d.recipient /\ sendFinancial(d).amount = d.amount
    BY DEF sendFinancial
  <2> QED BY <1>1, <2>1
<1>3. CanonicalToken(d.token) /\ d.amount > 0
  <2>1. FinancialValid(i.fin)
    BY <1>1 DEF validateParams
  <2> QED BY SMT, <1>2, <2>1 DEF FinancialValid, ValidateSend
<1>4. d.amount \in Nat \ {0}
  <2>1. WellFormed(d)
    BY PlanningAssumption DEF Intended
  <2>2. d.amount \in Nat
    BY <2>1 DEF WellFormed
  <2> QED BY SMT, <1>3, <2>2
<1>5. PlanSend(i) = Some(q)
  <2>1. Plan(i) = Some(q)
    BY SendPlanned
  <2>2. Plan(i) = PlanSend(i)
    BY <1>1, <1>2 DEF Plan, IntentValid
  <2> QED BY <2>1, <2>2
<1>6. /\ q.wallet = Wallet /\ q.destination = d.recipient /\ q.token = d.token
      /\ q.amount = d.amount
  BY DEF SendPlanOf
<1> HIDE DEF q
<1>7. expectedValue(i) = 0
  BY <1>2 DEF expectedValue
<1> QED BY <1>2, <1>3, <1>4, <1>5, <1>6, <1>7 DEF SendCallable, q

\* Whatever its type, an approved intent that has a plan has its call.
LEMMA PlannedCallable ==
  ASSUME NEW d, NEW i, Intended(d, i), i.status = "APPROVED", Plan(i) # None
  PROVE  Callable(i)
<1>1. CASE d.type = "PAYROLL" /\ d.outputToken = ""
  BY <1>1, SameCalled DEF Callable
<1>2. CASE d.type = "PAYROLL" /\ d.outputToken # ""
  BY <1>2, CrossCalled DEF Callable
<1>3. CASE d.type = "SWAP"
  BY <1>3, SwapCalled DEF Callable
<1>4. CASE d.type = "SEND"
  BY <1>4, SendCalled DEF Callable
<1> QED BY <1>1, <1>2, <1>3, <1>4, ThreeTypes

-----------------------------------------------------------------------------
(* The verdict.                                                            *)

\* What ties the verdict to the plan: a transaction exists only for a planned payment and has
\* one of its call's effects, and there is no verdict before there is a transaction.
VerdictInv ==
  /\ PlanningInv
  /\ tx # None => plan # None /\ (tx[1].ok => tx[1].effect \in Effects(tx[1].data))
  /\ tx = None => verdict = "CONFIRMING"
  /\ verdict \in {"CONFIRMING", "VERIFIED", "FAILED"}
  /\ VerifiedAsApproved /\ ContractNeverFailed

\* Nothing has been said at first.
LEMMA VerdictInitInv == Init => VerdictInv
<1> SUFFICES ASSUME Init PROVE VerdictInv
  OBVIOUS
<1>1. PlanningInv
  BY PlanningInitInv
<1> QED BY <1>1 DEF Init, VerdictInv, VerifiedAsApproved, ContractNeverFailed

\* A planned payment's intent is approved, valid, and has a call to compare with.
LEMMA PlannedIntent ==
  ASSUME PlanningInv, plan # None
  PROVE  /\ IntentValid(intent[1]) /\ intent[1].status = "APPROVED" /\ Callable(intent[1])
         /\ Intended(draft[1], intent[1])
<1>1. outcome # ""
  BY PlanAttempted
<1>2. /\ Intended(draft[1], intent[1]) /\ intent[1].status = "APPROVED"
      /\ plan = Plan(intent[1])
  BY <1>1, Attempted
<1>3. Callable(intent[1])
  BY <1>2, PlannedCallable
<1>4. IntentValid(intent[1])
  BY <1>2, Frozen DEF IntentValid
<1> QED BY <1>2, <1>3, <1>4

\* What a mined transaction is: the call of this intent or of another, reverted or with one of
\* its effects.
LEMMA Mined ==
  ASSUME Mine
  PROVE  /\ tx = None /\ plan # None /\ UNCHANGED <<planningVars, verdict>>
         /\ tx' # None /\ (tx'[1].ok => tx'[1].effect \in Effects(tx'[1].data))
         /\ \E i \in {intent[1]} \cup Others : tx'[1].data = CallOf(i).data
<1>1. tx = None /\ plan # None /\ UNCHANGED <<planningVars, verdict>>
  BY DEF Mine
<1> DEFINE reverted(from, to, value, data) ==
             [from |-> from, to |-> to, value |-> value, data |-> data, ok |-> FALSE, effect |-> None]
           done(from, to, value, data, effect) ==
             [from |-> from, to |-> to, value |-> value, data |-> data, ok |-> TRUE, effect |-> effect]
<1>2. PICK i \in {intent[1]} \cup Others, from \in {Wallet, Stranger} :
        \E c \in {CallOf(i)} :
          \E to \in {c.to, Elsewhere}, value \in {0, expectedValue(i)} :
            \/ tx' = Some(reverted(from, to, value, c.data))
            \/ \E effect \in Effects(c.data) : tx' = Some(done(from, to, value, c.data, effect))
  BY DEF Mine
<1> HIDE DEF reverted, done
<1> DEFINE data == CallOf(i).data
<1>3. PICK to, value :
        \/ tx' = Some(reverted(from, to, value, data))
        \/ \E effect \in Effects(data) : tx' = Some(done(from, to, value, data, effect))
  BY <1>2
<1> HIDE DEF data
<1>4. CASE tx' = Some(reverted(from, to, value, data))
  <2> DEFINE t == reverted(from, to, value, data)
  <2>1. t.ok = FALSE /\ t.data = data
    BY DEF reverted
  <2>2. tx' = Some(t)
    BY <1>4
  <2> HIDE DEF t
  <2>3. tx' # None /\ tx'[1] = t
    BY <2>2, Optional
  <2> QED BY <1>1, <2>1, <2>3 DEF data
<1>5. ASSUME NEW effect \in Effects(data), tx' = Some(done(from, to, value, data, effect))
      PROVE  /\ tx' # None /\ tx'[1].effect \in Effects(tx'[1].data) /\ tx'[1].data = data
  <2> DEFINE t == done(from, to, value, data, effect)
  <2>1. t.effect = effect /\ t.data = data
    BY DEF done
  <2>2. tx' = Some(t)
    BY <1>5
  <2> HIDE DEF t
  <2>3. tx' # None /\ tx'[1] = t
    BY <2>2, Optional
  <2> QED BY <2>1, <2>3
<1> QED BY <1>1, <1>3, <1>4, <1>5 DEF data

\* A verification says verified or failed only where that is right.
LEMMA VerifyKeeps ==
  ASSUME VerdictInv, NEW view \in Views, Verify(view), PlanningInv'
  PROVE  VerdictInv'
<1> DEFINE i == intent[1]
           result == VerifyOutcome(i, TransactionReceipt(tx, view))
<1>1. /\ verdict = "CONFIRMING" /\ UNCHANGED <<planningVars, tx>>
      /\ verdict' = IF result \in {"VERIFIED", "FAILED"} THEN result ELSE verdict
  BY DEF Verify
<1>2. intent' = intent /\ plan' = plan /\ tx' = tx
  BY <1>1 DEF planningVars
<1>3. /\ tx # None => plan # None /\ (tx[1].ok => tx[1].effect \in Effects(tx[1].data))
      /\ tx = None => verdict = "CONFIRMING"
  BY DEF VerdictInv
<1>4. CASE tx = None
  <2>1. TransactionReceipt(tx, view) = Some(Unknown)
    BY <1>4, ReceiptOf
  <2>2. Some(Unknown) # None /\ Some(Unknown)[1].status = "UNKNOWN"
    <3>1. Some(Unknown) # None /\ Some(Unknown)[1] = Unknown
      BY Optional
    <3>2. Unknown.status = "UNKNOWN"
      BY DEF Unknown
    <3> QED BY <3>1, <3>2
  <2>3. result = "PENDING"
    BY <2>1, <2>2, OutcomeOfReceipt
  <2> HIDE DEF result
  <2>4. verdict' = "CONFIRMING"
    BY <1>1, <2>3
  <2>5. VerifiedAsApproved' /\ ContractNeverFailed'
    BY <2>4 DEF VerifiedAsApproved, ContractNeverFailed
  <2> QED BY <1>2, <1>4, <2>4, <2>5 DEF VerdictInv
<1>5. CASE tx # None
  <2>1. IntentValid(i) /\ i.status = "APPROVED" /\ Callable(i)
    BY <1>3, <1>5, PlannedIntent DEF VerdictInv
  <2>2. result = "VERIFIED" => PaidAsApproved(i, tx[1]) /\ CostAsApproved(i, tx[1])
    <3> HIDE DEF i
    <3> QED BY <1>3, <2>1, OutcomeSound
  <2>3. PaidFaithfully /\ i.fin.type # "SEND" => result # "FAILED"
    <3>1. PaidFaithfully => Faithful(i, tx[1]) /\ tx[1].effect \in Effects(tx[1].data)
      BY <1>3, <1>5 DEF PaidFaithfully, Faithful, PaidAsApproved
    <3> HIDE DEF i
    <3> QED BY <1>5, <2>1, <3>1, ContractComplete
  <2> HIDE DEF result
  <2>4. verdict' \in {"CONFIRMING", "VERIFIED", "FAILED"} /\ (verdict' \in {"VERIFIED", "FAILED"} => verdict' = result)
    BY <1>1
  <2>5. VerifiedAsApproved'
    BY <1>2, <2>2, <2>4 DEF VerifiedAsApproved
  <2>6. PaidFaithfully' <=> PaidFaithfully
    BY <1>2 DEF PaidFaithfully
  <2>7. ContractNeverFailed'
    BY <1>2, <2>3, <2>4, <2>6 DEF ContractNeverFailed
  <2> QED BY <1>2, <1>3, <1>5, <2>4, <2>5, <2>7 DEF VerdictInv
<1> QED BY <1>4, <1>5

\* Every step keeps VerdictInv.
LEMMA VerdictNextInv == VerdictInv /\ [Next]_vars => VerdictInv'
<1> SUFFICES ASSUME VerdictInv, [Next]_vars PROVE VerdictInv'
  OBVIOUS
<1>1. PlanningInv'
  BY PlanningNextInv DEF VerdictInv
<1>2. CASE tx = None /\ PlanningNext /\ UNCHANGED <<tx, verdict>>
  <2>1. tx' = None /\ verdict' = "CONFIRMING"
    BY <1>2 DEF VerdictInv
  <2> QED BY <1>1, <2>1 DEF VerdictInv, VerifiedAsApproved, ContractNeverFailed
<1>3. CASE Mine
  <2>1. /\ plan # None /\ UNCHANGED <<planningVars, verdict>> /\ tx = None
        /\ tx' # None /\ (tx'[1].ok => tx'[1].effect \in Effects(tx'[1].data))
    BY <1>3, Mined
  <2>2. plan' # None /\ verdict' = "CONFIRMING"
    BY <2>1 DEF planningVars, VerdictInv
  <2> QED BY <1>1, <2>1, <2>2 DEF VerdictInv, VerifiedAsApproved, ContractNeverFailed
<1>4. ASSUME NEW view \in Views, Verify(view) PROVE VerdictInv'
  BY <1>1, <1>4, VerifyKeeps
<1>5. CASE UNCHANGED vars
  <2>1. intent' = intent /\ plan' = plan /\ tx' = tx /\ verdict' = verdict
    BY <1>5 DEF vars, planningVars
  <2>2. VerifiedAsApproved' /\ ContractNeverFailed'
    BY <2>1 DEF VerdictInv, VerifiedAsApproved, ContractNeverFailed, PaidFaithfully
  <2> QED BY <1>1, <2>1, <2>2 DEF VerdictInv
<1> QED BY <1>2, <1>3, <1>4, <1>5 DEF Next

\* VerdictInv always holds.
LEMMA VerdictAlways == Spec => []VerdictInv
BY VerdictInitInv, VerdictNextInv, PTL DEF Spec

\* For every set of drafts, every fee cap and every number of logs a receipt may have, an
\* execution is verified only if the balances moved as approved, at the approved cost,
\* whatever transaction stands behind the hash and whatever the contract did: the
\* comparisons of internal/payroll/verifier.go, internal/swap/verifier.go and
\* internal/send/verifier.go leave nothing out.
THEOREM VerifiedIsApproved == Spec => []VerifiedAsApproved
<1>1. VerdictInv => VerifiedAsApproved
  BY DEF VerdictInv
<1> QED BY <1>1, VerdictAlways, PTL

\* A payroll or a swap that did what was approved is never called failed, whichever part of
\* it the node returns, and however often it is looked at: the three verifiers agree with
\* their planners about every field they compare.
THEOREM FaithfulNeverFailed == Spec => []ContractNeverFailed
<1>1. VerdictInv => ContractNeverFailed
  BY DEF VerdictInv
<1> QED BY <1>1, VerdictAlways, PTL

\* A payment that did what was approved is verified as soon as the node returns all of it,
\* where no intent's transaction leaves more logs than a receipt may have: two for each
\* recipient and up to four for a payroll, two for a swap, one for a send.
THEOREM FaithfulVerified ==
  ASSUME \A d \in Drafts : DraftAccepted(d) => MostLogs(FinancialOf(d)) <= MaxReceiptLogs
  PROVE  Spec => []FaithfulIsVerified
<1>1. VerdictInv => FaithfulIsVerified
  <2> SUFFICES ASSUME VerdictInv, PaidFaithfully
               PROVE  VerifyOutcome(intent[1], TransactionReceipt(tx, Complete)) = "VERIFIED"
    BY DEF FaithfulIsVerified
  <2> DEFINE i == intent[1]
  <2>1. tx # None /\ Faithful(i, tx[1])
    BY DEF PaidFaithfully
  <2>2. tx[1].effect \in Effects(tx[1].data)
    BY <2>1 DEF VerdictInv, Faithful, PaidAsApproved
  <2>3. IntentValid(i) /\ i.status = "APPROVED" /\ Callable(i) /\ Intended(draft[1], i)
    BY <2>1, PlannedIntent DEF VerdictInv
  <2>4. MostLogs(i.fin) <= MaxReceiptLogs
    <3>1. i.fin = FinancialOf(draft[1])
      BY <2>3, Frozen
    <3>2. draft[1] \in Drafts /\ DraftAccepted(draft[1])
      BY <2>3 DEF Intended
    <3> QED BY <3>1, <3>2
  <2> HIDE DEF i
  <2>5. Len(LogsOf(tx[1])) \in 0..MostLogs(i.fin)
    BY <2>1, <2>3, LogCount
  <2>6. MostLogs(i.fin) \in Int
    <3>1. ASSUME i.fin.type = "PAYROLL" PROVE Len(i.fin.recipients) \in Nat
      BY <2>3, <3>1 DEF Callable, SameCallable, CrossCallable, SwapCallable, SendCallable,
                        SameOf, CrossOf, SwapOf, BatchOf
    <3> QED BY SMT, <3>1 DEF MostLogs
  <2>7. ValidateLogs(LogsOf(tx[1]))
    BY SMT, <2>4, <2>5, <2>6, VerificationAssumption DEF ValidateLogs
  <2>8. VerifyOutcome(i, TransactionReceipt(tx, Complete)) = "VERIFIED"
    BY <2>1, <2>2, <2>3, <2>7, OutcomeComplete
  <2> QED BY <2>8 DEF i
<1> QED BY <1>1, VerdictAlways, PTL

\* The functions that transactions call.
CalledFunctions == {SameToken, CrossToken, ExecuteSwap, "transfer"}

\* A planned call is of one of them.
LEMMA CallKinds ==
  ASSUME NEW i, Callable(i)
  PROVE  CallOf(i).data.function \in CalledFunctions
<1>1. ASSUME NEW c, SameCallable(i, c) PROVE CallOf(i).data.function = SameToken
  <2>1. PlanPayroll(i)[1] = c /\ i.fin.type = "PAYROLL" /\ c.data.function = SameToken
    BY <1>1, Optional DEF SameCallable, SameOf
  <2> QED BY <2>1, CallByType
<1>2. ASSUME NEW c, CrossCallable(i, c) PROVE CallOf(i).data.function = CrossToken
  <2>1. PlanPayroll(i)[1] = c /\ i.fin.type = "PAYROLL" /\ c.data.function = CrossToken
    BY <1>2, Optional DEF CrossCallable, CrossOf
  <2> QED BY <2>1, CallByType
<1>3. ASSUME NEW c, SwapCallable(i, c) PROVE CallOf(i).data.function = ExecuteSwap
  <2>1. PlanSwap(i)[1] = c /\ i.fin.type = "SWAP" /\ c.data.function = ExecuteSwap
    BY <1>3, Optional DEF SwapCallable, SwapOf
  <2> QED BY <2>1, CallByType
<1>4. ASSUME NEW q, SendCallable(i, q) PROVE CallOf(i).data.function = "transfer"
  BY <1>4, CallByType DEF SendCallable
<1> QED BY <1>1, <1>2, <1>3, <1>4 DEF Callable, CalledFunctions

\* Verdicts are the runtime's, none comes before a transaction, and every transaction calls
\* one of the four functions, where the other intents of the wallet do.
THEOREM VerificationTyped ==
  ASSUME \A i \in Others : CallOf(i).data.function \in CalledFunctions
  PROVE  Spec => []TypeOK
<1> DEFINE Called == tx # None => tx[1].data.function \in CalledFunctions
<1>1. Init => Called
  BY DEF Init
<1>2. VerdictInv /\ Called /\ [Next]_vars => Called'
  <2> SUFFICES ASSUME VerdictInv, Called, [Next]_vars PROVE Called'
    OBVIOUS
  <2>1. CASE Mine
    <3>1. /\ plan # None
          /\ \E i \in {intent[1]} \cup Others : tx'[1].data = CallOf(i).data
      BY <2>1, Mined
    <3>2. ASSUME NEW i \in {intent[1]} \cup Others PROVE CallOf(i).data.function \in CalledFunctions
      <4>1. Callable(intent[1])
        BY <3>1, PlannedIntent DEF VerdictInv
      <4> QED BY <4>1, CallKinds
    <3> QED BY <3>1, <3>2
  <2>2. CASE tx' = tx
    BY <2>2
  <2> QED BY <2>1, <2>2 DEF Next, Verify, vars
<1>3. VerdictInv /\ Called => TypeOK
  BY DEF VerdictInv, PlanningInv, TypeOK, CalledFunctions
<1> QED BY <1>1, <1>2, <1>3, VerdictAlways, PTL DEF Spec

=============================================================================
