------------------------- MODULE DomainVerification -------------------------
(***************************************************************************)
(* What it takes for an execution to be called verified: the receipt that  *)
(* internal/providers/arc reads, the domain verifiers of internal/payroll, *)
(* internal/swap and internal/send, and the composed verifier of           *)
(* internal/providers/wiring that turns their verdict into the outcome.    *)
(*                                                                         *)
(* The chain is the environment.  The transaction behind the observed hash *)
(* may be the planned one or another one, and the contract may do other    *)
(* than it should; its events report truthfully what it did.  The node may *)
(* not know the transaction yet, or know the receipt and not the body.     *)
(* Contradictory observations are ObservationIntegrity's subject.          *)
(***************************************************************************)
EXTENDS PaymentPlanning

CONSTANTS Settling,        \* bound: the drafts whose transactions are followed
          Others,          \* other approved intents that the wallet may execute
          MaxFeeBPS,       \* contracts.ContractMaxFeeBPS
          MaxReceiptLogs   \* providers.MaxReceiptLogs

ASSUME VerificationAssumption == MaxFeeBPS \in Nat /\ MaxReceiptLogs \in Nat

VARIABLES tx,       \* the transaction under the observed hash, optional
          verdict   \* of the execution: CONFIRMING until it is terminal

vars == <<planningVars, tx, verdict>>

Stranger == "stranger"
Elsewhere == "elsewhere"

-----------------------------------------------------------------------------
(* The chain.                                                              *)

CallOf(i) ==
  CASE i.fin.type = "PAYROLL" -> PlanPayroll(i)[1]
    [] i.fin.type = "SWAP"    -> PlanSwap(i)[1]
    [] i.fin.type = "SEND"    ->
         [to |-> i.fin.token,
          data |-> [function |-> "transfer",
                    args |-> [recipient |-> i.fin.recipient, amount |-> i.fin.amount]]]

expectedValue(i) == IF i.fin.type = "SEND" THEN 0 ELSE contractNativeValue(i)

Cap(amount) == (amount * MaxFeeBPS) \div 10000

\* A contract that pays in order, pays in the wrong order, or leaves one out.
Payments(amounts) ==
  LET reversed == [k \in DOMAIN amounts |-> amounts[Len(amounts) + 1 - k]]
  IN {amounts, reversed, [amounts EXCEPT ![1] = 0]}

\* What a call may do: the amounts paid to its recipients, the fee taken, what
\* a swap brought, and what of it went back to the caller.
SameTokenEffects(a) ==
  [paid : Payments(a.amounts), out : {0}, refund : {0},
   fee : {0, Cap(SumOf(a.amounts)), Cap(SumOf(a.amounts)) + 1}]

CrossTokenEffects(a) ==
  UNION {[paid : Payments(a.outputAmounts), out : {out},
          refund : {0} \cup {r \in {out - SumOf(a.outputAmounts)} : r > 0},
          fee : {0, Cap(a.grossInput), Cap(a.grossInput) + 1}] :
           out \in {a.minTotalOut - 1, a.minTotalOut, a.minTotalOut + 1}}

SwapEffects(a) ==
  UNION {[paid : {<<0>>, <<out>>}, out : {out}, refund : {0},
          fee : {0, Cap(a.amountIn), Cap(a.amountIn) + 1}] :
           out \in {a.minAmountOut - 1, a.minAmountOut, a.minAmountOut + 1}}

TransferEffects(a) == [paid : {<<0>>, <<a.amount>>}, out : {0}, refund : {0}, fee : {0}]

Effects(data) ==
  CASE data.function = SameToken   -> SameTokenEffects(data.args)
    [] data.function = CrossToken  -> CrossTokenEffects(data.args)
    [] data.function = ExecuteSwap -> SwapEffects(data.args)
    [] data.function = "transfer"  -> TransferEffects(data.args)

Transfer(token, from, to, amount) ==
  [address |-> token, event |-> "Transfer", from |-> from, to |-> to, amount |-> amount]

\* keccak256 of chain, contract, employer and reference: injective.
ReferenceHash(employer, referenceID) == <<employer, referenceID>>

\* The entries at some positions, in their order: the n-th is the one that has n
\* of the positions up to its own.
EntriesAt(logs, at) ==
  [n \in 1..Cardinality(at) |->
     logs[CHOOSE k \in at : Cardinality({j \in at : j <= k}) = n]]

\* A payment of nothing leaves no trace.
Made(logs) == EntriesAt(logs, {k \in DOMAIN logs : logs[k].amount # 0})

PaymentLog(t, tokenOut, k) ==
  [address |-> t.to, event |-> "Payment",
   hash |-> ReferenceHash(t.from, t.data.args.referenceID), employer |-> t.from,
   tokenOut |-> tokenOut, index |-> k - 1, recipient |-> t.data.args.recipients[k],
   amount |-> t.effect.paid[k]]

TotalsLog(t, tokenIn, tokenOut, totalIn, event, hash) ==
  [address |-> t.to, event |-> event, hash |-> hash, employer |-> t.from,
   tokenIn |-> tokenIn, tokenOut |-> tokenOut, totalInput |-> totalIn,
   totalOutput |-> SumOf(t.effect.paid), totalFees |-> t.effect.fee,
   count |-> Len(t.data.args.recipients), referenceID |-> t.data.args.referenceID]

\* Two logs for each recipient: the token's and the contract's.
PaymentLogs(t, tokenOut) ==
  [m \in 1..2 * Len(t.data.args.recipients) |->
     LET k == (m + 1) \div 2
     IN IF m % 2 = 1
        THEN Transfer(tokenOut, t.to, t.data.args.recipients[k], t.effect.paid[k])
        ELSE PaymentLog(t, tokenOut, k)]

PayrollLogs(t, tokenIn, tokenOut, totalIn) ==
  LET hash == ReferenceHash(t.from, t.data.args.referenceID)
  IN Made(PaymentLogs(t, tokenOut))
       \o <<TotalsLog(t, tokenIn, tokenOut, totalIn, "ReferenceConsumed", hash),
             TotalsLog(t, tokenIn, tokenOut, totalIn, "BatchExecuted", None)>>

SwapExecutedLog(t) ==
  LET a == t.data.args
  IN [address |-> t.to, event |-> "SwapExecuted", employer |-> t.from,
      hash |-> ReferenceHash(t.from, a.referenceID), tokenIn |-> a.tokenIn,
      tokenOut |-> a.tokenOut, grossInput |-> a.grossInput, feeAmount |-> t.effect.fee,
      netAmountIn |-> a.grossInput - t.effect.fee, amountOut |-> t.effect.out,
      minTotalOut |-> a.minTotalOut]

SurplusRefundedLog(t) ==
  [address |-> t.to, event |-> "SurplusRefunded", employer |-> t.from,
   hash |-> ReferenceHash(t.from, t.data.args.referenceID),
   tokenOut |-> t.data.args.tokenOut, amount |-> t.effect.refund]

MainnetSwapExecutedLog(t) ==
  LET a == t.data.args
  IN [address |-> t.to, event |-> "MainnetSwapExecuted", caller |-> t.from,
      tokenIn |-> a.tokenIn, tokenOut |-> a.tokenOut, amountIn |-> a.amountIn,
      feeAmount |-> t.effect.fee, netAmountIn |-> a.amountIn - t.effect.fee,
      amountOut |-> t.effect.out, minAmountOut |-> a.minAmountOut]

CrossTokenLogs(t) ==
  LET a == t.data.args
  IN <<SwapExecutedLog(t)>>
       \o PayrollLogs(t, a.tokenIn, a.tokenOut, a.grossInput)
       \o Made(<<SurplusRefundedLog(t)>>)

SwapLogs(t) ==
  <<MainnetSwapExecutedLog(t)>>
    \o Made(<<Transfer(t.data.args.tokenOut, t.to, t.from, t.effect.paid[1])>>)

LogsOf(t) ==
  LET a == t.data.args
      paid == t.effect.paid
  IN CASE t.data.function = SameToken   ->
            PayrollLogs(t, a.token, a.token, SumOf(paid) + t.effect.fee)
       [] t.data.function = CrossToken  -> CrossTokenLogs(t)
       [] t.data.function = ExecuteSwap -> SwapLogs(t)
       [] t.data.function = "transfer"  -> Made(<<Transfer(t.to, t.from, a.recipient, paid[1])>>)

-----------------------------------------------------------------------------
(* The receipt.                                                            *)

\* What the node tells of a transaction: whether it knows the receipt, at the
\* required depth, and whether it returns the transaction's body with it.
Views == [found : {TRUE}, deep : BOOLEAN, body : BOOLEAN]
           \cup {[found |-> FALSE, deep |-> FALSE, body |-> FALSE]}

\* Refusing a receipt that has just as many logs as are allowed.
ValidateLogsMut(logs) == Len(logs) < MaxReceiptLogs

ValidateLogs(logs) == Len(logs) <= MaxReceiptLogs

normalizeReceiptLogs(logs) == IF ValidateLogs(logs) THEN Some(logs) ELSE None

Unknown == [status |-> "UNKNOWN"]

\* None where the reader returns an error.
TransactionReceipt(t, view) ==
  IF t = None \/ ~view.found THEN Some(Unknown)
  ELSE LET logs == normalizeReceiptLogs(IF t[1].ok THEN LogsOf(t[1]) ELSE <<>>)
       IN IF logs = None THEN None
          ELSE IF t[1].ok /\ ~view.deep THEN Some(Unknown)
          ELSE Some([status |-> IF t[1].ok THEN "SUCCESS" ELSE "REVERTED",
                     hasTransaction |-> view.body, from |-> t[1].from, to |-> t[1].to,
                     value |-> t[1].value, data |-> t[1].data, logs |-> logs[1]])

-----------------------------------------------------------------------------
(* The domain verifiers.                                                   *)

EventsOf(logs, address, event) ==
  EntriesAt(logs, {k \in DOMAIN logs : logs[k].address = address /\ logs[k].event = event})

\* Failing what cannot be compared.
DomainStatusMut(r, matches) ==
  IF r.status = "REVERTED" THEN "FAILED"
  ELSE IF r.status # "SUCCESS" THEN "UNVERIFIED"
  ELSE IF r.hasTransaction /\ matches THEN "VERIFIED" ELSE "FAILED"

\* Every verifier reads the receipt in this order; `matches` is its comparison
\* of the transaction and the logs with the frozen intent.
DomainStatus(r, matches) ==
  IF r.status = "REVERTED" THEN "FAILED"
  ELSE IF r.status # "SUCCESS" \/ ~r.hasTransaction THEN "UNVERIFIED"
  ELSE IF matches THEN "VERIFIED" ELSE "FAILED"

bindsSameToken(p, data) ==
  LET decoded == DecodeSameTokenPayrollCall(data)
  IN /\ decoded # None
     /\ decoded[1].token = p.tokenIn
     /\ decoded[1].referenceID = p.referenceID
     /\ decoded[1].recipients = addressesOf(p)
     /\ decoded[1].amounts = Map(p.recipients, LAMBDA x : x.amountIn)

bindsCrossToken(p, data) ==
  LET decoded == DecodeCrossTokenPayrollCall(data)
      cross == p.crossToken[1]
  IN /\ decoded # None
     /\ decoded[1].tokenIn = p.tokenIn
     /\ decoded[1].tokenOut = p.recipients[1].tokenOut
     /\ decoded[1].grossInput = cross.grossInput
     /\ decoded[1].minTotalOut = cross.minTotalOut
     /\ decoded[1].minHopPrice = cross.minHopPrice
     /\ decoded[1].deadline = cross.deadline
     /\ decoded[1].referenceID = p.referenceID
     /\ decoded[1].recipients = addressesOf(p)
     /\ decoded[1].outputAmounts = Map(p.recipients, LAMBDA x : x.minAmountOut)

bindsSwap(p, data) ==
  LET decoded == DecodeExecuteSwapCall(data)
  IN /\ decoded # None
     /\ decoded[1].tokenIn = p.inputToken /\ decoded[1].tokenOut = p.outputToken
     /\ decoded[1].amountIn = p.inputAmount
     /\ decoded[1].minAmountOut = p.minimumOutput
     /\ decoded[1].minHopPrice = p.minHopPrice
     /\ decoded[1].deadline = p.deadline

\* The plan handed to a verifier is bound to the intent once more.
validatePayrollPlan(p, call) ==
  /\ call.contract = "WIZPAY_PAYROLL" /\ call.to = PayrollAddress
  /\ IF ValidateCrossToken(p) THEN bindsCrossToken(p, call.data)
     ELSE ValidateSameToken(p) /\ bindsSameToken(p, call.data)

validateSwapPlan(p, call) ==
  /\ call.contract = "WIZPAY_SWAP_EXECUTOR" /\ call.to = SwapAddress
  /\ Phase12ExecutableSwap(p)
  /\ bindsSwap(p, call.data)

\* Reading the amounts only in the totals.
PaymentMatchesMut(payment, k, hash, token, recipient, amount) ==
  /\ payment.index = k - 1 /\ payment.hash = hash /\ payment.employer = Wallet
  /\ payment.tokenOut = token /\ payment.recipient = recipient

PaymentMatches(payment, k, hash, token, recipient, amount) ==
  /\ payment.index = k - 1 /\ payment.hash = hash /\ payment.employer = Wallet
  /\ payment.tokenOut = token /\ payment.recipient = recipient
  /\ payment.amount = amount

TotalsMatch(e, p, tokenOut, input, output, fees) ==
  /\ e.employer = Wallet /\ e.tokenIn = p.tokenIn /\ e.tokenOut = tokenOut
  /\ e.referenceID = p.referenceID /\ e.count = Len(p.recipients)
  /\ e.totalInput = input /\ e.totalOutput = output /\ e.totalFees = fees

\* The reference hash is whatever the first payment carries, not recomputed.
sameTokenMatches(p, call, r) ==
  /\ r.from = Wallet /\ r.to = PayrollAddress /\ r.value = 0
  /\ r.data = call.data /\ bindsSameToken(p, r.data)
  /\ ValidateLogs(r.logs)
  /\ LET events(e) == EventsOf(r.logs, PayrollAddress, e)
         payments == events("Payment")
         hash == payments[1].hash
         ref == events("ReferenceConsumed")[1]
     IN /\ events("SwapExecuted") = <<>> /\ events("SurplusRefunded") = <<>>
        /\ Len(payments) = Len(p.recipients)
        /\ Len(events("ReferenceConsumed")) = 1 /\ Len(events("BatchExecuted")) = 1
        /\ \A k \in DOMAIN payments :
             PaymentMatches(payments[k], k, hash, p.tokenIn, p.recipients[k].address,
                            p.recipients[k].amountIn)
        /\ ref.hash = hash
        /\ ref.totalFees <= (p.total * MaxFeeBPS) \div 10000
        /\ \A e \in {ref, events("BatchExecuted")[1]} :
             TotalsMatch(e, p, p.tokenIn, p.total + ref.totalFees, p.total, ref.totalFees)

surplusMatches(refunds, hash, tokenOut, surplus) ==
  IF surplus > 0
  THEN /\ Len(refunds) = 1
       /\ refunds[1].hash = hash /\ refunds[1].employer = Wallet
       /\ refunds[1].tokenOut = tokenOut /\ refunds[1].amount = surplus
  ELSE refunds = <<>>

crossTokenMatches(p, call, r) ==
  LET cross == p.crossToken[1]
      tokenOut == p.recipients[1].tokenOut
      obligations == SumOf(Map(p.recipients, LAMBDA x : x.minAmountOut))
      hash == ReferenceHash(Wallet, p.referenceID)
      events(e) == EventsOf(r.logs, PayrollAddress, e)
      swap == events("SwapExecuted")[1]
      payments == events("Payment")
      ref == events("ReferenceConsumed")[1]
  IN /\ r.from = Wallet /\ r.to = PayrollAddress
     /\ r.data = call.data /\ bindsCrossToken(p, r.data)
     /\ r.value = IF p.tokenIn = "USDC" THEN cross.grossInput * NativeScale ELSE 0
     /\ ValidateLogs(r.logs)
     /\ \A e \in {"SwapExecuted", "ReferenceConsumed", "BatchExecuted"} : Len(events(e)) = 1
     /\ Len(payments) = Len(p.recipients)
     /\ swap.hash = hash /\ swap.employer = Wallet
     /\ swap.tokenIn = p.tokenIn /\ swap.tokenOut = tokenOut
     /\ swap.grossInput = cross.grossInput /\ swap.minTotalOut = cross.minTotalOut
     /\ swap.netAmountIn + swap.feeAmount = cross.grossInput
     /\ swap.feeAmount * 10000 <= cross.grossInput * MaxFeeBPS
     /\ swap.amountOut >= cross.minTotalOut /\ swap.amountOut >= obligations
     /\ \A k \in DOMAIN payments :
          PaymentMatches(payments[k], k, hash, tokenOut, p.recipients[k].address,
                         p.recipients[k].minAmountOut)
     /\ ref.hash = hash
     /\ \A e \in {ref, events("BatchExecuted")[1]} :
          TotalsMatch(e, p, tokenOut, cross.grossInput, obligations, swap.feeAmount)
     /\ surplusMatches(events("SurplusRefunded"), hash, tokenOut, swap.amountOut - obligations)

\* Any transfer of the amount to the wallet will do, wherever it comes from.
hasOutputTransfer(logs, token, recipient, amount) ==
  \E k \in DOMAIN logs : /\ logs[k].address = token /\ logs[k].event = "Transfer"
                         /\ logs[k].to = recipient /\ logs[k].amount = amount

swapMatches(p, call, r) ==
  LET executed == EventsOf(r.logs, SwapAddress, "MainnetSwapExecuted")
      event == executed[1]
  IN /\ r.from = Wallet /\ r.to = SwapAddress
     /\ r.data = call.data /\ bindsSwap(p, r.data)
     /\ r.value = IF p.inputToken = "USDC" THEN p.inputAmount * NativeScale ELSE 0
     /\ ValidateLogs(r.logs)
     /\ Len(executed) = 1
     /\ event.caller = Wallet
     /\ event.tokenIn = p.inputToken /\ event.tokenOut = p.outputToken
     /\ event.amountIn = p.inputAmount /\ event.minAmountOut = p.minimumOutput
     /\ event.amountOut >= p.minimumOutput
     /\ event.netAmountIn + event.feeAmount = p.inputAmount
     /\ event.feeAmount * 10000 <= p.inputAmount * MaxFeeBPS
     /\ hasOutputTransfer(r.logs, p.outputToken, Wallet, event.amountOut)

verifyPayroll(p, call, r) ==
  DomainStatus(r, IF ValidateCrossToken(p) THEN crossTokenMatches(p, call, r)
                  ELSE sameTokenMatches(p, call, r))

verifySwap(p, call, r) == DomainStatus(r, swapMatches(p, call, r))

decodeTransfer(data) == IF data.function = "transfer" THEN Some(data.args) ELSE None

hasTransferEvent(logs, token, from, to, amount) ==
  \E k \in DOMAIN logs : /\ logs[k].address = token /\ logs[k].event = "Transfer"
                         /\ logs[k].from = from /\ logs[k].to = to
                         /\ logs[k].amount = amount

\* A send verifier has no third answer: what it cannot see is an error.
verifySend(p, r) ==
  /\ r.status = "SUCCESS"
  /\ r.hasTransaction
  /\ r.from = p.wallet /\ r.to = p.token /\ r.value = 0
  /\ decodeTransfer(r.data) = Some([recipient |-> p.destination, amount |-> p.amount])
  /\ hasTransferEvent(r.logs, p.token, p.wallet, p.destination, p.amount)

-----------------------------------------------------------------------------
(* The composed verifier.                                                  *)

mapDomainResult(status) == CASE status = "VERIFIED"   -> "VERIFIED"
                             [] status = "UNVERIFIED" -> "PENDING"
                             [] status = "FAILED"     -> "FAILED"

\* The typed gate, reached by a final successful receipt only.
DomainOutcome(i, r) ==
  LET call == IF i.fin.type = "PAYROLL" THEN PlanPayroll(i) ELSE PlanSwap(i)
      send == PlanSend(i)
  IN IF ~IntentValid(i) \/ i.status \notin {"APPROVED", "READY_FOR_EXECUTION"} THEN "ERROR"
     ELSE CASE i.fin.type = "SEND" ->
                 IF send = None THEN "ERROR"
                 ELSE IF verifySend(send[1], r) THEN "VERIFIED" ELSE "FAILED"
            [] i.fin.type = "PAYROLL" ->
                 IF call = None \/ ~validatePayrollPlan(i.fin, call[1]) THEN "ERROR"
                 ELSE mapDomainResult(verifyPayroll(i.fin, call[1], r))
            [] i.fin.type = "SWAP" ->
                 IF call = None \/ ~validateSwapPlan(i.fin, call[1]) THEN "ERROR"
                 ELSE mapDomainResult(verifySwap(i.fin, call[1], r))

VerifyOutcome(i, receipt) ==
  IF receipt = None THEN "ERROR"
  ELSE CASE receipt[1].status = "REVERTED" -> "FAILED"
         [] receipt[1].status = "SUCCESS"  -> DomainOutcome(i, receipt[1])
         [] OTHER                          -> "PENDING"

-----------------------------------------------------------------------------
(* The steps.                                                              *)

Init == PlanningInit /\ tx = None /\ verdict = "CONFIRMING"

\* The transaction is included: this intent's call or another's, reverted or
\* with one of the effects a call may have.  Circle submits same-token payrolls
\* and sends; the other calls reach the chain through another submitter, but
\* none goes out once its material has expired.
Mine ==
  /\ tx = None
  /\ plan # None /\ outcome # "FINANCIAL_MATERIAL_EXPIRED"
  /\ draft[1] \in Settling
  /\ \E i \in {intent[1]} \cup Others, from \in {Wallet, Stranger} :
       \E call \in {CallOf(i)} :
         \E to \in {call.to, Elsewhere}, value \in {0, expectedValue(i)} :
           \/ tx' = Some([from |-> from, to |-> to, value |-> value, data |-> call.data,
                          ok |-> FALSE, effect |-> None])
           \/ \E effect \in Effects(call.data) :
                tx' = Some([from |-> from, to |-> to, value |-> value, data |-> call.data,
                            ok |-> TRUE, effect |-> effect])
  /\ UNCHANGED <<planningVars, verdict>>

\* One verification by a worker.  A pending or failed one leaves the execution
\* to the next, as ExecutionRuntime shows.
Verify(view) ==
  /\ prepared /\ verdict = "CONFIRMING"
  /\ \E receipt \in {TransactionReceipt(tx, view)} :
       \E result \in {VerifyOutcome(intent[1], receipt)} :
         verdict' = IF result \in {"VERIFIED", "FAILED"} THEN result ELSE verdict
  /\ UNCHANGED <<planningVars, tx>>

\* Verification does not read the clock.
Next == \/ tx = None /\ PlanningNext /\ UNCHANGED <<tx, verdict>>
        \/ Mine
        \/ \E view \in Views : Verify(view)

Spec == Init /\ [][Next]_vars

-----------------------------------------------------------------------------
(* Properties.  They are about the balances a transaction moved, which no  *)
(* verifier sees.                                                          *)

Credit(to, token, amount) == [to |-> to, token |-> token, amount |-> amount]

\* The recipients' credits, paid and approved.
PaidLines(t, token) ==
  [k \in DOMAIN t.data.args.recipients |->
     Credit(t.data.args.recipients[k], token, t.effect.paid[k])]

ApprovedLines(p) == Map(p.recipients, LAMBDA r : Credit(r.address, r.tokenOut, r.minAmountOut))

\* Who got what; a look-alike contract moves nothing.
Credited(t) ==
  LET a == t.data.args
  IN IF t.to = Elsewhere THEN <<>>
     ELSE CASE t.data.function = SameToken   -> PaidLines(t, a.token)
            [] t.data.function = CrossToken  -> PaidLines(t, a.tokenOut)
            [] t.data.function = ExecuteSwap -> <<Credit(t.from, a.tokenOut, t.effect.paid[1])>>
            [] t.data.function = "transfer"  -> <<Credit(a.recipient, t.to, t.effect.paid[1])>>

PaidAsApproved(i, t) ==
  LET p == i.fin
  IN /\ t.ok /\ t.from = Wallet
     /\ CASE p.type = "PAYROLL" -> Credited(t) = ApprovedLines(p)
          [] p.type = "SEND"    -> Credited(t) = <<Credit(p.recipient, p.token, p.amount)>>
          [] p.type = "SWAP"    ->
               /\ t.effect.paid[1] >= p.minimumOutput
               /\ Credited(t) = <<Credit(Wallet, p.outputToken, t.effect.paid[1])>>

CostAsApproved(i, t) ==
  LET within(amount) == t.effect.fee * 10000 <= amount * MaxFeeBPS
  IN CASE i.fin.type = "SEND"  -> TRUE
       [] i.fin.type = "SWAP"  -> within(i.fin.inputAmount)
       [] i.fin.type = "PAYROLL" /\ i.fin.crossToken = None -> within(i.fin.total)
       [] OTHER -> /\ within(i.fin.crossToken[1].grossInput)
                   /\ t.effect.out >= i.fin.crossToken[1].minTotalOut
                   /\ t.effect.refund = t.effect.out - i.fin.total

\* The planned transaction, executed as the owner approved it.
Faithful(i, t) == /\ t.to = CallOf(i).to /\ t.data = CallOf(i).data
                  /\ t.value = expectedValue(i)
                  /\ PaidAsApproved(i, t) /\ CostAsApproved(i, t)

PaidFaithfully == tx # None /\ Faithful(intent[1], tx[1])

\* Verdicts are the runtime's, and there is none before there is a transaction.
TypeOK == /\ PlanningTypeOK
          /\ verdict \in {"CONFIRMING", "VERIFIED", "FAILED"}
          /\ tx # None => tx[1].data.function \in {SameToken, CrossToken, ExecuteSwap, "transfer"}
          /\ tx = None => verdict = "CONFIRMING"

\* An execution is verified only if the balances moved as the owner approved:
\* every recipient has exactly its amount, in the approved token, from the
\* owner's wallet, or the wallet has at least the approved swap output; and at
\* the approved cost: the fee within the contract's maximum, the approved
\* minimum obtained, and every unit a cross-token payroll obtained beyond its
\* obligations returned (the payroll, swap and send verifiers).
VerifiedAsApproved ==
  verdict = "VERIFIED" => /\ PaidAsApproved(intent[1], tx[1])
                          /\ CostAsApproved(intent[1], tx[1])

\* "This is the only evidence permitted to fail an execution", the code says of
\* a reverted receipt: a payroll or a swap that did exactly what was approved
\* is not called failed, whatever part of it the node returns.
ContractNeverFailed ==
  PaidFaithfully /\ intent[1].fin.type # "SEND" => verdict # "FAILED"

Complete == [found |-> TRUE, deep |-> TRUE, body |-> TRUE]

\* Every payment that did what was approved is verified as soon as the node
\* returns the whole transaction, however many logs it left.
FaithfulIsVerified ==
  PaidFaithfully => VerifyOutcome(intent[1], TransactionReceipt(tx, Complete)) = "VERIFIED"

\* Not kept by the code: a send whose body the node does not return is failed.
SendNeverFailed == PaidFaithfully => verdict # "FAILED"

=============================================================================
