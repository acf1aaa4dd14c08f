--------------------------- MODULE PlanningProofs ---------------------------
(***************************************************************************)
(* What is planned of an approved intent and when it is submitted          *)
(* (PaymentPlanning, within DomainVerification's specification), for any   *)
(* drafts and any bounds.                                                  *)
(*                                                                         *)
(* Each of the four kinds of draft has one plan (PlanOf), which the        *)
(* planner makes of the intent's frozen parameters whenever the encoder    *)
(* takes them. The invariant, PlanningInv, says that the intent still has  *)
(* its draft's parameters and the attempt's plan is Plan's; the properties *)
(* are then facts about PlanOf.                                            *)
(***************************************************************************)
EXTENDS DomainVerification, FiniteSetTheorems, TLAPS

\* Most steps are first-order; the ones that calculate say so.
USE Zenon

\* The draft was accepted and its parameters are the intent's, frozen.
Intended(d, i) ==
  /\ d \in Drafts /\ DraftAccepted(d)
  /\ i.createdAt \in 1..MaxTime /\ NewDraft(d, i.createdAt) # None
  /\ \E status \in {"CREATED", "APPROVAL_REQUIRED", "APPROVED"} :
       i = [DraftIntent(d, i.createdAt) EXCEPT !.status = status]

\* An optional value is there or not.
LEMMA Optional ==
  \A x, y : Some(x) # None /\ Some(x)[1] = x /\ (Some(x) = Some(y) => x = y)
BY SMT DEF Some, None

\* The parameters an approved draft is planned from are the ones it was made with.
LEMMA Frozen ==
  ASSUME NEW d, NEW i, Intended(d, i)
  PROVE  /\ i.fin = FinancialOf(d) /\ i.route = RouteFor(d.type)
         /\ i.deadline = d.deadline /\ i.expiresAt = d.deadline
         /\ validateParams(i)
<1>1. PICK status \in {"CREATED", "APPROVAL_REQUIRED", "APPROVED"} :
        i = [DraftIntent(d, i.createdAt) EXCEPT !.status = status]
  BY DEF Intended
<1> DEFINE now == i.createdAt
           j == DraftIntent(d, now)
<1>2. /\ j.fin = FinancialOf(d) /\ j.route = RouteFor(d.type) /\ j.createdAt = now
      /\ j.deadline = d.deadline /\ j.expiresAt = d.deadline
  BY DEF DraftIntent
<1>3. i.fin = j.fin /\ i.route = j.route /\ i.deadline = j.deadline /\ i.expiresAt = j.expiresAt
  BY <1>1 DEF DraftIntent
<1>4. validateParams(j)
  BY DEF Intended, NewDraft
<1> HIDE DEF j
<1>5. validateParams(i)
  BY <1>2, <1>3, <1>4 DEF validateParams, ConstraintsValid
<1> QED BY <1>2, <1>3, <1>5

\* The financial parameters by the draft's type.
LEMMA FinancialKinds ==
  ASSUME NEW d
  PROVE  /\ d.type = "PAYROLL" => FinancialOf(d) = payrollFinancial(d)
         /\ d.type = "SWAP" => FinancialOf(d) = swapFinancial(d)
         /\ d.type = "SEND" => FinancialOf(d) = sendFinancial(d)
BY SMT DEF FinancialOf

-----------------------------------------------------------------------------
(* Sends.                                                                  *)

SendPlanOf(d) == [kind |-> "TOKEN_TRANSFER", wallet |-> Wallet, destination |-> d.recipient,
                  token |-> d.token, amount |-> d.amount]

\* An approved send is planned as it was drafted.
LEMMA SendPlanned ==
  ASSUME NEW d, NEW i, Intended(d, i), i.status = "APPROVED", d.type = "SEND"
  PROVE  Plan(i) = Some(SendPlanOf(d))
<1>1. i.fin = sendFinancial(d) /\ validateParams(i)
  BY Frozen, FinancialKinds
<1>2. /\ i.fin.type = "SEND" /\ i.fin.token = d.token /\ i.fin.recipient = d.recipient
      /\ i.fin.amount = d.amount
  <2>1. /\ sendFinancial(d).type = "SEND" /\ sendFinancial(d).token = d.token
        /\ sendFinancial(d).recipient = d.recipient /\ sendFinancial(d).amount = d.amount
    BY DEF sendFinancial
  <2> QED BY <1>1, <2>1
<1>3. FinancialValid(i.fin) /\ i.fin.recipient # Wallet
  BY <1>1, <1>2 DEF validateParams
<1>4. CanonicalToken(d.token) /\ d.amount > 0
  BY SMT, <1>2, <1>3 DEF FinancialValid, ValidateSend
<1>5. NewTokenTransferPlan(i.fin) = Some(SendPlanOf(d))
  BY <1>2, <1>3, <1>4 DEF NewTokenTransferPlan, validateTokenTransfer, SendPlanOf
<1>6. PlanSend(i) = NewTokenTransferPlan(i.fin)
  BY <1>1, <1>2, <1>4 DEF PlanSend, IntentValid
<1> QED BY <1>1, <1>2, <1>5, <1>6 DEF Plan, IntentValid

-----------------------------------------------------------------------------
(* The bound of a contract call.                                           *)

\* Of at most three times there is a least.
LEMMA LeastOfThree ==
  ASSUME NEW a \in Nat, NEW b \in Nat, NEW c \in Nat, NEW T, T = {a, b, c}
  PROVE  Min(T) \in Nat /\ Min(T) \in T
<1>1. \E n \in T : \A m \in T : n <= m
  <2>1. CASE a <= b /\ a <= c
    BY SMT, <2>1
  <2>2. CASE b <= a /\ b <= c
    BY SMT, <2>2
  <2>3. CASE c <= a /\ c <= b
    BY SMT, <2>3
  <2> QED BY SMT, <2>1, <2>2, <2>3
<1>2. Min(T) \in T
  BY <1>1 DEF Min
<1> QED BY <1>2

\* Where every deadline is set, the earliest is their minimum.
LEMMA Earliest ==
  ASSUME NEW S, 0 \notin S, S # {}
  PROVE  EarliestDeadline(S) = Min(S)
<1>1. {t \in S : t # 0} = S
  OBVIOUS
<1> QED BY <1>1 DEF EarliestDeadline, Min

-----------------------------------------------------------------------------
(* Swaps.                                                                  *)

SwapArgs(d) == [tokenIn |-> d.tokenIn, tokenOut |-> d.tokenOut, amountIn |-> d.amountIn,
                minAmountOut |-> d.minAmountOut, minHopPrice |-> d.minHopPrice,
                deadline |-> d.swapDeadline]

SwapCall(d) == [contract |-> "WIZPAY_SWAP_EXECUTOR", to |-> SwapAddress,
                data |-> [function |-> ExecuteSwap, args |-> SwapArgs(d)]]

SwapValue(d) == IF d.tokenIn = "USDC" THEN d.amountIn * NativeScale ELSE 0

SwapPlanOf(d) == [kind |-> "CONTRACT_EXECUTION", wallet |-> Wallet, call |-> SwapCall(d),
                  submitNotAfter |-> Min(DraftDeadlines(d)), nativeValue |-> SwapValue(d)]

\* The fields of a swap's parameters.
LEMMA SwapFields ==
  ASSUME NEW d
  PROVE  /\ swapFinancial(d).type = "SWAP" /\ swapFinancial(d).inputToken = d.tokenIn
         /\ swapFinancial(d).outputToken = d.tokenOut
         /\ swapFinancial(d).inputAmount = d.amountIn
         /\ swapFinancial(d).expectedOutput = d.expectedOutput
         /\ swapFinancial(d).minimumOutput = d.minAmountOut
         /\ swapFinancial(d).maxSlippageBPS = d.maxSlippageBPS
         /\ swapFinancial(d).minHopPrice = d.minHopPrice
         /\ swapFinancial(d).deadline = d.swapDeadline
         /\ swapFinancial(d).quote.expiresAt = d.quoteExpiresAt
BY DEF swapFinancial

\* The bound of an approved swap is the earliest of its three deadlines.
LEMMA SwapBound ==
  ASSUME NEW d, NEW i, Intended(d, i), d.type = "SWAP"
  PROVE  /\ EarliestDeadline(contractDeadlines(i)) = Min(DraftDeadlines(d))
         /\ Min(DraftDeadlines(d)) \in Nat \ {0}
<1>1. i.fin = swapFinancial(d) /\ validateParams(i) /\ i.deadline = d.deadline
      /\ i.expiresAt = d.deadline
  BY Frozen, FinancialKinds
<1>2. /\ i.fin.type = "SWAP" /\ i.fin.deadline = d.swapDeadline
      /\ i.fin.quote.expiresAt = d.quoteExpiresAt
  BY <1>1, SwapFields
<1>3. d.deadline # 0 /\ d.swapDeadline # 0 /\ d.quoteExpiresAt # 0
  <2>1. ConstraintsValid(i) /\ ValidatePhase12Swap(i.fin, i.createdAt, i.deadline, i.expiresAt)
    BY <1>1, <1>2 DEF validateParams
  <2> QED BY SMT, <1>1, <1>2, <2>1 DEF ConstraintsValid, ValidatePhase12Swap, ValidateQuote
<1>4. contractDeadlines(i) = {d.deadline, d.swapDeadline, d.quoteExpiresAt}
  BY <1>1, <1>2 DEF contractDeadlines
<1>5. DraftDeadlines(d) = {d.deadline, d.swapDeadline, d.quoteExpiresAt}
  BY SMT DEF DraftDeadlines
<1>6. d.deadline \in Nat /\ d.swapDeadline \in Nat /\ d.quoteExpiresAt \in Nat
  <2>1. WellFormed(d)
    BY PlanningAssumption DEF Intended
  <2> QED BY <2>1 DEF WellFormed
<1>7. EarliestDeadline(contractDeadlines(i)) = Min(DraftDeadlines(d))
  BY <1>3, <1>4, <1>5, Earliest
<1>8. Min(DraftDeadlines(d)) \in Nat /\ Min(DraftDeadlines(d)) \in DraftDeadlines(d)
  BY <1>5, <1>6, LeastOfThree
<1> QED BY <1>3, <1>5, <1>7, <1>8

\* The ceiling of the slippage formula allows no fraction of a base unit less.
LEMMA CeilingHonoured ==
  ASSUME NEW e \in Nat, NEW b \in Nat, b <= 10000, NEW m \in Nat,
         m >= minimumOutputCeiling(e, b)
  PROVE  m * 10000 >= e * (10000 - b)
<1> DEFINE x == e * (10000 - b)
<1>1. x \in Nat
  BY SMT
<1>2. m >= (x + 9999) \div 10000
  BY SMT DEF minimumOutputCeiling
<1> HIDE DEF x
<1>3. m * 10000 >= x
  BY SMT, <1>1, <1>2
<1> QED BY SMT, <1>3 DEF x

\* An amount within the contracts' fields.
LEMMA FitsUint128 ==
  ASSUME NEW n \in Nat, n > 0, n <= MaxUint128
  PROVE  PositiveUint128(n)
BY SMT, TypedAssumption DEF PositiveUint128

\* Native value is a natural number.
LEMMA ScaledAmount ==
  ASSUME NEW n \in Nat
  PROVE  n * NativeScale \in Nat /\ n * NativeScale >= 0
<1>1. NativeScale \in Nat
  BY TypedAssumption
<1> QED BY SMT, <1>1

\* The minimum output is at least what the slippage leaves of the expected output.
WithinSlippage(d) == d.minAmountOut * 10000 >= d.expectedOutput * (10000 - d.maxSlippageBPS)

\* An approved swap is planned as it was drafted or not at all, and always where its
\* amounts fit the contract's fields.
LEMMA SwapPlanned ==
  ASSUME NEW d, NEW i, Intended(d, i), i.status = "APPROVED", d.type = "SWAP"
  PROVE  /\ Plan(i) \in {None, Some(SwapPlanOf(d))}
         /\ d.amountIn <= MaxUint128 /\ d.minAmountOut <= MaxUint128 => Plan(i) # None
         /\ WithinSlippage(d)
<1>1. i.fin = swapFinancial(d) /\ validateParams(i) /\ i.route = RouteFor(d.type)
  BY Frozen, FinancialKinds
<1>2. /\ i.fin.type = "SWAP" /\ i.fin.inputToken = d.tokenIn /\ i.fin.outputToken = d.tokenOut
      /\ i.fin.inputAmount = d.amountIn /\ i.fin.expectedOutput = d.expectedOutput
      /\ i.fin.minimumOutput = d.minAmountOut /\ i.fin.maxSlippageBPS = d.maxSlippageBPS
      /\ i.fin.minHopPrice = d.minHopPrice /\ i.fin.deadline = d.swapDeadline
  <2>1. /\ i.fin.type = "SWAP" /\ i.fin.inputToken = d.tokenIn /\ i.fin.outputToken = d.tokenOut
        /\ i.fin.inputAmount = d.amountIn /\ i.fin.expectedOutput = d.expectedOutput
    BY <1>1, SwapFields
  <2>2. /\ i.fin.minimumOutput = d.minAmountOut /\ i.fin.maxSlippageBPS = d.maxSlippageBPS
        /\ i.fin.minHopPrice = d.minHopPrice /\ i.fin.deadline = d.swapDeadline
    BY <1>1, SwapFields
  <2> QED BY <2>1, <2>2
<1>3. Phase12ExecutableSwap(i.fin)
  <2>1. FinancialValid(i.fin)
    BY <1>1 DEF validateParams
  <2> QED BY SMT, <1>2, <2>1 DEF FinancialValid
<1>4. /\ canonicalPair(d.tokenIn, d.tokenOut) /\ d.amountIn > 0 /\ d.minAmountOut > 0
      /\ PositiveUint128(d.minHopPrice) /\ d.swapDeadline # 0
  BY SMT, <1>2, <1>3 DEF Phase12ExecutableSwap, ValidatePhase12Swap
<1>5. /\ d.amountIn \in Nat /\ d.minAmountOut \in Nat /\ d.expectedOutput \in Nat
      /\ d.maxSlippageBPS \in Nat /\ d.swapDeadline \in Nat
  <2>1. WellFormed(d)
    BY PlanningAssumption DEF Intended
  <2> QED BY <2>1 DEF WellFormed
<1>6. PlanSwap(i) = EncodeExecuteSwap(SwapArgs(d))
  BY <1>1, <1>2, <1>3 DEF PlanSwap, IntentValid, validateBinding, SwapArgs
<1>7. EncodeExecuteSwap(SwapArgs(d)) =
        IF validateExecuteSwap(SwapArgs(d)) THEN Some(SwapCall(d)) ELSE None
  BY SMT DEF EncodeExecuteSwap, NewEncodedCall, DeploymentOf, SwapCall, ExecuteSwap
<1>8. validateExecuteSwap(SwapArgs(d)) => contractPlan(i, SwapCall(d)) = Some(SwapPlanOf(d))
  <2> SUFFICES ASSUME validateExecuteSwap(SwapArgs(d))
               PROVE  contractPlan(i, SwapCall(d)) = Some(SwapPlanOf(d))
    OBVIOUS
  <2>1. contractNativeValue(i) = SwapValue(d) /\ SwapValue(d) \in Nat /\ SwapValue(d) >= 0
    <3>1. SwapValue(d) \in Nat /\ SwapValue(d) >= 0
      BY SMT, <1>5, ScaledAmount DEF SwapValue
    <3> QED BY <1>2, <3>1 DEF contractNativeValue, SwapValue
  <2>2. nativeValueForCall(SwapCall(d)) = Some(SwapValue(d))
    <3>1. SwapCall(d).data.function = ExecuteSwap /\ SwapCall(d).data.args = SwapArgs(d)
      BY DEF SwapCall
    <3>2. DecodeExecuteSwapCall(SwapCall(d).data) = Some(SwapArgs(d))
      BY <3>1 DEF DecodeExecuteSwapCall
    <3>3. SwapArgs(d).tokenIn = d.tokenIn /\ SwapArgs(d).amountIn = d.amountIn
      BY DEF SwapArgs
    <3>4. ExecuteSwap # CrossToken
      BY DEF ExecuteSwap, CrossToken
    <3> QED BY <3>1, <3>2, <3>3, <3>4, Optional DEF nativeValueForCall, SwapValue
  <2>3. validateContractExecution(SwapPlanOf(d))
    <3>1. SwapPlanOf(d).submitNotAfter # 0 /\ SwapPlanOf(d).nativeValue >= 0
      BY <2>1, SwapBound DEF SwapPlanOf
    <3> QED BY <3>1 DEF validateContractExecution
  <2> QED BY <2>1, <2>2, <2>3, SwapBound DEF contractPlan, NewContractExecutionPlan, SwapPlanOf
<1>9. Plan(i) = IF PlanSwap(i) = None THEN None ELSE contractPlan(i, PlanSwap(i)[1])
  BY SMT, <1>1, <1>2 DEF Plan, IntentValid
<1>10. Plan(i) = IF validateExecuteSwap(SwapArgs(d)) THEN Some(SwapPlanOf(d)) ELSE None
  <2>1. CASE validateExecuteSwap(SwapArgs(d))
    <3>1. PlanSwap(i) = Some(SwapCall(d))
      BY <1>6, <1>7, <2>1
    <3>2. PlanSwap(i) # None /\ PlanSwap(i)[1] = SwapCall(d)
      BY <3>1, Optional
    <3> QED BY <1>8, <1>9, <2>1, <3>2
  <2>2. CASE ~validateExecuteSwap(SwapArgs(d))
    BY <1>6, <1>7, <1>9, <2>2
  <2> QED BY <2>1, <2>2
<1>11. d.amountIn <= MaxUint128 /\ d.minAmountOut <= MaxUint128 => validateExecuteSwap(SwapArgs(d))
  <2>1. d.amountIn <= MaxUint128 /\ d.minAmountOut <= MaxUint128 =>
          PositiveUint128(d.amountIn) /\ PositiveUint128(d.minAmountOut)
    BY SMT, <1>4, <1>5, TypedAssumption DEF PositiveUint128
  <2>2. d.swapDeadline > 0
    BY SMT, <1>4, <1>5
  <2> QED BY <1>4, <2>1, <2>2 DEF validateExecuteSwap, SwapArgs
<1>12. WithinSlippage(d)
  <2>1. /\ d.maxSlippageBPS <= 10000
        /\ d.minAmountOut >= minimumOutputCeiling(d.expectedOutput, d.maxSlippageBPS)
    BY SMT, <1>2, <1>3 DEF Phase12ExecutableSwap, ValidatePhase12Swap
  <2> QED BY SMT, <1>5, <2>1, CeilingHonoured DEF WithinSlippage
<1>13. /\ Plan(i) \in {None, Some(SwapPlanOf(d))}
       /\ d.amountIn <= MaxUint128 /\ d.minAmountOut <= MaxUint128 => Plan(i) # None
  BY <1>10, <1>11, Optional
<1> QED BY <1>12, <1>13

-----------------------------------------------------------------------------
(* Payrolls.                                                               *)

Addresses(d) == [k \in DOMAIN d.recipients |-> d.recipients[k].address]
Amounts(d) == [k \in DOMAIN d.recipients |-> d.recipients[k].amount]

\* What the encoders read in a payroll's parameters p is what the draft d says.
PayrollOf(p, d) ==
  /\ p.type = "PAYROLL" /\ p.tokenIn = d.token /\ p.referenceID = d.referenceID
  /\ p.total = SumOf(Amounts(d))
  /\ DOMAIN p.recipients = DOMAIN d.recipients /\ Len(p.recipients) = Len(d.recipients)
  /\ addressesOf(p) = Addresses(d)
  /\ Map(p.recipients, LAMBDA r : r.minAmountOut) = Amounts(d)
  /\ \A k \in DOMAIN d.recipients : /\ p.recipients[k].address = d.recipients[k].address
                                    /\ p.recipients[k].minAmountOut = d.recipients[k].amount
  /\ d.outputToken = "" =>
       /\ p.crossToken = None
       /\ Map(p.recipients, LAMBDA r : r.amountIn) = Amounts(d)
       /\ \A k \in DOMAIN d.recipients : p.recipients[k].amountIn = d.recipients[k].amount
  /\ d.outputToken # "" =>
       /\ p.crossToken # None
       /\ \A k \in DOMAIN d.recipients : p.recipients[k].tokenOut = d.outputToken
       /\ p.crossToken[1].grossInput = d.grossInput
       /\ p.crossToken[1].minTotalOut = d.minTotalOut
       /\ p.crossToken[1].minHopPrice = d.minHopPrice
       /\ p.crossToken[1].deadline = d.swapDeadline

\* An element of a sequence over a set is in the set.
LEMMA ElementIn ==
  ASSUME NEW S, NEW s \in Seq(S), NEW k \in DOMAIN s
  PROVE  s[k] \in S
BY SMT

\* A sequence with an element has a first one.
LEMMA FirstPosition ==
  ASSUME NEW S, NEW s \in Seq(S)
  PROVE  Len(s) \in Nat /\ (Len(s) \in 1..MaxRecipients => 1 \in DOMAIN s)
BY SMT, TypedAssumption

\* A time that is set is positive.
LEMMA PositiveTick ==
  ASSUME NEW t \in Nat \ {0}
  PROVE  t > 0
BY SMT

\* payrollFinancial, line by line, from the draft.
LEMMA PayrollFields ==
  ASSUME NEW d, d.recipients \in Seq([address : STRING, amount : Nat])
  PROVE  /\ PayrollOf(payrollFinancial(d), d)
         /\ Len(Addresses(d)) = Len(d.recipients) /\ Len(Amounts(d)) = Len(d.recipients)
         /\ DOMAIN d.recipients = 1..Len(d.recipients)
         /\ \A k \in DOMAIN d.recipients : d.recipients[k].amount \in Nat
<1> DEFINE p == payrollFinancial(d)
           cross == d.outputToken # ""
           line(r) == [address |-> r.address,
                       tokenOut |-> IF cross THEN d.outputToken ELSE d.token,
                       amountIn |-> IF cross THEN 0 ELSE r.amount,
                       minAmountOut |-> r.amount]
           material == [grossInput |-> d.grossInput, minTotalOut |-> d.minTotalOut,
                        minHopPrice |-> d.minHopPrice, deadline |-> d.swapDeadline]
<1>1. /\ p.type = "PAYROLL" /\ p.tokenIn = d.token /\ p.referenceID = d.referenceID
      /\ p.total = SumOf(Amounts(d))
      /\ p.recipients = [k \in DOMAIN d.recipients |-> line(d.recipients[k])]
      /\ p.crossToken = IF cross THEN Some(material) ELSE None
  BY DEF payrollFinancial, Map, Amounts
<1> HIDE DEF p
<1>2. ASSUME NEW k \in DOMAIN d.recipients
      PROVE  /\ p.recipients[k].address = d.recipients[k].address
             /\ p.recipients[k].minAmountOut = d.recipients[k].amount
             /\ cross => p.recipients[k].tokenOut = d.outputToken
             /\ ~cross => p.recipients[k].amountIn = d.recipients[k].amount
  <2>1. p.recipients[k] = line(d.recipients[k])
    BY <1>1
  <2>2. ASSUME NEW r
        PROVE  /\ line(r).address = r.address /\ line(r).minAmountOut = r.amount
               /\ cross => line(r).tokenOut = d.outputToken
               /\ ~cross => line(r).amountIn = r.amount
    OBVIOUS
  <2> HIDE DEF line
  <2> QED BY <2>1, <2>2
<1>3. DOMAIN p.recipients = DOMAIN d.recipients
  BY <1>1
<1>4. /\ material.grossInput = d.grossInput /\ material.minTotalOut = d.minTotalOut
      /\ material.minHopPrice = d.minHopPrice /\ material.deadline = d.swapDeadline
  OBVIOUS
<1> HIDE DEF line, material
<1>5. /\ Len(p.recipients) = Len(d.recipients)
      /\ Len(Addresses(d)) = Len(d.recipients) /\ Len(Amounts(d)) = Len(d.recipients)
      /\ DOMAIN d.recipients = 1..Len(d.recipients)
  <2>1. DOMAIN d.recipients = 1..Len(d.recipients) /\ Len(d.recipients) \in Nat
    BY SMT
  <2>2. ASSUME NEW f, DOMAIN f = DOMAIN d.recipients
        PROVE  Len(f) = Len(d.recipients)
    BY SMT, <2>1, <2>2
  <2>3. DOMAIN Addresses(d) = DOMAIN d.recipients /\ DOMAIN Amounts(d) = DOMAIN d.recipients
    BY DEF Addresses, Amounts
  <2> QED BY <1>3, <2>1, <2>2, <2>3
<1>6. cross => p.crossToken[1] = material /\ p.crossToken # None
  <2>1. Some(material)[1] = material /\ Some(material) # None
    BY Optional
  <2> QED BY <1>1, <2>1
<1>7. /\ addressesOf(p) = Addresses(d)
      /\ Map(p.recipients, LAMBDA r : r.minAmountOut) = Amounts(d)
  BY <1>2, <1>3 DEF addressesOf, Map, Addresses, Amounts
<1>8. ~cross => Map(p.recipients, LAMBDA r : r.amountIn) = Amounts(d)
  BY <1>2, <1>3 DEF Map, Amounts
<1>9. PayrollOf(p, d)
  BY <1>1, <1>2, <1>3, <1>4, <1>5, <1>6, <1>7, <1>8 DEF PayrollOf
<1>10. ASSUME NEW k \in DOMAIN d.recipients
       PROVE  d.recipients[k].amount \in Nat
  <2>1. d.recipients[k] \in [address : STRING, amount : Nat]
    BY ElementIn
  <2> QED BY <2>1
<1> QED BY <1>5, <1>9, <1>10 DEF p

\* A payroll plan from the arguments of its call.
PayrollCall(function, args) == [contract |-> "WIZPAY_PAYROLL", to |-> PayrollAddress,
                                data |-> [function |-> function, args |-> args]]

PayrollPlanOf(d, encoded, value) ==
  [kind |-> "CONTRACT_EXECUTION", wallet |-> Wallet, call |-> encoded,
   submitNotAfter |-> Min(DraftDeadlines(d)), nativeValue |-> value]

SameArgs(d) == [token |-> d.token, recipients |-> Addresses(d), amounts |-> Amounts(d),
                referenceID |-> d.referenceID]

SamePlanOf(d) == PayrollPlanOf(d, PayrollCall(SameToken, SameArgs(d)), 0)

CrossArgs(d) == [tokenIn |-> d.token, tokenOut |-> d.outputToken, recipients |-> Addresses(d),
                 outputAmounts |-> Amounts(d), grossInput |-> d.grossInput,
                 minTotalOut |-> d.minTotalOut, minHopPrice |-> d.minHopPrice,
                 deadline |-> d.swapDeadline, referenceID |-> d.referenceID]

CrossValue(d) == IF d.token = "USDC" THEN d.grossInput * NativeScale ELSE 0

CrossPlanOf(d) == PayrollPlanOf(d, PayrollCall(CrossToken, CrossArgs(d)), CrossValue(d))

\* The parameters of an approved payroll, which are valid in the draft's variant.
LEMMA PayrollIntended ==
  ASSUME NEW d, NEW i, Intended(d, i), d.type = "PAYROLL"
  PROVE  /\ i.fin = payrollFinancial(d) /\ i.fin.type = "PAYROLL" /\ PayrollOf(i.fin, d)
         /\ validateParams(i) /\ validateBinding(i)
         /\ i.deadline = d.deadline /\ i.expiresAt = d.deadline
         /\ d.deadline \in Nat \ {0}
         /\ d.recipients \in Seq([address : STRING, amount : Nat])
         /\ d.outputToken = "" =>
              ValidateSameToken(i.fin) /\ ~isCrossTokenShape(i.fin) /\ ~ValidateCrossToken(i.fin)
         /\ d.outputToken # "" =>
              /\ ~ValidateSameToken(i.fin) /\ ValidateCrossToken(i.fin)
              /\ d.grossInput \in Nat /\ d.swapDeadline \in Nat \ {0}
<1>1. /\ i.fin = payrollFinancial(d) /\ validateParams(i) /\ i.route = RouteFor(d.type)
      /\ i.deadline = d.deadline /\ i.expiresAt = d.deadline
  BY Frozen, FinancialKinds
<1>2. /\ d.deadline \in Nat /\ d.recipients \in Seq([address : STRING, amount : Nat])
      /\ d.outputToken # "" => d.grossInput \in Nat /\ d.swapDeadline \in Nat
  <2>1. WellFormed(d)
    BY PlanningAssumption DEF Intended
  <2> QED BY <2>1 DEF WellFormed
<1>3. PayrollOf(i.fin, d)
  BY <1>1, <1>2, PayrollFields
<1>4. i.fin.type = "PAYROLL"
  BY <1>3 DEF PayrollOf
<1>5. d.deadline # 0
  BY <1>1 DEF validateParams, ConstraintsValid
<1>6. /\ d.outputToken = "" => ValidateSameToken(payrollFinancial(d))
      /\ d.outputToken # "" => ValidateCrossToken(payrollFinancial(d))
  <2>1. DraftAccepted(d)
    BY DEF Intended
  <2> QED BY <2>1 DEF DraftAccepted
<1>7. isCrossTokenShape(i.fin) = (d.outputToken # "")
  BY <1>3 DEF PayrollOf, isCrossTokenShape
<1>8. d.outputToken = "" => ~ValidateCrossToken(i.fin)
  BY <1>7 DEF ValidateCrossToken, validateCrossTokenTimeline
<1>9. d.outputToken # "" => ~ValidateSameToken(i.fin)
  BY <1>7 DEF ValidateSameToken
<1>10. d.outputToken # "" => d.swapDeadline # 0
  <2> SUFFICES ASSUME d.outputToken # "" PROVE d.swapDeadline # 0
    OBVIOUS
  <2>1. i.fin.crossToken[1].deadline # 0
    BY <1>1, <1>6 DEF ValidateCrossToken, validateCrossTokenTimeline
  <2> QED BY <2>1, <1>3 DEF PayrollOf
<1>11. validateBinding(i)
  BY <1>1, <1>4 DEF validateBinding
<1> QED BY <1>1, <1>2, <1>3, <1>4, <1>5, <1>6, <1>7, <1>8, <1>9, <1>10, <1>11

\* A payroll's bound is the earliest of its deadlines: the intent's, and the swap's where
\* there is one.
LEMMA PayrollBound ==
  ASSUME NEW d, NEW i, Intended(d, i), d.type = "PAYROLL"
  PROVE  /\ EarliestDeadline(contractDeadlines(i)) = Min(DraftDeadlines(d))
         /\ Min(DraftDeadlines(d)) \in Nat \ {0}
<1> DEFINE other == IF d.outputToken = "" THEN d.deadline ELSE d.swapDeadline
<1>1. other \in Nat \ {0} /\ d.deadline \in Nat \ {0}
  BY PayrollIntended
<1>2. contractDeadlines(i) = {d.deadline, other}
  <2>1. i.fin.type # "SWAP" /\ i.deadline = d.deadline /\ i.expiresAt = d.deadline
    BY PayrollIntended
  <2>2. CASE d.outputToken = ""
    BY <2>1, <2>2, PayrollIntended DEF contractDeadlines
  <2>3. CASE d.outputToken # ""
    <3>1. ValidateCrossToken(i.fin) /\ PayrollOf(i.fin, d)
      BY <2>3, PayrollIntended
    <3>2. i.fin.crossToken[1].deadline = d.swapDeadline
      BY <2>3, <3>1 DEF PayrollOf
    <3> QED BY <2>1, <2>3, <3>1, <3>2 DEF contractDeadlines
  <2> QED BY <2>2, <2>3
<1>3. DraftDeadlines(d) = {d.deadline, other}
  <2>1. d.type # "SWAP"
    OBVIOUS
  <2> QED BY <2>1 DEF DraftDeadlines
<1> HIDE DEF other
<1>4. EarliestDeadline(contractDeadlines(i)) = Min(DraftDeadlines(d))
  BY <1>1, <1>2, <1>3, Earliest
<1>5. Min(DraftDeadlines(d)) \in Nat /\ Min(DraftDeadlines(d)) \in DraftDeadlines(d)
  <2>1. DraftDeadlines(d) = {d.deadline, other, other}
    BY <1>3
  <2> QED BY <1>1, <2>1, LeastOfThree
<1> QED BY <1>1, <1>3, <1>4, <1>5

\* The plan of an approved payroll whose call is encoded with a native value that the
\* calldata gives back.
LEMMA PayrollSealed ==
  ASSUME NEW d, NEW i, Intended(d, i), i.status = "APPROVED", d.type = "PAYROLL",
         NEW encoded, NEW value \in Nat, nativeValueForCall(encoded) = Some(value),
         contractNativeValue(i) = value, PlanPayroll(i) = Some(encoded)
  PROVE  Plan(i) = Some(PayrollPlanOf(d, encoded, value))
<1>1. validateContractExecution(PayrollPlanOf(d, encoded, value))
  <2>1. /\ PayrollPlanOf(d, encoded, value).submitNotAfter = Min(DraftDeadlines(d))
        /\ PayrollPlanOf(d, encoded, value).nativeValue = value
    BY DEF PayrollPlanOf
  <2>2. Min(DraftDeadlines(d)) # 0
    BY PayrollBound
  <2>3. value >= 0
    BY SMT
  <2> QED BY <2>1, <2>2, <2>3 DEF validateContractExecution
<1>2. contractPlan(i, encoded) = Some(PayrollPlanOf(d, encoded, value))
  BY <1>1, PayrollBound DEF contractPlan, NewContractExecutionPlan, PayrollPlanOf
<1>3. IntentValid(i) /\ i.fin.type = "PAYROLL"
  BY PayrollIntended DEF IntentValid
<1>4. Plan(i) = IF PlanPayroll(i) = None THEN None ELSE contractPlan(i, PlanPayroll(i)[1])
  BY <1>3 DEF Plan
<1> QED BY <1>2, <1>4, Optional

\* A payroll that the encoder refuses has no plan.
LEMMA PayrollUnsealed ==
  ASSUME NEW d, NEW i, Intended(d, i), i.status = "APPROVED", d.type = "PAYROLL",
         PlanPayroll(i) = None
  PROVE  Plan(i) = None
<1>1. IntentValid(i) /\ i.fin.type = "PAYROLL"
  BY PayrollIntended DEF IntentValid
<1> QED BY <1>1 DEF Plan

\* The payroll deployment takes both payroll functions.
LEMMA PayrollEncoded ==
  ASSUME NEW function \in {SameToken, CrossToken}, NEW args
  PROVE  NewEncodedCall("WIZPAY_PAYROLL", function, args) = Some(PayrollCall(function, args))
<1>1. /\ DeploymentOf("WIZPAY_PAYROLL").address = PayrollAddress
      /\ DeploymentOf("WIZPAY_PAYROLL").execution = {SameToken, CrossToken}
  BY SMT DEF DeploymentOf
<1> QED BY <1>1 DEF NewEncodedCall, PayrollCall

\* An approved same-token payroll is planned as it was drafted or not at all, and always
\* where its amounts fit the contract's fields.
LEMMA SamePlanned ==
  ASSUME NEW d, NEW i, Intended(d, i), i.status = "APPROVED", d.type = "PAYROLL",
         d.outputToken = ""
  PROVE  /\ Plan(i) \in {None, Some(SamePlanOf(d))}
         /\ (\A k \in DOMAIN d.recipients : d.recipients[k].amount <= MaxUint128) => Plan(i) # None
<1> DEFINE p == i.fin
<1>1. /\ PayrollOf(p, d) /\ validateBinding(i) /\ IntentValid(i) /\ ValidateSameToken(p)
      /\ ~ValidateCrossToken(p) /\ p.type = "PAYROLL"
  BY PayrollIntended DEF IntentValid
<1>2. PlanPayroll(i) = planSameToken(p)
  BY <1>1 DEF PlanPayroll
<1>3. planSameToken(p) = EncodeSameTokenPayroll(SameArgs(d))
  BY <1>1 DEF planSameToken, PayrollOf, SameArgs
<1>4. EncodeSameTokenPayroll(SameArgs(d)) =
        IF validateSameTokenCall(SameArgs(d))
        THEN Some(PayrollCall(SameToken, SameArgs(d))) ELSE None
  BY PayrollEncoded DEF EncodeSameTokenPayroll
<1>5. contractNativeValue(i) = 0
  BY <1>1 DEF contractNativeValue
<1>6. nativeValueForCall(PayrollCall(SameToken, SameArgs(d))) = Some(0)
  <2>1. PayrollCall(SameToken, SameArgs(d)).data.function = SameToken
    BY DEF PayrollCall
  <2>2. SameToken # CrossToken /\ SameToken # ExecuteSwap
    BY DEF SameToken, CrossToken, ExecuteSwap
  <2> QED BY <2>1, <2>2 DEF nativeValueForCall
<1>7. validateSameTokenCall(SameArgs(d)) => Plan(i) = Some(SamePlanOf(d))
  <2>1. 0 \in Nat
    OBVIOUS
  <2> QED BY <1>2, <1>3, <1>4, <1>5, <1>6, <2>1, PayrollSealed DEF SamePlanOf
<1>8. ~validateSameTokenCall(SameArgs(d)) => Plan(i) = None
  BY <1>2, <1>3, <1>4, PayrollUnsealed
<1>9. ASSUME \A k \in DOMAIN d.recipients : d.recipients[k].amount <= MaxUint128
      PROVE  validateSameTokenCall(SameArgs(d))
  <2>1. /\ SameArgs(d).token = d.token /\ SameArgs(d).recipients = Addresses(d)
        /\ SameArgs(d).amounts = Amounts(d) /\ SameArgs(d).referenceID = d.referenceID
    BY DEF SameArgs
  <2>2. /\ d.recipients \in Seq([address : STRING, amount : Nat])
        /\ Len(Addresses(d)) = Len(d.recipients) /\ Len(Amounts(d)) = Len(d.recipients)
    BY PayrollIntended, PayrollFields
  <2>3. CanonicalToken(d.token) /\ validatePayrollReferenceID(d.referenceID)
    BY <1>1 DEF ValidateSameToken, PayrollOf
  <2>4. ValidatePhase12Payroll(p)
    BY <1>1 DEF ValidateSameToken
  <2>5. Len(d.recipients) \in 1..MaxRecipients
    BY <1>1, <2>4 DEF ValidatePhase12Payroll, PayrollOf
  <2>6. ASSUME NEW k \in DOMAIN d.recipients
        PROVE  d.recipients[k].address # AddressZero /\ d.recipients[k].amount > 0
    <3>1. k \in DOMAIN p.recipients /\ p.recipients[k].address = d.recipients[k].address
          /\ p.recipients[k].amountIn = d.recipients[k].amount
      BY <1>1 DEF PayrollOf
    <3> QED BY <2>4, <3>1 DEF ValidatePhase12Payroll
  <2>7. ASSUME NEW k \in DOMAIN d.recipients
        PROVE  /\ Addresses(d)[k] = d.recipients[k].address
               /\ Amounts(d)[k] = d.recipients[k].amount
    BY DEF Addresses, Amounts
  <2>8. DOMAIN Addresses(d) = DOMAIN d.recipients
    BY DEF Addresses
  <2>9. ASSUME NEW k \in DOMAIN d.recipients
        PROVE  PositiveUint128(d.recipients[k].amount)
    <3>1. d.recipients[k].amount \in Nat
      BY <2>2, PayrollFields
    <3>2. d.recipients[k].amount <= MaxUint128 /\ d.recipients[k].amount > 0
      BY <1>9, <2>6
    <3> QED BY <3>1, <3>2, FitsUint128
  <2>10. validateBatch(Addresses(d), Amounts(d), d.referenceID)
    BY <2>2, <2>3, <2>5, <2>6, <2>7, <2>8, <2>9 DEF validateBatch
  <2> QED BY <2>1, <2>3, <2>10 DEF validateSameTokenCall
<1> QED BY <1>7, <1>8, <1>9, Optional

\* As many values as positions means that no value is repeated.
LEMMA DistinctValues ==
  ASSUME NEW n \in Nat, NEW f, DOMAIN f = 1..n, Cardinality({f[k] : k \in 1..n}) = n
  PROVE  \A j, k \in 1..n : f[j] = f[k] => j = k
<1> DEFINE T == {f[k] : k \in 1..n}
           g == [k \in 1..n |-> f[k]]
<1>1. IsFiniteSet(1..n) /\ Cardinality(1..n) = n
  BY SMT, FS_Interval
<1>2. g \in Surjection(1..n, T)
  BY DEF Surjection
<1>3. g \in Injection(1..n, T)
  BY <1>1, <1>2, FS_Surjection
<1>4. IsInjective(g) /\ DOMAIN g = 1..n /\ \A k \in 1..n : g[k] = f[k]
  BY <1>3 DEF Injection
<1> HIDE DEF g
<1> QED BY <1>4 DEF IsInjective

\* An approved cross-token payroll is planned as it was drafted.
LEMMA CrossPlanned ==
  ASSUME NEW d, NEW i, Intended(d, i), i.status = "APPROVED", d.type = "PAYROLL",
         d.outputToken # ""
  PROVE  Plan(i) = Some(CrossPlanOf(d))
<1> DEFINE p == i.fin
<1>1. /\ PayrollOf(p, d) /\ validateBinding(i) /\ IntentValid(i) /\ ValidateCrossToken(p)
      /\ ~ValidateSameToken(p) /\ p.type = "PAYROLL"
  BY PayrollIntended DEF IntentValid
<1>2. /\ d.recipients \in Seq([address : STRING, amount : Nat])
      /\ Len(Addresses(d)) = Len(d.recipients) /\ Len(Amounts(d)) = Len(d.recipients)
      /\ DOMAIN d.recipients = 1..Len(d.recipients)
      /\ DOMAIN p.recipients = DOMAIN d.recipients /\ Len(p.recipients) = Len(d.recipients)
  <2>1. d.recipients \in Seq([address : STRING, amount : Nat])
    BY PayrollIntended
  <2> QED BY <1>1, <2>1, PayrollFields DEF PayrollOf
<1>3. /\ Len(d.recipients) \in 1..MaxRecipients /\ validatePayrollReferenceID(d.referenceID)
      /\ UniqueAddresses(p.recipients)
  BY <1>1 DEF ValidateCrossToken, validateCrossTokenTimeline, PayrollOf
<1>4. ASSUME NEW k \in DOMAIN d.recipients
      PROVE  /\ d.recipients[k].address \notin {AddressZero, PayrollAddress}
             /\ canonicalPair(d.token, d.outputToken)
             /\ PositiveUint128(d.recipients[k].amount)
  <2>1. /\ k \in DOMAIN p.recipients /\ p.recipients[k].address = d.recipients[k].address
        /\ p.recipients[k].tokenOut = d.outputToken /\ p.tokenIn = d.token
        /\ p.recipients[k].minAmountOut = d.recipients[k].amount
    BY <1>1 DEF PayrollOf
  <2>2. /\ p.recipients[k].address \notin {AddressZero, PayrollAddress, ""}
        /\ canonicalPair(p.tokenIn, p.recipients[k].tokenOut)
        /\ PositiveUint128(p.recipients[k].minAmountOut)
    BY <1>1, <2>1 DEF ValidateCrossToken, validateCrossTokenTimeline
  <2> QED BY <2>1, <2>2
<1>5. /\ PositiveUint128(d.grossInput) /\ PositiveUint128(d.minTotalOut)
      /\ PositiveUint128(d.minHopPrice) /\ d.minTotalOut >= SumOf(Amounts(d))
  BY <1>1 DEF ValidateCrossToken, validateCrossTokenTimeline, PayrollOf
<1>6. 1 \in DOMAIN d.recipients
  BY <1>2, <1>3, FirstPosition
<1>7. PlanPayroll(i) = planCrossToken(p)
  BY <1>1 DEF PlanPayroll
<1>8. planCrossToken(p) = EncodeCrossTokenPayroll(CrossArgs(d))
  <2>1. p.recipients[1].tokenOut = d.outputToken
    BY <1>1, <1>6 DEF PayrollOf
  <2> QED BY <1>1, <2>1 DEF planCrossToken, PayrollOf, CrossArgs
<1>9. validateCrossTokenCall(CrossArgs(d))
  <2>1. /\ CrossArgs(d).tokenIn = d.token /\ CrossArgs(d).tokenOut = d.outputToken
        /\ CrossArgs(d).recipients = Addresses(d) /\ CrossArgs(d).outputAmounts = Amounts(d)
        /\ CrossArgs(d).grossInput = d.grossInput /\ CrossArgs(d).minTotalOut = d.minTotalOut
        /\ CrossArgs(d).minHopPrice = d.minHopPrice /\ CrossArgs(d).deadline = d.swapDeadline
        /\ CrossArgs(d).referenceID = d.referenceID
    BY DEF CrossArgs
  <2>2. /\ DOMAIN Addresses(d) = DOMAIN d.recipients
        /\ \A k \in DOMAIN d.recipients : /\ Addresses(d)[k] = d.recipients[k].address
                                          /\ Amounts(d)[k] = d.recipients[k].amount
    BY DEF Addresses, Amounts
  <2>3. validateBatch(Addresses(d), Amounts(d), d.referenceID)
    BY <1>2, <1>3, <1>4, <2>2 DEF validateBatch
  <2>4. \A j, k \in DOMAIN Addresses(d) : Addresses(d)[j] = Addresses(d)[k] => j = k
    <3>1. {p.recipients[k].address : k \in DOMAIN p.recipients}
            = {Addresses(d)[k] : k \in 1..Len(d.recipients)}
      <4>1. \A k \in DOMAIN d.recipients : p.recipients[k].address = Addresses(d)[k]
        BY <1>1, <2>2 DEF PayrollOf
      <4> QED BY <1>2, <4>1
    <3>2. Cardinality({Addresses(d)[k] : k \in 1..Len(d.recipients)}) = Len(d.recipients)
      BY <1>2, <1>3, <3>1 DEF UniqueAddresses
    <3>3. Len(d.recipients) \in Nat /\ DOMAIN Addresses(d) = 1..Len(d.recipients)
      BY <1>2, <2>2, FirstPosition
    <3> QED BY <3>2, <3>3, DistinctValues
  <2>5. \A k \in DOMAIN Addresses(d) : Addresses(d)[k] # PayrollAddress
    BY <1>4, <2>2
  <2>6. d.swapDeadline > 0
    BY PayrollIntended, PositiveTick
  <2>7. canonicalPair(d.token, d.outputToken)
    BY <1>4, <1>6
  <2> QED BY <1>5, <2>1, <2>3, <2>4, <2>5, <2>6, <2>7 DEF validateCrossTokenCall
<1>10. PlanPayroll(i) = Some(PayrollCall(CrossToken, CrossArgs(d)))
  BY <1>7, <1>8, <1>9, PayrollEncoded DEF EncodeCrossTokenPayroll
<1>11. contractNativeValue(i) = CrossValue(d)
  BY <1>1 DEF contractNativeValue, PayrollOf, CrossValue
<1>12. CrossValue(d) \in Nat
  <2>1. d.grossInput \in Nat
    BY PayrollIntended
  <2> QED BY <2>1, ScaledAmount DEF CrossValue
<1>13. nativeValueForCall(PayrollCall(CrossToken, CrossArgs(d))) = Some(CrossValue(d))
  <2> DEFINE data == PayrollCall(CrossToken, CrossArgs(d)).data
  <2>1. data.function = CrossToken /\ data.args = CrossArgs(d)
    BY DEF PayrollCall
  <2> HIDE DEF data
  <2>2. DecodeCrossTokenPayrollCall(data) = Some(CrossArgs(d))
    BY <1>9, <2>1 DEF DecodeCrossTokenPayrollCall
  <2>3. CrossArgs(d).tokenIn = d.token /\ CrossArgs(d).grossInput = d.grossInput
    BY DEF CrossArgs
  <2>4. CrossToken # ExecuteSwap
    BY DEF ExecuteSwap, CrossToken
  <2>5. data.function # ExecuteSwap
    BY <2>1, <2>4
  <2> QED BY <2>1, <2>2, <2>3, <2>5, Optional DEF nativeValueForCall, CrossValue, data
<1> QED BY <1>10, <1>11, <1>12, <1>13, PayrollSealed DEF CrossPlanOf

-----------------------------------------------------------------------------
(* The plan of an approved draft.                                          *)

PlanOf(d) == IF d.type = "SEND" THEN SendPlanOf(d)
             ELSE IF d.type = "SWAP" THEN SwapPlanOf(d)
             ELSE IF d.outputToken = "" THEN SamePlanOf(d) ELSE CrossPlanOf(d)

\* The amounts the intent's validators leave unbounded fit the contracts' fields.
Fits(d) == /\ d.type = "SWAP" => d.amountIn <= MaxUint128 /\ d.minAmountOut <= MaxUint128
           /\ d.type = "PAYROLL" /\ d.outputToken = "" =>
                \A k \in DOMAIN d.recipients : d.recipients[k].amount <= MaxUint128

\* Approved drafts are of the three types.
LEMMA ThreeTypes ==
  ASSUME NEW d, NEW i, Intended(d, i)
  PROVE  d.type \in {"PAYROLL", "SWAP", "SEND"}
BY PlanningAssumption DEF Intended, WellFormed

\* An approved draft is planned as it was drafted or not at all, and always where it fits.
LEMMA PlannedAsDrafted ==
  ASSUME NEW d, NEW i, Intended(d, i), i.status = "APPROVED"
  PROVE  Plan(i) \in {None, Some(PlanOf(d))} /\ (Fits(d) => Plan(i) # None)
<1>1. CASE d.type = "SEND"
  <2>1. PlanOf(d) = SendPlanOf(d) /\ Plan(i) = Some(SendPlanOf(d))
    BY <1>1, SendPlanned DEF PlanOf
  <2> QED BY <2>1, Optional
<1>2. CASE d.type = "SWAP"
  <2>1. PlanOf(d) = SwapPlanOf(d)
    BY <1>2 DEF PlanOf
  <2> QED BY <1>2, <2>1, SwapPlanned DEF Fits
<1>3. CASE d.type = "PAYROLL" /\ d.outputToken = ""
  <2>1. PlanOf(d) = SamePlanOf(d)
    BY <1>3 DEF PlanOf
  <2> QED BY <1>3, <2>1, SamePlanned DEF Fits
<1>4. CASE d.type = "PAYROLL" /\ d.outputToken # ""
  <2>1. PlanOf(d) = CrossPlanOf(d) /\ Plan(i) = Some(CrossPlanOf(d))
    BY <1>4, CrossPlanned DEF PlanOf
  <2> QED BY <2>1, Optional
<1> QED BY <1>1, <1>2, <1>3, <1>4, ThreeTypes

\* The fields of a send's plan.
LEMMA SendPlanFields ==
  ASSUME NEW d, d.type = "SEND"
  PROVE  /\ PlanOf(d).kind = "TOKEN_TRANSFER" /\ PlanOf(d).token = d.token
         /\ PlanOf(d).destination = d.recipient /\ PlanOf(d).amount = d.amount
<1>1. PlanOf(d) = SendPlanOf(d)
  BY DEF PlanOf
<1>2. /\ SendPlanOf(d).kind = "TOKEN_TRANSFER" /\ SendPlanOf(d).token = d.token
      /\ SendPlanOf(d).destination = d.recipient /\ SendPlanOf(d).amount = d.amount
  BY DEF SendPlanOf
<1> QED BY <1>1, <1>2

\* The fields of a swap's plan.
LEMMA SwapPlanFields ==
  ASSUME NEW d, d.type = "SWAP"
  PROVE  /\ PlanOf(d).kind = "CONTRACT_EXECUTION"
         /\ PlanOf(d).submitNotAfter = Min(DraftDeadlines(d))
         /\ PlanOf(d).call.contract = "WIZPAY_SWAP_EXECUTOR"
         /\ PlanOf(d).call.data.args = SwapArgs(d)
<1>1. PlanOf(d) = SwapPlanOf(d)
  BY DEF PlanOf
<1>2. /\ SwapPlanOf(d).kind = "CONTRACT_EXECUTION"
      /\ SwapPlanOf(d).submitNotAfter = Min(DraftDeadlines(d))
      /\ SwapPlanOf(d).call = SwapCall(d)
  BY DEF SwapPlanOf
<1>3. SwapCall(d).contract = "WIZPAY_SWAP_EXECUTOR" /\ SwapCall(d).data.args = SwapArgs(d)
  BY DEF SwapCall
<1> QED BY <1>1, <1>2, <1>3

\* The fields of a same-token payroll's plan: it carries no native value.
LEMMA SamePlanFields ==
  ASSUME NEW d, d.type = "PAYROLL", d.outputToken = ""
  PROVE  /\ PlanOf(d).kind = "CONTRACT_EXECUTION"
         /\ PlanOf(d).submitNotAfter = Min(DraftDeadlines(d))
         /\ PlanOf(d).call.data.function = SameToken
         /\ PlanOf(d).call.data.args = SameArgs(d)
         /\ PlanOf(d).nativeValue = 0
<1> DEFINE encoded == PayrollCall(SameToken, SameArgs(d))
<1>1. PlanOf(d) = SamePlanOf(d)
  BY DEF PlanOf
<1>2. /\ SamePlanOf(d).kind = "CONTRACT_EXECUTION"
      /\ SamePlanOf(d).submitNotAfter = Min(DraftDeadlines(d))
      /\ SamePlanOf(d).call = encoded
      /\ SamePlanOf(d).nativeValue = 0
  BY DEF SamePlanOf, PayrollPlanOf
<1>3. encoded.data.function = SameToken /\ encoded.data.args = SameArgs(d)
  BY DEF PayrollCall
<1> HIDE DEF encoded
<1> QED BY <1>1, <1>2, <1>3

\* The fields of a cross-token payroll's plan.
LEMMA CrossPlanFields ==
  ASSUME NEW d, d.type = "PAYROLL", d.outputToken # ""
  PROVE  /\ PlanOf(d).kind = "CONTRACT_EXECUTION"
         /\ PlanOf(d).submitNotAfter = Min(DraftDeadlines(d))
         /\ PlanOf(d).call.data.function = CrossToken
         /\ PlanOf(d).call.data.args = CrossArgs(d)
<1> DEFINE encoded == PayrollCall(CrossToken, CrossArgs(d))
<1>1. PlanOf(d) = CrossPlanOf(d)
  BY DEF PlanOf
<1>2. /\ CrossPlanOf(d).kind = "CONTRACT_EXECUTION"
      /\ CrossPlanOf(d).submitNotAfter = Min(DraftDeadlines(d))
      /\ CrossPlanOf(d).call = encoded
  BY DEF CrossPlanOf, PayrollPlanOf
<1>3. encoded.data.function = CrossToken /\ encoded.data.args = CrossArgs(d)
  BY DEF PayrollCall
<1> HIDE DEF encoded
<1> QED BY <1>1, <1>2, <1>3

\* A payroll's call pays what its preview shows.
LEMMA PayrollShown ==
  ASSUME NEW d, NEW i, Intended(d, i), d.type = "PAYROLL"
  PROVE  ShowsPayroll(PreviewPayroll(d), PlanOf(d).call)
<1> DEFINE f == payrollFinancial(d)
           shown == PreviewPayroll(d)
           args == PlanOf(d).call.data.args
           material == [outputToken |-> f.recipients[1].tokenOut,
                        grossInput |-> f.crossToken[1].grossInput,
                        minTotalOut |-> f.crossToken[1].minTotalOut,
                        minHopPrice |-> f.crossToken[1].minHopPrice,
                        deadline |-> f.crossToken[1].deadline]
<1>1. /\ PayrollOf(f, d)
      /\ d.outputToken = "" => ~ValidateCrossToken(f)
      /\ d.outputToken # "" => ValidateCrossToken(f)
  BY PayrollIntended
<1> HIDE DEF f
<1>2. /\ shown.token = f.tokenIn /\ shown.recipients = d.recipients /\ shown.total = f.total
      /\ shown.referenceID = f.referenceID
      /\ shown.cross = IF ValidateCrossToken(f) THEN Some(material) ELSE None
  BY DEF PreviewPayroll, f
<1> HIDE DEF shown
<1>3. /\ f.tokenIn = d.token /\ f.referenceID = d.referenceID /\ f.total = SumOf(Amounts(d))
  BY <1>1 DEF PayrollOf
<1>4. /\ Map(shown.recipients, LAMBDA r : r.address) = Addresses(d)
      /\ Map(shown.recipients, LAMBDA r : r.amount) = Amounts(d)
  BY <1>2 DEF Map, Addresses, Amounts
<1>5. CASE d.outputToken = ""
  <2>1. PlanOf(d).call.data.function = SameToken /\ args = SameArgs(d)
    BY <1>5, SamePlanFields
  <2>2. /\ SameArgs(d).token = d.token /\ SameArgs(d).recipients = Addresses(d)
        /\ SameArgs(d).amounts = Amounts(d) /\ SameArgs(d).referenceID = d.referenceID
    BY DEF SameArgs
  <2>3. shown.cross = None
    BY <1>1, <1>2, <1>5
  <2> QED BY <1>2, <1>3, <1>4, <2>1, <2>2, <2>3 DEF ShowsPayroll, shown
<1>6. CASE d.outputToken # ""
  <2>1. PlanOf(d).call.data.function = CrossToken /\ args = CrossArgs(d)
    BY <1>6, CrossPlanFields
  <2>2. /\ CrossArgs(d).tokenIn = d.token /\ CrossArgs(d).tokenOut = d.outputToken
        /\ CrossArgs(d).outputAmounts = Amounts(d) /\ CrossArgs(d).grossInput = d.grossInput
        /\ CrossArgs(d).minTotalOut = d.minTotalOut /\ CrossArgs(d).deadline = d.swapDeadline
    BY DEF CrossArgs
  <2>3. /\ material.outputToken = f.recipients[1].tokenOut
        /\ material.grossInput = f.crossToken[1].grossInput
        /\ material.minTotalOut = f.crossToken[1].minTotalOut
        /\ material.deadline = f.crossToken[1].deadline
    OBVIOUS
  <2> HIDE DEF material
  <2>4. shown.cross = Some(material) /\ shown.cross # None /\ shown.cross[1] = material
    BY <1>1, <1>2, <1>6, Optional
  <2>5. f.recipients[1].tokenOut = d.outputToken
    <3>1. Len(d.recipients) \in 1..MaxRecipients
      BY <1>1, <1>6 DEF PayrollOf, ValidateCrossToken, validateCrossTokenTimeline
    <3>2. 1 \in DOMAIN d.recipients
      BY <3>1, PayrollIntended, FirstPosition
    <3> QED BY <1>1, <1>6, <3>2 DEF PayrollOf
  <2>6. /\ f.crossToken[1].grossInput = d.grossInput
        /\ f.crossToken[1].minTotalOut = d.minTotalOut
        /\ f.crossToken[1].deadline = d.swapDeadline
    BY <1>1, <1>6 DEF PayrollOf
  <2>7. /\ shown.cross[1].outputToken = d.outputToken /\ shown.cross[1].grossInput = d.grossInput
        /\ shown.cross[1].minTotalOut = d.minTotalOut /\ shown.cross[1].deadline = d.swapDeadline
    BY <2>3, <2>4, <2>5, <2>6
  <2> QED BY <1>2, <1>3, <1>4, <2>1, <2>2, <2>4, <2>7 DEF ShowsPayroll, shown
<1> QED BY <1>5, <1>6

-----------------------------------------------------------------------------
(* The inductive invariant and what it says.                               *)

\* Circle got the request at that time, and the plan passed every check then.
SubmittedAt(at) == /\ OutcomeOf(plan, at) = "CHALLENGE"
                   /\ challenge = Some(createChallenge(plan[1], at))

PlanningInv ==
  /\ PlanningTypeOK
  /\ intent # None => Intended(draft[1], intent[1])
  /\ prepared => intent # None /\ intent[1].status = "APPROVED"
  /\ outcome # "" => plan = Plan(intent[1])
  /\ outcome = "SUBMISSION_PLAN_UNAVAILABLE" => plan = None
  /\ challenge # None => \E at \in 1..MaxTime : SubmittedAt(at)

\* An attempted plan is the planner's, of an approved draft.
LEMMA Attempted ==
  ASSUME PlanningInv, outcome # ""
  PROVE  /\ Intended(draft[1], intent[1]) /\ intent[1].status = "APPROVED"
         /\ plan = Plan(intent[1])
         /\ plan # None => plan[1] = PlanOf(draft[1])
<1>1. prepared /\ plan = Plan(intent[1])
  BY DEF PlanningInv, PlanningTypeOK
<1>2. Intended(draft[1], intent[1]) /\ intent[1].status = "APPROVED"
  BY <1>1 DEF PlanningInv
<1>3. plan # None => plan = Some(PlanOf(draft[1]))
  BY <1>1, <1>2, PlannedAsDrafted
<1> QED BY <1>1, <1>2, <1>3, Optional

\* A plan exists only after an attempt.
LEMMA PlanAttempted ==
  ASSUME PlanningInv, plan # None
  PROVE  outcome # ""
BY DEF PlanningInv, PlanningTypeOK

\* What the preview showed is what the plan pays.
LEMMA InvShows == PlanningInv => ShownIsPlanned
<1> SUFFICES ASSUME PlanningInv, plan # None PROVE ShownIsPlanned
  BY DEF ShownIsPlanned
<1> DEFINE d == draft[1]
           i == intent[1]
           p == plan[1]
<1>1. Intended(d, i) /\ p = PlanOf(d)
  BY PlanAttempted, Attempted
<1> HIDE DEF d, i, p
<1>2. PreviewAccepted(d, i.createdAt)
  BY <1>1 DEF Intended, PreviewAccepted
<1>3. CASE d.type = "PAYROLL"
  <2>1. ShowsPayroll(PreviewPayroll(d), p.call)
    BY <1>1, <1>3, PayrollShown
  <2> QED BY <1>2, <1>3, <2>1 DEF ShownIsPlanned, d, i, p
<1>4. CASE d.type = "SWAP"
  <2>1. p.call.data.args = SwapArgs(d)
    BY <1>1, <1>4, SwapPlanFields
  <2>2. /\ SwapArgs(d).tokenIn = d.tokenIn /\ SwapArgs(d).tokenOut = d.tokenOut
        /\ SwapArgs(d).amountIn = d.amountIn /\ SwapArgs(d).minAmountOut = d.minAmountOut
        /\ SwapArgs(d).deadline = d.swapDeadline
    BY DEF SwapArgs
  <2>3. /\ PreviewSwap(d).tokenIn = d.tokenIn /\ PreviewSwap(d).tokenOut = d.tokenOut
        /\ PreviewSwap(d).amountIn = d.amountIn /\ PreviewSwap(d).minAmountOut = d.minAmountOut
        /\ PreviewSwap(d).swapDeadline = d.swapDeadline
    <3>1. LET q == swapFinancial(d)
          IN /\ PreviewSwap(d).tokenIn = q.inputToken /\ PreviewSwap(d).tokenOut = q.outputToken
             /\ PreviewSwap(d).amountIn = q.inputAmount
             /\ PreviewSwap(d).minAmountOut = q.minimumOutput
             /\ PreviewSwap(d).swapDeadline = q.deadline
      BY DEF PreviewSwap
    <3> QED BY <3>1, SwapFields
  <2> QED BY <1>2, <1>4, <2>1, <2>2, <2>3 DEF ShownIsPlanned, d, i, p
<1>5. CASE d.type = "SEND"
  <2>1. p.token = d.token /\ p.destination = d.recipient /\ p.amount = d.amount
    BY <1>1, <1>5, SendPlanFields
  <2>2. [token |-> p.token, recipient |-> p.destination, amount |-> p.amount] = PreviewSend(d)
    BY <2>1 DEF PreviewSend
  <2> QED BY <1>2, <1>5, <2>2 DEF ShownIsPlanned, d, i, p
<1> QED BY <1>1, <1>3, <1>4, <1>5, ThreeTypes

\* Where no plan was available the draft did not fit.
LEMMA InvPlannable ==
  ASSUME PlanningInv, \A d \in Drafts : Fits(d)
  PROVE  ExecutableIsPlannable
<1> SUFFICES ASSUME outcome = "SUBMISSION_PLAN_UNAVAILABLE" PROVE FALSE
  BY DEF ExecutableIsPlannable
<1>1. outcome # ""
  OBVIOUS
<1>2. /\ Intended(draft[1], intent[1]) /\ intent[1].status = "APPROVED"
      /\ Plan(intent[1]) = None
  BY <1>1, Attempted DEF PlanningInv
<1>3. Fits(draft[1])
  BY <1>2 DEF Intended
<1> QED BY <1>2, <1>3, PlannedAsDrafted

\* A swap's plan keeps the approved slippage.
LEMMA InvSlippage == PlanningInv => SlippageHonoured
<1> SUFFICES ASSUME PlanningInv, plan # None, draft[1].type = "SWAP"
             PROVE  plan[1].call.data.args.minAmountOut * 10000
                      >= draft[1].expectedOutput * (10000 - draft[1].maxSlippageBPS)
  BY SMT DEF SlippageHonoured
<1> DEFINE d == draft[1]
<1>1. Intended(d, intent[1]) /\ intent[1].status = "APPROVED" /\ plan[1] = PlanOf(d)
  BY PlanAttempted, Attempted
<1>2. plan[1].call.data.args = SwapArgs(d) /\ WithinSlippage(d)
  BY <1>1, SwapPlanFields, SwapPlanned
<1>3. SwapArgs(d).minAmountOut = d.minAmountOut
  BY DEF SwapArgs
<1> QED BY SMT, <1>2, <1>3 DEF WithinSlippage

\* A contract plan that Circle was asked to sign is a same-token payroll, before its bound.
LEMMA SubmittedPlan ==
  ASSUME NEW d, NEW i, Intended(d, i), NEW q, q # None, q[1] = PlanOf(d),
         q[1].kind = "CONTRACT_EXECUTION", NEW at \in Nat, OutcomeOf(q, at) = "CHALLENGE"
  PROVE  at < Min(DraftDeadlines(d)) /\ PlanOf(d).nativeValue = 0
<1> DEFINE p == PlanOf(d)
<1>1. validatePlan(p) /\ ~FreshnessExpired(p, at)
  BY DEF OutcomeOf
<1>2. p.call.contract = "WIZPAY_PAYROLL" /\ p.call.data.function # CrossToken
  BY <1>1 DEF validatePlan, validateContractExecutionPlan
<1>3. d.type = "PAYROLL" /\ d.outputToken = ""
  <2>1. d.type # "SEND"
    BY SendPlanFields
  <2>2. d.type # "SWAP"
    BY <1>2, SwapPlanFields
  <2>3. d.type = "PAYROLL"
    BY <2>1, <2>2, ThreeTypes
  <2> QED BY <1>2, <2>3, CrossPlanFields
<1>4. p.nativeValue = 0 /\ p.submitNotAfter = Min(DraftDeadlines(d))
  BY <1>3, SamePlanFields
<1>5. ~(at >= Min(DraftDeadlines(d))) /\ Min(DraftDeadlines(d)) \in Nat
  BY <1>1, <1>3, <1>4, PayrollBound DEF FreshnessExpired
<1> HIDE DEF p
<1>6. ASSUME NEW b \in Nat, ~(at >= b) PROVE at < b
  BY SMT, <1>6
<1> QED BY <1>4, <1>5, <1>6 DEF p

\* A contract call reaches Circle before every deadline of the draft.
LEMMA InvFresh == PlanningInv => SubmittedFresh
<1> SUFFICES ASSUME PlanningInv, plan # None, plan[1].kind = "CONTRACT_EXECUTION"
             PROVE  SubmittedFresh
  BY DEF SubmittedFresh
<1> DEFINE d == draft[1]
           i == intent[1]
<1>1. Intended(d, i) /\ plan[1] = PlanOf(d)
  BY PlanAttempted, Attempted
<1> HIDE DEF d, i
<1>2. plan[1].submitNotAfter = Min(DraftDeadlines(d))
  <2>1. d.type # "SEND"
    BY <1>1, SendPlanFields
  <2> QED BY <1>1, <2>1, ThreeTypes, SwapPlanFields, SamePlanFields, CrossPlanFields
<1>3. ASSUME challenge # None
      PROVE  challenge[1].at < Min(DraftDeadlines(d)) /\ plan[1].nativeValue = 0
  <2>1. PICK at \in 1..MaxTime : SubmittedAt(at)
    BY <1>3 DEF PlanningInv
  <2>2. at \in Nat
    BY SMT, <2>1, PlanningAssumption
  <2>3. OutcomeOf(plan, at) = "CHALLENGE" /\ challenge = Some(createChallenge(plan[1], at))
    BY <2>1 DEF SubmittedAt
  <2>4. createChallenge(plan[1], at).at = at
    BY SMT DEF createChallenge
  <2>5. challenge[1].at = at
    BY <2>3, <2>4, Optional
  <2> QED BY <1>1, <2>2, <2>3, <2>5, SubmittedPlan
<1> QED BY <1>2, <1>3 DEF SubmittedFresh, d

-----------------------------------------------------------------------------
(* Every step keeps it.                                                    *)

\* PlanningInv holds initially.
LEMMA PlanningInitInv == Init => PlanningInv
<1> SUFFICES ASSUME Init PROVE PlanningInv
  OBVIOUS
<1>1. clock = 1
  BY DEF Init, PlanningInit
<1>2. clock \in 1..MaxTime
  BY SMT, <1>1, PlanningAssumption
<1> QED BY <1>2 DEF Init, PlanningInit, PlanningInv, PlanningTypeOK, Outcomes

\* A new intent keeps the parameters of its draft.
LEMMA CreateKeeps ==
  ASSUME PlanningInv, intent = None, NEW d \in Drafts, ~Refused(d), CreateIntent(d)
  PROVE  PlanningInv'
<1> DEFINE j == DraftIntent(d, clock)
<1>1. NewDraft(d, clock) # None /\ NewDraft(d, clock) = Some(j)
  BY DEF CreateIntent, NewDraft
<1>2. intent' = Some(Created(j)) /\ draft' = Some(d)
  BY <1>1, Optional DEF CreateIntent
<1>3. intent' # None /\ intent'[1] = Created(j) /\ draft' # None /\ draft'[1] = d
  BY <1>2, Optional
<1>4. /\ Created(j) = [DraftIntent(d, clock) EXCEPT !.status = "CREATED"]
      /\ Created(j).createdAt = clock /\ Created(j).status = "CREATED"
  BY DEF Created, DraftIntent
<1> HIDE DEF j
<1>5. clock \in 1..MaxTime /\ DraftAccepted(d)
  BY DEF PlanningInv, PlanningTypeOK, Refused
<1>6. Intended(d, Created(j))
  BY <1>1, <1>4, <1>5 DEF Intended
<1>7. ~prepared /\ outcome = "" /\ plan = None /\ challenge = None
  BY DEF PlanningInv, PlanningTypeOK
<1>8. UNCHANGED <<clock, prepared, plan, outcome, challenge>>
  BY DEF CreateIntent
<1> QED BY <1>3, <1>4, <1>5, <1>6, <1>7, <1>8 DEF PlanningInv, PlanningTypeOK, Outcomes

\* The approval flow moves the status and nothing else of the intent.
LEMMA StatusKeeps ==
  ASSUME PlanningInv, intent # None, intent[1].status # "APPROVED",
         NEW status \in {"APPROVAL_REQUIRED", "APPROVED"},
         intent' = Some([intent[1] EXCEPT !.status = status]),
         UNCHANGED <<clock, draft, prepared, plan, outcome, challenge>>
  PROVE  PlanningInv'
<1> DEFINE d == draft[1]
           i == intent[1]
           j == [i EXCEPT !.status = status]
<1>1. intent' # None /\ intent'[1] = j
  BY Optional
<1>2. Intended(d, i)
  BY DEF PlanningInv
<1>3. PICK old \in {"CREATED", "APPROVAL_REQUIRED", "APPROVED"} :
        i = [DraftIntent(d, i.createdAt) EXCEPT !.status = old]
  BY <1>2 DEF Intended
<1>4. /\ j.createdAt = i.createdAt /\ j.status = status
      /\ j = [DraftIntent(d, i.createdAt) EXCEPT !.status = status]
  BY <1>3 DEF DraftIntent
<1> HIDE DEF i, j
<1>5. Intended(d, j)
  BY <1>2, <1>4 DEF Intended
<1>6. ~prepared
  BY DEF PlanningInv
<1>7. outcome = "" /\ plan = None /\ challenge = None
  BY <1>6 DEF PlanningInv, PlanningTypeOK
<1>8. draft'[1] = d
  OBVIOUS
<1> HIDE DEF d
<1> QED BY <1>1, <1>4, <1>5, <1>6, <1>7, <1>8 DEF PlanningInv, PlanningTypeOK, Outcomes

\* An execution is prepared for an approved intent.
LEMMA PrepareKeeps ==
  ASSUME PlanningInv, intent # None, PrepareExecution
  PROVE  PlanningInv'
<1>1. outcome = "" /\ plan = None /\ challenge = None
  BY DEF PrepareExecution, PlanningInv, PlanningTypeOK
<1>2. /\ intent[1].status = "APPROVED" /\ prepared' = TRUE
      /\ UNCHANGED <<clock, draft, intent, plan, outcome, challenge>>
  BY DEF PrepareExecution
<1>3. draft'[1] = draft[1] /\ intent'[1] = intent[1]
  BY <1>2
<1> QED BY <1>1, <1>2, <1>3 DEF PlanningInv, PlanningTypeOK, Outcomes

\* The one submission attempt plans and asks for the challenge at the present time.
LEMMA ExecuteKeeps ==
  ASSUME PlanningInv, Execute
  PROVE  PlanningInv'
<1>1. /\ prepared /\ outcome = "" /\ plan' = Plan(intent[1]) /\ outcome' = OutcomeOf(plan', clock)
      /\ challenge' = IF outcome' = "CHALLENGE"
                      THEN Some(createChallenge(plan'[1], clock)) ELSE None
      /\ UNCHANGED <<clock, draft, intent, prepared>>
  BY DEF Execute
<1>2. outcome' \in Outcomes /\ outcome' # ""
  BY <1>1 DEF OutcomeOf, Outcomes
<1>3. outcome' = "SUBMISSION_PLAN_UNAVAILABLE" => plan' = None
  BY <1>1 DEF OutcomeOf
<1>4. (challenge' # None) = (outcome' = "CHALLENGE")
  BY <1>1, Optional
<1>5. challenge' # None => \E at \in 1..MaxTime : SubmittedAt(at)'
  <2>1. clock \in 1..MaxTime
    BY DEF PlanningInv, PlanningTypeOK
  <2>2. ASSUME challenge' # None
        PROVE  /\ OutcomeOf(plan', clock) = "CHALLENGE"
               /\ challenge' = Some(createChallenge(plan'[1], clock))
    BY <1>1, <1>4, <2>2
  <2> QED BY <2>1, <2>2 DEF SubmittedAt
<1>6. Intended(draft[1], intent[1]) /\ intent # None /\ intent[1].status = "APPROVED"
  BY <1>1 DEF PlanningInv
<1>7. draft'[1] = draft[1] /\ intent'[1] = intent[1]
  BY <1>1
<1>8. PlanningTypeOK'
  BY <1>1, <1>2, <1>4, <1>6, <1>7 DEF PlanningInv, PlanningTypeOK
<1> QED BY <1>1, <1>2, <1>3, <1>5, <1>6, <1>7, <1>8 DEF PlanningInv

\* Time passes.
LEMMA TickKeeps ==
  ASSUME PlanningInv, clock' \in 1..MaxTime,
         UNCHANGED <<draft, intent, prepared, plan, outcome, challenge>>
  PROVE  PlanningInv'
<1>1. \A at \in 1..MaxTime : SubmittedAt(at) => SubmittedAt(at)'
  BY DEF SubmittedAt
<1>2. /\ draft'[1] = draft[1] /\ intent'[1] = intent[1] /\ Plan(intent[1])' = Plan(intent[1])
      /\ Intended(draft[1], intent[1])' <=> Intended(draft[1], intent[1])
  OBVIOUS
<1> QED BY <1>1, <1>2 DEF PlanningInv, PlanningTypeOK, Outcomes

\* Every step of the planning and of the verification keeps PlanningInv.
LEMMA PlanningNextInv == PlanningInv /\ [Next]_vars => PlanningInv'
<1> SUFFICES ASSUME PlanningInv, [Next]_vars PROVE PlanningInv'
  OBVIOUS
<1>1. ASSUME UNCHANGED planningVars PROVE PlanningInv'
  <2>1. clock' \in 1..MaxTime
    BY <1>1 DEF planningVars, PlanningInv, PlanningTypeOK
  <2> QED BY <1>1, <2>1, TickKeeps DEF planningVars
<1>2. ASSUME intent = None, NEW d \in Drafts,
             CreatePayrollIntent(d) \/ CreateSwapIntent(d) \/ CreateSendIntent(d)
      PROVE  PlanningInv'
  BY <1>2, CreateKeeps DEF CreatePayrollIntent, CreateSwapIntent, CreateSendIntent
<1>3. CASE RequireApproval
  BY <1>3, StatusKeeps DEF RequireApproval
<1>4. CASE Approve
  BY <1>4, StatusKeeps DEF Approve
<1>5. CASE ExecutePayroll \/ ExecuteSwapIntent \/ ExecuteSend
  BY <1>5, PrepareKeeps DEF ExecutePayroll, ExecuteSwapIntent, ExecuteSend
<1>6. CASE Execute
  BY <1>6, ExecuteKeeps
<1>7. CASE Tick
  <2>1. clock \in 1..MaxTime
    BY DEF PlanningInv, PlanningTypeOK
  <2>2. clock < MaxTime /\ clock' = clock + 1
    BY <1>7 DEF Tick
  <2>3. clock' \in 1..MaxTime
    BY SMT, <2>1, <2>2, PlanningAssumption
  <2> QED BY <1>7, <2>3, TickKeeps DEF Tick
<1>8. CASE Mine
  BY <1>1, <1>8 DEF Mine
<1>9. ASSUME NEW view \in Views, Verify(view) PROVE PlanningInv'
  BY <1>1, <1>9 DEF Verify
<1>10. CASE UNCHANGED vars
  BY <1>1, <1>10 DEF vars
<1>11. CASE PlanningNext
  BY <1>2, <1>3, <1>4, <1>5, <1>6, <1>7, <1>11 DEF PlanningNext
<1> QED BY <1>8, <1>9, <1>10, <1>11 DEF Next

\* PlanningInv always holds.
LEMMA PlanningAlways == Spec => []PlanningInv
BY PlanningInitInv, PlanningNextInv, PTL DEF Spec

\* Whatever the amounts, the number of recipients and the deadlines of the draft, and
\* however long each step takes: a sealed plan pays what the preview of its draft showed
\* (PreviewPayroll, PreviewSwap and PreviewSend against the three planners and encoders).
THEOREM PlansAsShown == Spec => []ShownIsPlanned
BY PlanningAlways, InvShows, PTL

\* The bound of a contract plan is the earliest deadline of the draft, and a contract call
\* reaches Circle before it and without native value (contractDeadlines, Adapter.Execute).
THEOREM SubmissionsFresh == Spec => []SubmittedFresh
BY PlanningAlways, InvFresh, PTL

\* minimumOutputCeiling rounds against the pool: no swap plan accepts less than the slippage
\* the owner approved.
THEOREM SlippageKept == Spec => []SlippageHonoured
BY PlanningAlways, InvSlippage, PTL

\* The planner never fails on an executable, approved intent whose amounts fit the
\* contracts' uint128 fields.  ValidatePhase12Payroll and ValidatePhase12Swap do not bound
\* those amounts, so the theorem has to.
THEOREM ExecutablePlanned ==
  ASSUME \A d \in Drafts : Fits(d)
  PROVE  Spec => []ExecutableIsPlannable
<1>1. PlanningInv => ExecutableIsPlannable
  BY InvPlannable
<1> QED BY <1>1, PlanningAlways, PTL

\* The planning variables keep their types, and no request reaches Circle before an
\* execution was prepared for an approved intent.
THEOREM PlanningTyped == Spec => []PlanningTypeOK
<1>1. PlanningInv => PlanningTypeOK
  BY DEF PlanningInv
<1> QED BY <1>1, PlanningAlways, PTL

=============================================================================
