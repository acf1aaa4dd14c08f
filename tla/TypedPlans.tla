----------------------------- MODULE TypedPlans -----------------------------
(***************************************************************************)
(* From a frozen intent to the sealed provider plan: the typed planners    *)
(* (internal/payroll, internal/swap, internal/send), the encoders and      *)
(* decoders of internal/contracts, the plan constructors of                *)
(* internal/providers/plan.go, and the planner of                          *)
(* internal/providers/wiring that joins them.                              *)
(*                                                                         *)
(* Calldata is the function and its arguments: ABI packing is injective    *)
(* and the decoders accept only what the encoders pack.                    *)
(***************************************************************************)
EXTENDS TypedIntents

SameToken == "executeSameTokenPayroll"
CrossToken == "executeCrossTokenPayroll"
ExecuteSwap == "executeSwap"

-----------------------------------------------------------------------------
(* Contract calls.                                                         *)

\* The reviewed deployments: the execution allowlist of each contract.
DeploymentOf(contract) ==
  CASE contract = "WIZPAY_PAYROLL" ->
         [address |-> PayrollAddress, execution |-> {SameToken, CrossToken}]
    [] contract = "WIZPAY_SWAP_EXECUTOR" ->
         [address |-> SwapAddress, execution |-> {ExecuteSwap}]

\* The target is the deployment's address, never an argument.
NewEncodedCall(contract, function, args) ==
  IF function \in DeploymentOf(contract).execution
  THEN Some([contract |-> contract, to |-> DeploymentOf(contract).address,
             data |-> [function |-> function, args |-> args]])
  ELSE None

validateBatch(recipients, amounts, referenceID) ==
  /\ Len(recipients) \in 1..MaxRecipients
  /\ Len(amounts) = Len(recipients)
  /\ validatePayrollReferenceID(referenceID)
  /\ \A i \in DOMAIN recipients : /\ recipients[i] # AddressZero
                                  /\ PositiveUint128(amounts[i])

validateSameTokenCall(in) == /\ CanonicalToken(in.token)
                             /\ validateBatch(in.recipients, in.amounts, in.referenceID)

validateCrossTokenCall(in) ==
  /\ canonicalPair(in.tokenIn, in.tokenOut)
  /\ validateBatch(in.recipients, in.outputAmounts, in.referenceID)
  /\ \A i, j \in DOMAIN in.recipients :
       /\ in.recipients[i] # PayrollAddress
       /\ in.recipients[i] = in.recipients[j] => i = j
  /\ PositiveUint128(in.grossInput) /\ PositiveUint128(in.minTotalOut)
  /\ PositiveUint128(in.minHopPrice) /\ in.deadline > 0
  /\ in.minTotalOut >= SumOf(in.outputAmounts)

validateExecuteSwap(in) ==
  /\ canonicalPair(in.tokenIn, in.tokenOut)
  /\ PositiveUint128(in.amountIn) /\ PositiveUint128(in.minAmountOut)
  /\ PositiveUint128(in.minHopPrice) /\ in.deadline > 0

EncodeSameTokenPayroll(in) ==
  IF validateSameTokenCall(in) THEN NewEncodedCall("WIZPAY_PAYROLL", SameToken, in) ELSE None

EncodeCrossTokenPayroll(in) ==
  IF validateCrossTokenCall(in) THEN NewEncodedCall("WIZPAY_PAYROLL", CrossToken, in) ELSE None

EncodeExecuteSwap(in) ==
  IF validateExecuteSwap(in) THEN NewEncodedCall("WIZPAY_SWAP_EXECUTOR", ExecuteSwap, in) ELSE None

DecodeSameTokenPayrollCall(data) ==
  IF data.function = SameToken /\ validateSameTokenCall(data.args) THEN Some(data.args) ELSE None

DecodeCrossTokenPayrollCall(data) ==
  IF data.function = CrossToken /\ validateCrossTokenCall(data.args) THEN Some(data.args) ELSE None

DecodeExecuteSwapCall(data) ==
  IF data.function = ExecuteSwap /\ validateExecuteSwap(data.args) THEN Some(data.args) ELSE None

-----------------------------------------------------------------------------
(* The typed planners.  Each takes a valid intent of its own type, frozen  *)
(* under the canonical route, and encodes its parameters.                  *)

addressesOf(p) == Map(p.recipients, LAMBDA r : r.address)

planSameToken(p) ==
  EncodeSameTokenPayroll([token |-> p.tokenIn, recipients |-> addressesOf(p),
                          amounts |-> Map(p.recipients, LAMBDA r : r.amountIn),
                          referenceID |-> p.referenceID])

\* Asking for the obligations instead of the approved minimum.
planCrossTokenMut(p) ==
  LET cross == p.crossToken[1]
  IN EncodeCrossTokenPayroll(
       [tokenIn |-> p.tokenIn, tokenOut |-> p.recipients[1].tokenOut,
        recipients |-> addressesOf(p),
        outputAmounts |-> Map(p.recipients, LAMBDA r : r.minAmountOut),
        grossInput |-> cross.grossInput, minTotalOut |-> p.total,
        minHopPrice |-> cross.minHopPrice, deadline |-> cross.deadline,
        referenceID |-> p.referenceID])

planCrossToken(p) ==
  LET cross == p.crossToken[1]
  IN EncodeCrossTokenPayroll(
       [tokenIn |-> p.tokenIn, tokenOut |-> p.recipients[1].tokenOut,
        recipients |-> addressesOf(p),
        outputAmounts |-> Map(p.recipients, LAMBDA r : r.minAmountOut),
        grossInput |-> cross.grossInput, minTotalOut |-> cross.minTotalOut,
        minHopPrice |-> cross.minHopPrice, deadline |-> cross.deadline,
        referenceID |-> p.referenceID])

validateBinding(i) == i.route = RouteFor(i.fin.type)

PlanPayroll(i) ==
  IF ~IntentValid(i) \/ i.status = "DRAFT" \/ ~validateBinding(i) THEN None
  ELSE IF ValidateSameToken(i.fin) THEN planSameToken(i.fin)
  ELSE IF ValidateCrossToken(i.fin) THEN planCrossToken(i.fin) ELSE None

PlanSwap(i) ==
  LET p == i.fin
  IN IF IntentValid(i) /\ i.status # "DRAFT" /\ validateBinding(i) /\ Phase12ExecutableSwap(p)
     THEN EncodeExecuteSwap([tokenIn |-> p.inputToken, tokenOut |-> p.outputToken,
                             amountIn |-> p.inputAmount, minAmountOut |-> p.minimumOutput,
                             minHopPrice |-> p.minHopPrice, deadline |-> p.deadline])
     ELSE None

-----------------------------------------------------------------------------
(* Sealed plans.                                                           *)

\* The earliest of the deadlines that are set, or 0.
EarliestDeadline(candidates) ==
  LET set == {t \in candidates : t # 0}
  IN IF set = {} THEN 0 ELSE CHOOSE t \in set : \A u \in set : t <= u

\* The native value the contract will check, read back from the calldata.
nativeValueForCall(call) ==
  CASE call.data.function = CrossToken ->
         LET decoded == DecodeCrossTokenPayrollCall(call.data)
         IN IF decoded = None THEN None
            ELSE Some(IF decoded[1].tokenIn = "USDC" THEN decoded[1].grossInput * NativeScale ELSE 0)
    [] call.data.function = ExecuteSwap ->
         LET decoded == DecodeExecuteSwapCall(call.data)
         IN IF decoded = None THEN None
            ELSE Some(IF decoded[1].tokenIn = "USDC" THEN decoded[1].amountIn * NativeScale ELSE 0)
    [] OTHER -> Some(0)

validateContractExecution(plan) == plan.submitNotAfter # 0 /\ plan.nativeValue >= 0

NewContractExecutionPlan(call, submitNotAfter, nativeValue) ==
  LET plan == [kind |-> "CONTRACT_EXECUTION", wallet |-> Wallet, call |-> call,
               submitNotAfter |-> submitNotAfter, nativeValue |-> nativeValue]
  IN IF /\ nativeValueForCall(call) = Some(nativeValue)
        /\ validateContractExecution(plan)
     THEN Some(plan) ELSE None

validateTokenTransfer(plan) == /\ plan.destination # plan.wallet
                               /\ plan.amount > 0

NewTokenTransferPlan(fin) ==
  LET plan == [kind |-> "TOKEN_TRANSFER", wallet |-> Wallet, destination |-> fin.recipient,
               token |-> fin.token, amount |-> fin.amount]
  IN IF validateTokenTransfer(plan) /\ CanonicalToken(fin.token) THEN Some(plan) ELSE None

PlanSend(i) ==
  IF /\ IntentValid(i)
     /\ i.status \in {"APPROVED", "READY_FOR_EXECUTION"}
     /\ CanonicalToken(i.fin.token)
  THEN NewTokenTransferPlan(i.fin) ELSE None

\* First submission only is bounded, and only where the plan has a bound.
FreshnessExpired(plan, at) ==
  plan.kind = "CONTRACT_EXECUTION" /\ at >= plan.submitNotAfter

contractDeadlines(i) ==
  {i.expiresAt, i.deadline}
    \cup (IF i.fin.type = "SWAP" THEN {i.fin.deadline, i.fin.quote.expiresAt}
          ELSE IF ValidateCrossToken(i.fin) THEN {i.fin.crossToken[1].deadline} ELSE {})

\* Sending native value whatever the input token is.
contractNativeValueMut(i) ==
  IF i.fin.type = "SWAP" THEN i.fin.inputAmount * NativeScale
  ELSE IF ValidateCrossToken(i.fin) THEN i.fin.crossToken[1].grossInput * NativeScale ELSE 0

contractNativeValue(i) ==
  IF i.fin.type = "SWAP"
  THEN IF i.fin.inputToken = "USDC" THEN i.fin.inputAmount * NativeScale ELSE 0
  ELSE IF ValidateCrossToken(i.fin) /\ i.fin.tokenIn = "USDC"
       THEN i.fin.crossToken[1].grossInput * NativeScale ELSE 0

contractPlan(i, call) ==
  NewContractExecutionPlan(call, EarliestDeadline(contractDeadlines(i)), contractNativeValue(i))

\* wiring.Planner.Plan on the request's intent.  The request names the
\* intent's id, version and digest, which the intent keeps for ever.
Plan(i) ==
  LET call == IF i.fin.type = "PAYROLL" THEN PlanPayroll(i) ELSE PlanSwap(i)
  IN IF ~IntentValid(i) \/ i.status # "APPROVED" THEN None
     ELSE IF i.fin.type = "SEND" THEN PlanSend(i)
     ELSE IF call = None THEN None ELSE contractPlan(i, call[1])

=============================================================================
