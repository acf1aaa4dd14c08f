---------------------------- MODULE TypedIntents ----------------------------
(***************************************************************************)
(* The three typed operations as values: the drafts that                   *)
(* internal/services/{payroll,swap,send}.go accept, the financial          *)
(* parameters they build from a draft, and the validation of               *)
(* internal/intents that decides whether those parameters become an        *)
(* intent.  Nothing here has state; PaymentPlanning and DomainVerification *)
(* run these operators.                                                    *)
(*                                                                         *)
(* Amounts are base units (0 is an omitted amount), times are ticks (0 is  *)
(* Go's zero time), an optional value is a sequence of length at most one. *)
(***************************************************************************)
EXTENDS Naturals, Sequences, FiniteSetsExt

CONSTANTS MaxUint128,     \* the largest amount the contracts' uint128 fields hold
          MaxWindow,      \* the contracts' deadline window (20 minutes) in ticks
          MaxRecipients,  \* maxPayrollRecipientsPhase12 / maxBatchRecipients
          NativeScale     \* native base units per USDC base unit (10^12)

ASSUME TypedAssumption == /\ MaxUint128 \in Nat \ {0}
                          /\ MaxWindow \in Nat \ {0}
                          /\ MaxRecipients \in Nat \ {0}
                          /\ NativeScale \in Nat \ {0}

Wallet == "wallet"              \* the bound wallet's address
AddressZero == "zero"
PayrollAddress == "payroll contract"
SwapAddress == "swap contract"

None == <<>>
Some(x) == <<x>>

CanonicalToken(symbol) == symbol \in {"USDC", "EURC"}

canonicalPair(tokenIn, tokenOut) ==
  CanonicalToken(tokenIn) /\ CanonicalToken(tokenOut) /\ tokenIn # tokenOut

\* The sum of a sequence of amounts, counted unit by unit.
SumOf(s) == Cardinality(UNION {{k} \X (1..s[k]) : k \in DOMAIN s})

PositiveUint128(n) == n \in 1..MaxUint128

Map(s, op(_)) == [i \in DOMAIN s |-> op(s[i])]

-----------------------------------------------------------------------------
(* Payroll parameters.                                                     *)

\* Text, non-empty after trimming and at most 64 bytes: "over" stands for the
\* texts that are longer.
validatePayrollReferenceID(ref) == ref \notin {"", "over"}

UniqueAddresses(recipients) ==
  Cardinality({recipients[i].address : i \in DOMAIN recipients}) = Len(recipients)

isCrossTokenShape(p) == p.crossToken # None

\* The Phase 12 shape without aggregate swap material.  The amounts are
\* positive but, unlike the cross-token ones, have no upper bound.
ValidatePhase12Payroll(p) ==
  /\ p.variant \in {"SINGLE", "BATCH_SINGLE_TOKEN_OUT", "BATCH_MULTI_TOKEN_OUT"}
  /\ Len(p.recipients) \in 1..MaxRecipients
  /\ p.variant = "SINGLE" => Len(p.recipients) = 1
  /\ \/ validatePayrollReferenceID(p.referenceID)
     \/ p.variant = "SINGLE" /\ p.referenceID = ""
  /\ UniqueAddresses(p.recipients)
  /\ \A i \in DOMAIN p.recipients :
       LET r == p.recipients[i]
       IN /\ r.address # AddressZero
          /\ r.amountIn > 0 /\ r.minAmountOut > 0
          /\ p.variant = "BATCH_SINGLE_TOKEN_OUT" => r.tokenOut = p.recipients[1].tokenOut
  /\ p.total = SumOf(Map(p.recipients, LAMBDA r : r.amountIn))

ValidateSameToken(p) ==
  /\ ~isCrossTokenShape(p)
  /\ ValidatePhase12Payroll(p)
  /\ validatePayrollReferenceID(p.referenceID)
  /\ p.variant \in {"SINGLE", "BATCH_SINGLE_TOKEN_OUT"}
  /\ CanonicalToken(p.tokenIn)
  /\ \A i \in DOMAIN p.recipients : /\ p.recipients[i].tokenOut = p.tokenIn
                                    /\ p.recipients[i].amountIn = p.recipients[i].minAmountOut

\* A deadline against the intent's clock; a zero time leaves its check out.
WithinTimeline(deadline, createdAt, constraintDeadline, expiresAt) ==
  /\ createdAt # 0 => createdAt < deadline /\ deadline <= createdAt + MaxWindow
  /\ constraintDeadline # 0 => deadline <= constraintDeadline
  /\ expiresAt # 0 => deadline <= expiresAt

validateCrossTokenTimeline(p, createdAt, constraintDeadline, expiresAt, employer) ==
  /\ isCrossTokenShape(p)
  /\ p.variant \in {"SINGLE", "BATCH_SINGLE_TOKEN_OUT"}
  /\ CanonicalToken(p.tokenIn)
  /\ Len(p.recipients) \in 1..MaxRecipients
  /\ p.variant = "SINGLE" => Len(p.recipients) = 1
  /\ validatePayrollReferenceID(p.referenceID)
  /\ UniqueAddresses(p.recipients)
  /\ \A i \in DOMAIN p.recipients :
       LET r == p.recipients[i]
       IN /\ r.address \notin {AddressZero, PayrollAddress, employer}
          /\ canonicalPair(p.tokenIn, r.tokenOut)
          /\ r.amountIn = 0
          /\ PositiveUint128(r.minAmountOut)
  /\ LET cross == p.crossToken[1]
         obligations == SumOf(Map(p.recipients, LAMBDA r : r.minAmountOut))
     IN /\ p.total = obligations
        /\ PositiveUint128(cross.grossInput)
        /\ PositiveUint128(cross.minTotalOut)
        /\ cross.minTotalOut >= obligations
        /\ PositiveUint128(cross.minHopPrice)
        /\ cross.deadline # 0
        /\ WithinTimeline(cross.deadline, createdAt, constraintDeadline, expiresAt)

ValidateCrossToken(p) == validateCrossTokenTimeline(p, 0, 0, 0, "")

ValidatePayroll(p) ==
  IF isCrossTokenShape(p) THEN ValidateCrossToken(p) ELSE ValidatePhase12Payroll(p)

-----------------------------------------------------------------------------
(* Swap and send parameters.                                               *)

\* Rounding the floor down instead of up.
minimumOutputFloor(expected, bps) == (expected * (10000 - bps)) \div 10000

minimumOutputCeiling(expected, bps) == (expected * (10000 - bps) + 9999) \div 10000

\* The quote must carry the frozen amounts; its texts are not modelled.
ValidateQuote(q) == /\ q.expiresAt # 0
                    /\ q.expectedOutput > 0
                    /\ q.minimumOutput \in 1..q.expectedOutput

ValidatePhase12Swap(p, createdAt, constraintDeadline, expiresAt) ==
  /\ canonicalPair(p.inputToken, p.outputToken)
  /\ p.inputAmount > 0 /\ p.expectedOutput > 0 /\ p.minimumOutput > 0
  /\ p.maxSlippageBPS <= 10000
  /\ PositiveUint128(p.minHopPrice)
  /\ p.minimumOutput <= p.expectedOutput
  /\ p.minimumOutput >= minimumOutputCeiling(p.expectedOutput, p.maxSlippageBPS)
  /\ p.recipient # AddressZero
  /\ ValidateQuote(p.quote)
  /\ p.quote.expectedOutput = p.expectedOutput
  /\ p.quote.minimumOutput = p.minimumOutput
  /\ p.deadline # 0
  /\ createdAt # 0 => createdAt < p.quote.expiresAt
  /\ p.deadline <= p.quote.expiresAt
  /\ WithinTimeline(p.deadline, createdAt, constraintDeadline, expiresAt)

Phase12ExecutableSwap(p) == ValidatePhase12Swap(p, 0, 0, 0)

ValidateSend(p) == CanonicalToken(p.token) /\ p.recipient # AddressZero /\ p.amount > 0

-----------------------------------------------------------------------------
(* From a draft to financial parameters.                                   *)

payrollFinancial(d) ==
  LET cross == d.outputToken # ""
      line(r) == [address |-> r.address,
                  tokenOut |-> IF cross THEN d.outputToken ELSE d.token,
                  amountIn |-> IF cross THEN 0 ELSE r.amount,
                  minAmountOut |-> r.amount]
  IN [type |-> "PAYROLL",
      variant |-> IF Len(d.recipients) = 1 THEN "SINGLE" ELSE "BATCH_SINGLE_TOKEN_OUT",
      tokenIn |-> d.token,
      recipients |-> Map(d.recipients, line),
      total |-> SumOf(Map(d.recipients, LAMBDA r : r.amount)),
      referenceID |-> d.referenceID,
      crossToken |-> IF cross
                     THEN Some([grossInput |-> d.grossInput, minTotalOut |-> d.minTotalOut,
                                minHopPrice |-> d.minHopPrice, deadline |-> d.swapDeadline])
                     ELSE None]

swapFinancial(d) ==
  [type |-> "SWAP", inputToken |-> d.tokenIn, outputToken |-> d.tokenOut,
   inputAmount |-> d.amountIn, expectedOutput |-> d.expectedOutput,
   minimumOutput |-> d.minAmountOut, maxSlippageBPS |-> d.maxSlippageBPS,
   minHopPrice |-> d.minHopPrice, recipient |-> Wallet,
   quote |-> [expectedOutput |-> d.expectedOutput, minimumOutput |-> d.minAmountOut,
              expiresAt |-> d.quoteExpiresAt],
   deadline |-> d.swapDeadline]

sendFinancial(d) == [type |-> "SEND", token |-> d.token, recipient |-> d.recipient,
                     amount |-> d.amount]

\* Whether ExecutePayroll, ExecuteSwap or ExecuteSend takes the parameters.
Executable(fin) ==
  CASE fin.type = "PAYROLL" -> ValidateSameToken(fin) \/ ValidateCrossToken(fin)
    [] fin.type = "SWAP"    -> Phase12ExecutableSwap(fin)
    [] fin.type = "SEND"    -> TRUE

Unsupported(fin) == ~Executable(fin)

FinancialOf(d) == CASE d.type = "PAYROLL" -> payrollFinancial(d)
                    [] d.type = "SWAP"    -> swapFinancial(d)
                    [] d.type = "SEND"    -> sendFinancial(d)

\* The services refuse a draft whose parameters are not executable.  A send
\* only has its token looked up here: NewDraft validates the rest.
DraftAccepted(d) ==
  CASE d.type = "PAYROLL" -> IF d.outputToken = "" THEN ValidateSameToken(payrollFinancial(d))
                             ELSE ValidateCrossToken(payrollFinancial(d))
    [] d.type = "SWAP"    -> Phase12ExecutableSwap(swapFinancial(d))
    [] d.type = "SEND"    -> CanonicalToken(d.token)

Refused(d) == ~DraftAccepted(d)

-----------------------------------------------------------------------------
(* The intent.                                                             *)

RouteFor(type) == CASE type = "PAYROLL" -> "WIZPAY_PAYROLL"
                    [] type = "SWAP"    -> "WIZPAY_SWAP_EXECUTOR"
                    [] type = "SEND"    -> "ARC_MAINNET_ERC20_TRANSFER"

FinancialValid(fin) == CASE fin.type = "PAYROLL" -> ValidatePayroll(fin)
                         [] fin.type = "SWAP"    -> Phase12ExecutableSwap(fin)
                         [] fin.type = "SEND"    -> ValidateSend(fin)

ConstraintsValid(i) == /\ i.deadline # 0
                       /\ i.deadline \in i.createdAt..i.expiresAt

validateParams(i) ==
  /\ FinancialValid(i.fin)
  /\ i.fin.type = "SEND" => i.fin.recipient # Wallet
  /\ i.fin.type = "PAYROLL" /\ i.fin.crossToken # None =>
       validateCrossTokenTimeline(i.fin, i.createdAt, i.deadline, i.expiresAt, Wallet)
  /\ i.fin.type = "SWAP" =>
       /\ i.fin.recipient = Wallet
       /\ ValidatePhase12Swap(i.fin, i.createdAt, i.deadline, i.expiresAt)
  /\ i.route = RouteFor(i.fin.type)
  /\ i.createdAt # 0
  /\ i.createdAt < i.expiresAt
  /\ ConstraintsValid(i)

\* CreateIntent and the previews put the draft's one deadline in both places.
DraftIntent(d, now) ==
  [fin |-> FinancialOf(d), route |-> RouteFor(d.type), createdAt |-> now,
   deadline |-> d.deadline, expiresAt |-> d.deadline, status |-> "DRAFT"]

NewDraft(d, now) == LET i == DraftIntent(d, now)
                    IN IF validateParams(i) THEN Some(i) ELSE None

\* Intent.Validate: every frozen status carries the digest of its own
\* parameters, so only the parameters can be at fault.
IntentValid(i) == validateParams(i)

=============================================================================
