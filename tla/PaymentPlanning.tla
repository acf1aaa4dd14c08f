-------------------------- MODULE PaymentPlanning --------------------------
(***************************************************************************)
(* One payment from the draft a client sends to the request Circle gets:   *)
(* Create<Type>Intent, the approval, Execute<Type>, and the Circle         *)
(* adapter's Execute up to the challenge it asks Circle for.  Time passes  *)
(* between any two of them, so material that was fresh when the owner      *)
(* approved it may be stale when it is first submitted.                    *)
(*                                                                         *)
(* DomainVerification continues with the transaction and its verification. *)
(* Who may create and approve is ApprovalFlow's subject; how an execution  *)
(* is claimed, retried and settled is ExecutionRuntime's and               *)
(* CircleSettlement's.                                                     *)
(***************************************************************************)
EXTENDS TypedPlans

CONSTANTS Drafts,    \* the drafts clients send
          MaxTime    \* bound: the last tick

\* A draft's amounts are non-negative (Amount.Validate) and its times are ticks.
WellFormed(d) ==
  /\ d.type \in {"PAYROLL", "SWAP", "SEND"} /\ d.deadline \in Nat
  /\ d.type = "SEND" => d.amount \in Nat
  /\ d.type = "SWAP" =>
       {d.amountIn, d.expectedOutput, d.minAmountOut, d.maxSlippageBPS, d.minHopPrice,
        d.quoteExpiresAt, d.swapDeadline} \subseteq Nat
  /\ d.type = "PAYROLL" =>
       /\ d.recipients \in Seq([address : STRING, amount : Nat])
       /\ d.outputToken # "" =>
            {d.grossInput, d.minTotalOut, d.minHopPrice, d.swapDeadline} \subseteq Nat

ASSUME PlanningAssumption == MaxTime \in Nat \ {0} /\ \A d \in Drafts : WellFormed(d)

VARIABLES clock,
          draft,     \* the draft the intent was made from (history)
          intent,    \* the stored intent, optional
          prepared,  \* whether an execution request was made for it
          plan,      \* the plan of the submission attempt, optional
          outcome,   \* reason code of the attempt, or "CHALLENGE"
          challenge  \* the request Circle received, optional

planningVars == <<clock, draft, intent, prepared, plan, outcome, challenge>>

PlanningInit ==
  /\ clock = 1
  /\ draft = None /\ intent = None
  /\ prepared = FALSE
  /\ plan = None /\ outcome = "" /\ challenge = None

-----------------------------------------------------------------------------
(* The services.                                                           *)

\* Transition(CREATED, now) after NewDraft: freezes the parameters.
Created(i) == [i EXCEPT !.status = "CREATED"]

\* What a preview shows, or nothing where the draft is refused.  A preview
\* stores nothing.
PreviewPayroll(d) ==
  LET p == payrollFinancial(d)
  IN [token |-> p.tokenIn, recipients |-> d.recipients, total |-> p.total,
      referenceID |-> p.referenceID,
      cross |-> IF ValidateCrossToken(p)
                THEN Some([outputToken |-> p.recipients[1].tokenOut,
                           grossInput |-> p.crossToken[1].grossInput,
                           minTotalOut |-> p.crossToken[1].minTotalOut,
                           minHopPrice |-> p.crossToken[1].minHopPrice,
                           deadline |-> p.crossToken[1].deadline])
                ELSE None]

PreviewSwap(d) ==
  LET p == swapFinancial(d)
  IN [tokenIn |-> p.inputToken, tokenOut |-> p.outputToken, amountIn |-> p.inputAmount,
      expectedOutput |-> p.expectedOutput, minAmountOut |-> p.minimumOutput,
      minHopPrice |-> p.minHopPrice, swapDeadline |-> p.deadline,
      quoteExpiresAt |-> p.quote.expiresAt]

PreviewSend(d) == [token |-> d.token, recipient |-> d.recipient, amount |-> d.amount]

PreviewAccepted(d, now) == DraftAccepted(d) /\ NewDraft(d, now) # None

\* PersistedIntentService.CreateIntent on the parameters made from the draft.
CreateIntent(d) ==
  /\ LET new == NewDraft(d, clock)
     IN /\ new # None
        /\ intent' = Some(Created(new[1]))
  /\ draft' = Some(d)
  /\ UNCHANGED <<clock, prepared, plan, outcome, challenge>>

CreatePayrollIntent(d) == d.type = "PAYROLL" /\ ~Refused(d) /\ CreateIntent(d)

CreateSwapIntent(d) == d.type = "SWAP" /\ ~Refused(d) /\ CreateIntent(d)

CreateSendIntent(d) == d.type = "SEND" /\ ~Refused(d) /\ CreateIntent(d)

\* Transition(APPROVAL_REQUIRED, now), made when approval is asked for.
RequireApproval ==
  /\ intent # None
  /\ intent[1].status = "CREATED"
  /\ clock < intent[1].expiresAt
  /\ intent' = Some([intent[1] EXCEPT !.status = "APPROVAL_REQUIRED"])
  /\ UNCHANGED <<clock, draft, prepared, plan, outcome, challenge>>

\* The owner's approval, effective only before the intent expires.
Approve ==
  /\ intent # None
  /\ intent[1].status = "APPROVAL_REQUIRED"
  /\ clock < intent[1].expiresAt
  /\ intent' = Some([intent[1] EXCEPT !.status = "APPROVED"])
  /\ UNCHANGED <<clock, draft, prepared, plan, outcome, challenge>>

\* PrepareExecution needs the approval to be effective still.
PrepareExecution ==
  /\ ~prepared
  /\ intent[1].status = "APPROVED"
  /\ clock < intent[1].expiresAt
  /\ prepared' = TRUE
  /\ UNCHANGED <<clock, draft, intent, plan, outcome, challenge>>

ExecutePayroll ==
  /\ intent # None
  /\ intent[1].fin.type = "PAYROLL" /\ ~Unsupported(intent[1].fin)
  /\ PrepareExecution

ExecuteSwapIntent ==
  /\ intent # None
  /\ intent[1].fin.type = "SWAP" /\ ~Unsupported(intent[1].fin)
  /\ PrepareExecution

ExecuteSend ==
  /\ intent # None
  /\ intent[1].fin.type = "SEND"
  /\ PrepareExecution

-----------------------------------------------------------------------------
(* The adapter's Execute, before the challenge exists.                     *)

\* Only same-token payroll has submission authority.
validateContractExecutionPlan(p) ==
  /\ p.call.contract = "WIZPAY_PAYROLL"
  /\ p.call.data.function # CrossToken
  /\ p.call.to = DeploymentOf(p.call.contract).address
  /\ p.call.data.function \in DeploymentOf(p.call.contract).execution

validatePlan(p) ==
  CASE p.kind = "TOKEN_TRANSFER"     -> validateTokenTransfer(p)
    [] p.kind = "CONTRACT_EXECUTION" -> /\ validateContractExecution(p)
                                        /\ validateContractExecutionPlan(p)

\* The two request bodies.  Neither has a field for native value.
createChallenge(p, at) ==
  CASE p.kind = "TOKEN_TRANSFER" ->
         [kind |-> "TRANSFER", at |-> at, destination |-> p.destination,
          token |-> p.token, amount |-> p.amount]
    [] p.kind = "CONTRACT_EXECUTION" ->
         [kind |-> "CONTRACT", at |-> at, to |-> p.call.to, data |-> p.call.data]

\* Checking the bound as if it were inclusive.
OutcomeOfMut(p, at) ==
  IF p = None THEN "SUBMISSION_PLAN_UNAVAILABLE"
  ELSE IF ~validatePlan(p[1]) THEN "SUBMISSION_PLAN_INVALID"
  ELSE IF FreshnessExpired(p[1], at - 1) THEN "FINANCIAL_MATERIAL_EXPIRED" ELSE "CHALLENGE"

OutcomeOf(p, at) ==
  IF p = None THEN "SUBMISSION_PLAN_UNAVAILABLE"
  ELSE IF ~validatePlan(p[1]) THEN "SUBMISSION_PLAN_INVALID"
  ELSE IF FreshnessExpired(p[1], at) THEN "FINANCIAL_MATERIAL_EXPIRED" ELSE "CHALLENGE"

Execute ==
  /\ prepared /\ outcome = ""
  /\ plan' = Plan(intent[1])
  /\ outcome' = OutcomeOf(plan', clock)
  /\ challenge' = IF outcome' = "CHALLENGE" THEN Some(createChallenge(plan'[1], clock)) ELSE None
  /\ UNCHANGED <<clock, draft, intent, prepared>>

Tick == /\ clock < MaxTime
        /\ clock' = clock + 1
        /\ UNCHANGED <<draft, intent, prepared, plan, outcome, challenge>>

\* One payment is followed.
PlanningNext ==
  \/ /\ intent = None
     /\ \E d \in Drafts : CreatePayrollIntent(d) \/ CreateSwapIntent(d) \/ CreateSendIntent(d)
  \/ RequireApproval
  \/ Approve
  \/ ExecutePayroll \/ ExecuteSwapIntent \/ ExecuteSend
  \/ Execute
  \/ Tick

-----------------------------------------------------------------------------
(* Properties.                                                             *)

Outcomes == {"", "SUBMISSION_PLAN_UNAVAILABLE", "SUBMISSION_PLAN_INVALID",
             "FINANCIAL_MATERIAL_EXPIRED", "CHALLENGE"}

\* The variables hold values of their types; a challenge and a plan exist only
\* after an attempt, and an attempt only after a prepared execution.
PlanningTypeOK ==
  /\ clock \in 1..MaxTime
  /\ draft # None => draft[1] \in Drafts
  /\ (intent = None) = (draft = None)
  /\ intent # None => intent[1].status \in {"CREATED", "APPROVAL_REQUIRED", "APPROVED"}
  /\ prepared \in BOOLEAN
  /\ outcome \in Outcomes
  /\ (challenge # None) = (outcome = "CHALLENGE")
  /\ plan # None => outcome # ""
  /\ outcome # "" => prepared

ShowsPayroll(shown, call) ==
  IF shown.cross = None
  THEN /\ call.data.function = SameToken
       /\ call.data.args.token = shown.token
       /\ call.data.args.recipients = Map(shown.recipients, LAMBDA r : r.address)
       /\ call.data.args.amounts = Map(shown.recipients, LAMBDA r : r.amount)
       /\ SumOf(call.data.args.amounts) = shown.total
       /\ call.data.args.referenceID = shown.referenceID
  ELSE /\ call.data.function = CrossToken
       /\ call.data.args.tokenIn = shown.token
       /\ call.data.args.tokenOut = shown.cross[1].outputToken
       /\ call.data.args.outputAmounts = Map(shown.recipients, LAMBDA r : r.amount)
       /\ SumOf(call.data.args.outputAmounts) = shown.total
       /\ call.data.args.grossInput = shown.cross[1].grossInput
       /\ call.data.args.minTotalOut = shown.cross[1].minTotalOut
       /\ call.data.args.deadline = shown.cross[1].deadline

\* What PreviewPayroll, PreviewSwap or PreviewSend shows for a draft is what
\* the sealed plan of the intent made from it pays: the same recipients,
\* amounts, total, minimum output and deadline, through three encoders that
\* read different fields of the frozen parameters.
ShownIsPlanned ==
  plan # None =>
    LET d == draft[1]
        p == plan[1]
    IN /\ PreviewAccepted(d, intent[1].createdAt)
       /\ CASE d.type = "PAYROLL" -> ShowsPayroll(PreviewPayroll(d), p.call)
            [] d.type = "SWAP" ->
                 LET args == p.call.data.args
                     shown == PreviewSwap(d)
                 IN /\ args.tokenIn = shown.tokenIn /\ args.tokenOut = shown.tokenOut
                    /\ args.amountIn = shown.amountIn
                    /\ args.minAmountOut = shown.minAmountOut
                    /\ args.deadline = shown.swapDeadline
            [] d.type = "SEND" ->
                 [token |-> p.token, recipient |-> p.destination, amount |-> p.amount]
                   = PreviewSend(d)

\* The deadlines the client's draft set, whatever became of them since.
DraftDeadlines(d) ==
  {d.deadline}
    \cup (IF d.type = "SWAP" THEN {d.swapDeadline, d.quoteExpiresAt} ELSE {})
    \cup (IF d.type = "PAYROLL" /\ d.outputToken # "" THEN {d.swapDeadline} ELSE {})

\* The bound of a sealed contract plan is the earliest of the deadlines the
\* client's draft set (the intent's, the swap's, the quote's), and a contract call
\* reaches Circle before all of them, however long the execution waited, and only
\* without a native value, for which Circle's contract request has no field
\* (contractDeadlines, Adapter.Execute, validateContractExecutionPlan).
SubmittedFresh ==
  plan # None /\ plan[1].kind = "CONTRACT_EXECUTION" =>
    /\ plan[1].submitNotAfter = Min(DraftDeadlines(draft[1]))
    /\ challenge # None => /\ challenge[1].at < Min(DraftDeadlines(draft[1]))
                           /\ plan[1].nativeValue = 0

\* A swap plan never accepts less than the slippage the owner approved allows,
\* fractions of a base unit included.
SlippageHonoured ==
  plan # None /\ draft[1].type = "SWAP" =>
    plan[1].call.data.args.minAmountOut * 10000
      >= draft[1].expectedOutput * (10000 - draft[1].maxSlippageBPS)

\* An intent that the typed service found executable and the owner approved is
\* planned: the validators of the intent are at least as strict as the
\* planners, the encoders and the plan constructor that re-derives the native
\* value from the calldata.
ExecutableIsPlannable == outcome # "SUBMISSION_PLAN_UNAVAILABLE"

=============================================================================
