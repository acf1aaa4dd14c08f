---------------------------- MODULE ApprovalFlow ----------------------------
(***************************************************************************)
(* From a frozen intent to its execution: the step-up and user approval    *)
(* requests, the user's decision, the execution confirmation, and          *)
(* PrepareExecution, which consumes the approval and creates the execution *)
(* in one transaction (internal/approvals, internal/services,              *)
(* internal/storage/postgres).                                             *)
(*                                                                         *)
(* One intent is modelled, with any number of concurrent API requests.     *)
(* The reads and the writes of a request are steps of their own, so it     *)
(* acts on copies that other requests have overtaken; the writes compare   *)
(* the lifecycle revision.                                                 *)
(* Intent, approval and deadline expire together, as CreateIntent and      *)
(* RequestApproval set them up.                                            *)
(***************************************************************************)
EXTENDS Naturals, FiniteSets

CONSTANT Requests      \* concurrent API requests

VARIABLES intent,      \* the intents row
          approval,    \* the approvals row, NoApproval before it is inserted
          execution,   \* the execution_requests and executions rows
          bindingActive, policyActive, expired,
          disrupted,   \* requests may still be cut short
          evaluations, \* decisions of the stored BEFORE_EXECUTION policy evaluations
          trail,       \* the audit events appended for this intent
          req,         \* per request: where it is, and what it has read
          told,        \* history: the decisions that requests have answered
          returned     \* history: the executions that requests have answered

answers == <<told, returned>>

vars == <<intent, approval, execution, bindingActive, policyActive, expired,
          disrupted, evaluations, trail, req, told, returned>>

IntentStatuses == {"CREATED", "APPROVAL_REQUIRED", "APPROVED"}
ApprovalStatuses == {"PENDING", "APPROVED", "READY_FOR_EXECUTION_CONFIRMATION",
                     "REJECTED", "CONSUMED"}

ASSUME NoRequestIsNone == "NONE" \notin Requests

NoApproval == [status |-> "NONE", revision |-> 0]
NoExecution == [request |-> "NONE"]

Intents == [status : IntentStatuses, revision : Nat]
Approvals == [status : ApprovalStatuses, revision : Nat] \cup {NoApproval}
Executions == [request : Requests] \cup {NoExecution}

Idle == [pc |-> "idle", intent |-> [status |-> "CREATED", revision |-> 0],
         approval |-> NoApproval]

Locations == {"idle", "raise", "find", "create", "stepUpFind", "stepUpCreate",
              "auditRequest", "approve", "reject",
              "writeApproved", "writeRejected", "auditApproved", "auditRejected",
              "confirm", "writeReady", "prepare", "replay", "evaluate", "consume",
              "commit", "writeIntent"}

Decisions == {"ALLOW", "DENY"}
Events == {"approval_requested", "approval_granted", "approval_rejected",
           "execution_authorized"}

TypeOK ==
  /\ intent \in Intents
  /\ approval \in Approvals
  /\ execution \in Executions
  /\ bindingActive \in BOOLEAN /\ policyActive \in BOOLEAN
  /\ expired \in BOOLEAN /\ disrupted \in BOOLEAN
  /\ req \in [Requests -> [pc : Locations, intent : Intents, approval : Approvals]]
  /\ evaluations \subseteq Decisions
  /\ trail \subseteq Events
  /\ told \subseteq {"approved", "rejected", "confirmed"}
  /\ returned \subseteq Executions

\* The intent has been created and frozen; its wallet binding is active.
Init ==
  /\ intent = [status |-> "CREATED", revision |-> 2]
  /\ approval = NoApproval
  /\ execution = NoExecution
  /\ bindingActive = TRUE /\ policyActive = TRUE /\ expired = FALSE /\ disrupted = TRUE
  /\ evaluations = {} /\ trail = {}
  /\ req = [r \in Requests |-> Idle]
  /\ told = {} /\ returned = {}

rows == <<intent, approval, execution, evaluations, trail>>
world == <<bindingActive, policyActive, expired, disrupted>>

-----------------------------------------------------------------------------
(* Values and conditional writes.                                          *)

Moved(row, status) == [status |-> status, revision |-> row.revision + 1]

\* EnsureAuthorizes, for an approval that is bound to the intent.
EnsureAuthorizes(a) ==
  a.status \in {"APPROVED", "READY_FOR_EXECUTION_CONFIRMATION"} /\ ~expired

\* An update's condition on the revision that the request has read.
Unchanged(row, copy) == row.revision = copy.revision

-----------------------------------------------------------------------------
(* Requests: what they read, and the answer that ends them.                *)

Goto(r, location) == req' = [req EXCEPT ![r].pc = location]

Fail(r) == req' = [req EXCEPT ![r] = Idle] /\ UNCHANGED answers

Answer(r, decision) == /\ req' = [req EXCEPT ![r] = Idle]
                       /\ told' = told \cup {decision} /\ UNCHANGED returned

AnswerExecution(r, x) == /\ req' = [req EXCEPT ![r] = Idle]
                         /\ returned' = returned \cup {x} /\ UNCHANGED told

Begin(r, location) ==
  /\ req[r].pc = "idle"
  /\ req' = [req EXCEPT ![r] = [pc |-> location, intent |-> intent, approval |-> approval]]
  /\ UNCHANGED <<rows, world, answers>>

-----------------------------------------------------------------------------
(* Requesting an approval.                                                 *)

\* StepUpCoordinator.Request reads the intent; a created one it raises first.
StepUpRequest(r) == \/ intent.status = "CREATED" /\ ~expired /\ Begin(r, "raise")
                    \/ intent.status = "APPROVAL_REQUIRED" /\ Begin(r, "stepUpFind")

\* UpdateIntent to APPROVAL_REQUIRED, unless the intent has changed.
RaiseIntent(r) ==
  /\ req[r].pc = "raise"
  /\ IF Unchanged(intent, req[r].intent)
       THEN /\ intent' = Moved(intent, "APPROVAL_REQUIRED")
            /\ Goto(r, "stepUpFind") /\ UNCHANGED answers
       ELSE UNCHANGED intent /\ Fail(r)
  /\ UNCHANGED <<approval, execution, evaluations, trail, world>>

\* PersistedApprovalService.RequestApproval reads the intent.
RequestApproval(r) == intent.status = "APPROVAL_REQUIRED" /\ Begin(r, "find")

\* FindApprovalByIntent: an existing artifact is the answer. Otherwise
\* approvals.New, which refuses an expired intent.
FindApproval(r) ==
  /\ req[r].pc \in {"find", "stepUpFind"}
  /\ IF approval # NoApproval \/ expired
       THEN Fail(r)
       ELSE /\ Goto(r, IF req[r].pc = "find" THEN "create" ELSE "stepUpCreate")
            /\ UNCHANGED answers
  /\ UNCHANGED <<rows, world>>

\* The insert. The unique index on the intent lets one artifact exist; the
\* request that comes second gets a conflict. The user's path audits the
\* artifact in a statement of its own, the step-up path does not.
CreateApproval(r) ==
  /\ req[r].pc \in {"create", "stepUpCreate"}
  /\ IF approval = NoApproval
       THEN approval' = [status |-> "PENDING", revision |-> 1]
       ELSE UNCHANGED approval
  /\ IF approval = NoApproval /\ req[r].pc = "create"
       THEN Goto(r, "auditRequest") /\ UNCHANGED answers
       ELSE Fail(r)
  /\ UNCHANGED <<intent, execution, evaluations, trail, world>>

AuditRequest(r) ==
  /\ req[r].pc = "auditRequest"
  /\ trail' = trail \cup {"approval_requested"}
  /\ Fail(r)
  /\ UNCHANGED <<intent, approval, execution, evaluations, world>>

-----------------------------------------------------------------------------
(* The user's decision and the execution confirmation.                     *)

\* DecideApproval and AuthorizeExecution read the approval.
DecideApproval(r) == \E location \in {"approve", "reject"} :
                       approval # NoApproval /\ Begin(r, location)

\* Then the intent, the wallet binding and the clock. A decision that is
\* already recorded is answered; otherwise Approve or Reject, from PENDING only.
Decided(r, status, answer, location) ==
  LET a == req[r].approval
      refused == ~bindingActive \/ expired \/ a.status \notin {status, "PENDING"}
  IN
  /\ \/ refused /\ Fail(r)
     \/ ~refused /\ a.status = status /\ Answer(r, answer)
     \/ ~refused /\ a.status = "PENDING" /\ Goto(r, location) /\ UNCHANGED answers
  /\ UNCHANGED <<rows, world>>

CheckDecision(r) ==
  \/ req[r].pc = "approve" /\ Decided(r, "APPROVED", "approved", "writeApproved")
  \/ req[r].pc = "reject" /\ Decided(r, "REJECTED", "rejected", "writeRejected")

\* Mutant of WriteDecision: a conflict is taken for a success.
WriteDecisionMut(r) ==
  /\ req[r].pc \in {"writeApproved", "writeRejected"}
  /\ LET approves == req[r].pc = "writeApproved" IN
     /\ approval' = IF Unchanged(approval, req[r].approval)
                      THEN Moved(req[r].approval, IF approves THEN "APPROVED" ELSE "REJECTED")
                      ELSE approval
     /\ Goto(r, IF approves THEN "auditApproved" ELSE "auditRejected")
  /\ UNCHANGED <<intent, execution, evaluations, trail, world, answers>>

\* UpdateApproval, then on to the audit record; or a conflict.
WriteDecision(r) ==
  /\ req[r].pc \in {"writeApproved", "writeRejected"}
  /\ LET approves == req[r].pc = "writeApproved" IN
     IF Unchanged(approval, req[r].approval)
       THEN /\ approval' = Moved(req[r].approval, IF approves THEN "APPROVED" ELSE "REJECTED")
            /\ Goto(r, IF approves THEN "auditApproved" ELSE "auditRejected")
            /\ UNCHANGED answers
       ELSE UNCHANGED approval /\ Fail(r)
  /\ UNCHANGED <<intent, execution, evaluations, trail, world>>

\* AppendAudit, a statement of its own: its failure fails a request whose
\* decision stands.
AuditDecision(r) ==
  /\ req[r].pc \in {"auditApproved", "auditRejected"}
  /\ IF req[r].pc = "auditApproved"
       THEN trail' = trail \cup {"approval_granted"} /\ Answer(r, "approved")
       ELSE trail' = trail \cup {"approval_rejected"} /\ Answer(r, "rejected")
  /\ UNCHANGED <<intent, approval, execution, evaluations, world>>

AuthorizeExecution(r) == approval # NoApproval /\ Begin(r, "confirm")

\* The binding, the clock, EnsureAuthorizes, ReadyForExecutionConfirmation.
CheckConfirmation(r) ==
  LET a == req[r].approval
      refused == \/ ~bindingActive \/ ~EnsureAuthorizes(a)
                 \/ a.status \notin {"APPROVED", "READY_FOR_EXECUTION_CONFIRMATION"}
  IN
  /\ req[r].pc = "confirm"
  /\ \/ refused /\ Fail(r)
     \/ ~refused /\ a.status = "APPROVED" /\ Goto(r, "writeReady") /\ UNCHANGED answers
     \/ ~refused /\ a.status # "APPROVED" /\ Answer(r, "confirmed")
  /\ UNCHANGED <<rows, world>>

WriteConfirmation(r) ==
  /\ req[r].pc = "writeReady"
  /\ IF Unchanged(approval, req[r].approval)
       THEN /\ approval' = Moved(req[r].approval, "READY_FOR_EXECUTION_CONFIRMATION")
            /\ Answer(r, "confirmed")
       ELSE UNCHANGED approval /\ Fail(r)
  /\ UNCHANGED <<intent, execution, evaluations, trail, world>>

-----------------------------------------------------------------------------
(* The intent becomes APPROVED.                                            *)

\* Intent.Approve with the approval as its artifact. No caller of it is in
\* the repository yet: the caller is external, and is taken to read and to
\* write as the services do.
ApproveIntent(r) == /\ intent.status = "APPROVAL_REQUIRED"
                    /\ EnsureAuthorizes(approval)
                    /\ Begin(r, "writeIntent")

WriteIntent(r) ==
  /\ req[r].pc = "writeIntent"
  /\ IF Unchanged(intent, req[r].intent)
       THEN intent' = Moved(intent, "APPROVED")
       ELSE UNCHANGED intent
  /\ Fail(r)
  /\ UNCHANGED <<approval, execution, evaluations, trail, world>>

-----------------------------------------------------------------------------
(* PrepareExecution.                                                       *)

\* PrepareExecution reads the intent first,
PrepareExecution(r) == Begin(r, "prepare")

\* then the approval, which must be confirmed or already consumed.
ReadConfirmed(r) ==
  /\ req[r].pc = "prepare"
  /\ \/ /\ approval.status = "READY_FOR_EXECUTION_CONFIRMATION"
        /\ req' = [req EXCEPT ![r].pc = "evaluate", ![r].approval = approval]
        /\ UNCHANGED answers
     \/ approval.status = "CONSUMED" /\ Goto(r, "replay") /\ UNCHANGED answers
     \/ /\ approval.status \notin {"READY_FOR_EXECUTION_CONFIRMATION", "CONSUMED"}
        /\ Fail(r)
  /\ UNCHANGED <<rows, world>>

\* replayConsumedExecution: the durable execution, or NoExecution when the
\* consumed approval has none and the request asks for recovery.
ReplayConsumedExecution(r) ==
  /\ req[r].pc = "replay"
  /\ AnswerExecution(r, execution)
  /\ UNCHANGED <<rows, world>>

\* Mutant of EvaluatePolicy: the intent that the evaluator sees need not be
\* approved.
EvaluatePolicyMut(r) ==
  /\ req[r].pc = "evaluate"
  /\ IF bindingActive /\ ~expired
       THEN \E decision \in Decisions :
              /\ decision = "ALLOW" => policyActive
              /\ evaluations' = evaluations \cup {decision}
              /\ IF decision = "ALLOW" THEN Goto(r, "consume") /\ UNCHANGED answers
                                       ELSE Fail(r)
       ELSE UNCHANGED evaluations /\ Fail(r)
  /\ UNCHANGED <<intent, approval, execution, trail, world>>

\* policies.Evaluate on the intent as read, and CreatePolicyEvaluation. The
\* rules may deny an active policy's intent; NewRequest refuses a denial.
EvaluatePolicy(r) ==
  /\ req[r].pc = "evaluate"
  /\ IF req[r].intent.status = "APPROVED" /\ bindingActive /\ ~expired
       THEN \E decision \in Decisions :
              /\ decision = "ALLOW" => policyActive
              /\ evaluations' = evaluations \cup {decision}
              /\ IF decision = "ALLOW" THEN Goto(r, "consume") /\ UNCHANGED answers
                                       ELSE Fail(r)
       ELSE UNCHANGED evaluations /\ Fail(r)
  /\ UNCHANGED <<intent, approval, execution, trail, world>>

\* Mutant of Consume: the confirmed status is not a consumable one.
ConsumeMut(r) ==
  /\ req[r].pc = "consume"
  /\ IF expired \/ req[r].approval.status # "APPROVED"
       THEN Fail(r)
       ELSE Goto(r, "commit") /\ UNCHANGED answers
  /\ UNCHANGED <<rows, world>>

\* Mutant of Consume: the audit record is written ahead of the transaction.
ConsumeAudited(r) ==
  /\ req[r].pc = "consume"
  /\ IF expired
       THEN UNCHANGED trail /\ Fail(r)
       ELSE /\ trail' = trail \cup {"execution_authorized"}
            /\ Goto(r, "commit") /\ UNCHANGED answers
  /\ UNCHANGED <<intent, approval, execution, evaluations, world>>

\* Approval.Consume at the current time, and NewRequest.
Consume(r) ==
  /\ req[r].pc = "consume"
  /\ IF \/ expired
        \/ req[r].approval.status \notin {"APPROVED", "READY_FOR_EXECUTION_CONFIRMATION"}
       THEN Fail(r)
       ELSE Goto(r, "commit") /\ UNCHANGED answers
  /\ UNCHANGED <<rows, world>>

\* Mutant of ConsumeApprovalAndCreateExecution: two transactions, and the
\* second one fails.
ConsumeApprovalAndCreateExecutionMut(r) ==
  /\ req[r].pc = "commit"
  /\ IF Unchanged(approval, req[r].approval) /\ execution = NoExecution
       THEN /\ approval' = Moved(req[r].approval, "CONSUMED")
            /\ \/ execution' = [request |-> r] /\ AnswerExecution(r, execution')
               \/ UNCHANGED execution /\ Fail(r)
            /\ trail' = trail \cup {"execution_authorized"}
       ELSE UNCHANGED <<approval, execution, trail>> /\ Fail(r)
  /\ UNCHANGED <<intent, evaluations, world>>

\* The transaction: consume the approval at the revision read, insert the
\* request and the execution under the operation's unique key, and audit. A
\* request that comes second finds a different request and gets a conflict.
ConsumeApprovalAndCreateExecution(r) ==
  /\ req[r].pc = "commit"
  /\ IF Unchanged(approval, req[r].approval) /\ execution = NoExecution
       THEN /\ approval' = Moved(req[r].approval, "CONSUMED")
            /\ execution' = [request |-> r]
            /\ trail' = trail \cup {"execution_authorized"}
            /\ AnswerExecution(r, execution')
       ELSE UNCHANGED <<approval, execution, trail>> /\ Fail(r)
  /\ UNCHANGED <<intent, evaluations, world>>

-----------------------------------------------------------------------------
(* The environment.                                                        *)

\* A request dies with its process, is cancelled, times out, or a statement
\* of it fails. It may happen any number of times, until it no longer does.
Abandon(r) == disrupted /\ req[r].pc # "idle" /\ Fail(r) /\ UNCHANGED <<rows, world>>

DisruptionEnds == /\ disrupted /\ disrupted' = FALSE
                  /\ UNCHANGED <<rows, bindingActive, policyActive, expired, req, answers>>

RevokeBinding == /\ bindingActive /\ bindingActive' = FALSE
                 /\ UNCHANGED <<rows, policyActive, expired, disrupted, req, answers>>

DisablePolicy == /\ policyActive /\ policyActive' = FALSE
                 /\ UNCHANGED <<rows, bindingActive, expired, disrupted, req, answers>>

ExpiryPasses == /\ ~expired /\ expired' = TRUE
                /\ UNCHANGED <<rows, bindingActive, policyActive, disrupted, req, answers>>

-----------------------------------------------------------------------------

Start(r) == \/ StepUpRequest(r) \/ RequestApproval(r) \/ DecideApproval(r)
            \/ AuthorizeExecution(r) \/ ApproveIntent(r) \/ PrepareExecution(r)

RequestSteps(r) ==
  \/ RaiseIntent(r) \/ FindApproval(r) \/ CreateApproval(r) \/ AuditRequest(r)
  \/ CheckDecision(r) \/ WriteDecision(r) \/ AuditDecision(r)
  \/ CheckConfirmation(r) \/ WriteConfirmation(r) \/ WriteIntent(r)

PrepareSteps(r) ==
  \/ ReadConfirmed(r) \/ ReplayConsumedExecution(r) \/ EvaluatePolicy(r) \/ Consume(r)
  \/ ConsumeApprovalAndCreateExecution(r)

Next == \/ \E r \in Requests : Start(r) \/ RequestSteps(r) \/ PrepareSteps(r) \/ Abandon(r)
        \/ RevokeBinding \/ DisablePolicy \/ ExpiryPasses \/ DisruptionEnds

Spec == Init /\ [][Next]_vars

\* A request runs on unless it is cut short, which happens finitely often;
\* clients keep calling PrepareExecution.
FairSpec ==
  /\ Spec
  /\ \A r \in Requests : /\ WF_vars(RequestSteps(r) \/ PrepareSteps(r))
                         /\ SF_vars(PrepareExecution(r))
  /\ WF_vars(DisruptionEnds)

-----------------------------------------------------------------------------
(* Properties.                                                             *)

Granted == {"APPROVED", "READY_FOR_EXECUTION_CONFIRMATION", "CONSUMED"}

\* An approval is consumed if and only if its execution is durable, whatever
\* requests die or overtake each other in PrepareExecution: the recovery
\* error of replayConsumedExecution is never answered.
ConsumedIffExecuted ==
  /\ approval.status = "CONSUMED" <=> execution # NoExecution
  /\ NoExecution \notin returned

\* What DecideApproval, AuthorizeExecution and PrepareExecution have answered
\* stays true: a user who was told of an approval, a rejection, a confirmation
\* or an execution is never contradicted by the rows.
AnswersStand ==
  /\ "approved" \in told => approval.status \in Granted
  /\ "rejected" \in told => approval.status = "REJECTED"
  /\ "confirmed" \in told => approval.status \in Granted \ {"APPROVED"}
  /\ returned \subseteq {execution}

\* The audit trail tells of nothing that did not happen, although a decision
\* and its audit record are two statements: a request that lost the
\* UpdateApproval race records nothing. An execution and its record are one
\* transaction.
AuditTruthful ==
  /\ "approval_requested" \in trail => approval # NoApproval
  /\ "approval_granted" \in trail => approval.status \in Granted
  /\ "approval_rejected" \in trail => approval.status = "REJECTED"
  /\ "execution_authorized" \in trail <=> execution # NoExecution

\* An APPROVED intent has a granted approval: Intent.Approve and
\* EnsureAuthorizes are the only way in, and no later decision undoes it.
IntentApprovedByUser == intent.status = "APPROVED" => approval.status \in Granted

\* An execution is created only from an approval that is confirmed, and an
\* intent that is APPROVED, in the database at that moment, although
\* PrepareExecution works from copies it read several calls earlier.
ExecutesOnlyConfirmed ==
  [][execution' # execution =>
       /\ approval.status = "READY_FOR_EXECUTION_CONFIRMATION"
       /\ intent.status = "APPROVED"
       /\ "ALLOW" \in evaluations]_vars

\* An approval only moves forward, from PENDING to its confirmation and
\* consumption or to a rejection, one revision at a time; a rejected or
\* consumed approval is final.
DecisionIsFinal ==
  [][/\ approval # NoApproval => approval'.revision = approval.revision + 1
     /\ <<approval.status, approval'.status>> \in
          {<<"NONE", "PENDING">>, <<"PENDING", "APPROVED">>, <<"PENDING", "REJECTED">>,
           <<"APPROVED", "READY_FOR_EXECUTION_CONFIRMATION">>,
           <<"READY_FOR_EXECUTION_CONFIRMATION", "CONSUMED">>}]_approval

\* A confirmed approval of an APPROVED intent is handed over to an execution
\* unless it expires, its binding is revoked, or the policy denies it: no
\* interleaving of retries leaves it confirmed and unusable.
HandoffCompletes ==
  (approval.status = "READY_FOR_EXECUTION_CONFIRMATION" /\ intent.status = "APPROVED")
    ~> (execution # NoExecution \/ expired \/ ~bindingActive \/ "DENY" \in evaluations)

=============================================================================
