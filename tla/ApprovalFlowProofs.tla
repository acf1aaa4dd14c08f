------------------------- MODULE ApprovalFlowProofs -------------------------
(***************************************************************************)
(* The safety properties of ApprovalFlow, for any set of requests.         *)
(*                                                                         *)
(* A request acts on copies of the rows.  The inductive invariant says     *)
(* what a copy is worth: it is not newer than the row, it is the row when  *)
(* their revisions agree (Copies), and what led the request to where it is *)
(* still holds (At).                                                       *)
(***************************************************************************)
EXTENDS ApprovalFlow, TLAPS

\* Most steps are first-order; the ones that calculate say so.
USE Zenon

Confirmed == Granted \ {"APPROVED"}

\* What requests have read.
Copies(r) ==
  /\ req[r].approval.revision <= approval.revision
  /\ req[r].approval.revision = approval.revision => req[r].approval = approval
  /\ req[r].intent.revision <= intent.revision
  /\ req[r].intent.revision = intent.revision => req[r].intent = intent
  /\ req[r].intent.status = "APPROVED" => intent.status = "APPROVED"
  /\ req[r].approval.status \in Granted => approval.status \in Granted
  /\ req[r].approval.status \in Confirmed => approval.status \in Confirmed
  /\ req[r].approval.status = "REJECTED" => approval.status = "REJECTED"

\* What holds where a request is.
At(r) ==
  /\ req[r].pc = "raise" => req[r].intent.status = "CREATED"
  /\ req[r].pc \in {"writeApproved", "writeRejected"} => req[r].approval.status = "PENDING"
  /\ req[r].pc = "writeReady" => req[r].approval.status = "APPROVED"
  /\ req[r].pc = "auditRequest" => approval.status # "NONE"
  /\ req[r].pc = "auditApproved" => approval.status \in Granted
  /\ req[r].pc = "auditRejected" => approval.status = "REJECTED"
  /\ req[r].pc = "writeIntent" => approval.status \in Granted
  /\ req[r].pc = "replay" => approval.status = "CONSUMED"
  /\ req[r].pc \in {"evaluate", "consume", "commit"} =>
       req[r].approval.status = "READY_FOR_EXECUTION_CONFIRMATION"
  /\ req[r].pc \in {"consume", "commit"} =>
       req[r].intent.status = "APPROVED" /\ "ALLOW" \in evaluations

\* The rows.
Rows ==
  /\ ConsumedIffExecuted
  /\ AnswersStand
  /\ AuditTruthful
  /\ IntentApprovedByUser
  /\ intent.revision > 0
  /\ approval.status # "NONE" => approval.revision > 0

Inv == TypeOK /\ Rows /\ \A r \in Requests : Copies(r) /\ At(r)

-----------------------------------------------------------------------------
(* How the rows move.                                                      *)

ApprovalMoves ==
  {<<"PENDING", "APPROVED">>, <<"PENDING", "REJECTED">>,
   <<"APPROVED", "READY_FOR_EXECUTION_CONFIRMATION">>,
   <<"READY_FOR_EXECUTION_CONFIRMATION", "CONSUMED">>}

ApprovalForward ==
  \/ approval' = approval
  \/ approval = NoApproval /\ approval' = [status |-> "PENDING", revision |-> 1]
  \/ \E move \in ApprovalMoves :
       approval.status = move[1] /\ approval' = Moved(approval, move[2])

IntentForward ==
  \/ intent' = intent
  \/ intent.status = "CREATED" /\ intent' = Moved(intent, "APPROVAL_REQUIRED")
  \/ approval.status \in Granted /\ intent' = Moved(intent, "APPROVED")

Forward == ApprovalForward /\ IntentForward /\ evaluations \subseteq evaluations'

\* A step of the approval row leads to a later row that is as much decided.
LEMMA ApprovalLater ==
  ASSUME TypeOK, ApprovalForward
  PROVE  /\ approval' = approval \/ approval'.revision = approval.revision + 1
         /\ approval.status \in Granted => approval'.status \in Granted
         /\ approval.status \in Confirmed => approval'.status \in Confirmed
         /\ approval.status \in {"REJECTED", "CONSUMED"} => approval' = approval
         /\ approval.status # "NONE" => approval'.status # "NONE"
         /\ approval.revision \in Nat
BY SMT DEF TypeOK, ApprovalForward, ApprovalMoves, Moved, Granted, Confirmed, Approvals,
       ApprovalStatuses, NoApproval

\* A step of the intent row leads to a later row; APPROVED is final.
LEMMA IntentLater ==
  ASSUME TypeOK, IntentForward
  PROVE  /\ intent' = intent \/ intent'.revision = intent.revision + 1
         /\ intent.status = "APPROVED" => intent'.status = "APPROVED"
         /\ intent.revision \in Nat
BY SMT DEF TypeOK, IntentForward, Moved, Intents

\* Copies stay good while the rows move forward.
LEMMA CopiesKept ==
  ASSUME NEW r \in Requests, TypeOK, Copies(r), Forward,
         req'[r].approval = req[r].approval, req'[r].intent = req[r].intent
  PROVE  Copies(r)'
<1>1. /\ req[r].approval \in Approvals /\ req[r].intent \in Intents
      /\ req[r].approval.revision \in Nat /\ req[r].intent.revision \in Nat
  BY SMT DEF TypeOK, Approvals, Intents, NoApproval
<1> QED BY SMT, <1>1, ApprovalLater, IntentLater DEF Forward, Copies

\* So does what holds where a request is.
LEMMA AtKept ==
  ASSUME NEW r \in Requests, TypeOK, At(r), Forward, req'[r] = req[r]
  PROVE  At(r)'
BY ApprovalLater DEF Forward, At

\* A request that ends knows nothing.
LEMMA IdleGood ==
  ASSUME NEW r \in Requests, TypeOK, Rows, Forward, req'[r] = Idle
  PROVE  Copies(r)' /\ At(r)'
<1>1. approval'.revision \in Nat /\ intent'.revision \in Nat /\ intent'.revision > 0
  BY SMT, ApprovalLater, IntentLater DEF Forward, Rows
<1>2. approval'.revision = 0 => approval' = NoApproval
  BY SMT DEF Forward, ApprovalForward, TypeOK, Rows, Approvals, NoApproval, Moved
<1> QED BY SMT, <1>1, <1>2 DEF Idle, Copies, At, NoApproval, Granted, Confirmed

-----------------------------------------------------------------------------
(* Every step moves the rows forward.                                      *)

Steps(r) == RequestSteps(r) \/ PrepareSteps(r) \/ Abandon(r)
World == RevokeBinding \/ DisablePolicy \/ ExpiryPasses \/ DisruptionEnds

\* The step of a request that compares revisions acts on the row it has read.
LEMMA MovesForward ==
  ASSUME Inv, NEW r \in Requests, Start(r) \/ Steps(r)
  PROVE  Forward
<1> USE DEF Forward, ApprovalForward, IntentForward, rows, world
<1>1. CASE Start(r)
  BY <1>1 DEF Start, StepUpRequest, RequestApproval, DecideApproval, AuthorizeExecution,
              ApproveIntent, PrepareExecution, Begin
<1>2. CASE RaiseIntent(r)
  BY <1>2 DEF RaiseIntent, Inv, Copies, At, Unchanged
<1>3. CASE FindApproval(r) \/ AuditRequest(r) \/ CheckDecision(r) \/ AuditDecision(r)
           \/ CheckConfirmation(r) \/ ReadConfirmed(r) \/ ReplayConsumedExecution(r)
           \/ Consume(r) \/ Abandon(r)
  BY <1>3 DEF FindApproval, AuditRequest, CheckDecision, Decided, AuditDecision,
              CheckConfirmation, ReadConfirmed, ReplayConsumedExecution, Consume, Abandon
<1>4. CASE CreateApproval(r)
  BY <1>4 DEF CreateApproval
<1>5. CASE WriteDecision(r)
  <2>1. \/ approval.status = "PENDING" /\ req[r].approval = approval
        \/ approval' = approval
    BY <1>5 DEF WriteDecision, Inv, Copies, At, Unchanged
  <2>2. \/ approval' = approval
        \/ approval' = Moved(approval, "APPROVED")
        \/ approval' = Moved(approval, "REJECTED")
    BY <1>5, <2>1 DEF WriteDecision
  <2>3. <<"PENDING", "APPROVED">> \in ApprovalMoves /\ <<"PENDING", "REJECTED">> \in ApprovalMoves
    BY DEF ApprovalMoves
  <2>4. ApprovalForward
    BY <2>1, <2>2, <2>3
  <2> QED BY <1>5, <2>4 DEF WriteDecision
<1>6. CASE WriteConfirmation(r)
  <2>1. \/ approval' = approval
        \/ /\ approval.status = "APPROVED"
           /\ approval' = Moved(approval, "READY_FOR_EXECUTION_CONFIRMATION")
    BY <1>6 DEF WriteConfirmation, Inv, Copies, At, Unchanged
  <2>2. <<"APPROVED", "READY_FOR_EXECUTION_CONFIRMATION">> \in ApprovalMoves
    BY DEF ApprovalMoves
  <2>3. ApprovalForward
    BY <2>1, <2>2
  <2> QED BY <1>6, <2>3 DEF WriteConfirmation
<1>7. CASE WriteIntent(r)
  BY <1>7 DEF WriteIntent, Inv, At
<1>8. CASE EvaluatePolicy(r)
  BY <1>8 DEF EvaluatePolicy
<1>9. CASE ConsumeApprovalAndCreateExecution(r)
  <2>1. \/ approval' = approval
        \/ /\ approval.status = "READY_FOR_EXECUTION_CONFIRMATION"
           /\ approval' = Moved(approval, "CONSUMED")
    BY <1>9 DEF ConsumeApprovalAndCreateExecution, Inv, Copies, At, Unchanged
  <2>2. <<"READY_FOR_EXECUTION_CONFIRMATION", "CONSUMED">> \in ApprovalMoves
    BY DEF ApprovalMoves
  <2>3. ApprovalForward
    BY <2>1, <2>2
  <2> QED BY <1>9, <2>3 DEF ConsumeApprovalAndCreateExecution
<1> QED BY <1>1, <1>2, <1>3, <1>4, <1>5, <1>6, <1>7, <1>8, <1>9
        DEF Steps, RequestSteps, PrepareSteps

-----------------------------------------------------------------------------
(* What a request knows, after a step of its own.                          *)

\* A request that goes on keeps its copies.
LEMMA GotoKeeps ==
  ASSUME TypeOK, NEW r \in Requests, NEW location \in Locations, Goto(r, location)
  PROVE  /\ req'[r].pc = location
         /\ req'[r].approval = req[r].approval /\ req'[r].intent = req[r].intent
         /\ \A q \in Requests \ {r} : req'[q] = req[q]
         /\ req' \in [Requests -> [pc : Locations, intent : Intents, approval : Approvals]]
BY DEF TypeOK, Goto

\* A request that starts has read the rows as they are.
LEMMA StartGood ==
  ASSUME Inv, NEW r \in Requests, Start(r)
  PROVE  Copies(r)' /\ At(r)'
<1>1. PICK location \in Locations :
        /\ Begin(r, location)
        /\ location \in {"raise", "stepUpFind", "find", "approve", "reject", "confirm",
                         "writeIntent", "prepare"}
        /\ location = "raise" => intent.status = "CREATED"
        /\ location = "writeIntent" => approval.status \in Granted
  BY DEF Start, StepUpRequest, RequestApproval, DecideApproval, AuthorizeExecution,
         ApproveIntent, PrepareExecution, EnsureAuthorizes, Granted, Locations
<1>2. req'[r] = [pc |-> location, intent |-> intent, approval |-> approval]
  BY <1>1 DEF Begin, Inv, TypeOK
<1>3. intent' = intent /\ approval' = approval /\ evaluations' = evaluations
  BY <1>1 DEF Begin, rows
<1>4. approval.revision \in Nat /\ intent.revision \in Nat
  BY SMT DEF Inv, TypeOK, Approvals, Intents, NoApproval
<1> QED BY SMT, <1>1, <1>2, <1>3, <1>4 DEF Copies, At

\* The ways a request's own step leaves its record.
Ends(r) == req' = [req EXCEPT ![r] = Idle]

GoesOn(r) == \E location \in Locations :
               /\ Goto(r, location)
               /\ \/ req[r].pc = "raise" /\ location = "stepUpFind"
                  \/ req[r].pc = "find" /\ location = "create"
                  \/ req[r].pc = "stepUpFind" /\ location = "stepUpCreate"
                  \/ location = "auditRequest" /\ approval'.status # "NONE"
                  \/ location \in {"writeApproved", "writeRejected"}
                       /\ req[r].approval.status = "PENDING"
                  \/ location = "auditApproved" /\ approval'.status \in Granted
                  \/ location = "auditRejected" /\ approval'.status = "REJECTED"
                  \/ location = "writeReady" /\ req[r].approval.status = "APPROVED"
                  \/ location = "replay" /\ approval'.status = "CONSUMED"
                  \/ /\ location \in {"consume", "commit"}
                     /\ req[r].approval.status = "READY_FOR_EXECUTION_CONFIRMATION"
                     /\ req[r].intent.status = "APPROVED" /\ "ALLOW" \in evaluations'

Rereads(r) ==
  /\ req' = [req EXCEPT ![r].pc = "evaluate", ![r].approval = approval]
  /\ approval.status = "READY_FOR_EXECUTION_CONFIRMATION"
  /\ UNCHANGED <<approval, intent, evaluations>>

\* Every step of a request is one of these.
LEMMA StepKinds ==
  ASSUME Inv, NEW r \in Requests, Steps(r)
  PROVE  Ends(r) \/ GoesOn(r) \/ Rereads(r)
<1> USE DEF Ends, Fail, Answer, AnswerExecution
<1>1. CASE RaiseIntent(r)
  BY <1>1 DEF RaiseIntent, GoesOn, Locations
<1>2. CASE FindApproval(r)
  BY <1>2 DEF FindApproval, GoesOn, Locations
<1>3. CASE CreateApproval(r)
  BY SMT, <1>3 DEF CreateApproval, GoesOn, Locations
<1>4. CASE CheckDecision(r)
  BY <1>4 DEF CheckDecision, Decided, GoesOn, Locations
<1>5. CASE WriteDecision(r)
  BY SMT, <1>5 DEF WriteDecision, Moved, Granted, GoesOn, Locations
<1>6. CASE CheckConfirmation(r)
  BY <1>6 DEF CheckConfirmation, GoesOn, Locations
<1>7. CASE ReadConfirmed(r)
  BY <1>7 DEF ReadConfirmed, GoesOn, Rereads, Locations, rows
<1>8. CASE EvaluatePolicy(r)
  BY <1>8 DEF EvaluatePolicy, GoesOn, Locations, Inv, At
<1>9. CASE Consume(r)
  BY <1>9 DEF Consume, GoesOn, Locations, Inv, At, rows
<1>10. CASE AuditRequest(r) \/ AuditDecision(r) \/ WriteConfirmation(r) \/ WriteIntent(r)
            \/ ReplayConsumedExecution(r) \/ ConsumeApprovalAndCreateExecution(r) \/ Abandon(r)
  BY <1>10 DEF AuditRequest, AuditDecision, WriteConfirmation, WriteIntent,
               ReplayConsumedExecution, ConsumeApprovalAndCreateExecution, Abandon
<1> QED BY <1>1, <1>2, <1>3, <1>4, <1>5, <1>6, <1>7, <1>8, <1>9, <1>10
        DEF Steps, RequestSteps, PrepareSteps

\* After any of them, what the request has read and where it is are in order.
LEMMA StepGood ==
  ASSUME Inv, NEW r \in Requests, Steps(r)
  PROVE  Copies(r)' /\ At(r)'
<1>1. Forward
  BY MovesForward
<1>2. CASE Ends(r)
  <2>1. req'[r] = Idle
    BY <1>2 DEF Ends, Inv, TypeOK
  <2> QED BY <1>1, <2>1, IdleGood DEF Inv
<1>3. CASE GoesOn(r)
  <2>1. PICK location \in Locations : Goto(r, location)
          /\ GoesOn(r)!(location)
    BY <1>3 DEF GoesOn
  <2>2. req'[r].approval = req[r].approval /\ req'[r].intent = req[r].intent
        /\ req'[r].pc = location
    BY <2>1, GotoKeeps DEF Inv
  <2>3. Copies(r)'
    BY <1>1, <2>2, CopiesKept DEF Inv
  <2>4. At(r)'
    BY <2>1, <2>2 DEF At
  <2> QED BY <2>3, <2>4
<1>4. CASE Rereads(r)
  <2>1. /\ req'[r].pc = "evaluate" /\ req'[r].approval = approval
        /\ req'[r].intent = req[r].intent
    BY <1>4 DEF Rereads, Inv, TypeOK
  <2>2. approval.revision \in Nat
    BY SMT DEF Inv, TypeOK, Approvals, NoApproval
  <2> QED BY SMT, <1>4, <2>1, <2>2 DEF Rereads, Copies, At, Inv
<1> QED BY <1>2, <1>3, <1>4, StepKinds

-----------------------------------------------------------------------------
(* The rows, the audit trail and the answers.                              *)

\* Rows survive a step that moves them forward without consuming, and answers
\* and audits nothing.
LEMMA QuietKeepsRows ==
  ASSUME TypeOK, Rows, Forward, UNCHANGED <<execution, trail, told, returned>>,
         approval'.status = "CONSUMED" => approval.status = "CONSUMED"
  PROVE  Rows'
<1>1. /\ intent'.revision > 0
      /\ approval'.status # "NONE" => approval'.revision > 0
      /\ intent'.status = "APPROVED" => approval'.status \in Granted
  <2>1. intent'.revision > 0
    BY SMT, IntentLater DEF Forward, Rows
  <2>2. approval'.status # "NONE" => approval'.revision > 0
    BY SMT, ApprovalLater DEF Forward, Rows, ApprovalForward, TypeOK, NoApproval
  <2>3. intent'.status = "APPROVED" => approval.status \in Granted
    BY SMT DEF Forward, IntentForward, Rows, IntentApprovedByUser, Moved
  <2> QED BY <2>1, <2>2, <2>3, ApprovalLater DEF Forward
<1>2. ConsumedIffExecuted'
  BY ApprovalLater DEF Rows, ConsumedIffExecuted, Forward
<1>3. AnswersStand'
  BY ApprovalLater DEF Rows, AnswersStand, Confirmed, Forward
<1>4. AuditTruthful'
  <2>1. approval # NoApproval => approval' # NoApproval
    BY SMT, ApprovalLater DEF Forward, TypeOK, Approvals, NoApproval, ApprovalStatuses
  <2> QED BY <2>1, ApprovalLater DEF Rows, AuditTruthful, Forward
<1> QED BY <1>1, <1>2, <1>3, <1>4 DEF Rows, IntentApprovedByUser

\* A request that acknowledges a decision says what the row says.
LEMMA AnswerTrue ==
  ASSUME Inv, NEW r \in Requests, CheckDecision(r) \/ CheckConfirmation(r) \/ AuditDecision(r)
  PROVE  Rows'
<1>1. UNCHANGED <<intent, approval, execution, returned>>
  BY DEF CheckDecision, Decided, CheckConfirmation, AuditDecision, Fail, Answer, answers, rows
<1>2. /\ told' \subseteq told \cup {"approved", "rejected", "confirmed"}
      /\ "approved" \in told' => "approved" \in told \/ approval.status \in Granted
      /\ "rejected" \in told' => "rejected" \in told \/ approval.status = "REJECTED"
      /\ "confirmed" \in told' => "confirmed" \in told \/ approval.status \in Confirmed
  <2>1. CASE CheckDecision(r)
    BY <2>1 DEF CheckDecision, Decided, Fail, Answer, answers, Inv, Copies, Granted, TypeOK
  <2>2. CASE CheckConfirmation(r)
    BY <2>2 DEF CheckConfirmation, Fail, Answer, answers, Inv, Copies, Granted, Confirmed, TypeOK
  <2>3. CASE AuditDecision(r)
    BY SMT, <2>3 DEF AuditDecision, Answer, Inv, At, TypeOK
  <2> QED BY <2>1, <2>2, <2>3
<1>3. /\ trail' \subseteq trail \cup {"approval_granted", "approval_rejected"}
      /\ trail \subseteq trail'
      /\ "approval_granted" \in trail' => "approval_granted" \in trail \/ approval.status \in Granted
      /\ "approval_rejected" \in trail' => "approval_rejected" \in trail \/ approval.status = "REJECTED"
  BY SMT DEF CheckDecision, Decided, CheckConfirmation, AuditDecision, rows, Inv, At
<1>4. AnswersStand' /\ AuditTruthful'
  BY <1>1, <1>2, <1>3 DEF Inv, Rows, AnswersStand, AuditTruthful, Confirmed
<1> QED BY <1>1, <1>4 DEF Inv, Rows, ConsumedIffExecuted, IntentApprovedByUser

\* Every step of a request keeps the rows, the answers and the trail in order.
LEMMA StepKeepsRows ==
  ASSUME Inv, NEW r \in Requests, Start(r) \/ Steps(r)
  PROVE  Rows'
<1>1. Forward /\ TypeOK /\ Rows
  BY MovesForward DEF Inv
<1>2. CASE Start(r)
  BY <1>1, <1>2, QuietKeepsRows
     DEF Start, StepUpRequest, RequestApproval, DecideApproval, AuthorizeExecution,
         ApproveIntent, PrepareExecution, Begin, rows, answers
<1>3. CASE RaiseIntent(r) \/ FindApproval(r) \/ WriteIntent(r) \/ ReadConfirmed(r)
           \/ EvaluatePolicy(r) \/ Consume(r) \/ Abandon(r)
  BY <1>1, <1>3, QuietKeepsRows
     DEF RaiseIntent, FindApproval, WriteIntent, ReadConfirmed, EvaluatePolicy, Consume,
         Abandon, Fail, rows, answers
<1>4. CASE CreateApproval(r)
  BY SMT, <1>1, <1>4, QuietKeepsRows DEF CreateApproval, Fail, answers
<1>5. CASE WriteDecision(r)
  BY SMT, <1>1, <1>5, QuietKeepsRows DEF WriteDecision, Moved, Fail, answers
<1>6. CASE AuditRequest(r)
  <2>1. approval # NoApproval
    BY SMT, <1>6 DEF AuditRequest, Inv, At, NoApproval
  <2> QED BY <1>1, <1>6, <2>1 DEF AuditRequest, Fail, answers, Rows, ConsumedIffExecuted, AnswersStand,
                         AuditTruthful, IntentApprovedByUser
<1>7. CASE CheckDecision(r) \/ CheckConfirmation(r) \/ AuditDecision(r)
  BY <1>7, AnswerTrue
<1>8. CASE WriteConfirmation(r)
  <2>1. CASE approval' = approval /\ Fail(r)
    BY <1>1, <1>8, <2>1, QuietKeepsRows DEF WriteConfirmation, Fail, answers
  <2>2. CASE /\ approval' = Moved(approval, "READY_FOR_EXECUTION_CONFIRMATION")
             /\ approval.status = "APPROVED" /\ Answer(r, "confirmed")
    <3>1. /\ approval'.status = "READY_FOR_EXECUTION_CONFIRMATION"
          /\ approval'.revision > 0 /\ approval' # NoApproval
      BY SMT, <1>1, <2>2 DEF Moved, Rows, TypeOK, Approvals, NoApproval
    <3> QED BY <1>1, <1>8, <2>2, <3>1
          DEF WriteConfirmation, Answer, Rows, ConsumedIffExecuted, AnswersStand, AuditTruthful,
              IntentApprovedByUser, Granted
  <2> QED BY <1>8, <2>1, <2>2 DEF WriteConfirmation, Inv, Copies, At, Unchanged
<1>9. CASE ReplayConsumedExecution(r)
  <2>1. execution # NoExecution
    BY <1>1, <1>9 DEF ReplayConsumedExecution, Inv, At, Rows, ConsumedIffExecuted
  <2> QED BY <1>1, <1>9, <2>1
        DEF ReplayConsumedExecution, AnswerExecution, rows, Rows, ConsumedIffExecuted,
            AnswersStand, AuditTruthful, IntentApprovedByUser
<1>10. CASE ConsumeApprovalAndCreateExecution(r)
  <2>1. CASE UNCHANGED <<approval, execution, trail>> /\ Fail(r)
    BY <1>1, <1>10, <2>1, QuietKeepsRows
       DEF ConsumeApprovalAndCreateExecution, Fail, answers
  <2>2. CASE /\ approval' = Moved(approval, "CONSUMED")
             /\ approval.status = "READY_FOR_EXECUTION_CONFIRMATION"
             /\ execution' = [request |-> r]
             /\ trail' = trail \cup {"execution_authorized"}
             /\ AnswerExecution(r, execution')
    <3>1. /\ approval'.status = "CONSUMED"
          /\ approval'.revision > 0 /\ approval' # NoApproval
      BY SMT, <1>1, <2>2 DEF Moved, Rows, TypeOK, Approvals, NoApproval
    <3>2. returned = {}
      BY <1>1, <2>2 DEF Rows, ConsumedIffExecuted, AnswersStand
    <3>3. execution' # NoExecution
      BY <2>2, NoRequestIsNone DEF NoExecution
    <3> QED BY <1>1, <1>10, <2>2, <3>1, <3>2, <3>3
          DEF ConsumeApprovalAndCreateExecution, AnswerExecution, Rows, ConsumedIffExecuted,
              AnswersStand, AuditTruthful, IntentApprovedByUser, Granted
  <2> QED BY <1>10, <2>1, <2>2
          DEF ConsumeApprovalAndCreateExecution, Inv, Copies, At, Unchanged
<1> QED BY <1>2, <1>3, <1>4, <1>5, <1>6, <1>7, <1>8, <1>9, <1>10
        DEF Steps, RequestSteps, PrepareSteps

-----------------------------------------------------------------------------
(* Types.                                                                  *)

\* A step of a request keeps every variable in its type.
LEMMA StepKeepsTypes ==
  ASSUME Inv, NEW r \in Requests, Start(r) \/ Steps(r)
  PROVE  TypeOK'
<1> DEFINE Records == [Requests -> [pc : Locations, intent : Intents, approval : Approvals]]
<1>1. Forward
  BY MovesForward
<1>2. approval' \in Approvals
  BY SMT, <1>1 DEF Forward, ApprovalForward, ApprovalMoves, Moved, Inv, TypeOK, Approvals,
              ApprovalStatuses, NoApproval
<1>3. intent' \in Intents
  BY SMT, <1>1 DEF Forward, IntentForward, Moved, Inv, TypeOK, Intents, IntentStatuses
<1>4. req' \in Records
  <2>1. Idle \in [pc : Locations, intent : Intents, approval : Approvals]
    BY DEF Idle, Locations, Intents, IntentStatuses, Approvals
  <2>2. CASE Start(r)
    BY SMT, <2>2 DEF Start, StepUpRequest, RequestApproval, DecideApproval, AuthorizeExecution,
                ApproveIntent, PrepareExecution, Begin, Inv, TypeOK, Locations
  <2>3. CASE Ends(r)
    BY <2>1, <2>3 DEF Ends, Inv, TypeOK
  <2>4. CASE GoesOn(r)
    BY <2>4, GotoKeeps DEF GoesOn, Inv
  <2>5. CASE Rereads(r)
    <3>1. "evaluate" \in Locations
      BY DEF Locations
    <3> QED BY <2>5, <3>1 DEF Rereads, Inv, TypeOK
  <2> QED BY <2>2, <2>3, <2>4, <2>5, StepKinds
<1>5. /\ execution' \in Executions /\ evaluations' \subseteq Decisions /\ trail' \subseteq Events
      /\ told' \subseteq {"approved", "rejected", "confirmed"} /\ returned' \subseteq Executions
      /\ UNCHANGED world
  <2> USE DEF Inv, TypeOK, rows, answers, Fail, Answer, AnswerExecution
  <2>1. CASE Start(r)
    BY <2>1 DEF Start, StepUpRequest, RequestApproval, DecideApproval, AuthorizeExecution,
                ApproveIntent, PrepareExecution, Begin
  <2>2. CASE \/ RaiseIntent(r) \/ FindApproval(r) \/ CreateApproval(r) \/ WriteDecision(r)
             \/ WriteIntent(r) \/ ReadConfirmed(r) \/ Consume(r) \/ Abandon(r)
    BY <2>2 DEF RaiseIntent, FindApproval, CreateApproval, WriteDecision, WriteIntent,
                ReadConfirmed, Consume, Abandon
  <2>3. CASE AuditRequest(r) \/ AuditDecision(r)
    BY <2>3 DEF AuditRequest, AuditDecision, Events
  <2>4. CASE CheckDecision(r) \/ CheckConfirmation(r) \/ WriteConfirmation(r)
    BY <2>4 DEF CheckDecision, Decided, CheckConfirmation, WriteConfirmation
  <2>5. CASE EvaluatePolicy(r)
    BY <2>5 DEF EvaluatePolicy
  <2>6. CASE ReplayConsumedExecution(r)
    BY <2>6 DEF ReplayConsumedExecution
  <2>7. CASE ConsumeApprovalAndCreateExecution(r)
    <3>1. execution' \in Executions
      BY SMT, <2>7 DEF ConsumeApprovalAndCreateExecution, Executions
    <3>2. returned' \subseteq returned \cup {execution'} /\ told' = told
      BY <2>7 DEF ConsumeApprovalAndCreateExecution
    <3>3. trail' \subseteq Events
      BY <2>7 DEF ConsumeApprovalAndCreateExecution, Events
    <3>4. UNCHANGED <<evaluations, world>>
      BY <2>7 DEF ConsumeApprovalAndCreateExecution
    <3> QED BY <3>1, <3>2, <3>3, <3>4
  <2> QED BY <2>1, <2>2, <2>3, <2>4, <2>5, <2>6, <2>7 DEF Steps, RequestSteps, PrepareSteps
<1> QED BY <1>2, <1>3, <1>4, <1>5 DEF TypeOK, Inv, world

-----------------------------------------------------------------------------
(* The inductive invariant.                                                *)

\* It holds initially.
LEMMA InitInv == Init => Inv
<1> SUFFICES ASSUME Init PROVE Inv
  OBVIOUS
<1>1. TypeOK
  BY DEF Init, TypeOK, Intents, IntentStatuses, Approvals, Executions, Idle, Locations,
         Decisions, Events
<1>2. Rows
  BY SMT DEF Init, Rows, ConsumedIffExecuted, AnswersStand, AuditTruthful, IntentApprovedByUser,
         NoApproval, NoExecution
<1>3. ASSUME NEW r \in Requests PROVE Copies(r) /\ At(r)
  BY SMT DEF Init, Copies, At, Idle, NoApproval, Granted, Confirmed
<1> QED BY <1>1, <1>2, <1>3 DEF Inv

\* Every step preserves it: the request that acts by StartGood or StepGood, the
\* others because the rows only move forward.
LEMMA NextInv == Inv /\ [Next]_vars => Inv'
<1> SUFFICES ASSUME Inv, [Next]_vars PROVE Inv'
  OBVIOUS
<1>1. CASE UNCHANGED vars \/ World
  <2>1. UNCHANGED <<rows, req, told, returned>>
    BY <1>1 DEF vars, World, RevokeBinding, DisablePolicy, ExpiryPasses, DisruptionEnds, rows,
                answers
  <2>2. TypeOK'
    BY <1>1, <2>1 DEF vars, World, RevokeBinding, DisablePolicy, ExpiryPasses, DisruptionEnds,
                      rows, Inv, TypeOK
  <2>3. Rows'
    BY <2>1 DEF Inv, Rows, ConsumedIffExecuted, AnswersStand, AuditTruthful,
                IntentApprovedByUser, rows
  <2>4. \A r \in Requests : Copies(r)' /\ At(r)'
    BY <2>1 DEF Inv, Copies, At, rows
  <2> QED BY <2>2, <2>3, <2>4 DEF Inv
<1>2. ASSUME NEW r \in Requests, Start(r) \/ Steps(r)
      PROVE  Inv'
  <2>1. TypeOK' /\ Rows' /\ Forward
    BY <1>2, StepKeepsTypes, StepKeepsRows, MovesForward
  <2>2. Copies(r)' /\ At(r)'
    BY <1>2, StartGood, StepGood
  <2>3. ASSUME NEW q \in Requests, q # r PROVE Copies(q)' /\ At(q)'
    <3>1. req'[q] = req[q]
      <4>1. CASE Start(r)
        BY <2>3, <4>1 DEF Start, StepUpRequest, RequestApproval, DecideApproval,
             AuthorizeExecution, ApproveIntent, PrepareExecution, Begin, Inv, TypeOK
      <4>2. CASE Ends(r) \/ GoesOn(r) \/ Rereads(r)
        BY <2>3, <4>2 DEF Ends, GoesOn, Goto, Rereads, Inv, TypeOK
      <4> QED BY <1>2, <4>1, <4>2, StepKinds
    <3> QED BY <2>1, <3>1, CopiesKept, AtKept DEF Inv
  <2> QED BY <2>1, <2>2, <2>3 DEF Inv
<1> QED BY <1>1, <1>2 DEF Next, Steps, World

\* Inv holds throughout.
THEOREM InvHolds == Spec => []Inv
BY InitInv, NextInv, PTL DEF Spec

-----------------------------------------------------------------------------

\* Type correctness of the approval flow.
THEOREM TypeCorrect == Spec => []TypeOK
BY InvHolds, PTL DEF Inv

\* For any number of concurrent requests, an approval is consumed if and only
\* if its execution exists (ConsumeApprovalAndCreateExecution is atomic and
\* the only writer of either).
THEOREM ConsumptionIsExecution == Spec => []ConsumedIffExecuted
BY InvHolds, PTL DEF Inv, Rows

\* No answer of DecideApproval, AuthorizeExecution or PrepareExecution is ever
\* contradicted by the rows, whichever requests race.
THEOREM AnswersAreKept == Spec => []AnswersStand
BY InvHolds, PTL DEF Inv, Rows

\* The audit trail records only what happened.
THEOREM TrailIsTruthful == Spec => []AuditTruthful
BY InvHolds, PTL DEF Inv, Rows

\* An APPROVED intent has a granted approval.
THEOREM ApprovedByUser == Spec => []IntentApprovedByUser
BY InvHolds, PTL DEF Inv, Rows

\* An execution is created only from a confirmed approval and an APPROVED
\* intent, as the database holds them at that moment.
THEOREM OnlyConfirmedExecutes == Spec => ExecutesOnlyConfirmed
<1>1. ASSUME Inv, [Next]_vars, execution' # execution
      PROVE  /\ approval.status = "READY_FOR_EXECUTION_CONFIRMATION"
             /\ intent.status = "APPROVED"
             /\ "ALLOW" \in evaluations
  <2>1. \A r \in Requests : ~Start(r)
    BY <1>1 DEF Start, StepUpRequest, RequestApproval, DecideApproval, AuthorizeExecution,
                ApproveIntent, PrepareExecution, Begin, rows
  <2>2. PICK r \in Requests : ConsumeApprovalAndCreateExecution(r)
    BY <1>1, <2>1 DEF Next, vars, RequestSteps, PrepareSteps, RaiseIntent, FindApproval,
       CreateApproval, AuditRequest, CheckDecision, Decided, WriteDecision, AuditDecision,
       CheckConfirmation, WriteConfirmation, WriteIntent, ReadConfirmed,
       ReplayConsumedExecution, EvaluatePolicy, Consume, Abandon, RevokeBinding,
       DisablePolicy, ExpiryPasses, DisruptionEnds, rows
  <2> QED BY <1>1, <2>2 DEF ConsumeApprovalAndCreateExecution, Inv, Copies, At, Unchanged
<1> QED BY <1>1, InvHolds, PTL DEF Spec, ExecutesOnlyConfirmed

\* An approval moves forward one revision at a time, and a rejected or
\* consumed one is final.
THEOREM DecisionsAreFinal == Spec => DecisionIsFinal
<1>1. ASSUME Inv, [Next]_vars
      PROVE  [/\ approval # NoApproval => approval'.revision = approval.revision + 1
              /\ <<approval.status, approval'.status>> \in
                   {<<"NONE", "PENDING">>, <<"PENDING", "APPROVED">>, <<"PENDING", "REJECTED">>,
                    <<"APPROVED", "READY_FOR_EXECUTION_CONFIRMATION">>,
                    <<"READY_FOR_EXECUTION_CONFIRMATION", "CONSUMED">>}]_approval
  <2> SUFFICES ASSUME approval' # approval
               PROVE  /\ approval # NoApproval => approval'.revision = approval.revision + 1
                      /\ <<approval.status, approval'.status>> \in
                           {<<"NONE", "PENDING">>, <<"PENDING", "APPROVED">>,
                            <<"PENDING", "REJECTED">>,
                            <<"APPROVED", "READY_FOR_EXECUTION_CONFIRMATION">>,
                            <<"READY_FOR_EXECUTION_CONFIRMATION", "CONSUMED">>}
    OBVIOUS
  <2>1. ~UNCHANGED vars /\ ~World
    BY DEF vars, World, RevokeBinding, DisablePolicy, ExpiryPasses, DisruptionEnds, rows
  <2>2. ApprovalForward
    BY <1>1, <2>1, MovesForward DEF Next, Steps, World, Forward
  <2> QED BY SMT, <1>1, <2>2 DEF ApprovalForward, ApprovalMoves, Moved, NoApproval, Inv, TypeOK
<1> QED BY <1>1, InvHolds, PTL DEF Spec, DecisionIsFinal

=============================================================================
