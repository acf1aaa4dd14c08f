------------------------ MODULE ExecutionLifecycle ------------------------
(***************************************************************************)
(* The lifecycle of one execution (internal/execution): the immutable      *)
(* Execution value, the functions that return its successors, and the      *)
(* abstract machine that a durable execution row must follow.              *)
(*                                                                         *)
(* Reason codes and timestamps are abstracted: a reason code never decides *)
(* a transition, and a transition whose time precedes updatedAt is refused *)
(* before any write (the runtime's model has that refusal as a failed      *)
(* attempt).  CANCELLED is a status no code path of the repository writes  *)
(* outside tests; it is kept because validTransition admits it.            *)
(***************************************************************************)
EXTENDS Naturals

\* Absent status: Go's zero value "" of the Status fields.
None == "NONE"

Statuses == {"CREATED", "AUTHORIZED", "QUEUED", "EXECUTING", "SUBMITTED",
             "CONFIRMING", "CONFIRMED", "VERIFIED", "COMPLETED", "FAILED",
             "RECOVERY_REQUIRED", "CANCELLED"}

Eligibilities == {"TERMINAL", "RECOVERABLE"}

\* An Execution value: lifecycle fields only, the frozen request never changes.
Executions ==
  [status         : Statuses,
   revision       : Nat \ {0},
   eligibility    : Eligibilities \cup {None},
   failureTarget  : Statuses \cup {None},
   failedFrom     : Statuses \cup {None},
   recoveryFrom   : Statuses \cup {None},
   recoveryTarget : Statuses \cup {None}]

New == [status |-> "CREATED", revision |-> 1, eligibility |-> None,
        failureTarget |-> None, failedFrom |-> None,
        recoveryFrom |-> None, recoveryTarget |-> None]

\* Ordinary successors of a status.
ValidTransition(current) ==
  CASE current = "CREATED"    -> {"AUTHORIZED", "CANCELLED"}
    [] current = "AUTHORIZED" -> {"QUEUED", "CANCELLED"}
    [] current = "QUEUED"     -> {"EXECUTING"}
    [] current = "EXECUTING"  -> {"SUBMITTED", "CONFIRMING"}
    [] current = "SUBMITTED"  -> {"CONFIRMING"}
    [] current = "CONFIRMING" -> {"CONFIRMED"}
    [] current = "CONFIRMED"  -> {"VERIFIED"}
    [] current = "VERIFIED"   -> {"COMPLETED"}
    [] OTHER                  -> {}

\* Mutant of RecoveryTarget: recovery always goes back to the submission.
RecoveryTargetMut(status) ==
  IF status \in {"QUEUED", "EXECUTING", "SUBMITTED", "CONFIRMING", "CONFIRMED", "VERIFIED"}
    THEN "EXECUTING" ELSE None

\* The same-execution checkpoint that recovery resumes at.
RecoveryTarget(status) ==
  CASE status \in {"QUEUED", "EXECUTING"}     -> "EXECUTING"
    [] status \in {"SUBMITTED", "CONFIRMING"} -> "CONFIRMING"
    [] status = "CONFIRMED"                   -> "CONFIRMED"
    [] status = "VERIFIED"                    -> "VERIFIED"
    [] OTHER                                  -> None

ValidRecoveryTarget(from, target) == target # None /\ target = RecoveryTarget(from)

FailableStatuses == {"EXECUTING", "SUBMITTED", "CONFIRMING", "CONFIRMED"}

\* Failure.validate: a terminal failure names no target, a recoverable one a
\* target that is valid for the status it failed from.
ValidFailure(from, eligibility, target) ==
  \/ eligibility = "TERMINAL" /\ target = None
  \/ eligibility = "RECOVERABLE" /\ ValidRecoveryTarget(from, target)

Terminal(e) == \/ e.status \in {"COMPLETED", "CANCELLED"}
               \/ e.status = "FAILED" /\ e.eligibility = "TERMINAL"

\* Execution.Validate, which Restore applies to every row that is read.
Valid(e) ==
  /\ e.status = "FAILED" => /\ e.failedFrom \in Statuses \ {"FAILED"}
                            /\ ValidFailure(e.failedFrom, e.eligibility, e.failureTarget)
  /\ e.status = "RECOVERY_REQUIRED" => ValidRecoveryTarget(e.recoveryFrom, e.recoveryTarget)

Advance(e, status) == [e EXCEPT !.status = status, !.revision = @ + 1]

Fail(e, eligibility, target) ==
  Advance([e EXCEPT !.eligibility = eligibility, !.failureTarget = target,
                    !.failedFrom = e.status], "FAILED")

RequireRecovery(e) ==
  Advance([e EXCEPT !.recoveryFrom = e.status,
                    !.recoveryTarget = RecoveryTarget(e.status)], "RECOVERY_REQUIRED")

Recover(e) ==
  Advance([e EXCEPT !.recoveryFrom = e.failedFrom,
                    !.recoveryTarget = e.failureTarget], "RECOVERY_REQUIRED")

Resume(e) == Advance(e, e.recoveryTarget)

-----------------------------------------------------------------------------
(* The abstract machine: every change of an execution is one of these.     *)

VARIABLE execution

LifecycleInit == execution = New

TransitionStep == \E next \in ValidTransition(execution.status) :
                    execution' = Advance(execution, next)

FailStep == /\ execution.status \in FailableStatuses
            /\ \E eligibility \in Eligibilities, target \in Statuses \cup {None} :
                 /\ ValidFailure(execution.status, eligibility, target)
                 /\ execution' = Fail(execution, eligibility, target)

RequireRecoveryStep == /\ RecoveryTarget(execution.status) # None
                       /\ execution' = RequireRecovery(execution)

RecoverStep == /\ execution.status = "FAILED"
               /\ execution.eligibility = "RECOVERABLE"
               /\ execution' = Recover(execution)

ResumeStep == /\ execution.status = "RECOVERY_REQUIRED"
              /\ execution' = Resume(execution)

LifecycleNext == \/ TransitionStep
                 \/ FailStep
                 \/ RequireRecoveryStep
                 \/ RecoverStep
                 \/ ResumeStep

LifecycleSpec == LifecycleInit /\ [][LifecycleNext]_execution

-----------------------------------------------------------------------------
(* What the lifecycle promises.                                            *)

\* Every execution that is written can be read back: Restore accepts it.
Restorable == Valid(execution)

\* Where an execution stands: the checkpoint a failure or a recovery returns to,
\* otherwise its status.
Checkpoint(e) == IF e.status = "RECOVERY_REQUIRED" THEN e.recoveryTarget
                 ELSE IF e.status = "FAILED" /\ e.eligibility = "RECOVERABLE"
                        THEN e.failureTarget
                        ELSE e.status

Rank == [status \in Statuses \cup {None} |->
           CASE status = "CREATED"    -> 1
             [] status = "AUTHORIZED" -> 2
             [] status = "QUEUED"     -> 3
             [] status = "EXECUTING"  -> 4
             [] status = "SUBMITTED"  -> 5
             [] status = "CONFIRMING" -> 6
             [] status = "CONFIRMED"  -> 7
             [] status = "VERIFIED"   -> 8
             [] status \in {"COMPLETED", "FAILED", "CANCELLED"} -> 9
             [] OTHER -> 0]

\* Failure and recovery never take an execution back: one that has been
\* submitted is never submittable again, one confirmed is never unconfirmed.
NeverRegresses == [][Rank[Checkpoint(execution')] >= Rank[Checkpoint(execution)]]_execution
=============================================================================
