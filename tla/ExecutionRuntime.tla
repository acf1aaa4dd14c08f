------------------------- MODULE ExecutionRuntime -------------------------
(***************************************************************************)
(* The execution runtime (internal/execution/runtime) over its PostgreSQL  *)
(* store: worker processes that claim one execution under a fenced lease,  *)
(* advance it by one step per claim, call the provider adapter and the     *)
(* verifier, and persist what they observed in fenced transactions.        *)
(*                                                                         *)
(* One execution is modelled: rows of different executions share nothing.  *)
(* Every database transaction and every adapter or verifier call is one    *)
(* step, so workers interleave between them, crash between them, and keep  *)
(* running on a lease that has expired under them.                         *)
(*                                                                         *)
(* Time is abstracted to whether the lease is live and whether next_run_at *)
(* has passed; both change at any moment.                                  *)
(***************************************************************************)
EXTENDS ExecutionLifecycle, Sequences, FiniteSets

CONSTANTS Workers,          \* worker processes (distinct worker IDs)
          ExecuteOutcomes,  \* what adapter.Execute may answer
          StatusOutcomes,   \* what adapter.GetStatus may answer
          VerifyOutcomes,   \* what verifier.Verify may answer
          MaxClaims,        \* bound: claims taken in a behaviour
          MaxDisturbances   \* bound: crashes, lost leases, delaying answers ...

NoWorker == "NO_WORKER"

\* The adapter's answers: a Result with or without a reference, a typed
\* adapter error, an unclassified error, or a Result the runtime rejects.
AdapterOutcomes ==
  [kind : {"SUBMITTED", "CONFIRMING"}, ref : {TRUE}]
    \cup [kind : {"FAILED", "RECOVERY_REQUIRED"}, ref : BOOLEAN]
    \cup [kind : {"TRANSIENT", "PERMANENT", "AMBIGUOUS", "INVALID"}, ref : {FALSE}]

\* The verifier's answers.  PENDING carries ref when the reference it returns
\* differs from the one it was given and so has to be appended.
VerifierOutcomes ==
  [kind : {"PENDING"}, ref : BOOLEAN]
    \cup [kind : {"VERIFIED"}, ref : {TRUE}]
    \cup [kind : {"FAILED", "UNAVAILABLE", "AMBIGUOUS", "INVALID"}, ref : {FALSE}]

ASSUME WorkersAssumption == NoWorker \notin Workers
ASSUME OutcomesAssumption == /\ ExecuteOutcomes \subseteq AdapterOutcomes
                             /\ StatusOutcomes \subseteq AdapterOutcomes
                             /\ VerifyOutcomes \subseteq VerifierOutcomes
ASSUME BoundsAssumption == MaxClaims \in Nat /\ MaxDisturbances \in Nat

VARIABLES work,          \* the execution_runtime_work row
          evidence,      \* the verification_evidence rows
          audit,         \* the execution's audit_records, in commit order
          pc,            \* where each worker is in Worker.Run / processClaim
          claim,         \* each worker's ExecutionClaim
          result,        \* the adapter or verifier answer a worker holds
          executeCalls,  \* history: calls of adapter.Execute
          disturbances   \* history: disturbances so far

vars == <<execution, work, evidence, audit, pc, claim, result, executeCalls,
          disturbances>>

Works == [owner : Workers \cup {NoWorker}, token : Nat,
          lease : {"none", "live", "expired"}, started : BOOLEAN, due : BOOLEAN]

EvidenceRows == [version : Nat \ {0}, status : Statuses, ref : BOOLEAN, code : BOOLEAN]

AuditRecords == [previous : Statuses, new : Statuses]

Claims == [execution : Executions, token : Nat, started : BOOLEAN]

Locations == {"idle", "loading", "claimed", "execute", "update", "observe",
              "append", "confirm", "verify", "release", "releaseErr", "exited"}

NoResult == [kind |-> "NONE", ref |-> FALSE]

TypeOK ==
  /\ execution \in Executions
  /\ work \in Works
  /\ evidence \subseteq EvidenceRows
  /\ audit \in Seq(AuditRecords)
  /\ pc \in [Workers -> Locations]
  /\ claim \in [Workers -> Claims]
  /\ result \in [Workers -> AdapterOutcomes \cup VerifierOutcomes \cup {NoResult}]
  /\ executeCalls \in Nat
  /\ disturbances \in Nat

-----------------------------------------------------------------------------
(* Reading the store.                                                      *)

\* FindVerificationEvidence rebuilds every row with NewResult, and one row that
\* NewResult rejects fails the whole read: a failed or recovery-required result
\* must carry an error code, every other one a reference and no error code.
ReadableRow(row) == IF row.status \in {"FAILED", "RECOVERY_REQUIRED"}
                      THEN row.code
                      ELSE row.ref /\ ~row.code

EvidenceReadable == \A row \in evidence : ReadableRow(row)

HasReference == \E row \in evidence : row.ref

\* hasVerifiedEvidence: VERIFIED evidence at the execution's own revision.
HasVerifiedEvidence(e) ==
  \E row \in evidence : row.status = "VERIFIED" /\ row.version = e.revision

\* ValidateExecutionClaim: this worker owns the row, under this token, and the
\* lease has not expired on the database's clock.
ClaimHeld(w) == /\ work.owner = w
                /\ work.token = claim[w].token
                /\ work.lease = "live"

\* Mutants of WriteAllowed: only the revision is checked; nothing is checked.
WriteAllowedUnfenced(w) == execution.revision = claim[w].execution.revision
WriteAllowedAlways(w) == TRUE

\* A fenced write commits only under a held claim and against the revision the
\* worker computed the next value from (UpdateExecution's compare-and-set).
WriteAllowed(w) == ClaimHeld(w) /\ execution.revision = claim[w].execution.revision

\* Whatever delays the execution spends from one budget.
Disturb == disturbances < MaxDisturbances /\ disturbances' = disturbances + 1

\* Answers that leave the execution where it was or send it to recovery.
Delaying(answer) == answer.kind \in {"TRANSIENT", "AMBIGUOUS", "RECOVERY_REQUIRED",
                                     "INVALID", "PENDING", "UNAVAILABLE"}

Spend(answer) == IF Delaying(answer) THEN Disturb ELSE UNCHANGED disturbances

-----------------------------------------------------------------------------
Init ==
  /\ LifecycleInit
  /\ work = [owner |-> NoWorker, token |-> 0, lease |-> "none",
             started |-> FALSE, due |-> TRUE]
  /\ evidence = {}
  /\ audit = <<>>
  /\ pc = [w \in Workers |-> "idle"]
  /\ claim = [w \in Workers |-> [execution |-> New, token |-> 0, started |-> FALSE]]
  /\ result = [w \in Workers |-> NoResult]
  /\ executeCalls = 0
  /\ disturbances = 0

Goto(w, location) == pc' = [pc EXCEPT ![w] = location]

\* Mutant of ClaimNext: an expired lease is not taken over.
ClaimNextMut(w) ==
  /\ pc[w] = "idle"
  /\ work.token < MaxClaims
  /\ work.due
  /\ work.lease = "none"
  /\ ~Terminal(execution)
  /\ work' = [work EXCEPT !.owner = w, !.token = @ + 1, !.lease = "live"]
  /\ claim' = [claim EXCEPT ![w].token = work.token + 1, ![w].started = work.started]
  /\ Goto(w, "loading")
  /\ UNCHANGED <<execution, evidence, audit, result, executeCalls, disturbances>>

\* ClaimNextExecutionWork, the claiming UPDATE: a due row whose lease is absent
\* or expired and whose execution is not terminal.
ClaimNext(w) ==
  /\ pc[w] = "idle"
  /\ work.token < MaxClaims
  /\ work.due
  /\ work.lease # "live"
  /\ ~Terminal(execution)
  /\ work' = [work EXCEPT !.owner = w, !.token = @ + 1, !.lease = "live"]
  /\ claim' = [claim EXCEPT ![w].token = work.token + 1, ![w].started = work.started]
  /\ Goto(w, "loading")
  /\ UNCHANGED <<execution, evidence, audit, result, executeCalls, disturbances>>

\* ... then the execution is read and the claim validated again; a claim that
\* changed meanwhile is an error and ends the worker's loop.
LoadClaim(w) ==
  /\ pc[w] = "loading"
  /\ IF ClaimHeld(w)
       THEN /\ claim' = [claim EXCEPT ![w].execution = execution]
            /\ Goto(w, "claimed")
       ELSE /\ Goto(w, "exited")
            /\ UNCHANGED claim
  /\ UNCHANGED <<execution, work, evidence, audit, result, executeCalls, disturbances>>

-----------------------------------------------------------------------------
(* Transactions.  A commit whose acknowledgement is lost leaves the write  *)
(* in place and the worker with an error.                                  *)

Acknowledged(w, after) == \/ Goto(w, after) /\ UNCHANGED disturbances
                          \/ Goto(w, "releaseErr") /\ Disturb

\* Mutant of ObservationRow: it names the revision that was claimed.
ObservationRowMut(next, ref) ==
  [version |-> next.revision - 1, status |-> next.status, ref |-> ref, code |-> FALSE]

\* The row PersistClaimedObservation writes.  It does not pass the observation's
\* error code to the insert, so the column takes its default ''.
ObservationRow(next, ref) ==
  [version |-> next.revision, status |-> next.status, ref |-> ref, code |-> FALSE]

\* The row PersistClaimedEvidence writes.
EvidenceRow(next) ==
  [version |-> next.revision, status |-> next.status, ref |-> TRUE, code |-> FALSE]

\* One transaction of the runtime repository: validate the claim, update the
\* execution, append the evidence rows, append the audit record; or conflict.
Persist(w, next, rows, after) ==
  /\ \/ /\ WriteAllowed(w)
        /\ execution' = next
        /\ evidence' = evidence \cup rows
        /\ audit' = Append(audit, [previous |-> claim[w].execution.status,
                                   new |-> next.status])
        /\ claim' = [claim EXCEPT ![w].execution = next]
        /\ Acknowledged(w, after)
     \/ /\ ~WriteAllowed(w)
        /\ Goto(w, "releaseErr")
        /\ UNCHANGED <<execution, evidence, audit, claim, disturbances>>
  /\ UNCHANGED <<work, result, executeCalls>>

-----------------------------------------------------------------------------
(* processClaim: one step of the lifecycle per claim.                      *)

\* The transitions that need no call: CREATED, AUTHORIZED, QUEUED, SUBMITTED.
PlainNext == [status \in {"CREATED", "AUTHORIZED", "QUEUED", "SUBMITTED"} |->
                CASE status = "CREATED"    -> "AUTHORIZED"
                  [] status = "AUTHORIZED" -> "QUEUED"
                  [] status = "QUEUED"     -> "EXECUTING"
                  [] status = "SUBMITTED"  -> "CONFIRMING"]

ProcessPlain(w) ==
  LET e == claim[w].execution IN
  /\ pc[w] = "claimed"
  /\ e.status \in DOMAIN PlainNext
  /\ Persist(w, Advance(e, PlainNext[e.status]), {}, "release")

\* VERIFIED completes only when the evidence can be read and names this revision.
ProcessVerified(w) ==
  LET e == claim[w].execution IN
  /\ pc[w] = "claimed"
  /\ e.status = "VERIFIED"
  /\ IF EvidenceReadable /\ HasVerifiedEvidence(e)
       THEN Persist(w, Advance(e, "COMPLETED"), {}, "release")
       ELSE /\ Goto(w, "releaseErr")
            /\ UNCHANGED <<execution, work, evidence, audit, claim, result,
                           executeCalls, disturbances>>

\* A recoverable failure enters recovery (a terminal one is never claimed).
ProcessFailed(w) ==
  LET e == claim[w].execution IN
  /\ pc[w] = "claimed"
  /\ e.status = "FAILED"
  /\ e.eligibility = "RECOVERABLE"
  /\ Persist(w, Recover(e), {}, "release")

ProcessRecovery(w) ==
  LET e == claim[w].execution IN
  /\ pc[w] = "claimed"
  /\ e.status = "RECOVERY_REQUIRED"
  /\ Persist(w, Resume(e), {}, "release")

-----------------------------------------------------------------------------
(* submitOrReconcile.                                                      *)

\* Mutant of MarkAllowed: the update has no condition.
MarkAllowedMut(w) == TRUE

\* MarkSubmissionStarted: the conditional update of the submission marker.
MarkAllowed(w) == ClaimHeld(w) /\ ~work.started

MarkSubmissionStarted(w) ==
  /\ pc[w] = "claimed"
  /\ claim[w].execution.status = "EXECUTING"
  /\ ~claim[w].started
  /\ IF MarkAllowed(w)
       THEN /\ work' = [work EXCEPT !.started = TRUE]
            /\ claim' = [claim EXCEPT ![w].started = TRUE]
            /\ Acknowledged(w, "execute")
       ELSE /\ Goto(w, "update")
            /\ UNCHANGED <<work, claim, disturbances>>
  /\ UNCHANGED <<execution, evidence, audit, result, executeCalls>>

\* SUBMISSION_ALREADY_STARTED and VERIFICATION_OUTCOME_AMBIGUOUS: recovery
\* without an observation.
PersistRecovery(w) ==
  /\ pc[w] = "update"
  /\ Persist(w, RequireRecovery(claim[w].execution), {}, "release")

\* Answers after which the worker writes nothing and returns an error.
AfterAdapter(answer) == IF answer.kind = "INVALID" THEN "releaseErr" ELSE "observe"

AdapterExecute(w, answer) ==
  /\ pc[w] = "execute"
  /\ executeCalls' = executeCalls + 1
  /\ result' = [result EXCEPT ![w] = answer]
  /\ Goto(w, AfterAdapter(answer))
  /\ Spend(answer)
  /\ UNCHANGED <<execution, work, evidence, audit, claim>>

AdapterGetStatus(w, answer) ==
  /\ pc[w] = "claimed"
  /\ claim[w].execution.status = "EXECUTING"
  /\ claim[w].started
  /\ result' = [result EXCEPT ![w] = answer]
  /\ Goto(w, AfterAdapter(answer))
  /\ Spend(answer)
  /\ UNCHANGED <<execution, work, evidence, audit, claim, executeCalls>>

\* Mutant of ObservedNext: a transient failure resumes past the submission.
ObservedNextMut(e, answer) ==
  CASE answer.kind \in {"SUBMITTED", "CONFIRMING"}        -> Advance(e, answer.kind)
    [] answer.kind = "TRANSIENT"                          -> Fail(e, "RECOVERABLE", "CONFIRMING")
    [] answer.kind \in {"PERMANENT", "FAILED"}            -> Fail(e, "TERMINAL", None)
    [] answer.kind \in {"AMBIGUOUS", "RECOVERY_REQUIRED"} -> RequireRecovery(e)

\* The value an observation moves the execution to.
ObservedNext(e, answer) ==
  CASE answer.kind \in {"SUBMITTED", "CONFIRMING"}        -> Advance(e, answer.kind)
    [] answer.kind = "TRANSIENT"                          -> Fail(e, "RECOVERABLE", "EXECUTING")
    [] answer.kind \in {"PERMANENT", "FAILED"}            -> Fail(e, "TERMINAL", None)
    [] answer.kind \in {"AMBIGUOUS", "RECOVERY_REQUIRED"} -> RequireRecovery(e)

\* PersistClaimedObservation: the lifecycle step and the observation together.
PersistObservation(w) ==
  LET next == ObservedNext(claim[w].execution, result[w]) IN
  /\ pc[w] = "observe"
  /\ Persist(w, next, {ObservationRow(next, result[w].ref)}, "release")

-----------------------------------------------------------------------------
(* verify.                                                                 *)

AfterVerify(status, answer) ==
  CASE answer.kind = "UNAVAILABLE"                          -> "release"
    [] answer.kind = "INVALID"                              -> "releaseErr"
    [] answer.kind = "AMBIGUOUS"                            -> "update"
    [] answer.kind = "PENDING" /\ answer.ref                -> "append"
    [] answer.kind = "PENDING" /\ ~answer.ref               -> "release"
    [] answer.kind = "FAILED"                               -> "observe"
    [] answer.kind = "VERIFIED" /\ status = "CONFIRMING"    -> "confirm"
    [] answer.kind = "VERIFIED" /\ status = "CONFIRMED"     -> "verify"

\* latestReference, then the verifier.
Verify(w, answer) ==
  LET e == claim[w].execution IN
  /\ pc[w] = "claimed"
  /\ e.status \in {"CONFIRMING", "CONFIRMED"}
  /\ EvidenceReadable /\ HasReference
  /\ result' = [result EXCEPT ![w] = answer]
  /\ Goto(w, AfterVerify(e.status, answer))
  /\ Spend(answer)
  /\ UNCHANGED <<execution, work, evidence, audit, claim, executeCalls>>

\* latestReference fails: unreadable evidence, or no reference in it.
VerifyUnreadable(w) ==
  /\ pc[w] = "claimed"
  /\ claim[w].execution.status \in {"CONFIRMING", "CONFIRMED"}
  /\ ~(EvidenceReadable /\ HasReference)
  /\ Goto(w, "releaseErr")
  /\ UNCHANGED <<execution, work, evidence, audit, claim, result, executeCalls,
                 disturbances>>

\* AppendVerificationEvidence: not fenced, but it inserts only against the
\* execution's current revision and status.
AppendMatches(w) == /\ execution.revision = claim[w].execution.revision
                    /\ execution.status = claim[w].execution.status

AppendPending(w) ==
  LET e == claim[w].execution
      row == [version |-> e.revision, status |-> e.status, ref |-> TRUE, code |-> FALSE]
  IN
  /\ pc[w] = "append"
  /\ IF AppendMatches(w)
       THEN evidence' = evidence \cup {row} /\ Acknowledged(w, "release")
       ELSE UNCHANGED <<evidence, disturbances>> /\ Goto(w, "releaseErr")
  /\ UNCHANGED <<execution, work, audit, claim, result, executeCalls>>

\* The first of the two transactions that record a verification.
PersistConfirmed(w) ==
  /\ pc[w] = "confirm"
  /\ Persist(w, Advance(claim[w].execution, "CONFIRMED"), {}, "verify")

\* PersistClaimedEvidence: VERIFIED and its evidence together.
PersistVerified(w) ==
  LET next == Advance(claim[w].execution, "VERIFIED") IN
  /\ pc[w] = "verify"
  /\ Persist(w, next, {EvidenceRow(next)}, "release")

-----------------------------------------------------------------------------
(* Leaving a claim, time, and what goes wrong.                             *)

\* ReleaseExecutionWork checks owner and token, not the lease's expiry.  An
\* error, of the processing or of the release, ends the worker's loop.
Release(w) ==
  /\ pc[w] \in {"release", "releaseErr"}
  /\ IF work.owner = w /\ work.token = claim[w].token
       THEN /\ work' = [work EXCEPT !.owner = NoWorker, !.lease = "none", !.due = FALSE]
            /\ Goto(w, IF pc[w] = "release" THEN "idle" ELSE "exited")
       ELSE /\ Goto(w, "exited")
            /\ UNCHANGED work
  /\ UNCHANGED <<execution, evidence, audit, claim, result, executeCalls, disturbances>>

\* next_run_at passes.
RetryIntervalElapses ==
  /\ ~work.due
  /\ work' = [work EXCEPT !.due = TRUE]
  /\ UNCHANGED <<execution, evidence, audit, pc, claim, result, executeCalls, disturbances>>

\* The worker is between its claim and its release.
Working(w) == pc[w] \notin {"idle", "exited"} /\ work.token = claim[w].token

\* lease_expires_at passes: under a worker that still runs, or after it crashed.
LeaseExpires ==
  /\ work.lease = "live"
  /\ IF \E w \in Workers : work.owner = w /\ Working(w)
       THEN Disturb
       ELSE UNCHANGED disturbances
  /\ work' = [work EXCEPT !.lease = "expired"]
  /\ UNCHANGED <<execution, evidence, audit, pc, claim, result, executeCalls>>

\* A database error or an aborted serializable transaction, or a transition
\* refused because the worker's clock is behind updatedAt: nothing is written.
AttemptFails(w) ==
  /\ pc[w] \in {"claimed", "update", "observe", "append", "confirm", "verify"}
  /\ Disturb
  /\ Goto(w, "releaseErr")
  /\ UNCHANGED <<execution, work, evidence, audit, claim, result, executeCalls>>

\* The worker process dies, or ends on an error with its claim unreleased; what
\* it held in memory is gone.
Crash(w) ==
  /\ pc[w] \notin {"idle", "exited"}
  /\ Disturb
  /\ Goto(w, "exited")
  /\ UNCHANGED <<execution, work, evidence, audit, claim, result, executeCalls>>

\* The process supervisor (external) starts the worker again.
Restart(w) ==
  /\ pc[w] = "exited"
  /\ Goto(w, "idle")
  /\ UNCHANGED <<execution, work, evidence, audit, claim, result, executeCalls, disturbances>>

\* The steps of a worker that the code takes by itself.
Step(w) ==
  \/ ClaimNext(w) \/ LoadClaim(w)
  \/ ProcessPlain(w) \/ ProcessVerified(w) \/ ProcessFailed(w) \/ ProcessRecovery(w)
  \/ MarkSubmissionStarted(w) \/ PersistRecovery(w) \/ PersistObservation(w)
  \/ VerifyUnreadable(w) \/ AppendPending(w) \/ PersistConfirmed(w) \/ PersistVerified(w)
  \/ Release(w)

\* The steps in which the adapter or the verifier answers.
Answer(w) ==
  \/ \E answer \in ExecuteOutcomes : AdapterExecute(w, answer)
  \/ \E answer \in StatusOutcomes : AdapterGetStatus(w, answer)
  \/ \E answer \in VerifyOutcomes : Verify(w, answer)

Next ==
  \/ \E w \in Workers : Step(w) \/ Answer(w) \/ AttemptFails(w) \/ Crash(w) \/ Restart(w)
  \/ RetryIntervalElapses
  \/ LeaseExpires

Spec == Init /\ [][Next]_vars

\* A worker that runs keeps running; the supervisor restarts one that ended;
\* next_run_at and lease_expires_at pass.
FairSpec == /\ Spec
            /\ \A w \in Workers : WF_vars(Step(w) \/ Answer(w)) /\ WF_vars(Restart(w))
            /\ WF_vars(RetryIntervalElapses)
            /\ WF_vars(LeaseExpires)

-----------------------------------------------------------------------------
(* Safety.                                                                 *)

\* The adapter is asked to submit at most once in the life of an execution,
\* whatever crashes, lease expiries and retries happen: MarkSubmissionStarted
\* commits before Execute and a marked execution only reconciles.
SubmittedAtMostOnce == executeCalls <= 1

\* Between loading a claim and writing under it, a worker whose claim is still
\* held works on the current row: nobody else can have written since it read.
BeforeWrite == {"claimed", "execute", "update", "observe", "append", "confirm", "verify"}

LiveClaimIsCurrent ==
  \A w \in Workers :
    pc[w] \in BeforeWrite /\ ClaimHeld(w) => claim[w].execution = execution

\* An execution row is past EXECUTING only when the submission marker is set: a
\* status that tells of the provider never precedes the marker.
BeforeProvider == {"CREATED", "AUTHORIZED", "QUEUED", "EXECUTING"}

MarkedBeforeProviderStatus == ~work.started => execution.status \in BeforeProvider

\* The audit trail is the execution's history: one record per revision, each
\* starting in the state the one before it ended in, the last one the row's.
AuditTrail ==
  /\ Len(audit) = execution.revision - 1
  /\ \A i \in 1 .. Len(audit) :
       audit[i].previous = IF i = 1 THEN "CREATED" ELSE audit[i - 1].new
  /\ execution.status = IF audit = <<>> THEN "CREATED" ELSE audit[Len(audit)].new

\* Evidence describes revisions the execution really had, and every revision
\* that is VERIFIED has VERIFIED evidence (persisted in one transaction).
EvidenceMatchesHistory ==
  /\ \A row \in evidence :
       /\ row.version - 1 \in 1 .. Len(audit)
       /\ audit[row.version - 1].new = row.status
  /\ \A i \in 1 .. Len(audit) : audit[i].new = "VERIFIED" =>
       \E row \in evidence : row.version = i + 1 /\ row.status = "VERIFIED"

\* A settled execution never changes again, and no evidence is added to it, not
\* even by the unfenced append of a worker that was verifying it meanwhile.
TerminalIsFinal == [][Terminal(execution) => UNCHANGED <<execution, evidence>>]_vars

-----------------------------------------------------------------------------
(* Liveness.                                                               *)

\* An execution settles once disturbances stop, provided its evidence can still
\* be read: claims of crashed workers are taken over after the lease expires.
Settles == <>(Terminal(execution) \/ ~EvidenceReadable)

\* A reference that was persisted can be read back, so that the execution
\* stays reconcilable (LatestReference, latestReference).
ReferenceStaysReadable == HasReference => EvidenceReadable
=============================================================================
