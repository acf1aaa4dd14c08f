---------------------- MODULE ExecutionRuntimeProofs ----------------------
(***************************************************************************)
(* Proofs about the circuit breaker that stands before every provider call *)
(* (CircuitBreaker), about the lifecycle of one execution, and about the   *)
(* execution runtime that implements it: for every set of callers and      *)
(* workers, every set of answers of the adapter and the verifier, and      *)
(* every bound. The breaker and the runtime have no state in common; each  *)
(* is proved from its own specification.                                   *)
(*                                                                         *)
(* The breaker: StateMatchesCounters is inductive once the probes in       *)
(* flight are known to be finitely many; the callers need not be.          *)
(*                                                                         *)
(* The runtime: the types are not inductive alone: that a recovery resumes *)
(* at a status needs the claimed copies to be valid, and what a worker     *)
(* writes depends on where it is. Typed collects these facts. On top of it *)
(* come the fence (LiveClaimIsCurrent), the submission marker, and the     *)
(* refinement.                                                             *)
(***************************************************************************)
EXTENDS ExecutionRuntime, CircuitBreaker, FiniteSetTheorems, TLAPS

-----------------------------------------------------------------------------
(* The circuit breaker.                                                    *)

BreakerInv == BreakerTypeOK /\ StateMatchesCounters /\ IsFiniteSet(Probes)

\* The breaker is not half-open: it has no probe in flight.
LEMMA NoProbes ==
  ASSUME BreakerInv, state # "HALF_OPEN"
  PROVE  halfOpenProbes = 0 /\ Probes = {}
<1>1. halfOpenProbes = 0
  BY DEF BreakerInv, BreakerTypeOK, StateMatchesCounters
<1>2. Cardinality(Probes) = 0
  <2>1. Cardinality(Probes) \in Nat /\ Cardinality(Probes) <= 0
    BY <1>1, FS_CardinalityType DEF BreakerInv, StateMatchesCounters
  <2> QED BY <2>1
<1> QED BY <1>1, <1>2, FS_EmptySet DEF BreakerInv

\* Letting a call through as a probe adds the caller to the probes.
LEMMA AdmitProbe ==
  ASSUME BreakerInv, NEW c \in Callers, NEW kind \in Kinds(client), Admit(c, kind, "probe"),
         call[c] = NoCall
  PROVE  /\ IsFiniteSet(Probes')
         /\ Cardinality(Probes') = Cardinality(Probes) + 1
         /\ Cardinality(Probes) \in Nat
<1>1. call'[c].admitted = "probe" /\ \A d \in Callers \ {c} : call'[d] = call[d]
  BY DEF BreakerInv, BreakerTypeOK, Admit
<1>2. Probes' = Probes \cup {c} /\ c \notin Probes
  BY <1>1 DEF Probes, NoCall
<1>3. IsFiniteSet(Probes)
  BY DEF BreakerInv
<1> HIDE DEF Probes
<1> QED BY <1>2, <1>3, FS_AddElement, FS_CardinalityType

\* A call that returns leaves at most the probes there were.
LEMMA ReturnShrinks ==
  ASSUME BreakerInv, NEW c \in Callers, Return(c)
  PROVE  /\ IsFiniteSet(Probes') /\ Cardinality(Probes') <= Cardinality(Probes)
         /\ Cardinality(Probes) \in Nat /\ Cardinality(Probes') \in Nat
<1>1. Probes' \in SUBSET Probes
  BY DEF BreakerInv, BreakerTypeOK, Return, Probes, NoCall
<1>2. IsFiniteSet(Probes)
  BY DEF BreakerInv
<1> QED BY <1>1, <1>2, FS_Subset, FS_CardinalityType

\* After a call that ends the half-open period there is no probe of it left.
LEMMA PeriodEnds ==
  ASSUME BreakerInv, NEW c \in Callers, ReturnEndingPeriod(c)
  PROVE  Probes' = {} /\ IsFiniteSet(Probes') /\ Cardinality(Probes') = 0
<1>1. Probes' = {}
  <2> SUFFICES ASSUME NEW d \in Callers PROVE call'[d].admitted # "probe"
    BY DEF Probes
  <2>1. call'[d] = IF d = c THEN NoCall
                   ELSE IF call[d].admitted = "probe" THEN [call[d] EXCEPT !.admitted = "stale"]
                   ELSE call[d]
    BY DEF ReturnEndingPeriod
  <2>2. call[d] \in InFlight \/ call[d] = NoCall
    BY DEF BreakerInv, BreakerTypeOK
  <2>3. [call[d] EXCEPT !.admitted = "stale"].admitted = "stale" \/ call[d] = NoCall
    BY <2>2 DEF InFlight
  <2> QED BY <2>1, <2>3 DEF NoCall
<1> QED BY <1>1, FS_EmptySet

-----------------------------------------------------------------------------

\* Where the calls stay typed.
LEMMA CallType ==
  ASSUME BreakerTypeOK, client' = client, NEW c \in Callers,
         \/ \E kind \in Kinds(client), a \in {"closed", "probe"} : Admit(c, kind, a)
         \/ Return(c)
         \/ ReturnEndingPeriod(c)
  PROVE  call' \in [Callers -> InFlight \cup {NoCall}]' /\ client' \in Clients
<1>1. CASE \E kind \in Kinds(client), a \in {"closed", "probe"} : Admit(c, kind, a)
  <2>1. PICK kind \in Kinds(client), a \in {"closed", "probe"} : Admit(c, kind, a)
    BY <1>1
  <2>2. [kind |-> kind, admitted |-> a] \in InFlight
    BY DEF InFlight
  <2> QED BY <2>1, <2>2 DEF BreakerTypeOK, Admit, InFlight
<1>2. CASE Return(c)
  BY <1>2 DEF BreakerTypeOK, Return, InFlight
<1>3. CASE ReturnEndingPeriod(c)
  <2>1. ASSUME NEW d \in Callers, call[d] \in InFlight
        PROVE  [call[d] EXCEPT !.admitted = "stale"] \in InFlight
    BY <2>1 DEF InFlight
  <2>2. NoCall.admitted # "probe"
    BY DEF NoCall
  <2>3. InFlight' = InFlight
    BY DEF InFlight
  <2>4. \A d \in Callers : call[d] \in InFlight \/ call[d] = NoCall
    BY DEF BreakerTypeOK
  <2> HIDE DEF NoCall, InFlight
  <2> QED BY <1>3, <2>1, <2>2, <2>3, <2>4 DEF BreakerTypeOK, ReturnEndingPeriod
<1> QED BY <1>1, <1>2, <1>3 DEF BreakerTypeOK

\* BreakerInv holds initially.
LEMMA BreakerInitInv == BreakerInit => BreakerInv
<1> SUFFICES ASSUME BreakerInit PROVE BreakerInv
  OBVIOUS
<1>1. BreakerTypeOK
  <2>1. cooled \in BOOLEAN /\ call \in [Callers -> InFlight \cup {NoCall}]
    BY Zenon DEF BreakerInit
  <2> QED BY <2>1, ConfigAssumption DEF BreakerInit, BreakerTypeOK
<1>2. Probes = {}
  BY DEF BreakerInit, Probes, NoCall
<1> QED BY <1>1, <1>2, FS_EmptySet, ConfigAssumption
    DEF BreakerInit, BreakerInv, StateMatchesCounters

\* Allow: only the number of probes and HALF_OPEN change.
LEMMA AllowKeeps ==
  ASSUME BreakerInv, NEW c \in Callers, NEW kind \in Kinds(client), Allow(c, kind), client' = client
  PROVE  BreakerInv'
<1> USE ConfigAssumption
<1>1. CASE AllowClosed(c, kind)
  <2>1. Probes' = Probes
    BY <1>1 DEF AllowClosed, Admit, Allow, BreakerInv, BreakerTypeOK, Probes, NoCall
  <2>2. BreakerTypeOK'
    BY <1>1, CallType DEF AllowClosed, Allow, BreakerInv, BreakerTypeOK
  <2> QED BY <1>1, <2>1, <2>2 DEF AllowClosed, Allow, BreakerInv, StateMatchesCounters
<1>2. CASE AllowOpen(c, kind)
  <2>1. Cardinality(Probes) = 0
    BY <1>2, NoProbes, FS_EmptySet DEF AllowOpen
  <2>2. BreakerTypeOK'
    BY <1>2, CallType DEF AllowOpen, Allow, BreakerInv, BreakerTypeOK
  <2>3. IsFiniteSet(Probes') /\ Cardinality(Probes') = 1
    BY <1>2, <2>1, AdmitProbe DEF AllowOpen, Allow
  <2> QED BY <1>2, <2>2, <2>3 DEF AllowOpen, Allow, BreakerInv, StateMatchesCounters
<1>3. CASE AllowHalfOpen(c, kind)
  <2>1. BreakerTypeOK'
    BY <1>3, CallType DEF AllowHalfOpen, Allow, BreakerInv, BreakerTypeOK
  <2>2. IsFiniteSet(Probes') /\ Cardinality(Probes') = Cardinality(Probes) + 1
        /\ Cardinality(Probes) \in Nat
    BY <1>3, AdmitProbe DEF AllowHalfOpen, Allow
  <2> QED BY <1>3, <2>1, <2>2
      DEF AllowHalfOpen, Allow, BreakerInv, BreakerTypeOK, StateMatchesCounters
<1> QED BY <1>1, <1>2, <1>3 DEF Allow

\* A call that ends, whatever its client records.
LEMMA EndKeeps ==
  ASSUME BreakerInv, NEW c \in Callers, NEW ending \in Endings, End(c, ending), client' = client
  PROVE  BreakerInv'
<1> USE ConfigAssumption
<1>0. BreakerTypeOK
  BY DEF BreakerInv
<1>1. CASE RecordSuccess(c)
  <2>1. BreakerTypeOK'
    <3>1. cooled' \in BOOLEAN /\ call' \in [Callers -> InFlight \cup {NoCall}]'
          /\ client' \in Clients
      BY Zenon, <1>0, <1>1, CallType DEF RecordSuccess
    <3> QED BY <1>1, <3>1 DEF RecordSuccess, BreakerTypeOK
  <2> QED BY <1>1, <2>1, PeriodEnds DEF RecordSuccess, BreakerInv, StateMatchesCounters
<1>2. CASE RecordFailure(c) /\ OpenLocked(c)
  <2>1. BreakerTypeOK'
    <3>1. cooled' \in BOOLEAN /\ call' \in [Callers -> InFlight \cup {NoCall}]'
          /\ client' \in Clients
      BY Zenon, <1>0, <1>2, CallType DEF OpenLocked
    <3> QED BY <1>0, <1>2, <3>1 DEF RecordFailure, Saturated, OpenLocked, BreakerTypeOK
  <2>2. ~(consecutiveFails' < FailureThreshold)
    BY <1>2 DEF RecordFailure, Saturated, OpenLocked, StayPut, BreakerInv, BreakerTypeOK,
                StateMatchesCounters
  <2> QED BY <1>2, <2>1, <2>2, PeriodEnds DEF OpenLocked, BreakerInv, StateMatchesCounters
<1>3. CASE StayPut(c) /\ (RecordFailure(c) \/ UNCHANGED consecutiveFails)
  <2>1. BreakerTypeOK'
    BY <1>3, CallType DEF RecordFailure, Saturated, StayPut, BreakerInv, BreakerTypeOK
  <2>2. state' = "CLOSED" <=> consecutiveFails' < FailureThreshold
    BY <1>3 DEF RecordFailure, Saturated, OpenLocked, StayPut, BreakerInv, BreakerTypeOK,
                StateMatchesCounters
  <2> QED BY <1>3, <2>1, <2>2, ReturnShrinks
      DEF StayPut, BreakerInv, BreakerTypeOK, StateMatchesCounters
<1> QED BY <1>1, <1>2, <1>3 DEF End, RecordFailure

\* Every step keeps BreakerInv.
LEMMA BreakerNextInv == BreakerInv /\ [BreakerNext]_breakerVars => BreakerInv'
<1> SUFFICES ASSUME BreakerInv, [BreakerNext]_breakerVars PROVE BreakerInv'
  OBVIOUS
<1>1. CASE AllowAny /\ UNCHANGED client
  BY <1>1, AllowKeeps DEF AllowAny
<1>2. CASE (\E c \in Callers, ending \in Endings : End(c, ending)) /\ UNCHANGED client
  BY <1>2, EndKeeps
<1>3. CASE OpenDurationPasses /\ UNCHANGED client
  BY <1>3 DEF OpenDurationPasses, BreakerInv, BreakerTypeOK, InFlight, StateMatchesCounters, Probes
<1>4. CASE UNCHANGED breakerVars
  BY <1>4 DEF breakerVars, BreakerInv, BreakerTypeOK, InFlight, StateMatchesCounters, Probes
<1> QED BY <1>1, <1>2, <1>3, <1>4 DEF BreakerNext

\* The breaker is CLOSED exactly while the consecutive failures are below the
\* threshold and HALF_OPEN exactly while between one and HalfOpenMaxProbes probes
\* were let through, with results of earlier calls recorded at any time (Allow,
\* RecordSuccess, RecordFailure).
THEOREM BreakerConsistent == BreakerSpec => []StateMatchesCounters
<1>1. BreakerInv => StateMatchesCounters
  BY DEF BreakerInv
<1> QED BY <1>1, BreakerInitInv, BreakerNextInv, PTL DEF BreakerSpec

\* The variables of the breaker keep their types.
THEOREM BreakerTyped == BreakerSpec => []BreakerTypeOK
<1>1. BreakerInv => BreakerTypeOK
  BY DEF BreakerInv
<1> QED BY <1>1, BreakerInitInv, BreakerNextInv, PTL DEF BreakerSpec

-----------------------------------------------------------------------------
(* The abstract lifecycle of one execution.                                *)

\* From here on most steps are first-order; the ones that calculate say so.
USE Zenon

LifecycleInv == execution \in Executions /\ Restorable

\* recoveryTarget is a status, or absent where recovery is not allowed.
LEMMA RecoveryTargetType ==
  ASSUME NEW status \in Statuses
  PROVE  /\ RecoveryTarget(status) \in Statuses \cup {None}
         /\ status \in FailableStatuses => RecoveryTarget(status) # None
BY DEF RecoveryTarget, Statuses, None, FailableStatuses

\* advance: the successor carries the given status and the next revision.
LEMMA AdvanceType ==
  ASSUME NEW e \in Executions, NEW status \in Statuses
  PROVE  /\ Advance(e, status) \in Executions
         /\ Advance(e, status).status = status
         /\ Advance(e, status).revision = e.revision + 1
         /\ Advance(e, status).eligibility = e.eligibility
         /\ Advance(e, status).failureTarget = e.failureTarget
         /\ Advance(e, status).failedFrom = e.failedFrom
         /\ Advance(e, status).recoveryFrom = e.recoveryFrom
         /\ Advance(e, status).recoveryTarget = e.recoveryTarget
         /\ status \notin {"FAILED", "RECOVERY_REQUIRED"} => Valid(Advance(e, status))
<1> DEFINE f == [e EXCEPT !.status = status, !.revision = e.revision + 1]
<1>0. e.revision + 1 \in Nat \ {0}
  <2>1. e.revision \in Nat
    BY DEF Executions
  <2> QED BY SMT, <2>1
<1>1. f \in Executions
  BY <1>0 DEF Executions
<1>2. /\ f.status = status /\ f.revision = e.revision + 1
      /\ f.eligibility = e.eligibility /\ f.failureTarget = e.failureTarget
      /\ f.failedFrom = e.failedFrom /\ f.recoveryFrom = e.recoveryFrom
      /\ f.recoveryTarget = e.recoveryTarget
  BY DEF Executions
<1> QED BY <1>1, <1>2 DEF Advance, Valid

\* Fail: the successor is a well-formed FAILED execution.
LEMMA FailType ==
  ASSUME NEW e \in Executions, e.status \in FailableStatuses,
         NEW eligibility \in Eligibilities, NEW target \in Statuses \cup {None},
         ValidFailure(e.status, eligibility, target)
  PROVE  /\ Fail(e, eligibility, target) \in Executions
         /\ Valid(Fail(e, eligibility, target))
         /\ Fail(e, eligibility, target).status = "FAILED"
         /\ Fail(e, eligibility, target).eligibility = eligibility
         /\ Fail(e, eligibility, target).failureTarget = target
         /\ Fail(e, eligibility, target).recoveryTarget = e.recoveryTarget
         /\ Fail(e, eligibility, target).revision = e.revision + 1
<1> DEFINE f == [e EXCEPT !.eligibility = eligibility, !.failureTarget = target,
                          !.failedFrom = e.status]
<1>1. /\ f \in Executions
      /\ f.failedFrom = e.status /\ f.eligibility = eligibility
      /\ f.failureTarget = target /\ f.revision = e.revision
      /\ f.recoveryTarget = e.recoveryTarget
  BY DEF Executions
<1>2. /\ Advance(f, "FAILED") \in Executions
      /\ Advance(f, "FAILED").failedFrom = e.status
      /\ Advance(f, "FAILED").eligibility = eligibility
      /\ Advance(f, "FAILED").failureTarget = target
      /\ Advance(f, "FAILED").recoveryTarget = e.recoveryTarget
      /\ Advance(f, "FAILED").status = "FAILED"
      /\ Advance(f, "FAILED").revision = e.revision + 1
  <2> HIDE DEF f
  <2> QED BY SMT, <1>1, AdvanceType DEF Statuses
<1>3. e.status \in Statuses \ {"FAILED"}
  BY DEF FailableStatuses, Statuses
<1> QED BY <1>2, <1>3 DEF Fail, Valid

\* RequireRecovery: the successor resumes at the checkpoint of its status.
LEMMA RequireRecoveryType ==
  ASSUME NEW e \in Executions, RecoveryTarget(e.status) # None
  PROVE  /\ RequireRecovery(e) \in Executions
         /\ Valid(RequireRecovery(e))
         /\ RequireRecovery(e).status = "RECOVERY_REQUIRED"
         /\ RequireRecovery(e).recoveryTarget = RecoveryTarget(e.status)
         /\ RequireRecovery(e).failureTarget = e.failureTarget
         /\ RequireRecovery(e).revision = e.revision + 1
<1> DEFINE f == [e EXCEPT !.recoveryFrom = e.status,
                          !.recoveryTarget = RecoveryTarget(e.status)]
<1>0. e.status \in Statuses /\ RecoveryTarget(e.status) \in Statuses \cup {None}
  BY RecoveryTargetType DEF Executions
<1>1. /\ f \in Executions
      /\ f.recoveryFrom = e.status /\ f.recoveryTarget = RecoveryTarget(e.status)
      /\ f.revision = e.revision /\ f.failureTarget = e.failureTarget
  BY <1>0 DEF Executions
<1>2. /\ Advance(f, "RECOVERY_REQUIRED") \in Executions
      /\ Advance(f, "RECOVERY_REQUIRED").recoveryFrom = e.status
      /\ Advance(f, "RECOVERY_REQUIRED").recoveryTarget = RecoveryTarget(e.status)
      /\ Advance(f, "RECOVERY_REQUIRED").failureTarget = e.failureTarget
      /\ Advance(f, "RECOVERY_REQUIRED").status = "RECOVERY_REQUIRED"
      /\ Advance(f, "RECOVERY_REQUIRED").revision = e.revision + 1
  <2> HIDE DEF f
  <2> QED BY SMT, <1>1, AdvanceType DEF Statuses
<1> QED BY <1>2 DEF RequireRecovery, Valid, ValidRecoveryTarget

\* Recover: a recoverable failure becomes a recovery with the same target.
LEMMA RecoverType ==
  ASSUME NEW e \in Executions, Valid(e), e.status = "FAILED",
         e.eligibility = "RECOVERABLE"
  PROVE  /\ Recover(e) \in Executions
         /\ Valid(Recover(e))
         /\ Recover(e).status = "RECOVERY_REQUIRED"
         /\ Recover(e).recoveryTarget = e.failureTarget
         /\ Recover(e).failureTarget = e.failureTarget
         /\ Recover(e).revision = e.revision + 1
<1> DEFINE f == [e EXCEPT !.recoveryFrom = e.failedFrom,
                          !.recoveryTarget = e.failureTarget]
<1>1. /\ f \in Executions
      /\ f.recoveryFrom = e.failedFrom /\ f.recoveryTarget = e.failureTarget
      /\ f.revision = e.revision /\ f.failureTarget = e.failureTarget
  BY DEF Executions
<1>2. /\ Advance(f, "RECOVERY_REQUIRED") \in Executions
      /\ Advance(f, "RECOVERY_REQUIRED").recoveryFrom = e.failedFrom
      /\ Advance(f, "RECOVERY_REQUIRED").recoveryTarget = e.failureTarget
      /\ Advance(f, "RECOVERY_REQUIRED").failureTarget = e.failureTarget
      /\ Advance(f, "RECOVERY_REQUIRED").status = "RECOVERY_REQUIRED"
      /\ Advance(f, "RECOVERY_REQUIRED").revision = e.revision + 1
  <2> HIDE DEF f
  <2> QED BY SMT, <1>1, AdvanceType DEF Statuses
<1>3. ValidRecoveryTarget(e.failedFrom, e.failureTarget)
  BY DEF Valid, ValidFailure
<1> QED BY <1>2, <1>3 DEF Recover, Valid

\* Resume: a recovery returns to its own checkpoint.
LEMMA ResumeType ==
  ASSUME NEW e \in Executions, Valid(e), e.status = "RECOVERY_REQUIRED"
  PROVE  /\ e.recoveryTarget \in {"EXECUTING", "CONFIRMING", "CONFIRMED", "VERIFIED"}
         /\ Resume(e) \in Executions
         /\ Valid(Resume(e))
         /\ Resume(e).status = e.recoveryTarget
         /\ Resume(e).revision = e.revision + 1
<1>1. e.recoveryTarget \in {"EXECUTING", "CONFIRMING", "CONFIRMED", "VERIFIED"}
  BY DEF Valid, ValidRecoveryTarget, RecoveryTarget, None
<1>2. e.recoveryTarget \in Statuses
  BY <1>1 DEF Statuses
<1> QED BY <1>1, <1>2, AdvanceType DEF Resume

-----------------------------------------------------------------------------
\* A lifecycle step keeps the execution well-formed and restorable.
LEMMA LifecycleStep ==
  ASSUME LifecycleInv, LifecycleNext
  PROVE  LifecycleInv'
<1> USE DEF LifecycleInv, Restorable
<1>1. CASE TransitionStep
  <2>1. PICK next \in ValidTransition(execution.status) : execution' = Advance(execution, next)
    BY <1>1 DEF TransitionStep
  <2>2. next \in Statuses \ {"FAILED", "RECOVERY_REQUIRED"}
    BY <2>1 DEF ValidTransition, Statuses
  <2> QED BY <2>1, <2>2, AdvanceType
<1>2. CASE FailStep
  BY SMT, <1>2, FailType DEF FailStep
<1>3. CASE RequireRecoveryStep
  BY <1>3, RequireRecoveryType DEF RequireRecoveryStep
<1>4. CASE RecoverStep
  BY <1>4, RecoverType DEF RecoverStep
<1>5. CASE ResumeStep
  BY <1>5, ResumeType DEF ResumeStep
<1> QED BY <1>1, <1>2, <1>3, <1>4, <1>5 DEF LifecycleNext

\* Every state of the lifecycle is an execution that Restore accepts: no write
\* leaves a row that Execution.Validate would refuse on the next read.
THEOREM LifecycleRestorable == LifecycleSpec => []LifecycleInv
<1>1. LifecycleInit => LifecycleInv
  BY SMT DEF LifecycleInit, LifecycleInv, Restorable, New, Executions, Statuses,
         Eligibilities, None, Valid
<1>2. LifecycleInv /\ UNCHANGED execution => LifecycleInv'
  BY DEF LifecycleInv, Restorable
<1> QED BY <1>1, <1>2, LifecycleStep, PTL DEF LifecycleSpec

\* A settled execution takes no lifecycle step: Transition, Fail,
\* RequireRecovery, Recover and Resume all refuse a terminal execution.
LEMMA TerminalTakesNoStep ==
  ASSUME Terminal(execution), LifecycleNext
  PROVE  FALSE
<1>1. execution.status \in {"COMPLETED", "CANCELLED", "FAILED"}
  BY DEF Terminal
<1>2. ValidTransition(execution.status) = {}
  BY <1>1 DEF ValidTransition
<1>3. RecoveryTarget(execution.status) = None
  BY <1>1 DEF RecoveryTarget
<1>4. ~RecoverStep
  BY DEF RecoverStep, Terminal
<1> QED BY <1>1, <1>2, <1>3, <1>4
        DEF LifecycleNext, TransitionStep, FailStep, FailableStatuses,
            RequireRecoveryStep, ResumeStep

\* A lifecycle step never lowers the checkpoint.
LEMMA CheckpointStep ==
  ASSUME LifecycleInv, LifecycleNext
  PROVE  Rank[Checkpoint(execution')] >= Rank[Checkpoint(execution)]
<1> DEFINE e == execution
<1>0. e \in Executions /\ Valid(e) /\ e.status \in Statuses
  BY DEF LifecycleInv, Restorable, Executions
<1>1. CASE TransitionStep
  <2>1. PICK next \in ValidTransition(e.status) : execution' = Advance(e, next)
    BY <1>1 DEF TransitionStep
  <2>2. next \in Statuses \ {"FAILED", "RECOVERY_REQUIRED"}
    BY <2>1 DEF ValidTransition, Statuses
  <2>3. Checkpoint(execution') = next
    BY <2>1, <2>2, <1>0, AdvanceType DEF Checkpoint
  <2>4. Checkpoint(e) = e.status
    BY <2>1 DEF Checkpoint, ValidTransition
  <2>5. Rank[next] >= Rank[e.status]
    BY SMT, <2>1, <2>2, <1>0 DEF ValidTransition, Rank, Statuses, None
  <2> QED BY <2>3, <2>4, <2>5
<1>2. CASE FailStep
  <2>1. PICK eligibility \in Eligibilities, target \in Statuses \cup {None} :
             /\ ValidFailure(e.status, eligibility, target)
             /\ execution' = Fail(e, eligibility, target)
    BY <1>2 DEF FailStep
  <2>2. e.status \in FailableStatuses /\ Checkpoint(e) = e.status
    BY <1>2 DEF FailStep, FailableStatuses, Checkpoint
  <2>3. /\ execution'.status = "FAILED"
        /\ execution'.eligibility = eligibility
        /\ execution'.failureTarget = target
    BY <2>1, <2>2, <1>0, FailType
  <2>4. CASE eligibility = "TERMINAL"
    BY SMT, <2>2, <2>3, <2>4 DEF Checkpoint, Rank, FailableStatuses, Statuses, None
  <2>5. CASE eligibility = "RECOVERABLE"
    <3>1. Checkpoint(execution') = RecoveryTarget(e.status)
      BY <2>1, <2>3, <2>5 DEF Checkpoint, ValidFailure, ValidRecoveryTarget
    <3>2. Rank[RecoveryTarget(e.status)] >= Rank[e.status]
      BY SMT, <2>2 DEF RecoveryTarget, Rank, FailableStatuses, Statuses, None
    <3> QED BY <3>1, <3>2, <2>2
  <2> QED BY <2>4, <2>5 DEF Eligibilities
<1>3. CASE RequireRecoveryStep
  <2>1. /\ RecoveryTarget(e.status) # None
        /\ execution' = RequireRecovery(e)
    BY <1>3 DEF RequireRecoveryStep
  <2>2. Checkpoint(execution') = RecoveryTarget(e.status)
    BY <2>1, <1>0, RequireRecoveryType DEF Checkpoint
  <2>3. Checkpoint(e) = e.status
    BY <2>1 DEF Checkpoint, RecoveryTarget
  <2>4. Rank[RecoveryTarget(e.status)] >= Rank[e.status]
    BY SMT, <2>1, <1>0 DEF RecoveryTarget, Rank, Statuses, None
  <2> QED BY <2>2, <2>3, <2>4
<1>4. CASE RecoverStep
  <2>1. Checkpoint(execution') = e.failureTarget /\ Checkpoint(e) = e.failureTarget
    BY <1>4, <1>0, RecoverType DEF RecoverStep, Checkpoint
  <2>2. e.failureTarget \in Statuses \cup {None}
    BY <1>0 DEF Executions
  <2>3. Rank[e.failureTarget] \in Nat
    BY <2>2 DEF Rank
  <2> QED BY SMT, <2>1, <2>3
<1>5. CASE ResumeStep
  <2>1. e.status = "RECOVERY_REQUIRED" /\ execution' = Resume(e)
    BY <1>5 DEF ResumeStep
  <2>2. e.recoveryTarget \in {"EXECUTING", "CONFIRMING", "CONFIRMED", "VERIFIED"}
    BY <2>1, <1>0, ResumeType
  <2>3. Checkpoint(execution') = e.recoveryTarget /\ Checkpoint(e) = e.recoveryTarget
    BY <2>1, <2>2, <1>0, ResumeType DEF Checkpoint
  <2>4. Rank[e.recoveryTarget] \in Nat
    BY <2>2 DEF Rank, Statuses
  <2> QED BY SMT, <2>3, <2>4
<1> QED BY <1>1, <1>2, <1>3, <1>4, <1>5 DEF LifecycleNext

\* Failure and recovery return to the checkpoint they left, never to an earlier
\* one: in every lifecycle an execution that was submitted stays submitted.
THEOREM LifecycleNeverRegresses == LifecycleSpec => NeverRegresses
<1>1. LifecycleInv /\ [LifecycleNext]_execution =>
        [Rank[Checkpoint(execution')] >= Rank[Checkpoint(execution)]]_execution
  BY CheckpointStep
<1> QED BY <1>1, LifecycleRestorable, PTL DEF LifecycleSpec, NeverRegresses

-----------------------------------------------------------------------------
(* The runtime.                                                            *)

\* What a worker's location says about the copy and the answer it holds.
Located(w) ==
  LET status == claim[w].execution.status IN
  /\ pc[w] = "execute" => status = "EXECUTING"
  /\ pc[w] = "update" => status \in {"EXECUTING", "CONFIRMING", "CONFIRMED"}
  /\ pc[w] = "observe" =>
       \/ /\ status = "EXECUTING"
          /\ result[w] \in AdapterOutcomes
          /\ result[w].kind # "INVALID"
       \/ /\ status \in {"CONFIRMING", "CONFIRMED"}
          /\ result[w].kind = "FAILED"
          /\ result[w].ref \in BOOLEAN
  /\ pc[w] = "append" => status \in {"CONFIRMING", "CONFIRMED"}
  /\ pc[w] = "confirm" => status = "CONFIRMING"
  /\ pc[w] = "verify" => status = "CONFIRMED"

\* Valid, and no recovery leads to VERIFIED: the runtime never sends a VERIFIED
\* execution to recovery.
Sound(e) == Valid(e) /\ e.recoveryTarget # "VERIFIED" /\ e.failureTarget # "VERIFIED"

Typed == /\ TypeOK
         /\ Sound(execution)
         /\ \A w \in Workers : Sound(claim[w].execution) /\ Located(w)

\* next is a value one lifecycle operation returns for e.
Successor(e, next) ==
  \/ \E status \in ValidTransition(e.status) : next = Advance(e, status)
  \/ /\ e.status \in FailableStatuses
     /\ \E eligibility \in Eligibilities, target \in Statuses \cup {None} :
          /\ ValidFailure(e.status, eligibility, target)
          /\ next = Fail(e, eligibility, target)
  \/ RecoveryTarget(e.status) # None /\ next = RequireRecovery(e)
  \/ e.status = "FAILED" /\ e.eligibility = "RECOVERABLE" /\ next = Recover(e)
  \/ e.status = "RECOVERY_REQUIRED" /\ next = Resume(e)

\* The rows a transaction appends describe the revision it writes; one that
\* writes VERIFIED appends VERIFIED evidence.
RowsOf(next, rows) ==
  /\ rows \subseteq EvidenceRows
  /\ \A row \in rows : row.version = next.revision /\ row.status = next.status
  /\ next.status = "VERIFIED" => rows # {}

\* A transaction takes the row past EXECUTING only from an observation, from a
\* refused mark, or when the row is already past it.
LeavesProvider(w, next) ==
  \/ next.status \in BeforeProvider
  \/ claim[w].execution.status \notin BeforeProvider
  \/ pc[w] \in {"update", "observe"} /\ claim[w].execution.status = "EXECUTING"

\* The worker runs one fenced transaction on the copy it claimed.
Persists(w) ==
  \E next \in Executions, rows \in SUBSET EvidenceRows, after \in {"release", "verify"} :
    /\ pc[w] \in BeforeWrite
    /\ Persist(w, next, rows, after)
    /\ Successor(claim[w].execution, next)
    /\ Sound(next)
    /\ next.revision = claim[w].execution.revision + 1
    /\ LeavesProvider(w, next)
    /\ RowsOf(next, rows)
    /\ after = "verify" => next.status = "CONFIRMED"

\* The worker gives up without writing.
GivesUp(w) == /\ Goto(w, "releaseErr")
              /\ UNCHANGED <<execution, work, evidence, audit, claim, result,
                             executeCalls, disturbances>>

\* What a lifecycle operation returns is a well-formed, restorable execution
\* with the next revision.
LEMMA SuccessorType ==
  ASSUME NEW e \in Executions, Valid(e), NEW next, Successor(e, next)
  PROVE  /\ next \in Executions
         /\ Valid(next)
         /\ next.revision = e.revision + 1
<1>0. e.status \in Statuses
  BY DEF Executions
<1>1. CASE \E status \in ValidTransition(e.status) : next = Advance(e, status)
  <2>1. PICK status \in ValidTransition(e.status) : next = Advance(e, status)
    BY <1>1
  <2>2. status \in Statuses \ {"FAILED", "RECOVERY_REQUIRED"}
    BY <2>1 DEF ValidTransition, Statuses
  <2> QED BY <2>1, <2>2, AdvanceType
<1>2. CASE /\ e.status \in FailableStatuses
           /\ \E eligibility \in Eligibilities, target \in Statuses \cup {None} :
                /\ ValidFailure(e.status, eligibility, target)
                /\ next = Fail(e, eligibility, target)
  BY SMT, <1>2, FailType
<1>3. CASE RecoveryTarget(e.status) # None /\ next = RequireRecovery(e)
  BY <1>3, RequireRecoveryType
<1>4. CASE e.status = "FAILED" /\ e.eligibility = "RECOVERABLE" /\ next = Recover(e)
  BY <1>4, RecoverType
<1>5. CASE e.status = "RECOVERY_REQUIRED" /\ next = Resume(e)
  BY <1>5, ResumeType
<1> QED BY <1>1, <1>2, <1>3, <1>4, <1>5 DEF Successor

\* A lifecycle operation other than a recovery from VERIFIED leads to no recovery
\* at VERIFIED.
LEMMA SuccessorSound ==
  ASSUME NEW e \in Executions, Sound(e), NEW next, Successor(e, next),
         e.status = "VERIFIED" => next = Advance(e, "COMPLETED")
  PROVE  Sound(next)
<1>0. e.status \in Statuses /\ Valid(e) /\ Valid(next)
  BY SuccessorType DEF Executions, Sound
<1>1. CASE \E status \in ValidTransition(e.status) : next = Advance(e, status)
  <2>1. PICK status \in ValidTransition(e.status) : next = Advance(e, status)
    BY <1>1
  <2>2. status \in Statuses
    BY <2>1 DEF ValidTransition, Statuses
  <2> QED BY <1>0, <2>1, <2>2, AdvanceType DEF Sound
<1>2. CASE /\ e.status \in FailableStatuses
           /\ \E eligibility \in Eligibilities, target \in Statuses \cup {None} :
                /\ ValidFailure(e.status, eligibility, target)
                /\ next = Fail(e, eligibility, target)
  <2>1. PICK eligibility \in Eligibilities, target \in Statuses \cup {None} :
          ValidFailure(e.status, eligibility, target) /\ next = Fail(e, eligibility, target)
    BY <1>2
  <2>2. target # "VERIFIED"
    BY <1>2, <2>1 DEF ValidFailure, ValidRecoveryTarget, RecoveryTarget, FailableStatuses, None
  <2>3. next.failureTarget = target /\ next.recoveryTarget = e.recoveryTarget
    BY SMT, <1>2, <2>1, FailType
  <2> QED BY <1>0, <2>2, <2>3 DEF Sound
<1>3. CASE RecoveryTarget(e.status) # None /\ next = RequireRecovery(e)
  <2>1. RecoveryTarget(e.status) # "VERIFIED" \/ e.status = "VERIFIED"
    BY <1>0 DEF RecoveryTarget, None
  <2>2. next.recoveryTarget = RecoveryTarget(e.status) /\ next.failureTarget = e.failureTarget
        /\ next.status = "RECOVERY_REQUIRED"
    BY <1>3, RequireRecoveryType
  <2>3. e.status # "VERIFIED"
    BY <2>2, AdvanceType DEF Statuses
  <2> QED BY <1>0, <2>1, <2>2, <2>3 DEF Sound
<1>4. CASE e.status = "FAILED" /\ e.eligibility = "RECOVERABLE" /\ next = Recover(e)
  BY <1>0, <1>4, RecoverType DEF Sound
<1>5. CASE e.status = "RECOVERY_REQUIRED" /\ next = Resume(e)
  <2>1. e.recoveryTarget \in Statuses
    BY <1>0, <1>5, ResumeType DEF Statuses
  <2> QED BY <1>0, <1>5, <2>1, AdvanceType DEF Sound, Resume
<1> QED BY <1>1, <1>2, <1>3, <1>4, <1>5 DEF Successor

\* A successor in another status than VERIFIED needs no evidence; the caller
\* shows the rows it appends.
LEMMA PersistsIntro ==
  ASSUME Typed, NEW w \in Workers, pc[w] \in BeforeWrite,
         NEW next, Successor(claim[w].execution, next),
         NEW rows, \A row \in rows : /\ row \in EvidenceRows
                                     /\ row.version = next.revision
                                     /\ row.status = next.status,
         next.status = "VERIFIED" => rows # {},
         claim[w].execution.status = "VERIFIED" => next = Advance(claim[w].execution, "COMPLETED"),
         LeavesProvider(w, next),
         NEW after \in {"release", "verify"},
         after = "verify" => next.status = "CONFIRMED",
         Persist(w, next, rows, after)
  PROVE  Persists(w)
<1>1. claim[w].execution \in Executions /\ Sound(claim[w].execution)
  BY DEF Typed, TypeOK, Claims
<1>2. /\ next \in Executions /\ Sound(next)
      /\ next.revision = claim[w].execution.revision + 1
  BY <1>1, SuccessorType, SuccessorSound DEF Sound
<1>3. rows \in SUBSET EvidenceRows /\ RowsOf(next, rows)
  BY DEF RowsOf
<1> QED BY <1>2, <1>3 DEF Persists

\* Every writing action of processClaim is one fenced transaction with a
\* lifecycle successor of the claimed copy.
LEMMA PersistingActions ==
  ASSUME Typed, NEW w \in Workers,
         \/ ProcessPlain(w) \/ ProcessVerified(w) \/ ProcessFailed(w) \/ ProcessRecovery(w)
         \/ PersistRecovery(w) \/ PersistObservation(w)
         \/ PersistConfirmed(w) \/ PersistVerified(w)
  PROVE  Persists(w) \/ GivesUp(w)
<1> DEFINE e == claim[w].execution
<1>0. /\ e \in Executions /\ Valid(e) /\ Sound(e) /\ Located(w) /\ e.status \in Statuses
  BY DEF Typed, TypeOK, Claims, Executions, Sound
<1>1. CASE ProcessPlain(w)
  <2>1. /\ e.status \in {"CREATED", "AUTHORIZED", "QUEUED", "SUBMITTED"}
        /\ pc[w] \in BeforeWrite
        /\ Persist(w, Advance(e, PlainNext[e.status]), {}, "release")
    BY <1>1 DEF ProcessPlain, PlainNext, BeforeWrite
  <2>2. /\ PlainNext[e.status] \in ValidTransition(e.status)
        /\ PlainNext[e.status] \in Statuses \ {"VERIFIED"}
    BY <2>1 DEF PlainNext, ValidTransition, Statuses
  <2>3. Successor(e, Advance(e, PlainNext[e.status]))
    BY <2>2 DEF Successor
  <2>4. Advance(e, PlainNext[e.status]).status = PlainNext[e.status]
    BY <1>0, <2>2, AdvanceType
  <2>5. LeavesProvider(w, Advance(e, PlainNext[e.status]))
    BY <2>1, <2>4 DEF LeavesProvider, BeforeProvider, PlainNext
  <2> QED BY <2>1, <2>2, <2>3, <2>4, <2>5, PersistsIntro
<1>2. CASE ProcessVerified(w)
  <2>1. CASE EvidenceReadable /\ HasVerifiedEvidence(e)
    <3>1. /\ e.status = "VERIFIED" /\ pc[w] \in BeforeWrite
          /\ Persist(w, Advance(e, "COMPLETED"), {}, "release")
      BY <1>2, <2>1 DEF ProcessVerified, BeforeWrite
    <3>2. /\ Successor(e, Advance(e, "COMPLETED"))
          /\ Advance(e, "COMPLETED").status # "VERIFIED"
      BY <3>1, <1>0, AdvanceType DEF Successor, ValidTransition, Statuses
    <3>3. LeavesProvider(w, Advance(e, "COMPLETED"))
      BY <3>1 DEF LeavesProvider, BeforeProvider
    <3> QED BY <3>1, <3>2, <3>3, PersistsIntro
  <2>2. CASE ~(EvidenceReadable /\ HasVerifiedEvidence(e))
    BY <1>2, <2>2 DEF ProcessVerified, GivesUp
  <2> QED BY <2>1, <2>2
<1>3. CASE ProcessFailed(w)
  <2>1. /\ e.status = "FAILED" /\ e.eligibility = "RECOVERABLE" /\ pc[w] \in BeforeWrite
        /\ Persist(w, Recover(e), {}, "release")
    BY <1>3 DEF ProcessFailed, BeforeWrite
  <2>2. Successor(e, Recover(e)) /\ Recover(e).status # "VERIFIED"
    BY <2>1, <1>0, RecoverType DEF Successor
  <2>3. LeavesProvider(w, Recover(e))
    BY <2>1 DEF LeavesProvider, BeforeProvider
  <2> QED BY <2>1, <2>2, <2>3, PersistsIntro
<1>4. CASE ProcessRecovery(w)
  <2>1. /\ e.status = "RECOVERY_REQUIRED" /\ pc[w] \in BeforeWrite
        /\ Persist(w, Resume(e), {}, "release")
    BY <1>4 DEF ProcessRecovery, BeforeWrite
  <2>2. Successor(e, Resume(e)) /\ Resume(e).status # "VERIFIED"
    BY <2>1, <1>0, ResumeType DEF Successor, Sound
  <2>3. LeavesProvider(w, Resume(e))
    BY <2>1 DEF LeavesProvider, BeforeProvider
  <2> QED BY <2>1, <2>2, <2>3, PersistsIntro
<1>5. CASE PersistRecovery(w)
  <2>1. /\ e.status \in {"EXECUTING", "CONFIRMING", "CONFIRMED"} /\ pc[w] \in BeforeWrite
        /\ pc[w] = "update" /\ Persist(w, RequireRecovery(e), {}, "release")
    BY <1>0, <1>5 DEF PersistRecovery, BeforeWrite, Located
  <2>2. RecoveryTarget(e.status) # None
    BY <2>1 DEF RecoveryTarget, None
  <2>3. Successor(e, RequireRecovery(e)) /\ RequireRecovery(e).status # "VERIFIED"
    BY <1>0, <2>2, RequireRecoveryType DEF Successor
  <2>4. LeavesProvider(w, RequireRecovery(e))
    BY <2>1 DEF LeavesProvider, BeforeProvider
  <2> QED BY <2>1, <2>3, <2>4, PersistsIntro
<1>6. CASE PersistObservation(w)
  <2> DEFINE next == ObservedNext(e, result[w])
             row == ObservationRow(next, result[w].ref)
  <2>1. /\ pc[w] = "observe" /\ pc[w] \in BeforeWrite
        /\ Persist(w, next, {row}, "release")
    BY <1>6 DEF PersistObservation, BeforeWrite
  <2>2. result[w].ref \in BOOLEAN
    BY <2>1, <1>0 DEF Located, AdapterOutcomes
  <2>3. \/ /\ e.status = "EXECUTING"
           /\ result[w].kind \in {"SUBMITTED", "CONFIRMING", "FAILED", "RECOVERY_REQUIRED",
                                  "TRANSIENT", "PERMANENT", "AMBIGUOUS"}
        \/ e.status \in {"CONFIRMING", "CONFIRMED"} /\ result[w].kind = "FAILED"
    BY <2>1, <1>0 DEF Located, AdapterOutcomes
  <2>4. Successor(e, next) /\ next \in Executions
    <3>1. CASE e.status = "EXECUTING" /\ result[w].kind \in {"SUBMITTED", "CONFIRMING"}
      <4>1. next = Advance(e, result[w].kind) /\ result[w].kind \in ValidTransition(e.status)
        BY <3>1 DEF ObservedNext, ValidTransition
      <4> QED BY SMT, <4>1, <1>0, SuccessorType DEF Successor
    <3>2. CASE e.status = "EXECUTING" /\ result[w].kind = "TRANSIENT"
      <4>1. next = Fail(e, "RECOVERABLE", "EXECUTING")
        BY <3>2 DEF ObservedNext
      <4>2. /\ ValidFailure(e.status, "RECOVERABLE", "EXECUTING")
            /\ "RECOVERABLE" \in Eligibilities /\ "EXECUTING" \in Statuses
            /\ e.status \in FailableStatuses
        BY <3>2 DEF ValidFailure, ValidRecoveryTarget, RecoveryTarget, None,
                    Eligibilities, Statuses, FailableStatuses
      <4>3. Successor(e, next)
        BY <4>1, <4>2 DEF Successor
      <4> QED BY <4>3, <1>0, SuccessorType
    <3>3. CASE result[w].kind \in {"PERMANENT", "FAILED"}
      <4>1. next = Fail(e, "TERMINAL", None)
        BY <3>3 DEF ObservedNext
      <4>2. /\ ValidFailure(e.status, "TERMINAL", None)
            /\ "TERMINAL" \in Eligibilities /\ e.status \in FailableStatuses
        BY <2>3 DEF ValidFailure, Eligibilities, FailableStatuses
      <4>3. Successor(e, next)
        BY <4>1, <4>2 DEF Successor
      <4> QED BY <4>3, <1>0, SuccessorType
    <3>4. CASE e.status = "EXECUTING" /\ result[w].kind \in {"AMBIGUOUS", "RECOVERY_REQUIRED"}
      <4>1. next = RequireRecovery(e) /\ RecoveryTarget(e.status) # None
        BY <3>4 DEF ObservedNext, RecoveryTarget, None
      <4>2. Successor(e, next)
        BY <4>1 DEF Successor
      <4> QED BY <4>2, <1>0, SuccessorType
    <3> QED BY <2>3, <3>1, <3>2, <3>3, <3>4
  <2>5. next.status \in Statuses /\ next.revision \in Nat \ {0}
    BY <2>4 DEF Executions
  <2>7. LeavesProvider(w, next) /\ e.status # "VERIFIED"
    BY <2>1, <2>3 DEF LeavesProvider, BeforeProvider
  <2>6. row \in EvidenceRows /\ row.version = next.revision /\ row.status = next.status
    <3> HIDE DEF next
    <3> QED BY <2>2, <2>5 DEF ObservationRow, EvidenceRows
  <2> HIDE DEF next, row
  <2> QED BY <2>1, <2>4, <2>6, <2>7, PersistsIntro
<1>7. CASE PersistConfirmed(w)
  <2>1. /\ e.status = "CONFIRMING" /\ pc[w] \in BeforeWrite
        /\ Persist(w, Advance(e, "CONFIRMED"), {}, "verify")
    BY <1>0, <1>7 DEF PersistConfirmed, BeforeWrite, Located
  <2>2. Successor(e, Advance(e, "CONFIRMED")) /\ Advance(e, "CONFIRMED").status = "CONFIRMED"
    BY <2>1, <1>0, AdvanceType DEF Successor, ValidTransition, Statuses
  <2>3. LeavesProvider(w, Advance(e, "CONFIRMED"))
    BY <2>1 DEF LeavesProvider, BeforeProvider
  <2> QED BY <2>1, <2>2, <2>3, PersistsIntro
<1>8. CASE PersistVerified(w)
  <2> DEFINE next == Advance(e, "VERIFIED")
  <2>1. /\ e.status = "CONFIRMED" /\ pc[w] \in BeforeWrite
        /\ Persist(w, next, {EvidenceRow(next)}, "release")
    BY <1>0, <1>8 DEF PersistVerified, BeforeWrite, Located
  <2>2. Successor(e, next)
    BY <2>1 DEF Successor, ValidTransition
  <2>3. next \in Executions
    BY <2>2, <1>0, SuccessorType
  <2>4. next.status \in Statuses /\ next.revision \in Nat \ {0}
    BY <2>3 DEF Executions
  <2> HIDE DEF next
  <2>5. /\ EvidenceRow(next) \in EvidenceRows
        /\ EvidenceRow(next).version = next.revision
        /\ EvidenceRow(next).status = next.status
    BY <2>4 DEF EvidenceRow, EvidenceRows
  <2>6. LeavesProvider(w, next)
    BY <2>1 DEF LeavesProvider, BeforeProvider
  <2> QED BY <2>1, <2>2, <2>5, <2>6, PersistsIntro
<1> QED BY <1>1, <1>2, <1>3, <1>4, <1>5, <1>6, <1>7, <1>8

-----------------------------------------------------------------------------
(* Types and locations.                                                    *)

\* The initial state is well typed.
LEMMA TypedInit == Init => Typed
<1> SUFFICES ASSUME Init PROVE Typed
  OBVIOUS
<1>1. New \in Executions /\ Sound(New)
  BY SMT DEF New, Executions, Statuses, Eligibilities, None, Valid, Sound
<1>2. /\ execution \in Executions /\ work \in Works
      /\ evidence \subseteq EvidenceRows /\ audit \in Seq(AuditRecords)
      /\ executeCalls \in Nat /\ disturbances \in Nat /\ Sound(execution)
  BY SMT, <1>1 DEF Init, LifecycleInit, Works
<1>3. /\ pc \in [Workers -> Locations]
      /\ claim \in [Workers -> Claims]
      /\ result \in [Workers -> AdapterOutcomes \cup VerifierOutcomes \cup {NoResult}]
  BY <1>1 DEF Init, Locations, Claims
<1>4. ASSUME NEW w \in Workers PROVE Sound(claim[w].execution) /\ Located(w)
  BY <1>1 DEF Init, Located
<1> QED BY <1>2, <1>3, <1>4 DEF Typed, TypeOK

\* A worker's step keeps every other worker's copy, answer and location.
OthersKeep(w) ==
  \A v \in Workers \ {w} :
    pc'[v] = pc[v] /\ claim'[v] = claim[v] /\ result'[v] = result[v]

\* A step that keeps the others typed and leaves this worker typed is typed.
LEMMA TypedByWorker ==
  ASSUME Typed, TypeOK', NEW w \in Workers, OthersKeep(w),
         Sound(execution'), Sound(claim'[w].execution), Located(w)'
  PROVE  Typed'
<1>1. ASSUME NEW v \in Workers PROVE Sound(claim'[v].execution) /\ Located(v)'
  <2>1. CASE v = w
    BY <2>1
  <2>2. CASE v # w
    BY <2>2 DEF OthersKeep, Typed, Located
  <2> QED BY <2>1, <2>2
<1> QED BY <1>1 DEF Typed

\* A fenced transaction preserves the types and the locations.
LEMMA PersistsTyped ==
  ASSUME Typed, NEW w \in Workers, Persists(w)
  PROVE  Typed' /\ OthersKeep(w)
<1>1. PICK next \in Executions, rows \in SUBSET EvidenceRows, after \in {"release", "verify"} :
        /\ Persist(w, next, rows, after)
        /\ Sound(next)
        /\ after = "verify" => next.status = "CONFIRMED"
        /\ Successor(claim[w].execution, next)
  BY DEF Persists
<1> USE DEF TypeOK
<1>2. TypeOK
  BY DEF Typed
<1>3. CASE WriteAllowed(w)
  <2>1. /\ execution' = next
        /\ evidence' = evidence \cup rows
        /\ audit' = Append(audit, [previous |-> claim[w].execution.status, new |-> next.status])
        /\ claim' = [claim EXCEPT ![w].execution = next]
        /\ Acknowledged(w, after)
        /\ UNCHANGED <<work, result, executeCalls>>
    BY <1>1, <1>3 DEF Persist
  <2>2. /\ pc' = [pc EXCEPT ![w] = after] \/ pc' = [pc EXCEPT ![w] = "releaseErr"]
        /\ disturbances' \in Nat
    BY SMT, <2>1, <1>2 DEF Acknowledged, Goto, Disturb
  <2>3. claim[w] \in Claims /\ claim[w].execution.status \in Statuses /\ next.status \in Statuses
    BY <1>2 DEF Claims, Executions
  <2>4. /\ claim' \in [Workers -> Claims] /\ claim'[w].execution = next
        /\ \A v \in Workers \ {w} : claim'[v] = claim[v]
    BY <1>2, <2>1, <2>3 DEF Claims
  <2>5. audit' \in Seq(AuditRecords)
    <3>1. [previous |-> claim[w].execution.status, new |-> next.status] \in AuditRecords
      BY <2>3 DEF AuditRecords
    <3> QED BY SMT, <3>1, <1>2, <2>1
  <2>6. /\ pc' \in [Workers -> Locations] /\ \A v \in Workers \ {w} : pc'[v] = pc[v]
        /\ pc'[w] = after \/ pc'[w] = "releaseErr"
    BY <1>2, <2>2 DEF Locations
  <2>7. TypeOK'
    BY <1>2, <2>1, <2>2, <2>4, <2>5, <2>6
  <2>8. Located(w)'
    BY <1>1, <2>4, <2>6 DEF Located
  <2>9. OthersKeep(w)
    BY <2>1, <2>4, <2>6 DEF OthersKeep
  <2> QED BY <1>1, <2>1, <2>4, <2>7, <2>8, <2>9, TypedByWorker
<1>4. CASE ~WriteAllowed(w)
  <2>1. /\ pc' = [pc EXCEPT ![w] = "releaseErr"]
        /\ UNCHANGED <<execution, work, evidence, audit, claim, result, executeCalls,
                       disturbances>>
    BY <1>1, <1>4 DEF Persist, Goto
  <2>2. TypeOK' /\ OthersKeep(w)
    BY <1>2, <2>1 DEF Locations, OthersKeep
  <2>3. Located(w)' /\ Sound(claim'[w].execution) /\ Sound(execution')
    BY <1>2, <2>1 DEF Located, Typed
  <2> QED BY <2>2, <2>3, TypedByWorker
<1> QED BY <1>3, <1>4

\* A step of one worker that leaves the execution and the audit trail alone.
LEMMA QuietTyped ==
  ASSUME Typed, NEW w \in Workers, NEW location \in Locations,
         Goto(w, location), UNCHANGED <<execution, audit>>,
         work' \in Works, evidence' \subseteq EvidenceRows,
         claim' \in [Workers -> Claims], \A v \in Workers \ {w} : claim'[v] = claim[v],
         result' \in [Workers -> AdapterOutcomes \cup VerifierOutcomes \cup {NoResult}],
         \A v \in Workers \ {w} : result'[v] = result[v],
         executeCalls' \in Nat, disturbances' \in Nat,
         Sound(claim'[w].execution), Located(w)'
  PROVE  Typed'
<1>1. pc' \in [Workers -> Locations] /\ \A v \in Workers \ {w} : pc'[v] = pc[v]
  BY DEF Goto, Typed, TypeOK
<1>2. TypeOK'
  BY <1>1 DEF Typed, TypeOK
<1>3. OthersKeep(w) /\ Sound(execution')
  BY <1>1 DEF OthersKeep, Typed
<1> QED BY <1>2, <1>3, TypedByWorker

\* The budget of disturbances stays a number.
LEMMA BudgetType ==
  ASSUME Typed, \/ UNCHANGED disturbances \/ Disturb
                \/ \E answer : Spend(answer)
                \/ \E w, after : Acknowledged(w, after)
  PROVE  disturbances' \in Nat
BY SMT DEF Typed, TypeOK, Disturb, Spend, Acknowledged

\* Claiming, marking, answering, appending and releasing preserve the types.
LEMMA WorkerTyped ==
  ASSUME Typed, NEW w \in Workers, Step(w) \/ Answer(w) \/ AttemptFails(w) \/ Crash(w) \/ Restart(w)
  PROVE  Typed'
<1> DEFINE e == claim[w].execution
<1>0. /\ TypeOK /\ claim[w] \in Claims /\ e \in Executions /\ e.status \in Statuses
      /\ Sound(e) /\ Located(w) /\ work \in Works /\ work.token \in Nat /\ Sound(execution)
  BY DEF Typed, TypeOK, Claims, Executions, Works
<1> USE DEF TypeOK, Goto
<1>a. CASE GivesUp(w) \/ Persists(w)
  <2>1. CASE Persists(w)
    BY <2>1, PersistsTyped
  <2>2. CASE GivesUp(w)
    <3>1. Located(w)'
      BY <1>0, <2>2 DEF GivesUp, Located
    <3> QED BY <1>0, <2>2, <3>1, QuietTyped DEF GivesUp, Locations
  <2> QED BY <1>a, <2>1, <2>2
<1>1. CASE ClaimNext(w)
  <2>1. /\ Goto(w, "loading") /\ pc'[w] = "loading"
        /\ work' = [work EXCEPT !.owner = w, !.token = @ + 1, !.lease = "live"]
        /\ claim' = [claim EXCEPT ![w].token = work.token + 1, ![w].started = work.started]
        /\ UNCHANGED <<execution, evidence, audit, result, executeCalls, disturbances>>
    BY <1>0, <1>1 DEF ClaimNext
  <2>0. work.token + 1 \in Nat /\ work.started \in BOOLEAN
    BY SMT, <1>0 DEF Works
  <2>2. work' \in Works
    BY <1>0, <2>0, <2>1 DEF Works
  <2>3. /\ claim' \in [Workers -> Claims] /\ claim'[w].execution = e
        /\ \A v \in Workers \ {w} : claim'[v] = claim[v]
    <3> DEFINE c == [claim[w] EXCEPT !.token = work.token + 1, !.started = work.started]
    <3>1. c \in Claims /\ c.execution = e
      BY <1>0, <2>0 DEF Claims
    <3>2. claim' = [claim EXCEPT ![w] = c]
      BY <1>0, <2>1
    <3> HIDE DEF c
    <3> QED BY <1>0, <3>1, <3>2
  <2>4. Located(w)'
    BY <2>1 DEF Located
  <2> QED BY <1>0, <2>1, <2>2, <2>3, <2>4, QuietTyped DEF Locations
<1>2. CASE LoadClaim(w)
  <2>1. CASE ClaimHeld(w)
    <3>1. /\ Goto(w, "claimed") /\ pc'[w] = "claimed"
          /\ claim' = [claim EXCEPT ![w].execution = execution]
          /\ UNCHANGED <<execution, work, evidence, audit, result, executeCalls, disturbances>>
      BY <1>0, <1>2, <2>1 DEF LoadClaim
    <3>2. /\ claim' \in [Workers -> Claims] /\ claim'[w].execution = execution
          /\ \A v \in Workers \ {w} : claim'[v] = claim[v]
      BY <1>0, <3>1 DEF Claims
    <3>3. Located(w)'
      BY <3>1 DEF Located
    <3> QED BY <1>0, <3>1, <3>2, <3>3, QuietTyped DEF Locations
  <2>2. CASE ~ClaimHeld(w)
    <3>1. Located(w)'
      BY <1>0, <1>2, <2>2 DEF LoadClaim, Located
    <3> QED BY <1>0, <1>2, <2>2, <3>1, QuietTyped DEF LoadClaim, Locations
  <2> QED BY <2>1, <2>2
<1>3. CASE MarkSubmissionStarted(w)
  <2>1. /\ pc[w] = "claimed" /\ e.status = "EXECUTING"
        /\ UNCHANGED <<execution, evidence, audit, result, executeCalls>>
    BY <1>3 DEF MarkSubmissionStarted
  <2>2. CASE MarkAllowed(w)
    <3>1. /\ work' = [work EXCEPT !.started = TRUE]
          /\ claim' = [claim EXCEPT ![w].started = TRUE]
          /\ Acknowledged(w, "execute")
      BY <1>3, <2>2 DEF MarkSubmissionStarted
    <3>2. work' \in Works /\ disturbances' \in Nat
      BY <1>0, <3>1, BudgetType DEF Works
    <3>3. /\ claim' \in [Workers -> Claims] /\ claim'[w].execution = e
          /\ \A v \in Workers \ {w} : claim'[v] = claim[v]
      BY <1>0, <3>1 DEF Claims
    <3>4. PICK location \in {"execute", "releaseErr"} : Goto(w, location)
      BY <3>1 DEF Acknowledged
    <3>5. Located(w)' /\ location \in Locations
      BY <1>0, <2>1, <3>3, <3>4 DEF Located, Locations
    <3> QED BY <1>0, <2>1, <3>2, <3>3, <3>4, <3>5, QuietTyped
  <2>3. CASE ~MarkAllowed(w)
    <3>1. Goto(w, "update") /\ UNCHANGED <<work, claim, disturbances>>
      BY <1>3, <2>3 DEF MarkSubmissionStarted
    <3>2. Located(w)'
      BY <1>0, <2>1, <3>1 DEF Located
    <3> QED BY <1>0, <2>1, <3>1, <3>2, QuietTyped DEF Locations
  <2> QED BY <2>2, <2>3
<1>4. CASE Answer(w)
  <2> DEFINE Results == AdapterOutcomes \cup VerifierOutcomes \cup {NoResult}
  <2>1. ASSUME NEW answer \in AdapterOutcomes, e.status = "EXECUTING",
               result' = [result EXCEPT ![w] = answer], Goto(w, AfterAdapter(answer)),
               Spend(answer), executeCalls' \in Nat,
               UNCHANGED <<execution, work, evidence, audit, claim>>
        PROVE  Typed'
    <3>1. disturbances' \in Nat
      BY <2>1, BudgetType
    <3>2. /\ result' \in [Workers -> Results] /\ result'[w] = answer
          /\ \A v \in Workers \ {w} : result'[v] = result[v]
      BY <1>0, <2>1
    <3>3. PICK location \in {"observe", "releaseErr"} :
            Goto(w, location) /\ (location = "observe" => answer.kind # "INVALID")
      BY <2>1 DEF AfterAdapter
    <3>4. Located(w)' /\ location \in Locations
      BY <1>0, <2>1, <3>2, <3>3 DEF Located, Locations
    <3> QED BY <1>0, <2>1, <3>1, <3>2, <3>3, <3>4, QuietTyped
  <2>2. ASSUME NEW answer \in ExecuteOutcomes, AdapterExecute(w, answer) PROVE Typed'
    <3>1. answer \in AdapterOutcomes /\ e.status = "EXECUTING" /\ executeCalls' \in Nat
      BY SMT, <1>0, <2>2, OutcomesAssumption DEF AdapterExecute, Located
    <3> QED BY <2>1, <2>2, <3>1 DEF AdapterExecute
  <2>3. ASSUME NEW answer \in StatusOutcomes, AdapterGetStatus(w, answer) PROVE Typed'
    <3>1. answer \in AdapterOutcomes /\ e.status = "EXECUTING" /\ executeCalls' \in Nat
      BY <1>0, <2>3, OutcomesAssumption DEF AdapterGetStatus
    <3> QED BY <2>1, <2>3, <3>1 DEF AdapterGetStatus
  <2>4. ASSUME NEW answer \in VerifyOutcomes, Verify(w, answer) PROVE Typed'
    <3>1. /\ answer \in VerifierOutcomes /\ e.status \in {"CONFIRMING", "CONFIRMED"}
          /\ result' = [result EXCEPT ![w] = answer] /\ Goto(w, AfterVerify(e.status, answer))
          /\ Spend(answer)
          /\ UNCHANGED <<execution, work, evidence, audit, claim, executeCalls>>
      BY <2>4, OutcomesAssumption DEF Verify
    <3>2. disturbances' \in Nat
      BY <3>1, BudgetType
    <3>3. /\ result' \in [Workers -> Results] /\ result'[w] = answer
          /\ \A v \in Workers \ {w} : result'[v] = result[v]
      BY <1>0, <3>1
    <3>4. /\ answer.ref \in BOOLEAN
          /\ answer.kind \in {"PENDING", "VERIFIED", "FAILED", "UNAVAILABLE", "AMBIGUOUS", "INVALID"}
      BY <3>1 DEF VerifierOutcomes
    <3>5. /\ AfterVerify(e.status, answer) \in Locations \ {"execute"}
          /\ AfterVerify(e.status, answer) = "observe" => answer.kind = "FAILED"
          /\ AfterVerify(e.status, answer) = "confirm" => e.status = "CONFIRMING"
          /\ AfterVerify(e.status, answer) = "verify" => e.status = "CONFIRMED"
      BY <3>1, <3>4 DEF AfterVerify, Locations
    <3>6. Located(w)'
      BY <1>0, <3>1, <3>3, <3>4, <3>5 DEF Located
    <3> QED BY <1>0, <3>1, <3>2, <3>3, <3>5, <3>6, QuietTyped
  <2> QED BY <1>4, <2>2, <2>3, <2>4 DEF Answer
<1>5. CASE AppendPending(w)
  <2> DEFINE row == [version |-> e.revision, status |-> e.status, ref |-> TRUE, code |-> FALSE]
  <2>1. row \in EvidenceRows
    BY <1>0 DEF EvidenceRows, Executions
  <2>2. /\ evidence' \subseteq EvidenceRows
        /\ \/ Acknowledged(w, "release")
           \/ Goto(w, "releaseErr") /\ UNCHANGED disturbances
        /\ UNCHANGED <<execution, work, audit, claim, result, executeCalls>>
    BY <1>0, <1>5, <2>1 DEF AppendPending
  <2>3. disturbances' \in Nat
    BY <2>2, BudgetType
  <2>4. PICK location \in {"release", "releaseErr"} : Goto(w, location)
    BY <2>2 DEF Acknowledged
  <2>5. Located(w)' /\ location \in Locations
    BY <1>0, <2>2, <2>4 DEF Located, Locations
  <2> QED BY <1>0, <2>2, <2>3, <2>4, <2>5, QuietTyped
<1>6. CASE Release(w)
  <2>1. /\ work' \in Works
        /\ UNCHANGED <<execution, evidence, audit, claim, result, executeCalls, disturbances>>
    <3>1. \/ work' = work
          \/ work' = [work EXCEPT !.owner = NoWorker, !.lease = "none", !.due = FALSE]
      BY <1>6 DEF Release
    <3>2. work' \in Works
      BY <1>0, <3>1 DEF Works
    <3> QED BY <1>6, <3>2 DEF Release
  <2>2. PICK location \in {"idle", "exited"} : Goto(w, location)
    BY <1>6 DEF Release
  <2>3. Located(w)' /\ location \in Locations
    BY <1>0, <2>1, <2>2 DEF Located, Locations
  <2> QED BY <1>0, <2>1, <2>2, <2>3, QuietTyped
<1>7. CASE AttemptFails(w) \/ Crash(w) \/ Restart(w) \/ VerifyUnreadable(w)
  <2>1. /\ UNCHANGED disturbances \/ Disturb
        /\ UNCHANGED <<execution, work, evidence, audit, claim, result, executeCalls>>
    BY <1>7 DEF AttemptFails, Crash, Restart, VerifyUnreadable
  <2>2. PICK location \in {"releaseErr", "exited", "idle"} : Goto(w, location)
    BY <1>7 DEF AttemptFails, Crash, Restart, VerifyUnreadable
  <2>3. Located(w)' /\ location \in Locations
    BY <1>0, <2>1, <2>2 DEF Located, Locations
  <2> QED BY <1>0, <2>1, <2>2, <2>3, QuietTyped, BudgetType
<1> QED BY <1>a, <1>1, <1>2, <1>3, <1>4, <1>5, <1>6, <1>7, PersistingActions DEF Step

\* Types, valid copies and locations hold in every state.
LEMMA TypedStep == Typed /\ [Next]_vars => Typed'
<1> SUFFICES ASSUME Typed, [Next]_vars PROVE Typed'
  OBVIOUS
<1>1. CASE \E w \in Workers : Step(w) \/ Answer(w) \/ AttemptFails(w) \/ Crash(w) \/ Restart(w)
  BY <1>1, WorkerTyped
<1>2. CASE RetryIntervalElapses \/ LeaseExpires
  <2>1. work' \in Works
    BY <1>2 DEF Typed, TypeOK, Works, RetryIntervalElapses, LeaseExpires
  <2>2. disturbances' \in Nat
    BY <1>2, BudgetType DEF RetryIntervalElapses, LeaseExpires
  <2>3. UNCHANGED <<execution, evidence, audit, pc, claim, result, executeCalls>>
    BY <1>2 DEF RetryIntervalElapses, LeaseExpires
  <2> QED BY <2>1, <2>2, <2>3 DEF Typed, TypeOK, Located
<1>3. CASE UNCHANGED vars
  BY <1>3 DEF vars, Typed, TypeOK, Located
<1> QED BY <1>1, <1>2, <1>3 DEF Next

\* In every reachable state of the runtime the variables have their types.
THEOREM TypeCorrect == Spec => []TypeOK
<1>1. Typed => TypeOK
  BY DEF Typed
<1> QED BY <1>1, TypedInit, TypedStep, PTL DEF Spec

\* Every execution row a worker writes can be restored by the next reader.
THEOREM RowsRestorable == Spec => []Restorable
<1>1. Typed => Restorable
  BY DEF Typed, Restorable, Sound
<1> QED BY <1>1, TypedInit, TypedStep, PTL DEF Spec

-----------------------------------------------------------------------------
(* The steps, sorted by what they change.                                  *)

\* The worker moves on and leaves the store and its claim alone.
Moves(w) ==
  \E location \in Locations \ {"execute", "loading", "claimed"} :
    /\ Goto(w, location)
    /\ UNCHANGED <<execution, work, evidence, audit, claim, executeCalls>>
    /\ location \in BeforeWrite => pc[w] \in BeforeWrite
    /\ location = "observe" /\ claim[w].execution.status = "EXECUTING" => claim[w].started
    /\ location = "update" => claim[w].execution.status # "EXECUTING"

\* Every step of a worker is one of these.
LEMMA Frame ==
  ASSUME Typed, NEW w \in Workers,
         Step(w) \/ Answer(w) \/ AttemptFails(w) \/ Crash(w) \/ Restart(w)
  PROVE  \/ Persists(w) \/ Moves(w)
         \/ ClaimNext(w) \/ LoadClaim(w) \/ MarkSubmissionStarted(w)
         \/ \E answer \in ExecuteOutcomes : AdapterExecute(w, answer)
         \/ AppendPending(w) \/ Release(w)
<1>0. Located(w) /\ claim[w].execution.status \in Statuses
  BY DEF Typed, TypeOK, Claims, Executions
<1>1. CASE GivesUp(w) \/ VerifyUnreadable(w) \/ AttemptFails(w) \/ Crash(w) \/ Restart(w)
  <2>1. PICK location \in {"releaseErr", "exited", "idle"} : Goto(w, location)
    BY <1>1 DEF GivesUp, VerifyUnreadable, AttemptFails, Crash, Restart
  <2>2. UNCHANGED <<execution, work, evidence, audit, claim, executeCalls>>
    BY <1>1 DEF GivesUp, VerifyUnreadable, AttemptFails, Crash, Restart
  <2>3. location \in Locations \ {"execute", "loading", "claimed"} /\ location \notin BeforeWrite
    BY DEF Locations, BeforeWrite
  <2> QED BY <2>1, <2>2, <2>3 DEF Moves, BeforeWrite
<1>2. ASSUME NEW answer \in StatusOutcomes, AdapterGetStatus(w, answer) PROVE Moves(w)
  <2>1. PICK location \in {"releaseErr", "observe"} : Goto(w, location)
    BY <1>2 DEF AdapterGetStatus, AfterAdapter
  <2>2. /\ UNCHANGED <<execution, work, evidence, audit, claim, executeCalls>>
        /\ pc[w] \in BeforeWrite /\ claim[w].started
    BY <1>2 DEF AdapterGetStatus, BeforeWrite
  <2> QED BY <2>1, <2>2 DEF Moves, Locations
<1>3. ASSUME NEW answer \in VerifyOutcomes, Verify(w, answer) PROVE Moves(w)
  <2> DEFINE status == claim[w].execution.status
  <2>1. /\ status \in {"CONFIRMING", "CONFIRMED"} /\ pc[w] \in BeforeWrite
        /\ Goto(w, AfterVerify(status, answer)) /\ answer \in VerifierOutcomes
        /\ UNCHANGED <<execution, work, evidence, audit, claim, executeCalls>>
    BY <1>3, OutcomesAssumption DEF Verify, BeforeWrite
  <2>2. /\ answer.ref \in BOOLEAN
        /\ answer.kind \in {"PENDING", "VERIFIED", "FAILED", "UNAVAILABLE", "AMBIGUOUS", "INVALID"}
    BY <2>1 DEF VerifierOutcomes
  <2>3. AfterVerify(status, answer) \in Locations \ {"execute", "loading", "claimed"}
    BY <2>1, <2>2 DEF AfterVerify, Locations
  <2> QED BY <2>1, <2>3 DEF Moves
<1> QED BY <1>1, <1>2, <1>3, PersistingActions DEF Step, Answer

-----------------------------------------------------------------------------
(* The submission marker.                                                  *)

\* Once the adapter may have been asked to submit, the marker is set; at most one
\* worker is about to ask, and only while nobody has.
SubmissionInv ==
  /\ SubmittedAtMostOnce
  /\ executeCalls > 0 => work.started
  /\ \A w \in Workers : pc[w] = "execute" => work.started /\ executeCalls = 0
  /\ \A w, v \in Workers : pc[w] = "execute" /\ pc[v] = "execute" => w = v

\* A step that neither sets the marker nor calls Execute nor brings a worker to
\* the call preserves the submission invariant.
LEMMA SubmissionFrame ==
  ASSUME SubmissionInv, executeCalls' = executeCalls, work.started => work'.started,
         \A v \in Workers : pc'[v] = "execute" => pc[v] = "execute"
  PROVE  SubmissionInv'
BY DEF SubmissionInv, SubmittedAtMostOnce

\* Every step preserves the submission invariant: MarkSubmissionStarted succeeds
\* only while the marker is clear, Execute uses it up.
LEMMA SubmissionStep == Typed /\ SubmissionInv /\ [Next]_vars => SubmissionInv'
<1> SUFFICES ASSUME Typed, SubmissionInv, [Next]_vars PROVE SubmissionInv'
  OBVIOUS
<1>0. /\ pc \in [Workers -> Locations] /\ work \in Works /\ executeCalls \in Nat
  BY DEF Typed, TypeOK
<1>1. ASSUME NEW w \in Workers,
             Step(w) \/ Answer(w) \/ AttemptFails(w) \/ Crash(w) \/ Restart(w)
      PROVE  SubmissionInv'
  <2>1. CASE Persists(w)
    <3>1. PICK after \in {"release", "verify", "releaseErr"} : Goto(w, after)
      BY <2>1 DEF Persists, Persist, Acknowledged
    <3>2. UNCHANGED <<work, executeCalls>>
      BY <2>1 DEF Persists, Persist
    <3> QED BY <1>0, <3>1, <3>2, SubmissionFrame DEF Goto
  <2>2. CASE Moves(w)
    <3>1. PICK location \in Locations \ {"execute"} : Goto(w, location)
      BY <2>2 DEF Moves
    <3>2. UNCHANGED <<work, executeCalls>>
      BY <2>2 DEF Moves
    <3> QED BY <1>0, <3>1, <3>2, SubmissionFrame DEF Goto
  <2>3. CASE ClaimNext(w) \/ LoadClaim(w) \/ AppendPending(w) \/ Release(w)
    <3>1. PICK location \in Locations \ {"execute"} : Goto(w, location)
      BY <2>3 DEF ClaimNext, LoadClaim, AppendPending, Acknowledged, Release, Locations
    <3>2. work'.started = work.started /\ UNCHANGED executeCalls
      BY <1>0, <2>3 DEF ClaimNext, LoadClaim, AppendPending, Release, Works
    <3> QED BY <1>0, <3>1, <3>2, SubmissionFrame DEF Goto
  <2>4. CASE MarkSubmissionStarted(w)
    <3>1. CASE MarkAllowed(w)
      <4>1. /\ work.started = FALSE /\ work'.started = TRUE /\ executeCalls' = executeCalls
            /\ pc' = [pc EXCEPT ![w] = "execute"] \/ pc' = [pc EXCEPT ![w] = "releaseErr"]
        BY <1>0, <2>4, <3>1
           DEF MarkSubmissionStarted, MarkAllowed, Acknowledged, Goto, Works
      <4>2. executeCalls = 0 /\ \A v \in Workers : pc[v] # "execute"
        BY SMT, <1>0, <4>1 DEF SubmissionInv
      <4> QED BY <1>0, <4>1, <4>2 DEF SubmissionInv, SubmittedAtMostOnce
    <3>2. CASE ~MarkAllowed(w)
      <4>1. Goto(w, "update") /\ UNCHANGED <<work, executeCalls>>
        BY <2>4, <3>2 DEF MarkSubmissionStarted
      <4> QED BY <1>0, <4>1, SubmissionFrame DEF Goto
    <3> QED BY <3>1, <3>2
  <2>5. ASSUME NEW answer \in ExecuteOutcomes, AdapterExecute(w, answer)
        PROVE  SubmissionInv'
    <3>1. /\ pc[w] = "execute" /\ executeCalls' = executeCalls + 1 /\ UNCHANGED work
          /\ pc' = [pc EXCEPT ![w] = "observe"] \/ pc' = [pc EXCEPT ![w] = "releaseErr"]
      BY <2>5 DEF AdapterExecute, AfterAdapter, Goto
    <3>2. work.started /\ executeCalls = 0 /\ \A v \in Workers : pc[v] = "execute" => v = w
      BY <3>1 DEF SubmissionInv
    <3>3. \A v \in Workers : pc'[v] # "execute"
      BY <1>0, <3>1, <3>2
    <3> QED BY SMT, <3>1, <3>2, <3>3 DEF SubmissionInv, SubmittedAtMostOnce
  <2> QED BY <1>1, <2>1, <2>2, <2>3, <2>4, <2>5, Frame
<1>2. CASE RetryIntervalElapses \/ LeaseExpires
  <2>1. /\ work'.started = work.started /\ UNCHANGED <<pc, executeCalls>>
    BY <1>0, <1>2 DEF RetryIntervalElapses, LeaseExpires, Works
  <2> QED BY <2>1, SubmissionFrame
<1>3. CASE UNCHANGED vars
  BY <1>3, SubmissionFrame DEF vars
<1> QED BY <1>1, <1>2, <1>3 DEF Next

\* However many workers run, crash, and lose their leases, and whatever the
\* adapter answers, adapter.Execute is called at most once per execution.
THEOREM SubmittedOnce == Spec => []SubmittedAtMostOnce
<1>1. Init => SubmissionInv
  BY SMT DEF Init, SubmissionInv, SubmittedAtMostOnce
<1>2. SubmissionInv => SubmittedAtMostOnce
  BY DEF SubmissionInv
<1> QED BY <1>1, <1>2, TypedInit, TypedStep, SubmissionStep, PTL DEF Spec

-----------------------------------------------------------------------------
(* The fence.                                                              *)

\* What a transaction that commits does to the store.
LEMMA CommitEffect ==
  ASSUME Typed, LiveClaimIsCurrent, NEW w \in Workers, Persists(w)
  PROVE  \/ UNCHANGED <<execution, evidence, audit, claim, work>> /\ Goto(w, "releaseErr")
         \/ \E next \in Executions, rows \in SUBSET EvidenceRows :
              /\ ClaimHeld(w) /\ claim[w].execution = execution
              /\ Successor(execution, next) /\ next.revision = execution.revision + 1
              /\ RowsOf(next, rows) /\ LeavesProvider(w, next)
              /\ execution' = next
              /\ evidence' = evidence \cup rows
              /\ audit' = Append(audit, [previous |-> execution.status, new |-> next.status])
              /\ claim' = [claim EXCEPT ![w].execution = next]
              /\ UNCHANGED work
<1>1. PICK next \in Executions, rows \in SUBSET EvidenceRows, after \in {"release", "verify"} :
        /\ pc[w] \in BeforeWrite
        /\ Persist(w, next, rows, after)
        /\ Successor(claim[w].execution, next)
        /\ next.revision = claim[w].execution.revision + 1
        /\ RowsOf(next, rows) /\ LeavesProvider(w, next)
  BY DEF Persists
<1>2. CASE WriteAllowed(w)
  <2>1. ClaimHeld(w) /\ claim[w].execution = execution
    BY <1>1, <1>2 DEF WriteAllowed, LiveClaimIsCurrent
  <2> QED BY <1>1, <1>2, <2>1 DEF Persist
<1>3. CASE ~WriteAllowed(w)
  BY <1>1, <1>3 DEF Persist
<1> QED BY <1>2, <1>3

\* Every step keeps held claims current: a transaction updates its own copy and
\* excludes every other holder, a new claim replaces the old holder.
LEMMA CurrentStep == Typed /\ LiveClaimIsCurrent /\ [Next]_vars => LiveClaimIsCurrent'
<1> SUFFICES ASSUME Typed, LiveClaimIsCurrent, [Next]_vars,
                    NEW v \in Workers, pc'[v] \in BeforeWrite, ClaimHeld(v)'
             PROVE  claim'[v].execution = execution'
  BY DEF LiveClaimIsCurrent
<1>0. /\ pc \in [Workers -> Locations] /\ work \in Works
      /\ claim \in [Workers -> Claims] /\ claim[v] \in Claims
  BY DEF Typed, TypeOK
<1>1. ASSUME NEW w \in Workers,
             Step(w) \/ Answer(w) \/ AttemptFails(w) \/ Crash(w) \/ Restart(w)
      PROVE  claim'[v].execution = execution'
  <2>1. CASE Persists(w)
    <3>1. CASE UNCHANGED <<execution, evidence, audit, claim, work>> /\ Goto(w, "releaseErr")
      BY <1>0, <3>1 DEF Goto, LiveClaimIsCurrent, ClaimHeld, BeforeWrite
    <3>2. ASSUME NEW next \in Executions, ClaimHeld(w), execution' = next,
                 claim' = [claim EXCEPT ![w].execution = next], UNCHANGED work
          PROVE  claim'[v].execution = execution'
      <4>1. v = w
        BY <1>0, <3>2 DEF ClaimHeld
      <4> QED BY <1>0, <3>2, <4>1 DEF Claims
    <3> QED BY <2>1, <3>1, <3>2, CommitEffect
  <2>2. CASE Moves(w)
    <3>1. PICK location \in Locations :
            /\ Goto(w, location) /\ UNCHANGED <<execution, work, claim>>
            /\ location \in BeforeWrite => pc[w] \in BeforeWrite
      BY <2>2 DEF Moves
    <3> QED BY <1>0, <3>1 DEF Goto, LiveClaimIsCurrent, ClaimHeld
  <2>3. CASE ClaimNext(w)
    <3>1. work'.owner = w /\ pc'[w] = "loading"
      BY <1>0, <2>3 DEF ClaimNext, Goto, Works
    <3> QED BY <3>1 DEF ClaimHeld, BeforeWrite
  <2>4. CASE LoadClaim(w)
    <3>1. CASE ClaimHeld(w)
      <4>1. /\ claim' = [claim EXCEPT ![w].execution = execution]
            /\ UNCHANGED <<work, execution>>
        BY <2>4, <3>1 DEF LoadClaim
      <4>2. v = w
        BY <1>0, <3>1, <4>1 DEF ClaimHeld
      <4> QED BY <1>0, <4>1, <4>2 DEF Claims
    <3>2. CASE ~ClaimHeld(w)
      BY <1>0, <2>4, <3>2 DEF LoadClaim, Goto, LiveClaimIsCurrent, ClaimHeld, BeforeWrite
    <3> QED BY <3>1, <3>2
  <2>5. CASE MarkSubmissionStarted(w)
    <3>1. /\ pc[w] \in BeforeWrite /\ UNCHANGED execution
          /\ claim'[v].execution = claim[v].execution /\ claim'[v].token = claim[v].token
          /\ work'.owner = work.owner /\ work'.token = work.token /\ work'.lease = work.lease
      BY SMT, <1>0, <2>5 DEF MarkSubmissionStarted, BeforeWrite, Works, Claims
    <3>2. v # w => pc'[v] = pc[v]
      BY <1>0, <2>5 DEF MarkSubmissionStarted, Acknowledged, Goto
    <3> QED BY <3>1, <3>2 DEF LiveClaimIsCurrent, ClaimHeld
  <2>6. CASE \E answer \in ExecuteOutcomes : AdapterExecute(w, answer)
    <3>1. /\ pc[w] \in BeforeWrite /\ UNCHANGED <<execution, work, claim>>
          /\ v # w => pc'[v] = pc[v]
      BY <1>0, <2>6 DEF AdapterExecute, Goto, BeforeWrite
    <3> QED BY <3>1 DEF LiveClaimIsCurrent, ClaimHeld
  <2>7. CASE AppendPending(w)
    <3>1. /\ pc[w] \in BeforeWrite /\ UNCHANGED <<execution, work, claim>>
          /\ v # w => pc'[v] = pc[v]
      BY <1>0, <2>7 DEF AppendPending, Acknowledged, Goto, BeforeWrite
    <3> QED BY <3>1 DEF LiveClaimIsCurrent, ClaimHeld
  <2>8. CASE Release(w)
    <3>1. /\ pc'[w] \notin BeforeWrite /\ UNCHANGED <<execution, claim>>
          /\ v # w => pc'[v] = pc[v]
          /\ work' = work \/ work'.lease = "none"
      BY <1>0, <2>8 DEF Release, Goto, BeforeWrite, Works
    <3> QED BY <3>1 DEF LiveClaimIsCurrent, ClaimHeld
  <2> QED BY <1>1, <2>1, <2>2, <2>3, <2>4, <2>5, <2>6, <2>7, <2>8, Frame
<1>2. CASE RetryIntervalElapses \/ LeaseExpires
  <2>1. /\ UNCHANGED <<execution, pc, claim>>
        /\ work'.owner = work.owner /\ work'.token = work.token
        /\ work'.lease \in {work.lease, "expired"}
    BY <1>0, <1>2 DEF RetryIntervalElapses, LeaseExpires, Works
  <2> QED BY <2>1 DEF LiveClaimIsCurrent, ClaimHeld
<1>3. CASE UNCHANGED vars
  BY <1>3 DEF vars, LiveClaimIsCurrent, ClaimHeld
<1> QED BY <1>1, <1>2, <1>3 DEF Next

\* A worker whose lease is live never acts on a stale copy of the execution: the
\* fencing token, not the revision check, is what protects it.
THEOREM ClaimIsCurrent == Spec => []LiveClaimIsCurrent
<1>1. Init => LiveClaimIsCurrent
  BY DEF Init, LiveClaimIsCurrent, BeforeWrite
<1> QED BY <1>1, TypedInit, TypedStep, CurrentStep, PTL DEF Spec

-----------------------------------------------------------------------------
(* What a step does to the durable history.                                *)

\* One fenced transaction committed.
Commits ==
  \E next \in Executions, rows \in SUBSET EvidenceRows :
    /\ Successor(execution, next) /\ next.revision = execution.revision + 1
    /\ RowsOf(next, rows)
    /\ execution' = next
    /\ evidence' = evidence \cup rows
    /\ audit' = Append(audit, [previous |-> execution.status, new |-> next.status])

\* A PENDING observation was appended for the current revision and status.
Appends ==
  /\ UNCHANGED <<execution, audit>>
  /\ execution.status \in {"CONFIRMING", "CONFIRMED"}
  /\ \E row \in EvidenceRows : /\ row.version = execution.revision
                                /\ row.status = execution.status
                                /\ evidence' = evidence \cup {row}

\* Every step commits one transaction, appends one observation, or leaves the
\* execution, its evidence and its audit trail alone.
LEMMA HistoryFrame ==
  ASSUME Typed, LiveClaimIsCurrent, [Next]_vars
  PROVE  Commits \/ Appends \/ UNCHANGED <<execution, evidence, audit>>
<1>1. ASSUME NEW w \in Workers,
             Step(w) \/ Answer(w) \/ AttemptFails(w) \/ Crash(w) \/ Restart(w)
      PROVE  Commits \/ Appends \/ UNCHANGED <<execution, evidence, audit>>
  <2>1. CASE Persists(w)
    BY <2>1, CommitEffect DEF Commits
  <2>2. CASE AppendPending(w)
    <3> DEFINE e == claim[w].execution
               row == [version |-> e.revision, status |-> e.status, ref |-> TRUE, code |-> FALSE]
    <3>1. CASE AppendMatches(w)
      <4>1. /\ UNCHANGED <<execution, audit>> /\ evidence' = evidence \cup {row}
            /\ e.revision = execution.revision /\ e.status = execution.status
        BY <2>2, <3>1 DEF AppendPending, AppendMatches
      <4>2. e.status \in {"CONFIRMING", "CONFIRMED"} /\ e \in Executions
        BY <2>2 DEF AppendPending, Typed, Located, TypeOK, Claims
      <4>3. row \in EvidenceRows /\ row.version = execution.revision /\ row.status = execution.status
        BY <4>1, <4>2 DEF EvidenceRows, Executions
      <4> QED BY <4>1, <4>2, <4>3 DEF Appends
    <3>2. CASE ~AppendMatches(w)
      BY <2>2, <3>2 DEF AppendPending
    <3> QED BY <3>1, <3>2
  <2>3. CASE Moves(w)
    BY <2>3 DEF Moves
  <2>4. CASE ClaimNext(w) \/ LoadClaim(w) \/ MarkSubmissionStarted(w) \/ Release(w)
             \/ \E answer \in ExecuteOutcomes : AdapterExecute(w, answer)
    BY <2>4 DEF ClaimNext, LoadClaim, MarkSubmissionStarted, Release, AdapterExecute
  <2> QED BY <1>1, <2>1, <2>2, <2>3, <2>4, Frame
<1>2. CASE RetryIntervalElapses \/ LeaseExpires
  BY <1>2 DEF RetryIntervalElapses, LeaseExpires
<1>3. CASE UNCHANGED vars
  BY <1>3 DEF vars
<1> QED BY <1>1, <1>2, <1>3 DEF Next

\* A committed transaction is a step of the lifecycle.
LEMMA CommitIsLifecycleStep ==
  ASSUME Commits
  PROVE  LifecycleNext
<1>1. Successor(execution, execution')
  BY DEF Commits
<1> QED BY <1>1 DEF Successor, LifecycleNext, TransitionStep, FailStep,
                    RequireRecoveryStep, RecoverStep, ResumeStep

\* Every step of the runtime is a step of the lifecycle or leaves the execution.
LEMMA RefinementStep ==
  Typed /\ LiveClaimIsCurrent /\ [Next]_vars => [LifecycleNext]_execution
BY HistoryFrame, CommitIsLifecycleStep DEF Appends

\* The runtime implements the lifecycle: with any number of workers, whatever
\* they interleave with and however they fail, the durable execution only takes
\* the steps that one sequential caller of the domain functions could take.
THEOREM RuntimeImplementsLifecycle == Spec => LifecycleSpec
<1>1. Init => LifecycleInit
  BY DEF Init
<1> QED BY <1>1, RefinementStep, ClaimIsCurrent, TypedInit, TypedStep, PTL
        DEF Spec, LifecycleSpec

\* Retries and recovery in the runtime never take an execution behind the
\* checkpoint it reached.
THEOREM RuntimeNeverRegresses == Spec => NeverRegresses
BY RuntimeImplementsLifecycle, LifecycleNeverRegresses, PTL

\* A settled execution and its evidence stay as they are, also against workers
\* that still hold an older copy of it.
THEOREM SettledIsFinal == Spec => TerminalIsFinal
<1>1. ASSUME Typed, LiveClaimIsCurrent, [Next]_vars, Terminal(execution)
      PROVE  UNCHANGED <<execution, evidence>>
  <2>1. ~Commits
    BY <1>1, CommitIsLifecycleStep, TerminalTakesNoStep
  <2>2. ~Appends
    BY <1>1 DEF Appends, Terminal
  <2> QED BY <1>1, <2>1, <2>2, HistoryFrame
<1>2. Typed /\ LiveClaimIsCurrent /\ [Next]_vars =>
        [Terminal(execution) => UNCHANGED <<execution, evidence>>]_vars
  BY <1>1
<1> QED BY <1>2, ClaimIsCurrent, TypedInit, TypedStep, PTL DEF Spec, TerminalIsFinal

-----------------------------------------------------------------------------
(* Audit trail and evidence.                                               *)

HistoryInv == AuditTrail /\ EvidenceMatchesHistory

\* Every step keeps the audit trail and the evidence consistent with the row.
LEMMA HistoryStep ==
  Typed /\ LiveClaimIsCurrent /\ HistoryInv /\ [Next]_vars => HistoryInv'
<1> SUFFICES ASSUME Typed, LiveClaimIsCurrent, HistoryInv, [Next]_vars PROVE HistoryInv'
  OBVIOUS
<1>0. /\ audit \in Seq(AuditRecords) /\ Len(audit) \in Nat
      /\ execution \in Executions /\ execution.revision \in Nat \ {0}
      /\ Len(audit) = execution.revision - 1
      /\ evidence \subseteq EvidenceRows
  BY SMT DEF Typed, TypeOK, Executions, HistoryInv, AuditTrail
<1>1. CASE Commits
  <2>1. PICK next \in Executions, rows \in SUBSET EvidenceRows :
          /\ next.revision = execution.revision + 1
          /\ RowsOf(next, rows)
          /\ execution' = next
          /\ evidence' = evidence \cup rows
          /\ audit' = Append(audit, [previous |-> execution.status, new |-> next.status])
    BY <1>1 DEF Commits
  <2> DEFINE n == Len(audit)
  <2>2. /\ Len(audit') = n + 1 /\ audit' # <<>>
        /\ \A i \in 1 .. n : audit'[i] = audit[i]
        /\ audit'[n + 1].previous = execution.status
        /\ audit'[n + 1].new = next.status
    BY SMT, <1>0, <2>1
  <2>3. execution.status = IF n = 0 THEN "CREATED" ELSE audit[n].new
    BY SMT, <1>0 DEF HistoryInv, AuditTrail
  <2>4. AuditTrail'
    <3>1. Len(audit') = execution'.revision - 1
      BY SMT, <1>0, <2>1, <2>2
    <3>2. ASSUME NEW i \in 1 .. Len(audit')
          PROVE  audit'[i].previous = IF i = 1 THEN "CREATED" ELSE audit'[i - 1].new
      <4>1. CASE i \in 1 .. n
        <5>1. audit[i].previous = IF i = 1 THEN "CREATED" ELSE audit[i - 1].new
          BY <4>1 DEF HistoryInv, AuditTrail
        <5>2. i # 1 => i - 1 \in 1 .. n
          BY SMT, <1>0, <4>1
        <5> QED BY <4>1, <5>1, <5>2, <2>2
      <4>2. CASE i = n + 1
        <5>1. i # 1 => i - 1 = n /\ n \in 1 .. n
          BY SMT, <1>0, <4>2
        <5>2. i = 1 <=> n = 0
          BY SMT, <1>0, <4>2
        <5> QED BY <4>2, <5>1, <5>2, <2>2, <2>3
      <4> QED BY SMT, <1>0, <2>2, <4>1, <4>2
    <3>3. execution'.status = IF audit' = <<>> THEN "CREATED" ELSE audit'[Len(audit')].new
      BY <2>1, <2>2
    <3> QED BY <3>1, <3>2, <3>3 DEF AuditTrail
  <2>5. EvidenceMatchesHistory'
    <3>1. ASSUME NEW row \in evidence'
          PROVE  /\ row.version - 1 \in 1 .. Len(audit')
                 /\ audit'[row.version - 1].new = row.status
      <4>1. CASE row \in evidence
        BY SMT, <1>0, <2>2, <4>1 DEF HistoryInv, EvidenceMatchesHistory
      <4>2. CASE row \in rows
        <5>1. row.version = next.revision /\ row.status = next.status
          BY <2>1, <4>2 DEF RowsOf
        <5>2. row.version - 1 = n + 1
          BY SMT, <1>0, <2>1, <5>1
        <5> QED BY SMT, <1>0, <2>2, <5>1, <5>2
      <4> QED BY <2>1, <4>1, <4>2
    <3>2. ASSUME NEW i \in 1 .. Len(audit'), audit'[i].new = "VERIFIED"
          PROVE  \E row \in evidence' : row.version = i + 1 /\ row.status = "VERIFIED"
      <4>1. CASE i \in 1 .. n
        BY SMT, <2>1, <2>2, <3>2, <4>1 DEF HistoryInv, EvidenceMatchesHistory
      <4>2. CASE i = n + 1
        <5>1. next.status = "VERIFIED" /\ next.revision = i + 1
          BY SMT, <1>0, <2>1, <2>2, <3>2, <4>2
        <5>2. PICK row \in rows : row.version = next.revision /\ row.status = next.status
          BY <2>1, <5>1 DEF RowsOf
        <5> QED BY <2>1, <5>1, <5>2
      <4> QED BY SMT, <1>0, <2>2, <4>1, <4>2
    <3> QED BY <3>1, <3>2 DEF EvidenceMatchesHistory
  <2> QED BY <2>4, <2>5 DEF HistoryInv
<1>2. CASE Appends
  <2>1. PICK row \in EvidenceRows : /\ row.version = execution.revision
                                    /\ row.status = execution.status
                                    /\ evidence' = evidence \cup {row}
    BY <1>2 DEF Appends
  <2>2. UNCHANGED <<execution, audit>> /\ audit # <<>>
    BY <1>2 DEF Appends, HistoryInv, AuditTrail
  <2>3. /\ row.version - 1 \in 1 .. Len(audit)
        /\ audit[row.version - 1].new = row.status
    BY SMT, <1>0, <2>1, <2>2 DEF HistoryInv, AuditTrail
  <2>4. AuditTrail'
    BY <2>2 DEF HistoryInv, AuditTrail
  <2>5. EvidenceMatchesHistory'
    BY <2>1, <2>2, <2>3 DEF HistoryInv, EvidenceMatchesHistory
  <2> QED BY <2>4, <2>5 DEF HistoryInv
<1>3. CASE UNCHANGED <<execution, evidence, audit>>
  BY <1>3 DEF HistoryInv, AuditTrail, EvidenceMatchesHistory
<1> QED BY <1>1, <1>2, <1>3, HistoryFrame

\* The audit trail records every revision exactly once and without a gap.
THEOREM AuditIsTheHistory == Spec => []AuditTrail
<1>1. Init => HistoryInv
  BY SMT DEF Init, LifecycleInit, New, HistoryInv, AuditTrail, EvidenceMatchesHistory
<1>2. HistoryInv => AuditTrail
  BY DEF HistoryInv
<1> QED BY <1>1, <1>2, HistoryStep, ClaimIsCurrent, TypedInit, TypedStep, PTL DEF Spec

\* Evidence names revisions the execution had, and no execution is VERIFIED
\* without VERIFIED evidence at that revision.
THEOREM EvidenceIsTheHistory == Spec => []EvidenceMatchesHistory
<1>1. Init => HistoryInv
  BY SMT DEF Init, LifecycleInit, New, HistoryInv, AuditTrail, EvidenceMatchesHistory
<1>2. HistoryInv => EvidenceMatchesHistory
  BY DEF HistoryInv
<1> QED BY <1>1, <1>2, HistoryStep, ClaimIsCurrent, TypedInit, TypedStep, PTL DEF Spec

-----------------------------------------------------------------------------
(* The marker precedes everything the provider may have been told.         *)

\* The durable row and every copy of it stay before the provider until the
\* marker is set; a worker that was refused the mark has lost its claim.
MarkedWorker(w) ==
  LET status == claim[w].execution.status IN
  /\ ~work.started => status \in BeforeProvider
  /\ claim[w].started => work.started
  /\ pc[w] \in {"execute", "observe"} /\ status = "EXECUTING" => claim[w].started
  /\ pc[w] = "update" /\ status = "EXECUTING" => work.started \/ ~ClaimHeld(w)

MarkedInv == /\ MarkedBeforeProviderStatus
             /\ \A w \in Workers : MarkedWorker(w)

\* A worker that did not move keeps its facts when the marker is only ever set
\* and the claim is only ever lost.
LEMMA MarkedKeeps ==
  ASSUME NEW v \in Workers, MarkedWorker(v),
         pc'[v] = pc[v], claim'[v] = claim[v],
         work.started => work'.started,
         ClaimHeld(v)' => ClaimHeld(v)
  PROVE  MarkedWorker(v)'
BY DEF MarkedWorker

\* Every step preserves the order of marker and provider status.
LEMMA MarkedStep ==
  Typed /\ LiveClaimIsCurrent /\ MarkedInv /\ [Next]_vars => MarkedInv'
<1> SUFFICES ASSUME Typed, LiveClaimIsCurrent, MarkedInv, [Next]_vars PROVE MarkedInv'
  OBVIOUS
<1>0. /\ pc \in [Workers -> Locations] /\ work \in Works
      /\ claim \in [Workers -> Claims]
  BY DEF Typed, TypeOK
<1>1. ASSUME NEW w \in Workers,
             Step(w) \/ Answer(w) \/ AttemptFails(w) \/ Crash(w) \/ Restart(w)
      PROVE  MarkedInv'
  <2> DEFINE status == claim[w].execution.status
  <2>0. MarkedWorker(w) /\ claim[w] \in Claims
    BY <1>0 DEF MarkedInv
  <2>a. ASSUME \A v \in Workers \ {w} : pc'[v] = pc[v] /\ claim'[v] = claim[v],
               work.started => work'.started,
               \A v \in Workers \ {w} : ClaimHeld(v)' => ClaimHeld(v),
               UNCHANGED execution, MarkedWorker(w)'
        PROVE  MarkedInv'
    <3>1. ASSUME NEW v \in Workers PROVE MarkedWorker(v)'
      <4>1. CASE v = w
        BY <2>a, <4>1
      <4>2. CASE v # w
        BY <2>a, <4>2, MarkedKeeps DEF MarkedInv
      <4> QED BY <4>1, <4>2
    <3> QED BY <2>a, <3>1 DEF MarkedInv, MarkedBeforeProviderStatus
  <2>1. CASE Persists(w)
    <3>0. PICK after \in {"release", "verify", "releaseErr"} : Goto(w, after)
      BY <2>1 DEF Persists, Persist, Acknowledged
    <3>1. CASE UNCHANGED <<execution, evidence, audit, claim, work>> /\ Goto(w, "releaseErr")
      <4>1. MarkedWorker(w)'
        BY <1>0, <2>0, <3>1 DEF MarkedWorker, Goto
      <4> QED BY <1>0, <2>a, <3>1, <4>1 DEF Goto, ClaimHeld
    <3>2. ASSUME NEW next \in Executions, ClaimHeld(w), claim[w].execution = execution,
                 LeavesProvider(w, next), execution' = next,
                 claim' = [claim EXCEPT ![w].execution = next], UNCHANGED work
          PROVE  MarkedInv'
      <4>1. ~work.started => next.status \in BeforeProvider
        BY <2>0, <3>2 DEF LeavesProvider, MarkedWorker, BeforeProvider
      <4>2. /\ claim'[w].execution = next /\ claim'[w].started = claim[w].started
            /\ pc'[w] = after
            /\ \A v \in Workers \ {w} : pc'[v] = pc[v] /\ claim'[v] = claim[v]
        BY <1>0, <2>0, <3>0, <3>2 DEF Goto, Claims
      <4>3. MarkedWorker(w)'
        BY <2>0, <3>2, <4>1, <4>2 DEF MarkedWorker
      <4>4. ASSUME NEW v \in Workers PROVE MarkedWorker(v)'
        <5>1. CASE v = w
          BY <4>3, <5>1
        <5>2. CASE v # w
          BY <3>2, <4>2, <5>2, MarkedKeeps DEF MarkedInv, ClaimHeld
        <5> QED BY <5>1, <5>2
      <4> QED BY <3>2, <4>1, <4>4 DEF MarkedInv, MarkedBeforeProviderStatus
    <3> QED BY <2>1, <3>1, <3>2, CommitEffect
  <2>2. CASE Moves(w)
    <3>1. PICK location \in Locations \ {"execute"} :
            /\ Goto(w, location) /\ UNCHANGED <<execution, work, claim>>
            /\ location = "observe" /\ status = "EXECUTING" => claim[w].started
            /\ location = "update" => status # "EXECUTING"
      BY <2>2 DEF Moves
    <3>2. MarkedWorker(w)'
      BY <1>0, <2>0, <3>1 DEF MarkedWorker, Goto
    <3> QED BY <1>0, <2>a, <3>1, <3>2 DEF Goto, ClaimHeld
  <2>3. CASE ClaimNext(w)
    <3>1. /\ pc'[w] = "loading" /\ work'.owner = w /\ work'.started = work.started
          /\ UNCHANGED execution
          /\ \A v \in Workers \ {w} : pc'[v] = pc[v] /\ claim'[v] = claim[v]
      BY <1>0, <2>3 DEF ClaimNext, Goto, Works
    <3>2. claim'[w].execution = claim[w].execution /\ claim'[w].started = work.started
      <4> DEFINE c == [claim[w] EXCEPT !.token = work.token + 1, !.started = work.started]
      <4>1. claim' = [claim EXCEPT ![w] = c]
        BY <1>0, <2>3 DEF ClaimNext
      <4>2. c.execution = claim[w].execution /\ c.started = work.started
        BY <2>0 DEF Claims
      <4> HIDE DEF c
      <4> QED BY <1>0, <4>1, <4>2
    <3>3. MarkedWorker(w)'
      BY <2>0, <3>1, <3>2 DEF MarkedWorker
    <3> QED BY <2>a, <3>1, <3>3 DEF ClaimHeld
  <2>4. CASE LoadClaim(w)
    <3>1. /\ UNCHANGED <<execution, work>> /\ pc'[w] \in {"claimed", "exited"}
          /\ claim'[w].started = claim[w].started
          /\ claim'[w].execution \in {claim[w].execution, execution}
          /\ \A v \in Workers \ {w} : pc'[v] = pc[v] /\ claim'[v] = claim[v]
      BY SMT, <1>0, <2>0, <2>4 DEF LoadClaim, Goto, Claims
    <3>2. MarkedWorker(w)'
      BY <2>0, <3>1 DEF MarkedWorker, MarkedInv, MarkedBeforeProviderStatus
    <3> QED BY <2>a, <3>1, <3>2 DEF ClaimHeld
  <2>5. CASE MarkSubmissionStarted(w)
    <3>1. CASE MarkAllowed(w)
      <4>1. /\ UNCHANGED execution /\ work'.started = TRUE /\ claim'[w].started = TRUE
            /\ work'.owner = work.owner /\ work'.token = work.token /\ work'.lease = work.lease
            /\ \A v \in Workers \ {w} : pc'[v] = pc[v] /\ claim'[v] = claim[v]
        BY SMT, <1>0, <2>0, <2>5, <3>1
           DEF MarkSubmissionStarted, Acknowledged, Goto, Works, Claims
      <4>2. MarkedWorker(w)'
        BY <4>1 DEF MarkedWorker
      <4> QED BY <2>a, <4>1, <4>2 DEF ClaimHeld
    <3>2. CASE ~MarkAllowed(w)
      <4>1. /\ UNCHANGED <<execution, work, claim>> /\ pc'[w] = "update"
            /\ \A v \in Workers \ {w} : pc'[v] = pc[v]
        BY <1>0, <2>5, <3>2 DEF MarkSubmissionStarted, Goto
      <4>2. MarkedWorker(w)'
        BY <2>0, <3>2, <4>1 DEF MarkedWorker, MarkAllowed, ClaimHeld
      <4> QED BY <2>a, <4>1, <4>2 DEF ClaimHeld
    <3> QED BY <3>1, <3>2
  <2>6. CASE \E answer \in ExecuteOutcomes : AdapterExecute(w, answer)
    <3>1. /\ pc[w] = "execute" /\ UNCHANGED <<execution, work, claim>>
          /\ pc'[w] \in {"observe", "releaseErr"}
          /\ \A v \in Workers \ {w} : pc'[v] = pc[v]
      BY <1>0, <2>6 DEF AdapterExecute, AfterAdapter, Goto
    <3>2. MarkedWorker(w)'
      BY <2>0, <3>1 DEF MarkedWorker
    <3> QED BY <2>a, <3>1, <3>2 DEF ClaimHeld
  <2>7. CASE AppendPending(w) \/ Release(w)
    <3>1. /\ UNCHANGED <<execution, claim>> /\ work'.started = work.started
          /\ pc'[w] \in {"release", "releaseErr", "idle", "exited"}
          /\ \A v \in Workers \ {w} : pc'[v] = pc[v]
          /\ work' = work \/ work'.lease = "none"
      BY <1>0, <2>7 DEF AppendPending, Release, Acknowledged, Goto, Works
    <3>2. MarkedWorker(w)'
      BY <2>0, <3>1 DEF MarkedWorker
    <3> QED BY <2>a, <3>1, <3>2 DEF ClaimHeld
  <2> QED BY <1>1, <2>1, <2>2, <2>3, <2>4, <2>5, <2>6, <2>7, Frame
<1>2. CASE RetryIntervalElapses \/ LeaseExpires
  <2>1. /\ UNCHANGED <<execution, pc, claim>> /\ work'.started = work.started
        /\ work'.owner = work.owner /\ work'.token = work.token
        /\ work'.lease \in {work.lease, "expired"}
    BY <1>0, <1>2 DEF RetryIntervalElapses, LeaseExpires, Works
  <2> QED BY <2>1 DEF MarkedInv, MarkedWorker, MarkedBeforeProviderStatus, ClaimHeld
<1>3. CASE UNCHANGED vars
  BY <1>3 DEF vars, MarkedInv, MarkedWorker, MarkedBeforeProviderStatus, ClaimHeld
<1> QED BY <1>1, <1>2, <1>3 DEF Next

\* No execution row tells of the provider before the submission marker is
\* durable, so a crash at any point leaves an execution that reconciles.
THEOREM MarkerComesFirst == Spec => []MarkedBeforeProviderStatus
<1>1. Init => MarkedInv
  BY SMT DEF Init, LifecycleInit, New, MarkedInv, MarkedWorker,
         MarkedBeforeProviderStatus, BeforeProvider
<1>2. MarkedInv => MarkedBeforeProviderStatus
  BY DEF MarkedInv
<1> QED BY <1>1, <1>2, MarkedStep, ClaimIsCurrent, TypedInit, TypedStep, PTL DEF Spec
=============================================================================
