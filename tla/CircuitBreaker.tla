-------------------------- MODULE CircuitBreaker --------------------------
(***************************************************************************)
(* The circuit breaker (internal/providers/circuit) and the way the Circle *)
(* and Arc clients drive it: Allow before a call, then RecordSuccess,      *)
(* RecordFailure or neither, depending on how the call ended.              *)
(*                                                                         *)
(* Each breaker method runs under the mutex, so it is one step; the call   *)
(* between Allow and the record is not, so results arrive late and in any  *)
(* order.  Time is abstracted to whether OpenDuration has passed since     *)
(* openedAt.                                                               *)
(***************************************************************************)
EXTENDS Integers, FiniteSets

CONSTANTS Callers,            \* goroutines sharing one breaker
          FailureThreshold, HalfOpenMaxProbes,
          FailCap             \* bound: consecutiveFails saturates here

\* The two clients that own a breaker, and the calls each makes through it.
Clients == {"circle", "arc"}
Kinds(owner) == IF owner = "circle" THEN {"submit", "read", "health"} ELSE {"rpc"}

ASSUME ConfigAssumption == /\ FailureThreshold \in Nat \ {0}
                           /\ HalfOpenMaxProbes \in Nat \ {0}
                           /\ FailCap \in Nat /\ FailCap >= FailureThreshold

VARIABLES state, consecutiveFails, halfOpenProbes,
          cooled,   \* OpenDuration has passed since openedAt
          call,     \* per caller: the call in flight
          client    \* the client whose breaker this is; never changes

breakerVars == <<state, consecutiveFails, halfOpenProbes, cooled, call, client>>

NoCall == [kind |-> "NONE", admitted |-> "NONE"]

\* admitted is history: the call was let through while CLOSED, as a probe of the
\* current HALF_OPEN period, or as a probe of a period that has ended.
InFlight == [kind : Kinds(client), admitted : {"closed", "probe", "stale"}]

BreakerTypeOK == /\ state \in {"CLOSED", "OPEN", "HALF_OPEN"}
                 /\ consecutiveFails \in 0 .. FailCap
                 /\ halfOpenProbes \in Nat
                 /\ cooled \in BOOLEAN
                 /\ client \in Clients
                 /\ call \in [Callers -> InFlight \cup {NoCall}]

BreakerInit == /\ state = "CLOSED"
               /\ consecutiveFails = 0
               /\ halfOpenProbes = 0
               /\ cooled = FALSE
               /\ call = [c \in Callers |-> NoCall]
               /\ client \in Clients

-----------------------------------------------------------------------------
(* How a call ends, and what the client records.                           *)

\* A request that cannot be built is left out: the URLs are validated at start-up.
\* 401/403, 400/404/422, 409, 429, 5xx, any other non-2xx.
HTTPStatuses == {"unauthorized", "rejected", "conflict", "limited", "server", "other"}

Endings == {"ok", "unreadable", "unreachable"} \cup HTTPStatuses

ClassifyHTTPStatus(status, submitted) ==
  CASE submitted \/ status = "conflict"                     -> "AMBIGUOUS"
    [] ~submitted /\ status \in {"unauthorized", "rejected"} -> "PERMANENT"
    [] ~submitted /\ status \in {"limited", "server", "other"} -> "TRANSIENT"

CountsTowardCircuit(class, status) ==
  \/ class \in {"TRANSIENT", "AMBIGUOUS"}
  \/ class = "PERMANENT" /\ status \in {"unauthorized", "server"}

\* client.do of the Circle client.
RecordOfDo(ending, submitting) ==
  CASE ending = "ok"                           -> "success"
    [] ending \in {"unreachable", "unreadable"} -> "failure"
    [] ending \in HTTPStatuses ->
         IF CountsTowardCircuit(ClassifyHTTPStatus(ending, submitting), ending)
           THEN "failure" ELSE "nothing"

\* client.healthProbe of the Circle client: any answer below 500 is a success.
RecordOfHealthProbe(ending) ==
  IF ending \in {"unreachable", "server"} THEN "failure" ELSE "success"

\* Client.call of the Arc client: every request that was sent is recorded.
RecordOfRPC(ending) == IF ending = "ok" THEN "success" ELSE "failure"

Record(kind, ending) ==
  CASE kind = "submit" -> RecordOfDo(ending, TRUE)
    [] kind = "read"   -> RecordOfDo(ending, FALSE)
    [] kind = "health" -> RecordOfHealthProbe(ending)
    [] kind = "rpc"    -> RecordOfRPC(ending)

-----------------------------------------------------------------------------
(* The breaker's methods.                                                  *)

Admit(c, kind, admitted) == call' = [call EXCEPT ![c] = [kind |-> kind, admitted |-> admitted]]

\* Allow; when it refuses, nothing changes and the caller returns an error.
AllowClosed(c, kind) ==
  /\ state = "CLOSED"
  /\ Admit(c, kind, "closed")
  /\ UNCHANGED <<state, halfOpenProbes>>

AllowOpen(c, kind) ==
  /\ state = "OPEN"
  /\ cooled
  /\ state' = "HALF_OPEN"
  /\ halfOpenProbes' = 1
  /\ Admit(c, kind, "probe")

\* Mutant of AllowHalfOpen: off by one.
AllowHalfOpenMut(c, kind) ==
  /\ state = "HALF_OPEN"
  /\ halfOpenProbes <= HalfOpenMaxProbes
  /\ halfOpenProbes' = halfOpenProbes + 1
  /\ Admit(c, kind, "probe")
  /\ UNCHANGED state

AllowHalfOpen(c, kind) ==
  /\ state = "HALF_OPEN"
  /\ halfOpenProbes < HalfOpenMaxProbes
  /\ halfOpenProbes' = halfOpenProbes + 1
  /\ Admit(c, kind, "probe")
  /\ UNCHANGED state

Allow(c, kind) ==
  /\ call[c] = NoCall
  /\ AllowClosed(c, kind) \/ AllowOpen(c, kind) \/ AllowHalfOpen(c, kind)
  /\ UNCHANGED <<consecutiveFails, cooled>>

\* The caller's call is over; a probe of a period that ends becomes stale.
Return(c) == call' = [call EXCEPT ![c] = NoCall]

ReturnEndingPeriod(c) ==
  call' = [d \in Callers |->
             IF d = c THEN NoCall
             ELSE IF call[d].admitted = "probe" THEN [call[d] EXCEPT !.admitted = "stale"]
             ELSE call[d]]

RecordSuccess(c) ==
  /\ state' = "CLOSED"
  /\ consecutiveFails' = 0
  /\ halfOpenProbes' = 0
  /\ cooled' = FALSE
  /\ ReturnEndingPeriod(c)

OpenLocked(c) ==
  /\ state' = "OPEN"
  /\ cooled' = FALSE
  /\ halfOpenProbes' = 0
  /\ ReturnEndingPeriod(c)

StayPut(c) == Return(c) /\ UNCHANGED <<state, halfOpenProbes, cooled>>

Saturated(n) == IF n < FailCap THEN n ELSE FailCap

\* Mutant of RecordFailure: a failed probe does not reopen the breaker.
RecordFailureLenient(c) ==
  /\ consecutiveFails' = Saturated(consecutiveFails + 1)
  /\ IF state = "CLOSED" /\ consecutiveFails + 1 >= FailureThreshold
       THEN OpenLocked(c)
       ELSE StayPut(c)

\* An OPEN breaker counts a late failure but does not restart its period.
RecordFailure(c) ==
  /\ consecutiveFails' = Saturated(consecutiveFails + 1)
  /\ IF \/ state = "HALF_OPEN"
        \/ state = "CLOSED" /\ consecutiveFails + 1 >= FailureThreshold
       THEN OpenLocked(c)
       ELSE StayPut(c)

\* A call ends and its client records it, or not.
End(c, ending) ==
  /\ call[c] # NoCall
  /\ \/ Record(call[c].kind, ending) = "success" /\ RecordSuccess(c)
     \/ Record(call[c].kind, ending) = "failure" /\ RecordFailure(c)
     \/ /\ Record(call[c].kind, ending) = "nothing"
        /\ StayPut(c)
        /\ UNCHANGED consecutiveFails

OpenDurationPasses ==
  /\ state = "OPEN"
  /\ ~cooled
  /\ cooled' = TRUE
  /\ UNCHANGED <<state, consecutiveFails, halfOpenProbes, call>>

AllowAny == \E c \in Callers, kind \in Kinds(client) : Allow(c, kind)

BreakerNext == /\ \/ AllowAny
                  \/ \E c \in Callers, ending \in Endings : End(c, ending)
                  \/ OpenDurationPasses
               /\ UNCHANGED client

BreakerSpec == BreakerInit /\ [][BreakerNext]_breakerVars

\* HTTP requests return (the clients set timeouts), time passes, and the polling
\* worker keeps calling.
BreakerFairSpec ==
  /\ BreakerSpec
  /\ \A c \in Callers : WF_breakerVars(UNCHANGED client /\ \E ending \in Endings : End(c, ending))
  /\ WF_breakerVars(UNCHANGED client /\ OpenDurationPasses)
  /\ WF_breakerVars(UNCHANGED client /\ AllowAny)

-----------------------------------------------------------------------------
(* Properties.                                                             *)

Probes == {c \in Callers : call[c].admitted = "probe"}

\* The state and the two counters agree, however late results are recorded
\* (Allow, RecordSuccess, RecordFailure): the breaker is CLOSED exactly as long as
\* the consecutive failures are below the threshold, and HALF_OPEN exactly while
\* between one and HalfOpenMaxProbes probes of the period were let through, the
\* ones in flight among them.
StateMatchesCounters ==
  /\ state = "CLOSED" <=> consecutiveFails < FailureThreshold
  /\ Cardinality(Probes) <= halfOpenProbes
  /\ halfOpenProbes <= HalfOpenMaxProbes
  /\ state = "HALF_OPEN" <=> halfOpenProbes > 0

\* Every probe slot of the period is used and no probe is in flight.
Exhausted == halfOpenProbes = HalfOpenMaxProbes /\ Probes = {}

\* A half-open period of the Arc client's breaker ends: a success closes it, a
\* failure reopens it.  One of the Circle client's breaker ends too, unless all
\* its probes were answered in a way that client.do does not record (a rejected
\* read), which nothing but a late result of an earlier call can undo.
HalfOpenResolves ==
  state = "HALF_OPEN" ~> state # "HALF_OPEN" \/ (client = "circle" /\ Exhausted)
=============================================================================
