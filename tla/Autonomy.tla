------------------------------ MODULE Autonomy ------------------------------
(***************************************************************************)
(* The autonomous runtime for one schedule of one user (internal/autonomy, *)
(* internal/autonomy/runtimeworker, internal/services/autonomy.go and the  *)
(* PostgreSQL repository): immutable schedule versions, occurrences that   *)
(* workers claim under a lease and a fencing token, the last gate before a *)
(* dispatch, step-up approvals and the tenant's emergency stop.            *)
(*                                                                         *)
(* A claim is a READ COMMITTED transaction: it locks a schedule row,       *)
(* selects an occurrence with a fresh snapshot, and its update becomes     *)
(* visible at commit.  A lease is live until it expires, at any moment.    *)
(* The processor is either the one the worker binary installs, which       *)
(* blocks every occurrence, or one that passes the gate and dispatches;    *)
(* a behaviour has one of them, with bounds of its own.                    *)
(***************************************************************************)
EXTENDS Naturals, FiniteSets

CONSTANTS Workers, Instants, MaxVersion, MaxFence,
          Worlds   \* the processor, and bounds on occurrences, claims and crashes

ASSUME BoundsAssumption == MaxVersion \in Nat /\ MaxFence \in Nat

Versions == 1..MaxVersion
Occurrences == Versions \X Instants

ASSUME WorldsAssumption ==
  \A w \in Worlds : /\ w.processor \in {"unavailable", "gated"}
                     /\ w.occurrences \subseteq Occurrences
                     /\ w.fence \in 1..MaxFence /\ w.crashes \in Nat

None == "NONE"

VARIABLES world,      \* the one of this behaviour; never changes
          row,        \* autonomy_schedules: one row per version, never updated
          occ,        \* autonomy_occurrences
          grant, delegation,  \* the rows the schedule's versions name
          binding,    \* the wallet binding is ACTIVE at the schedule's version
          stop,       \* autonomy_emergency_stop
          approvals,  \* occurrences whose intent has a step-up approval
          worker,     \* per worker: where it is in its loop
          crashes     \* how often a worker died

vars == <<world, row, occ, grant, delegation, binding, stop, approvals, worker, crashes>>

Authorities == {None, "ACTIVE", "WITHDRAWN", "EXPIRED"}
Statuses == {"DUE", "CLAIMED", "BLOCKED", "APPROVAL_REQUIRED"}
NoRow == [status |-> None, frequency |-> None]
NoOcc == [status |-> None, owner |-> None, live |-> FALSE, fence |-> 0, approval |-> FALSE]
Nothing == <<0, 0>>   \* no occurrence
Idle == [pc |-> "idle", version |-> 0, occ |-> Nothing, fence |-> 0, stood |-> FALSE]

TypeOK ==
  /\ world \in Worlds
  /\ row \in [Versions -> {NoRow} \cup
       [status : {"ACTIVE", "PAUSED", "REVOKED"}, frequency : {"DAILY", "CALENDAR"}]]
  /\ occ \in [Occurrences -> {NoOcc} \cup
       [status : Statuses, owner : Workers \cup {None}, live : BOOLEAN, fence : 1..MaxFence,
        approval : BOOLEAN]]
  /\ {grant, delegation} \subseteq Authorities
  /\ binding \in BOOLEAN /\ stop \in BOOLEAN /\ approvals \subseteq Occurrences
  /\ worker \in [Workers -> {Idle} \cup
       [pc : {"locked", "selected", "claimed", "asked", "gate", "eligible"},
        version : Versions, occ : Occurrences \cup {Nothing}, fence : 0..MaxFence,
        stood : BOOLEAN]]
  /\ crashes \in 0..world.crashes

Init ==
  /\ world \in Worlds
  /\ row = [v \in Versions |-> NoRow] /\ occ = [o \in Occurrences |-> NoOcc]
  /\ grant = None /\ delegation = None /\ binding = TRUE /\ stop = FALSE
  /\ approvals = {} /\ worker = [w \in Workers |-> Idle] /\ crashes = 0

-----------------------------------------------------------------------------
(* Authority: grants and delegations are inserted once, and expire.        *)

SaveAutonomyGrant(status) ==
  /\ grant = None /\ grant' = status
  /\ UNCHANGED <<row, occ, delegation, binding, stop, approvals, worker, crashes>>

SaveAutonomyDelegation(status) ==
  /\ delegation = None /\ delegation' = status
  /\ UNCHANGED <<row, occ, grant, binding, stop, approvals, worker, crashes>>

GrantExpires ==
  /\ grant = "ACTIVE" /\ grant' = "EXPIRED"
  /\ UNCHANGED <<row, occ, delegation, binding, stop, approvals, worker, crashes>>

DelegationExpires ==
  /\ delegation = "ACTIVE" /\ delegation' = "EXPIRED"
  /\ UNCHANGED <<row, occ, grant, binding, stop, approvals, worker, crashes>>

BindingChanges ==
  /\ binding /\ binding' = FALSE
  /\ UNCHANGED <<row, occ, grant, delegation, stop, approvals, worker, crashes>>

SetEmergencyStop(active) ==
  /\ stop # active /\ stop' = active
  /\ UNCHANGED <<row, occ, grant, delegation, binding, approvals, worker, crashes>>

-----------------------------------------------------------------------------
(* Schedules.                                                              *)

ValidScheduleTransition(from, to) ==
  \/ from = "ACTIVE" /\ to \in {"PAUSED", "REVOKED"}
  \/ from = "PAUSED" /\ to \in {"ACTIVE", "REVOKED"}

\* An existing version is never overwritten: the insert does nothing, and the call
\* succeeds only for the same material and status.
SaveAutonomySchedule(v, value) ==
  /\ v \in {o[1] : o \in world.occurrences}
  /\ row[v] \in {NoRow, value}
  /\ row' = [row EXCEPT ![v] = value]

\* The row holds no weekday and no day of the month.  For a WEEKLY schedule (other
\* than Sunday's) or a MONTHLY one the digest no longer matches, and loading fails.
LoadAutonomySchedule(v) == row[v] # NoRow /\ row[v].frequency = "DAILY"

CreateSchedule(v, value) ==
  /\ grant = "ACTIVE" /\ delegation = "ACTIVE" /\ binding
  /\ SaveAutonomySchedule(v, value)
  /\ UNCHANGED <<occ, grant, delegation, binding, stop, approvals, worker, crashes>>

\* Pausing, resuming and revoking write the next version.
SetScheduleStatus(v, status) ==
  /\ LoadAutonomySchedule(v) /\ ValidScheduleTransition(row[v].status, status)
  /\ SaveAutonomySchedule(v + 1, [row[v] EXCEPT !.status = status])
  /\ UNCHANGED <<occ, grant, delegation, binding, stop, approvals, worker, crashes>>

\* An occurrence is inserted once per version and instant.
Materialize(o) ==
  /\ o \in world.occurrences /\ row[o[1]] # NoRow /\ occ[o] = NoOcc
  /\ occ' = [occ EXCEPT ![o] = [NoOcc EXCEPT !.status = "DUE", !.fence = 1]]
  /\ UNCHANGED <<row, grant, delegation, binding, stop, approvals, worker, crashes>>

-----------------------------------------------------------------------------
(* Claims.                                                                 *)

\* Mutant of Claimable: siblings are not looked at.
ClaimableMut(o) == occ[o].status \in {"DUE", "CLAIMED"} /\ ~occ[o].live

\* Mutant of Claimable: an occurrence whose claimant died is not taken over.
ClaimableDueMut(o) ==
  /\ occ[o].status = "DUE"
  /\ \A other \in Occurrences \ {o} : occ[other].status # "CLAIMED"

\* No occurrence of any version of the schedule is in progress, but for itself.
Claimable(o) ==
  /\ occ[o].status \in {"DUE", "CLAIMED"} /\ ~occ[o].live
  /\ \A other \in Occurrences \ {o} : occ[other].status # "CLAIMED"

\* The named bound on fences: an occurrence that reached it is not claimed again.
FenceBound(o) == occ[o].fence < world.fence

\* A claim in progress holds the row of the occurrence it selected: writers wait.
Unlocked(o) ==
  \A w \in Workers : worker[w].pc = "selected" => worker[w].occ # o

Move(w, value) == worker' = [worker EXCEPT ![w] = value]

\* The first statement locks the schedule row; locked rows are skipped.
LockSchedule(w, v) ==
  /\ worker[w] = Idle
  /\ row[v].status = "ACTIVE"
  /\ \A other \in Workers : worker[other].pc \in {"locked", "selected"} =>
                              worker[other].version # v
  /\ \E i \in Instants : Claimable(<<v, i>>) /\ FenceBound(<<v, i>>)
  /\ Move(w, [Idle EXCEPT !.pc = "locked", !.version = v])
  /\ UNCHANGED <<row, occ, grant, delegation, binding, stop, approvals, crashes>>

\* The second statement selects the earliest claimable occurrence, or none is left.
SelectOccurrence(w) ==
  LET v == worker[w].version
      open == {i \in Instants : Claimable(<<v, i>>) /\ FenceBound(<<v, i>>)}
  IN /\ worker[w].pc = "locked"
     /\ \/ open = {} /\ Move(w, Idle)
        \/ \E i \in open : /\ \A j \in open : i <= j
                           /\ Move(w, [worker[w] EXCEPT !.pc = "selected", !.occ = <<v, i>>])
     /\ UNCHANGED <<row, occ, grant, delegation, binding, stop, approvals, crashes>>

CommitClaim(w) ==
  LET o == worker[w].occ
  IN /\ worker[w].pc = "selected"
     /\ occ' = [occ EXCEPT ![o].status = "CLAIMED", ![o].owner = w, ![o].live = TRUE,
                           ![o].fence = @ + 1]
     /\ Move(w, [worker[w] EXCEPT !.pc = "claimed", !.fence = occ[o].fence + 1])
     /\ UNCHANGED <<row, grant, delegation, binding, stop, approvals, crashes>>

LeaseExpires(o) ==
  /\ occ[o].live /\ occ' = [occ EXCEPT ![o].live = FALSE]
  /\ UNCHANGED <<row, grant, delegation, binding, stop, approvals, worker, crashes>>

-----------------------------------------------------------------------------
(* Processing.                                                             *)

\* Mutant of BlockAutonomyOccurrence: the fence is not compared.
BlockAutonomyOccurrenceMut(w) ==
  occ' = [occ EXCEPT ![worker[w].occ].status = "BLOCKED",
                     ![worker[w].occ].owner = None, ![worker[w].occ].live = FALSE]

BlockAutonomyOccurrence(w) ==
  LET o == worker[w].occ
  IN occ' = IF occ[o].fence = worker[w].fence
            THEN [occ EXCEPT ![o].status = "BLOCKED", ![o].owner = None, ![o].live = FALSE]
            ELSE occ

\* The installed processor, or a processor's error, blocks the occurrence.
ProcessUnavailable(w) ==
  /\ worker[w].pc \in (IF world.processor = "unavailable" THEN {"claimed"}
                       ELSE {"claimed", "asked", "gate", "eligible"})
  /\ Unlocked(worker[w].occ) /\ BlockAutonomyOccurrence(w) /\ Move(w, Idle)
  /\ UNCHANGED <<row, grant, delegation, binding, stop, approvals, crashes>>

\* Request: the intent's approval is created, or the existing one is used.
Request(w) ==
  /\ world.processor = "gated" /\ worker[w].pc = "claimed"
  /\ approvals' = approvals \cup {worker[w].occ}
  /\ Move(w, [worker[w] EXCEPT !.pc = "asked"])
  /\ UNCHANGED <<row, occ, grant, delegation, binding, stop, crashes>>

BindAutonomyApproval(w) ==
  LET o == worker[w].occ
  IN /\ worker[w].pc = "asked" /\ Unlocked(o)
     /\ occ' = IF occ[o].fence = worker[w].fence /\ ~occ[o].approval
               THEN [occ EXCEPT ![o].status = "APPROVAL_REQUIRED", ![o].approval = TRUE]
               ELSE occ
     /\ Move(w, Idle)
     /\ UNCHANGED <<row, grant, delegation, binding, stop, approvals, crashes>>

\* The claim as the fence check sees it.
Holds(w) ==
  LET o == occ[worker[w].occ]
  IN o.status = "CLAIMED" /\ o.owner = w /\ o.fence = worker[w].fence /\ o.live

\* Everything the gate asks for, at one instant.
Stands(w) ==
  /\ ~stop /\ Holds(w)
  /\ row[worker[w].version].status = "ACTIVE"
  /\ grant = "ACTIVE" /\ delegation = "ACTIVE"

\* BeforeDispatch: the emergency stop is read first.
BeforeDispatch(w) ==
  /\ world.processor = "gated" /\ worker[w].pc = "claimed" /\ ~stop
  /\ Move(w, [worker[w] EXCEPT !.pc = "gate", !.stood = Stands(w)])
  /\ UNCHANGED <<row, occ, grant, delegation, binding, stop, approvals, crashes>>

\* Mutant of CheckDispatchFence: the owner is checked, the lease and the fence are not.
CheckDispatchFenceMut(w) ==
  /\ worker[w].pc = "gate" /\ grant = "ACTIVE" /\ delegation = "ACTIVE"
  /\ occ[worker[w].occ].owner = w
  /\ Move(w, [worker[w] EXCEPT !.pc = "eligible"])
  /\ UNCHANGED <<row, occ, grant, delegation, binding, stop, approvals, crashes>>

\* Then the schedule version, the grant and the delegation; the fence last.
CheckDispatchFence(w) ==
  /\ worker[w].pc = "gate" /\ Unlocked(worker[w].occ)
  /\ row[worker[w].version].status = "ACTIVE"
  /\ grant = "ACTIVE" /\ delegation = "ACTIVE"
  /\ Holds(w)
  /\ Move(w, [worker[w] EXCEPT !.pc = "eligible"])
  /\ UNCHANGED <<row, occ, grant, delegation, binding, stop, approvals, crashes>>

\* A submission may have begun; the worker returns the error and is restarted.
SubmissionPossible(w) ==
  /\ worker[w].pc = "eligible"
  /\ Move(w, Idle)
  /\ UNCHANGED <<row, occ, grant, delegation, binding, stop, approvals, crashes>>

\* The worker dies: its transaction is rolled back, its claim stays (the bound on
\* fences leaves room for the next claim).
Crash(w) ==
  /\ worker[w] # Idle /\ crashes < world.crashes /\ worker[w].fence < world.fence
  /\ Move(w, Idle) /\ crashes' = crashes + 1
  /\ UNCHANGED <<row, occ, grant, delegation, binding, stop, approvals>>

-----------------------------------------------------------------------------

\* The claim of the worker loop, over all users: the same three statements.
ClaimNextAutonomyDue(w) ==
  \/ \E v \in Versions : LockSchedule(w, v)
  \/ SelectOccurrence(w) \/ CommitClaim(w)

Run(w) ==
  \/ ClaimNextAutonomyDue(w)
  \/ ProcessUnavailable(w)
  \/ Request(w) \/ BindAutonomyApproval(w)
  \/ BeforeDispatch(w) \/ CheckDispatchFence(w) \/ SubmissionPossible(w)

Control ==
  \/ \E status \in {"ACTIVE", "WITHDRAWN"} : \/ SaveAutonomyGrant(status)
                                             \/ SaveAutonomyDelegation(status)
  \/ GrantExpires \/ DelegationExpires \/ BindingChanges
  \/ \E active \in BOOLEAN : SetEmergencyStop(active)
  \/ \E v \in Versions, f \in {"DAILY", "CALENDAR"} :
       CreateSchedule(v, [status |-> "ACTIVE", frequency |-> f])
  \/ \E v \in Versions, s \in {"ACTIVE", "PAUSED", "REVOKED"} : SetScheduleStatus(v, s)
  \/ \E o \in Occurrences : Materialize(o)

Next ==
  /\ \/ Control
     \/ \E w \in Workers : Run(w) \/ Crash(w)
     \/ \E o \in Occurrences : LeaseExpires(o)
  /\ UNCHANGED world

Spec == Init /\ [][Next]_vars

Installed == world.processor = "unavailable" /\ UNCHANGED world

\* The worker binary loops until its process ends, and leases run out.
FairSpec ==
  /\ Spec
  /\ \A w \in Workers : WF_vars(Installed /\ Run(w))
  /\ WF_vars(Installed /\ \E o \in Occurrences : LeaseExpires(o))

-----------------------------------------------------------------------------
(* Properties.                                                             *)

\* Concurrent claims: no two occurrences of one schedule version are claimed
\* at the same time, whatever the leases do.
OneClaimPerVersion ==
  \A o, other \in Occurrences :
    (o[1] = other[1] /\ occ[o].status = "CLAIMED" /\ occ[other].status = "CLAIMED")
      => o = other

\* A worker whose lease was taken over can no longer change the occurrence: as
\* long as a worker has the latest fence, the occurrence is as its own steps
\* left it.
CurrentClaimStands ==
  \A w \in Workers :
    worker[w].pc \in {"claimed", "asked", "gate", "eligible"} =>
      LET o == occ[worker[w].occ]
      IN o.fence = worker[w].fence => o.status = "CLAIMED" /\ o.owner = w

\* When the gate lets a dispatch through, all it asks for held together at the
\* moment it read the emergency stop: the reads come one after the other, the
\* stop first and the fence last.
EligibleStood == \A w \in Workers : worker[w].pc = "eligible" => worker[w].stood

\* With the installed processor every due occurrence of an active version is
\* eventually blocked, also when workers die between claim and block.
DueIsBlocked ==
  \A o \in Occurrences :
    (world.processor = "unavailable" /\ occ[o].status = "DUE" /\ row[o[1]].status = "ACTIVE")
      ~> (occ[o].status = "BLOCKED")

-----------------------------------------------------------------------------
(* Not kept by the code.                                                   *)

Newest == CHOOSE v \in Versions : /\ row[v] # NoRow
                                  /\ \A later \in Versions : later > v => row[later] = NoRow

\* "Pause, revocation, and emergency stop prevent new dispatches": no worker turns
\* to an occurrence while the schedule's newest version is paused or revoked.
PausePreventsDispatch ==
  [][\A w \in Workers : worker[w] = Idle /\ worker'[w].pc = "locked"
                          => row[Newest].status = "ACTIVE"]_vars

\* FORBID_OVERLAP: one occurrence of the schedule is in progress, not one per
\* version.
NoOverlap == Cardinality({o \in Occurrences : occ[o].status = "CLAIMED"}) <= 1

\* Every stored schedule can be read back, listed, paused and revoked.
StoredSchedulesLoad == \A v \in Versions : row[v] # NoRow => LoadAutonomySchedule(v)
=============================================================================
