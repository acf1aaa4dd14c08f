--------------------------- MODULE AutonomyProofs ---------------------------
(***************************************************************************)
(* The safety properties of the two halves of internal/autonomy:           *)
(* occurrences and claims (Autonomy), and the spend ledgers                *)
(* (SpendAccounting). The two have no state in common; each is proved from *)
(* its own specification.                                                  *)
(*                                                                         *)
(* Occurrences, for any set of workers, any number of versions and         *)
(* instants, and both processors. None of the three properties is          *)
(* inductive. Claims need the lock on the schedule row (Locks) and what    *)
(* the selecting statement saw (Selected); the fence needs that a worker's *)
(* fence is never ahead of the row's (Claimed); and the gate needs that    *)
(* what it found lost cannot come back (Gate).                             *)
(*                                                                         *)
(* The ledgers, for any number of occurrences and any amounts, times,      *)
(* window and caps: the caps hold in both, and both keep the promise of    *)
(* SpendBudget. The sums are folds over finite sets. That a fold exists,   *)
(* that it does not depend on the order and that it is monotone is shown   *)
(* first, each from a smallest counterexample.                             *)
(***************************************************************************)
EXTENDS Autonomy, SpendAccounting, FiniteSetTheorems, TLAPS

\* Most steps are first-order; the ones that calculate say so.
USE Zenon

Claiming == {"locked", "selected"}
Working == {"claimed", "asked", "gate", "eligible"}

\* No two claims in progress hold the lock on one schedule row.
Locks ==
  \A w, v \in Workers :
    (w # v /\ worker[w].pc \in Claiming /\ worker[v].pc \in Claiming)
      => worker[w].version # worker[v].version

\* A version a worker turned to is ACTIVE, and stays so: rows are immutable.
Turned(w) == worker[w] # Idle => row[worker[w].version].status = "ACTIVE"

\* What the second statement of a claim found still holds when it commits.
Selected(w) ==
  worker[w].pc = "selected" =>
    LET o == worker[w].occ
    IN /\ o \in Occurrences /\ o[1] = worker[w].version
       /\ occ[o] # NoOcc /\ FenceBound(o)
       /\ \A other \in Occurrences \ {o} : other[1] = o[1] => occ[other].status # "CLAIMED"

\* The fence a worker claimed with is the row's, or the row's has moved on.
Claimed(w) ==
  worker[w].pc \in Working =>
    LET o == worker[w].occ
    IN o \in Occurrences /\ occ[o] # NoOcc /\ worker[w].fence <= occ[o].fence

\* A claim that did not stand when the gate read the stop will not pass the gate.
Gate(w) ==
  worker[w].pc \in {"gate", "eligible"} /\ ~worker[w].stood =>
    /\ worker[w].pc = "gate"
    /\ grant # "ACTIVE" \/ delegation # "ACTIVE" \/ ~Holds(w)

\* Schedules exist only after the grant and the delegation they were made under.
Authorized == \A v \in Versions : row[v] # NoRow => grant # None /\ delegation # None

Inv == /\ TypeOK /\ Locks /\ Authorized
       /\ OneClaimPerVersion /\ CurrentClaimStands /\ EligibleStood
       /\ \A w \in Workers : Turned(w) /\ Selected(w) /\ Claimed(w) /\ Gate(w)

-----------------------------------------------------------------------------
(* Types.                                                                  *)

OccRecs == [status : Statuses, owner : Workers \cup {None}, live : BOOLEAN,
            fence : 1..MaxFence, approval : BOOLEAN]
WorkRecs == [pc : {"locked", "selected", "claimed", "asked", "gate", "eligible"},
             version : Versions, occ : Occurrences \cup {Nothing}, fence : 0..MaxFence,
             stood : BOOLEAN]

\* An occurrence that was never created holds no fence, and every stored one does.
LEMMA NoOccIsNoRow == NoOcc \notin OccRecs
<1>1. NoOcc.fence = 0
  BY DEF NoOcc
<1>2. 0 \notin 1..MaxFence
  BY SMT, BoundsAssumption
<1> QED BY <1>1, <1>2 DEF OccRecs

\* The sets TypeOK is made of, by name.
LEMMA Types ==
  ASSUME TypeOK
  PROVE  /\ occ \in [Occurrences -> {NoOcc} \cup OccRecs]
         /\ worker \in [Workers -> {Idle} \cup WorkRecs]
         /\ world.fence \in 1..MaxFence /\ world.fence \in Nat
BY SMT, WorldsAssumption, BoundsAssumption DEF TypeOK, OccRecs, WorkRecs

\* A worker that is in its loop has a version and a record of its own.
LEMMA Busy ==
  ASSUME TypeOK, NEW w \in Workers, worker[w].pc # "idle"
  PROVE  worker[w] \in WorkRecs /\ worker[w] # Idle /\ worker[w].version \in Versions
<1>1. worker[w] \in {Idle} \cup WorkRecs
  BY Types
<1> QED BY SMT, <1>1 DEF Idle, WorkRecs

\* An idle worker holds no fence.
LEMMA Resting == Idle.pc = "idle" /\ Idle.fence = 0
BY DEF Idle

-----------------------------------------------------------------------------
(* Steps that change neither an occurrence nor a worker.                   *)

\* A step outside the workers keeps Inv when it leaves the rows of existing schedules
\* alone and gives no grant or delegation back.
LEMMA ControlKeeps ==
  ASSUME Inv, UNCHANGED <<world, occ, worker>>, TypeOK', Authorized',
         \A v \in Versions : row[v] # NoRow =>
           /\ row'[v] = row[v]
           /\ grant' = "ACTIVE" => grant = "ACTIVE"
           /\ delegation' = "ACTIVE" => delegation = "ACTIVE"
  PROVE  Inv'
<1>1. Locks' /\ OneClaimPerVersion' /\ CurrentClaimStands' /\ EligibleStood'
  BY DEF Inv, Locks, OneClaimPerVersion, CurrentClaimStands, EligibleStood
<1>2. ASSUME NEW w \in Workers
      PROVE  (Turned(w) /\ Selected(w) /\ Claimed(w) /\ Gate(w))'
  <2>1. Turned(w) /\ Selected(w) /\ Claimed(w) /\ Gate(w)
    BY DEF Inv
  <2>2. Selected(w)' /\ Claimed(w)'
    BY <2>1 DEF Selected, Claimed, FenceBound
  <2>3. CASE worker[w].pc = "idle"
    <3>1. worker[w] = Idle
      BY <2>3, Types DEF Inv, WorkRecs
    <3> QED BY <2>2, <2>3, <3>1 DEF Turned, Gate
  <2>4. CASE worker[w].pc # "idle"
    <3>1. worker[w].version \in Versions /\ worker[w] # Idle
      BY <2>4, Busy DEF Inv
    <3>2. row[worker[w].version] # NoRow
      BY SMT, <2>1, <3>1 DEF Turned, NoRow, None
    <3>3. Turned(w)'
      BY <2>1, <3>1, <3>2 DEF Turned
    <3>4. Holds(w)' <=> Holds(w)
      BY DEF Holds
    <3>5. (grant' = "ACTIVE" => grant = "ACTIVE") /\ (delegation' = "ACTIVE" => delegation = "ACTIVE")
      BY <3>1, <3>2
    <3> QED BY <2>1, <2>2, <3>3, <3>4, <3>5 DEF Gate
  <2> QED BY <2>3, <2>4
<1> QED BY <1>1, <1>2 DEF Inv

\* Rows are inserted once.
LEMMA SaveKeeps ==
  ASSUME TypeOK, NEW v \in Versions \cup {MaxVersion + 1},
         NEW value \in [status : {"ACTIVE", "PAUSED", "REVOKED"}, frequency : {"DAILY", "CALENDAR"}],
         SaveAutonomySchedule(v, value)
  PROVE  /\ v \in Versions
         /\ row' \in [Versions -> {NoRow} \cup
              [status : {"ACTIVE", "PAUSED", "REVOKED"}, frequency : {"DAILY", "CALENDAR"}]]
         /\ \A u \in Versions : row[u] # NoRow => row'[u] = row[u]
<1>1. v \in Versions
  BY SMT, WorldsAssumption DEF SaveAutonomySchedule, TypeOK, Occurrences
<1> QED BY <1>1 DEF SaveAutonomySchedule, TypeOK

\* The owner, the administrator and the clock keep Inv.
LEMMA ControlStep ==
  ASSUME Inv, Control, UNCHANGED world, ~\E o \in Occurrences : Materialize(o)
  PROVE  Inv'
<1>0. TypeOK /\ Authorized
  BY DEF Inv
<1>1. ASSUME NEW status \in {"ACTIVE", "WITHDRAWN"},
             SaveAutonomyGrant(status) \/ SaveAutonomyDelegation(status)
      PROVE  Inv'
  <2>1. TypeOK'
    BY <1>0, <1>1 DEF TypeOK, SaveAutonomyGrant, SaveAutonomyDelegation, Authorities, Occurrences
  <2>2. Authorized'
    BY <1>0, <1>1 DEF Authorized, SaveAutonomyGrant, SaveAutonomyDelegation, None
  <2> QED BY <1>0, <1>1, <2>1, <2>2, ControlKeeps
             DEF Authorized, SaveAutonomyGrant, SaveAutonomyDelegation
<1>2. CASE GrantExpires \/ DelegationExpires
  <2>1. TypeOK'
    BY <1>0, <1>2 DEF TypeOK, GrantExpires, DelegationExpires, Authorities, Occurrences
  <2>2. Authorized'
    BY <1>0, <1>2 DEF Authorized, GrantExpires, DelegationExpires, None
  <2> QED BY <1>0, <1>2, <2>1, <2>2, ControlKeeps DEF Authorized, GrantExpires, DelegationExpires
<1>3. CASE BindingChanges \/ \E active \in BOOLEAN : SetEmergencyStop(active)
  <2>1. UNCHANGED <<row, occ, grant, delegation, approvals, worker, crashes>>
        /\ binding' \in BOOLEAN /\ stop' \in BOOLEAN
    BY <1>0, <1>3 DEF TypeOK, BindingChanges, SetEmergencyStop
  <2>2. TypeOK'
    BY <1>0, <2>1 DEF TypeOK, Occurrences
  <2>3. Authorized'
    BY <1>0, <2>1 DEF Authorized
  <2> QED BY <2>1, <2>2, <2>3, ControlKeeps
<1>4. ASSUME NEW v \in Versions \cup {MaxVersion + 1},
             NEW value \in [status : {"ACTIVE", "PAUSED", "REVOKED"},
                            frequency : {"DAILY", "CALENDAR"}],
             SaveAutonomySchedule(v, value), grant # None, delegation # None,
             UNCHANGED <<occ, grant, delegation, binding, stop, approvals, worker, crashes>>
      PROVE  Inv'
  <2>1. row' \in [Versions -> {NoRow} \cup
              [status : {"ACTIVE", "PAUSED", "REVOKED"}, frequency : {"DAILY", "CALENDAR"}]]
        /\ \A u \in Versions : row[u] # NoRow => row'[u] = row[u]
    BY <1>0, <1>4, SaveKeeps
  <2>2. TypeOK'
    BY <1>0, <1>4, <2>1 DEF TypeOK, Occurrences
  <2>3. Authorized'
    BY <1>4 DEF Authorized
  <2> QED BY <1>4, <2>1, <2>2, <2>3, ControlKeeps
<1>5. ASSUME NEW v \in Versions, NEW f \in {"DAILY", "CALENDAR"},
             CreateSchedule(v, [status |-> "ACTIVE", frequency |-> f])
      PROVE  Inv'
  BY <1>4, <1>5 DEF CreateSchedule, None
<1>6. ASSUME NEW v \in Versions, NEW s \in {"ACTIVE", "PAUSED", "REVOKED"}, SetScheduleStatus(v, s)
      PROVE  Inv'
  <2>1. row[v] # NoRow
    BY <1>6 DEF SetScheduleStatus, LoadAutonomySchedule
  <2>2. [row[v] EXCEPT !.status = s] \in [status : {"ACTIVE", "PAUSED", "REVOKED"},
                                          frequency : {"DAILY", "CALENDAR"}]
    BY SMT, <1>0, <2>1 DEF TypeOK
  <2>3. v + 1 \in Versions \cup {MaxVersion + 1}
    BY SMT, BoundsAssumption DEF Versions
  <2>4. grant # None /\ delegation # None
    BY <1>0, <2>1 DEF Authorized
  <2> QED BY <1>4, <1>6, <2>2, <2>3, <2>4 DEF SetScheduleStatus
<1> QED BY <1>1, <1>2, <1>3, <1>5, <1>6 DEF Control

-----------------------------------------------------------------------------
(* Steps on an occurrence that leave every worker where it is.             *)

\* Materializing an occurrence keeps Inv.
LEMMA MaterializeKeeps ==
  ASSUME Inv, NEW o \in Occurrences, Materialize(o), UNCHANGED world
  PROVE  Inv'
<1>0. TypeOK /\ \A w \in Workers : Turned(w) /\ Selected(w) /\ Claimed(w) /\ Gate(w)
  BY DEF Inv
<1>1. occ[o] = NoOcc /\ occ' = [occ EXCEPT ![o] = [NoOcc EXCEPT !.status = "DUE", !.fence = 1]]
      /\ UNCHANGED <<world, row, grant, delegation, binding, stop, approvals, worker, crashes>>
  BY DEF Materialize
<1>2. occ'[o] \in OccRecs /\ occ'[o].status = "DUE"
      /\ \A other \in Occurrences \ {o} : occ'[other] = occ[other]
  <2>1. 1 \in 1..MaxFence
    BY SMT, <1>0, Types, BoundsAssumption
  <2>2. /\ [NoOcc EXCEPT !.status = "DUE", !.fence = 1] \in OccRecs
        /\ [NoOcc EXCEPT !.status = "DUE", !.fence = 1].status = "DUE"
    BY <2>1 DEF NoOcc, OccRecs, Statuses
  <2> QED BY <1>0, <1>1, <2>2, Types
<1>3. TypeOK'
  <2>1. occ' \in [Occurrences -> {NoOcc} \cup OccRecs]
    BY <1>0, <1>1, <1>2, Types
  <2> QED BY <1>0, <1>1, <2>1 DEF TypeOK, OccRecs
<1>4. ASSUME NEW w \in Workers, worker[w].pc \in Working
      PROVE  worker[w].occ \in Occurrences \ {o} /\ occ'[worker[w].occ] = occ[worker[w].occ]
  BY <1>0, <1>1, <1>2, <1>4 DEF Claimed
<1>5. ASSUME NEW w \in Workers, worker[w].pc = "selected"
      PROVE  worker[w].occ \in Occurrences \ {o} /\ occ'[worker[w].occ] = occ[worker[w].occ]
  BY <1>0, <1>1, <1>2, <1>5 DEF Selected
<1>6. Locks' /\ Authorized' /\ EligibleStood' /\ \A w \in Workers : Turned(w)'
  BY <1>0, <1>1 DEF Inv, Locks, Authorized, EligibleStood, Turned
<1>7. OneClaimPerVersion'
  BY <1>2 DEF Inv, OneClaimPerVersion
<1>8. CurrentClaimStands'
  BY SMT, <1>1, <1>4 DEF Inv, CurrentClaimStands, Working
<1>9. ASSUME NEW w \in Workers PROVE (Selected(w) /\ Claimed(w))'
  <2>1. Selected(w)'
    <3> SUFFICES ASSUME worker[w].pc = "selected" PROVE Selected(w)'
      BY <1>1 DEF Selected
    <3> DEFINE p == worker[w].occ
    <3>1. /\ p \in Occurrences \ {o} /\ p[1] = worker[w].version /\ occ'[p] = occ[p]
          /\ occ[p] # NoOcc /\ FenceBound(p)
      BY <1>0, <1>5 DEF Selected
    <3>2. ASSUME NEW other \in Occurrences \ {p}, other[1] = p[1]
          PROVE  occ'[other].status # "CLAIMED"
      <4>1. CASE other = o
        BY <1>2, <4>1
      <4>2. CASE other # o
        BY <1>0, <1>2, <3>2, <4>2 DEF Selected
      <4> QED BY <4>1, <4>2
    <3> QED BY <1>1, <3>1, <3>2 DEF Selected, FenceBound
  <2>2. Claimed(w)'
    BY <1>0, <1>1, <1>4 DEF Claimed
  <2> QED BY <2>1, <2>2
<1>10. ASSUME NEW w \in Workers PROVE Gate(w)'
  <2>1. worker[w].pc \in {"gate", "eligible"} => (Holds(w)' <=> Holds(w))
    BY <1>1, <1>4 DEF Holds, Working
  <2> QED BY <1>0, <1>1, <2>1 DEF Gate
<1> QED BY <1>3, <1>6, <1>7, <1>8, <1>9, <1>10 DEF Inv

\* The expiry of a lease keeps Inv.
LEMMA LeaseKeeps ==
  ASSUME Inv, NEW o \in Occurrences, LeaseExpires(o), UNCHANGED world
  PROVE  Inv'
<1>0. TypeOK /\ \A w \in Workers : Turned(w) /\ Selected(w) /\ Claimed(w) /\ Gate(w)
  BY DEF Inv
<1>1. occ' = [occ EXCEPT ![o].live = FALSE]
      /\ UNCHANGED <<world, row, grant, delegation, binding, stop, approvals, worker, crashes>>
  BY DEF LeaseExpires
<1>2. occ[o] \in OccRecs /\ occ'[o] \in OccRecs
      /\ occ'[o].live = FALSE
      /\ \A other \in Occurrences : /\ occ'[other].status = occ[other].status
                                    /\ occ'[other].owner = occ[other].owner
                                    /\ occ'[other].fence = occ[other].fence
                                    /\ other # o => occ'[other] = occ[other]
  <2>1. occ[o] # NoOcc
    BY SMT DEF LeaseExpires, NoOcc
  <2>2. occ[o] \in OccRecs
    BY <1>0, <2>1, Types
  <2>3. occ'[o] = [occ[o] EXCEPT !.live = FALSE]
        /\ \A other \in Occurrences \ {o} : occ'[other] = occ[other]
    BY <1>0, <1>1, Types
  <2>4. [occ[o] EXCEPT !.live = FALSE] \in OccRecs
    BY <2>2 DEF OccRecs
  <2> QED BY <2>2, <2>3, <2>4 DEF OccRecs
<1>3. TypeOK'
  <2>1. occ' \in [Occurrences -> {NoOcc} \cup OccRecs]
    BY <1>0, <1>1, <1>2, Types
  <2> QED BY <1>0, <1>1, <2>1 DEF TypeOK, OccRecs
<1>4. OccRecs' = OccRecs /\ NoOcc \notin OccRecs
  BY NoOccIsNoRow DEF OccRecs
<1>5. \A other \in Occurrences : occ[other] # NoOcc => occ'[other] # NoOcc
  BY <1>2, <1>4
<1>6. Locks' /\ Authorized' /\ EligibleStood' /\ \A w \in Workers : Turned(w)'
  BY <1>0, <1>1 DEF Inv, Locks, Authorized, EligibleStood, Turned
<1>7. OneClaimPerVersion'
  BY SMT, <1>2 DEF Inv, OneClaimPerVersion
<1>8. CurrentClaimStands'
  BY SMT, <1>0, <1>1, <1>2 DEF Inv, CurrentClaimStands, Claimed, Working
<1>9. ASSUME NEW w \in Workers PROVE (Selected(w) /\ Claimed(w))'
  BY SMT, <1>0, <1>1, <1>2, <1>5 DEF Selected, Claimed, FenceBound
<1>10. ASSUME NEW w \in Workers PROVE Gate(w)'
  <2>1. worker[w].pc \in {"gate", "eligible"} => (Holds(w)' => Holds(w))
    BY SMT, <1>0, <1>1, <1>2 DEF Holds, Claimed, Working
  <2> QED BY <1>0, <1>1, <2>1 DEF Gate
<1> QED BY <1>3, <1>6, <1>7, <1>8, <1>9, <1>10 DEF Inv

-----------------------------------------------------------------------------
(* Steps of a worker.                                                      *)

\* What the worker claimed with is still its own.
Current(w) ==
  worker[w].pc \in Working =>
    (occ[worker[w].occ].fence = worker[w].fence =>
       occ[worker[w].occ].status = "CLAIMED" /\ occ[worker[w].occ].owner = w)

\* A worker that moves and changes no occurrence disturbs only what is said of it.
LEMMA MoveKeeps ==
  ASSUME Inv, NEW w \in Workers, NEW value \in {Idle} \cup WorkRecs, Move(w, value),
         UNCHANGED <<world, row, occ, grant, delegation, binding, stop>>,
         approvals' \subseteq Occurrences, crashes' \in 0..world.crashes,
         value.pc \in Claiming =>
           \A other \in Workers \ {w} :
             worker[other].pc \in Claiming => worker[other].version # value.version,
         (Turned(w) /\ Selected(w) /\ Claimed(w) /\ Gate(w) /\ Current(w))'
  PROVE  Inv'
<1>0. TypeOK /\ \A v \in Workers : Turned(v) /\ Selected(v) /\ Claimed(v) /\ Gate(v)
  BY DEF Inv
<1>1. worker' \in [Workers -> {Idle} \cup WorkRecs] /\ worker'[w] = value
      /\ \A v \in Workers \ {w} : worker'[v] = worker[v]
  BY <1>0, Types DEF Move
<1>2. TypeOK'
  BY <1>0, <1>1 DEF TypeOK, WorkRecs, Occurrences
<1>3. Locks'
  BY <1>1 DEF Inv, Locks
<1>4. Authorized' /\ OneClaimPerVersion'
  BY DEF Inv, Authorized, OneClaimPerVersion
<1>5. ASSUME NEW v \in Workers \ {w}
      PROVE  (Turned(v) /\ Selected(v) /\ Claimed(v) /\ Gate(v))'
  <2>1. Holds(v)' <=> Holds(v)
    BY <1>1 DEF Holds
  <2> QED BY SMT, <1>0, <1>1, <2>1 DEF Turned, Selected, Claimed, Gate, FenceBound
<1>6. CurrentClaimStands'
  <2>1. ASSUME NEW v \in Workers \ {w} PROVE Current(v)'
    BY SMT, <1>1 DEF Inv, CurrentClaimStands, Current, Working
  <2> QED BY <2>1 DEF CurrentClaimStands, Current, Working
<1>7. EligibleStood'
  BY <1>5 DEF EligibleStood, Gate
<1> QED BY <1>2, <1>3, <1>4, <1>5, <1>6, <1>7 DEF Inv

\* Leaving the loop changes nothing else.
LEMMA RestKeeps ==
  ASSUME Inv, NEW w \in Workers, Move(w, Idle),
         UNCHANGED <<world, row, occ, grant, delegation, binding, stop, approvals>>,
         crashes' \in 0..world.crashes
  PROVE  Inv'
<1>1. worker'[w] = Idle
  BY Types DEF Inv, Move
<1>2. (Turned(w) /\ Selected(w) /\ Claimed(w) /\ Gate(w) /\ Current(w))'
  BY <1>1, Resting DEF Turned, Selected, Claimed, Gate, Current, Working
<1>3. approvals' \subseteq Occurrences
  BY DEF Inv, TypeOK
<1> QED BY <1>2, <1>3, Resting, MoveKeeps DEF Claiming

\* Locking a due schedule keeps Inv.
LEMMA LockKeeps ==
  ASSUME Inv, NEW w \in Workers, NEW v \in Versions, LockSchedule(w, v), UNCHANGED world
  PROVE  Inv'
<1> DEFINE value == [Idle EXCEPT !.pc = "locked", !.version = v]
<1>1. /\ value \in WorkRecs /\ value.pc = "locked" /\ value.version = v
  <2>1. 0 \in 0..MaxFence
    BY SMT, BoundsAssumption
  <2> QED BY <2>1 DEF Idle, WorkRecs
<1>2. worker'[w] = value
  BY Types DEF Inv, LockSchedule, Move
<1> HIDE DEF value
<1>3. (Turned(w) /\ Selected(w) /\ Claimed(w) /\ Gate(w) /\ Current(w))'
  BY <1>1, <1>2 DEF LockSchedule, Turned, Selected, Claimed, Gate, Current, Working
<1>4. approvals' \subseteq Occurrences /\ crashes' \in 0..world.crashes
  BY DEF Inv, TypeOK, LockSchedule
<1>5. Move(w, value) /\ UNCHANGED <<row, occ, grant, delegation, binding, stop>>
      /\ \A other \in Workers : worker[other].pc \in Claiming => worker[other].version # v
  BY DEF LockSchedule, Claiming, value
<1> QED BY <1>1, <1>3, <1>4, <1>5, MoveKeeps

\* Claiming an occurrence under the lock keeps Inv.
LEMMA SelectKeeps ==
  ASSUME Inv, NEW w \in Workers, SelectOccurrence(w), UNCHANGED world
  PROVE  Inv'
<1>1. worker[w] \in WorkRecs /\ worker[w] # Idle /\ worker[w].version \in Versions
  BY Busy DEF Inv, SelectOccurrence
<1>2. UNCHANGED <<row, occ, grant, delegation, binding, stop, approvals>>
      /\ crashes' \in 0..world.crashes /\ approvals' \subseteq Occurrences
  BY DEF Inv, TypeOK, SelectOccurrence
<1>3. CASE Move(w, Idle)
  BY <1>2, <1>3, RestKeeps
<1>4. ASSUME NEW i \in Instants, Claimable(<<worker[w].version, i>>),
             FenceBound(<<worker[w].version, i>>),
             Move(w, [worker[w] EXCEPT !.pc = "selected", !.occ = <<worker[w].version, i>>])
      PROVE  Inv'
  <2> DEFINE o == <<worker[w].version, i>>
             value == [worker[w] EXCEPT !.pc = "selected", !.occ = o]
  <2>1. o \in Occurrences /\ o[1] = worker[w].version
    BY <1>1 DEF Occurrences
  <2>2. /\ value \in WorkRecs /\ value.pc = "selected" /\ value.version = worker[w].version
        /\ value.occ = o /\ value # Idle
    BY <1>1, <2>1 DEF WorkRecs, Idle
  <2>3. worker'[w] = value
    BY <1>4, Types DEF Inv, Move
  <2>4. Move(w, value) /\ Claimable(o) /\ FenceBound(o)
    BY <1>4
  <2> HIDE DEF value, o
  <2>5. occ[o] # NoOcc
    BY SMT, <2>4 DEF Claimable, NoOcc, None
  <2>6. Turned(w)'
    BY <1>1, <1>2, <2>2, <2>3 DEF Inv, Turned
  <2>7. Selected(w)'
    BY <1>2, <2>1, <2>2, <2>3, <2>4, <2>5 DEF Selected, Claimable, FenceBound
  <2>8. (Claimed(w) /\ Gate(w) /\ Current(w))'
    BY <2>2, <2>3 DEF Claimed, Gate, Current, Working
  <2>9. \A other \in Workers \ {w} :
          worker[other].pc \in Claiming => worker[other].version # value.version
    BY <2>2 DEF Inv, Locks, Claiming, SelectOccurrence
  <2> QED BY <1>2, <2>2, <2>4, <2>6, <2>7, <2>8, <2>9, MoveKeeps
<1> QED BY <1>3, <1>4 DEF SelectOccurrence

\* The steps of a claimed occurrence that only move the worker.
LEMMA RequestKeeps ==
  ASSUME Inv, NEW w \in Workers, Request(w), UNCHANGED world
  PROVE  Inv'
<1> DEFINE value == [worker[w] EXCEPT !.pc = "asked"]
<1>1. worker[w] \in WorkRecs /\ worker[w] # Idle /\ worker[w].pc = "claimed"
  BY Busy DEF Inv, Request
<1>2. /\ value \in WorkRecs /\ value.pc = "asked" /\ value.version = worker[w].version
      /\ value.occ = worker[w].occ /\ value.fence = worker[w].fence
  BY <1>1 DEF WorkRecs
<1>3. worker'[w] = value /\ Move(w, value)
  BY Types DEF Inv, Request, Move
<1> HIDE DEF value
<1>4. Turned(w) /\ Claimed(w) /\ Current(w)
  BY DEF Inv, CurrentClaimStands, Current, Working
<1>5. UNCHANGED <<row, occ, grant, delegation, binding, stop>>
  BY DEF Request
<1>6. (Turned(w) /\ Selected(w) /\ Claimed(w) /\ Gate(w) /\ Current(w))'
  BY <1>1, <1>2, <1>3, <1>4, <1>5 DEF Turned, Selected, Claimed, Gate, Current, Working
<1>7. approvals' \subseteq Occurrences /\ crashes' \in 0..world.crashes
  BY <1>1, <1>4 DEF Inv, TypeOK, Request, Claimed, Working
<1> QED BY <1>2, <1>3, <1>5, <1>6, <1>7, MoveKeeps DEF Claiming

\* What was found lost at the gate is what the later reads will find lost.
LEMMA GateKeeps ==
  ASSUME Inv, NEW w \in Workers, BeforeDispatch(w), UNCHANGED world
  PROVE  Inv'
<1> DEFINE value == [worker[w] EXCEPT !.pc = "gate", !.stood = Stands(w)]
<1>0. Stands(w) \in BOOLEAN
  BY DEF Stands
<1>1. worker[w] \in WorkRecs /\ worker[w] # Idle /\ worker[w].pc = "claimed"
  BY Busy DEF Inv, BeforeDispatch
<1>2. /\ value \in WorkRecs /\ value.pc = "gate" /\ value.version = worker[w].version
      /\ value.occ = worker[w].occ /\ value.fence = worker[w].fence
      /\ value.stood = Stands(w)
  BY <1>0, <1>1 DEF WorkRecs
<1>3. worker'[w] = value /\ Move(w, value)
  BY Types DEF Inv, BeforeDispatch, Move
<1> HIDE DEF value
<1>4. Turned(w) /\ Claimed(w) /\ Current(w)
  BY DEF Inv, CurrentClaimStands, Current, Working
<1>5. UNCHANGED <<row, occ, grant, delegation, binding, stop, approvals, crashes>> /\ ~stop
  BY DEF BeforeDispatch
<1>6. Holds(w)' <=> Holds(w)
  BY <1>2, <1>3, <1>5 DEF Holds
<1>7. Gate(w)'
  BY <1>1, <1>2, <1>3, <1>4, <1>5, <1>6 DEF Gate, Stands, Turned
<1>8. (Turned(w) /\ Selected(w) /\ Claimed(w) /\ Current(w))'
  BY <1>1, <1>2, <1>3, <1>4, <1>5 DEF Turned, Selected, Claimed, Current, Working
<1>9. approvals' \subseteq Occurrences /\ crashes' \in 0..world.crashes
  BY <1>5 DEF Inv, TypeOK
<1> QED BY <1>2, <1>3, <1>5, <1>7, <1>8, <1>9, MoveKeeps DEF Claiming

\* The fence check keeps Inv.
LEMMA FenceKeeps ==
  ASSUME Inv, NEW w \in Workers, CheckDispatchFence(w), UNCHANGED world
  PROVE  Inv'
<1> DEFINE value == [worker[w] EXCEPT !.pc = "eligible"]
<1>1. worker[w] \in WorkRecs /\ worker[w] # Idle /\ worker[w].pc = "gate"
  BY Busy DEF Inv, CheckDispatchFence
<1>2. /\ value \in WorkRecs /\ value.pc = "eligible" /\ value.version = worker[w].version
      /\ value.occ = worker[w].occ /\ value.fence = worker[w].fence
      /\ value.stood = worker[w].stood
  BY <1>1 DEF WorkRecs
<1>3. worker'[w] = value /\ Move(w, value)
  BY Types DEF Inv, CheckDispatchFence, Move
<1> HIDE DEF value
<1>4. Turned(w) /\ Claimed(w) /\ Current(w) /\ Gate(w)
  BY DEF Inv, CurrentClaimStands, Current, Working
<1>5. UNCHANGED <<row, occ, grant, delegation, binding, stop, approvals, crashes>>
      /\ grant = "ACTIVE" /\ delegation = "ACTIVE" /\ Holds(w)
  BY DEF CheckDispatchFence
<1>6. worker[w].stood
  BY <1>1, <1>4, <1>5 DEF Gate
<1>7. Gate(w)'
  BY <1>2, <1>3, <1>6 DEF Gate
<1>8. (Turned(w) /\ Selected(w) /\ Claimed(w) /\ Current(w))'
  BY <1>1, <1>2, <1>3, <1>4, <1>5 DEF Turned, Selected, Claimed, Current, Working
<1>9. approvals' \subseteq Occurrences /\ crashes' \in 0..world.crashes
  BY <1>5 DEF Inv, TypeOK
<1> QED BY <1>2, <1>3, <1>5, <1>7, <1>8, <1>9, MoveKeeps DEF Claiming

-----------------------------------------------------------------------------
(* Steps of a worker that change an occurrence.                            *)

\* The commit of a claim: siblings are as the selecting statement saw them, and
\* the workers that claimed the occurrence before are behind the new fence.
LEMMA CommitKeeps ==
  ASSUME Inv, NEW w \in Workers, CommitClaim(w), UNCHANGED world
  PROVE  Inv'
<1> DEFINE o == worker[w].occ
           value == [worker[w] EXCEPT !.pc = "claimed", !.fence = occ[o].fence + 1]
<1>0. TypeOK /\ \A v \in Workers : Turned(v) /\ Selected(v) /\ Claimed(v) /\ Gate(v)
  BY DEF Inv
<1>1. worker[w] \in WorkRecs /\ worker[w] # Idle /\ worker[w].pc = "selected"
  BY <1>0, Busy DEF CommitClaim
<1>2. /\ o \in Occurrences /\ o[1] = worker[w].version /\ occ[o] # NoOcc /\ FenceBound(o)
      /\ \A other \in Occurrences \ {o} : other[1] = o[1] => occ[other].status # "CLAIMED"
  BY <1>0, <1>1 DEF Selected
<1>3. occ[o] \in OccRecs /\ occ[o].fence \in Nat /\ occ[o].fence + 1 \in 1..MaxFence
  <2>1. occ[o] \in OccRecs
    BY <1>0, <1>2, Types
  <2> QED BY SMT, <1>0, <1>2, <2>1, Types, BoundsAssumption DEF OccRecs, FenceBound
<1>4. /\ value \in WorkRecs /\ value.pc = "claimed" /\ value.version = worker[w].version
      /\ value.occ = o /\ value.fence = occ[o].fence + 1
  <2>1. ASSUME NEW n \in 0..MaxFence
        PROVE  LET r == [worker[w] EXCEPT !.pc = "claimed", !.fence = n]
               IN /\ r \in WorkRecs /\ r.pc = "claimed" /\ r.version = worker[w].version
                  /\ r.occ = o /\ r.fence = n
    BY <1>1 DEF WorkRecs
  <2>2. occ[o].fence + 1 \in 0..MaxFence
    BY SMT, <1>3, BoundsAssumption
  <2> QED BY <2>1, <2>2
<1>5. /\ worker' \in [Workers -> {Idle} \cup WorkRecs] /\ worker'[w] = value
      /\ \A v \in Workers \ {w} : worker'[v] = worker[v]
  <2>1. worker' = [worker EXCEPT ![w] = value]
    BY DEF CommitClaim, Move
  <2> QED BY <1>0, <1>4, <2>1, Types
<1>6. /\ occ'[o] \in OccRecs /\ occ'[o].status = "CLAIMED" /\ occ'[o].owner = w
      /\ occ'[o].fence = occ[o].fence + 1
      /\ occ' \in [Occurrences -> {NoOcc} \cup OccRecs]
      /\ \A other \in Occurrences \ {o} : occ'[other] = occ[other]
  <2>1. occ' = [occ EXCEPT ![o].status = "CLAIMED", ![o].owner = w, ![o].live = TRUE,
                           ![o].fence = @ + 1]
    BY DEF CommitClaim
  <2> DEFINE R(n) == [occ[o] EXCEPT !.status = "CLAIMED", !.owner = w, !.live = TRUE, !.fence = n]
  <2>2. occ'[o] = R(occ[o].fence + 1)
    BY <1>0, <1>2, <1>3, <2>1, Types DEF OccRecs
  <2>3. /\ \A other \in Occurrences \ {o} : occ'[other] = occ[other]
        /\ occ' = [p \in Occurrences |-> occ'[p]]
    BY <1>0, <1>2, <1>3, <2>1, Types DEF OccRecs
  <2>4. ASSUME NEW n \in 1..MaxFence
        PROVE  R(n) \in OccRecs /\ R(n).status = "CLAIMED" /\ R(n).owner = w /\ R(n).fence = n
    BY <1>3 DEF OccRecs, Statuses
  <2> HIDE DEF R
  <2>5. occ'[o] \in OccRecs /\ occ'[o].status = "CLAIMED" /\ occ'[o].owner = w
        /\ occ'[o].fence = occ[o].fence + 1
    BY <1>3, <2>2, <2>4
  <2>6. \A p \in Occurrences : occ'[p] \in {NoOcc} \cup OccRecs
    BY <1>0, <2>3, <2>5, Types
  <2> QED BY <2>3, <2>5, <2>6
<1>7. UNCHANGED <<world, row, grant, delegation, binding, stop, approvals, crashes>>
  BY DEF CommitClaim
<1> HIDE DEF o, value
<1>8. TypeOK'
  BY <1>0, <1>5, <1>6, <1>7 DEF TypeOK, WorkRecs, OccRecs
<1>9. Locks' /\ Authorized'
  BY <1>4, <1>5, <1>7 DEF Inv, Locks, Authorized, Claiming
<1>10. OneClaimPerVersion'
  BY <1>2, <1>6 DEF Inv, OneClaimPerVersion
<1>11. ASSUME NEW v \in Workers \ {w}, worker[v].pc \in Working, worker[v].occ = o
       PROVE  worker[v].fence < occ'[o].fence
  <2>1. worker[v].fence <= occ[o].fence
    BY <1>0, <1>11 DEF Claimed
  <2>2. worker[v].fence \in Nat
    BY SMT, <1>0, <1>11, Busy, BoundsAssumption DEF WorkRecs, Working
  <2> QED BY SMT, <1>3, <1>6, <2>1, <2>2
<1>12. NoOcc \notin OccRecs
  BY NoOccIsNoRow
<1>13. ASSUME NEW v \in Workers \ {w}
       PROVE  (Turned(v) /\ Selected(v) /\ Claimed(v) /\ Gate(v) /\ Current(v))'
  <2>1. worker'[v] = worker[v]
    BY <1>5
  <2>2. Turned(v)'
    BY <1>0, <1>7, <2>1 DEF Turned
  <2>3. Selected(v)'
    <3> SUFFICES ASSUME worker[v].pc = "selected" PROVE Selected(v)'
      BY <2>1 DEF Selected
    <3>1. worker[v].version # worker[w].version
      BY <1>1 DEF Inv, Locks, Claiming
    <3>2. /\ worker[v].occ \in Occurrences /\ worker[v].occ[1] = worker[v].version
          /\ occ[worker[v].occ] # NoOcc /\ FenceBound(worker[v].occ)
          /\ \A other \in Occurrences \ {worker[v].occ} :
               other[1] = worker[v].occ[1] => occ[other].status # "CLAIMED"
      BY <1>0 DEF Selected
    <3>3. worker[v].occ # o
      BY <1>2, <3>1, <3>2
    <3>4. \A other \in Occurrences : other[1] = worker[v].occ[1] => occ'[other] = occ[other]
      BY <1>2, <1>6, <3>1, <3>2
    <3> QED BY <1>6, <1>7, <2>1, <3>2, <3>3, <3>4 DEF Selected, FenceBound
  <2>4. Claimed(v)' /\ Current(v)'
    <3> SUFFICES ASSUME worker[v].pc \in Working PROVE Claimed(v)' /\ Current(v)'
      BY <2>1 DEF Claimed, Current
    <3>1. Claimed(v) /\ Current(v)
      BY <1>0 DEF Inv, CurrentClaimStands, Current, Working
    <3>2. CASE worker[v].occ = o
      <4>1. worker[v].fence < occ'[o].fence
        BY <1>11, <3>2
      <4>2. worker[v].fence \in Nat /\ occ'[o].fence \in Nat
        BY SMT, <1>0, <1>3, <1>6, Busy, BoundsAssumption DEF WorkRecs, Working
      <4>3. worker[v].fence <= occ'[o].fence /\ worker[v].fence # occ'[o].fence
        BY SMT, <4>1, <4>2
      <4> QED BY <1>2, <1>6, <1>12, <2>1, <3>2, <4>3 DEF Claimed, Current
    <3>3. CASE worker[v].occ # o
      BY <1>6, <2>1, <3>1, <3>3 DEF Claimed, Current
    <3> QED BY <3>2, <3>3
  <2>5. Gate(v)'
    <3>1. worker[v].pc \in {"gate", "eligible"} => (Holds(v)' => Holds(v))
      <4> SUFFICES ASSUME worker[v].pc \in {"gate", "eligible"}, Holds(v)' PROVE Holds(v)
        OBVIOUS
      <4>1. worker[v].occ \in Occurrences
        BY <1>0 DEF Claimed, Working
      <4>2. worker[v].occ # o
        <5> SUFFICES ASSUME worker[v].occ = o PROVE FALSE
          OBVIOUS
        <5>1. worker[v].fence < occ'[o].fence
          BY <1>11 DEF Working
        <5>2. worker[v].fence \in Nat
          BY SMT, <1>0, Busy, BoundsAssumption DEF WorkRecs
        <5> QED BY SMT, <2>1, <5>1, <5>2 DEF Holds
      <4> QED BY <1>6, <2>1, <4>1, <4>2 DEF Holds
    <3> QED BY <1>0, <1>7, <2>1, <3>1 DEF Gate
  <2> QED BY <2>2, <2>3, <2>4, <2>5
<1>14. (Turned(w) /\ Selected(w) /\ Claimed(w) /\ Gate(w) /\ Current(w))'
  <2>1. Turned(w)'
    BY <1>0, <1>1, <1>4, <1>5, <1>7 DEF Turned
  <2>2. Selected(w)' /\ Gate(w)'
    BY <1>4, <1>5 DEF Selected, Gate
  <2>3. Claimed(w)' /\ Current(w)'
    BY SMT, <1>2, <1>3, <1>4, <1>5, <1>6, <1>12 DEF Claimed, Current
  <2> QED BY <2>1, <2>2, <2>3
<1>15. CurrentClaimStands'
  BY <1>13, <1>14 DEF CurrentClaimStands, Current, Working
<1>16. EligibleStood'
  BY <1>13, <1>14 DEF EligibleStood, Gate
<1> QED BY <1>8, <1>9, <1>10, <1>13, <1>14, <1>15, <1>16 DEF Inv

\* A worker gives up an occurrence it claimed with the latest fence: no other
\* worker has that fence, and no claim in progress has selected it.
LEMMA GiveUpKeeps ==
  ASSUME Inv, NEW w \in Workers, worker[w].pc \in Working, Unlocked(worker[w].occ),
         occ[worker[w].occ].fence = worker[w].fence,
         NEW status \in Statuses \ {"CLAIMED"},
         occ' \in [Occurrences -> {NoOcc} \cup OccRecs],
         occ'[worker[w].occ] \in OccRecs, occ'[worker[w].occ].status = status,
         occ'[worker[w].occ].fence = occ[worker[w].occ].fence,
         \A other \in Occurrences \ {worker[w].occ} : occ'[other] = occ[other],
         Move(w, Idle),
         UNCHANGED <<world, row, grant, delegation, binding, stop, approvals, crashes>>
  PROVE  Inv'
<1> DEFINE o == worker[w].occ
<1>0. TypeOK /\ \A v \in Workers : Turned(v) /\ Selected(v) /\ Claimed(v) /\ Gate(v)
  BY DEF Inv
<1>1. o \in Occurrences /\ occ[o].status = "CLAIMED" /\ occ[o].owner = w
  BY <1>0 DEF Inv, CurrentClaimStands, Claimed, Working
<1>2. /\ worker' \in [Workers -> {Idle} \cup WorkRecs] /\ worker'[w] = Idle
      /\ \A v \in Workers \ {w} : worker'[v] = worker[v]
  BY <1>0, Types DEF Move
<1>3. ASSUME NEW v \in Workers \ {w}, worker[v].pc \in Working, worker[v].occ = o
      PROVE  worker[v].fence # occ[o].fence
  BY SMT, <1>1, <1>3 DEF Inv, CurrentClaimStands, Working
<1>4. TypeOK'
  BY <1>0, <1>2 DEF TypeOK, WorkRecs, OccRecs
<1>5. Locks' /\ Authorized'
  BY SMT, <1>2, Resting DEF Inv, Locks, Authorized, Claiming
<1>6. OneClaimPerVersion'
  BY <1>1 DEF Inv, OneClaimPerVersion
<1>7. NoOcc \notin OccRecs
  BY NoOccIsNoRow
<1>8. ASSUME NEW v \in Workers \ {w}
      PROVE  (Turned(v) /\ Selected(v) /\ Claimed(v) /\ Gate(v) /\ Current(v))'
  <2>1. worker'[v] = worker[v]
    BY <1>2
  <2>2. Turned(v)'
    BY <1>0, <2>1 DEF Turned
  <2>3. Selected(v)'
    <3> SUFFICES ASSUME worker[v].pc = "selected" PROVE Selected(v)'
      BY <2>1 DEF Selected
    <3>1. worker[v].occ # o
      BY DEF Unlocked
    <3> QED BY SMT, <1>0, <1>1, <2>1, <3>1 DEF Selected, FenceBound
  <2>4. Claimed(v)' /\ Current(v)'
    <3>1. Claimed(v) /\ Current(v)
      BY <1>0 DEF Inv, CurrentClaimStands, Current, Working
    <3>2. CASE worker[v].occ = o
      BY <1>1, <1>3, <1>7, <2>1, <3>1, <3>2 DEF Claimed, Current
    <3>3. CASE worker[v].occ # o
      BY <2>1, <3>1, <3>3 DEF Claimed, Current
    <3> QED BY <3>2, <3>3
  <2>5. Gate(v)'
    <3>1. worker[v].pc \in {"gate", "eligible"} => (Holds(v)' => Holds(v))
      BY SMT, <1>0, <2>1 DEF Holds, Claimed, Working
    <3> QED BY <1>0, <2>1, <3>1 DEF Gate
  <2> QED BY <2>2, <2>3, <2>4, <2>5
<1>9. (Turned(w) /\ Selected(w) /\ Claimed(w) /\ Gate(w) /\ Current(w))'
  BY <1>2, Resting DEF Turned, Selected, Claimed, Gate, Current, Working
<1>10. CurrentClaimStands'
  BY <1>8, <1>9 DEF CurrentClaimStands, Current, Working
<1>11. EligibleStood'
  BY <1>8, <1>9 DEF EligibleStood, Gate
<1> QED BY <1>4, <1>5, <1>6, <1>8, <1>9, <1>10, <1>11 DEF Inv

\* Blocking an occurrence that is not available keeps Inv.
LEMMA BlockKeeps ==
  ASSUME Inv, NEW w \in Workers, ProcessUnavailable(w), UNCHANGED world
  PROVE  Inv'
<1> DEFINE o == worker[w].occ
<1>0. TypeOK
  BY DEF Inv
<1>1. /\ worker[w].pc \in Working /\ Unlocked(o) /\ Move(w, Idle)
      /\ UNCHANGED <<row, grant, delegation, binding, stop, approvals, crashes>>
  BY DEF ProcessUnavailable, Working
<1>2. o \in Occurrences /\ occ[o] \in OccRecs
  BY <1>0, <1>1, Types DEF Inv, Claimed
<1>3. CASE occ[o].fence # worker[w].fence
  <2>1. occ' = occ
    BY <1>3 DEF ProcessUnavailable, BlockAutonomyOccurrence
  <2> QED BY <1>0, <1>1, <2>1, RestKeeps DEF TypeOK
<1>4. CASE occ[o].fence = worker[w].fence
  <2>1. occ' = [occ EXCEPT ![o].status = "BLOCKED", ![o].owner = None, ![o].live = FALSE]
    BY <1>4 DEF ProcessUnavailable, BlockAutonomyOccurrence
  <2>2. /\ occ'[o] = [occ[o] EXCEPT !.status = "BLOCKED", !.owner = None, !.live = FALSE]
        /\ \A other \in Occurrences \ {o} : occ'[other] = occ[other]
        /\ occ' = [p \in Occurrences |-> occ'[p]]
    BY <1>0, <1>2, <2>1, Types DEF OccRecs
  <2>3. occ'[o] \in OccRecs /\ occ'[o].status = "BLOCKED" /\ occ'[o].fence = occ[o].fence
    BY <1>2, <2>2 DEF OccRecs, Statuses
  <2>4. \A p \in Occurrences : occ'[p] \in {NoOcc} \cup OccRecs
    BY <1>0, <2>2, <2>3, Types
  <2>5. occ' \in [Occurrences -> {NoOcc} \cup OccRecs]
    BY <2>2, <2>4
  <2>6. "BLOCKED" \in Statuses \ {"CLAIMED"}
    BY DEF Statuses
  <2> QED BY <1>1, <1>4, <2>2, <2>3, <2>5, <2>6, GiveUpKeeps
<1> QED BY <1>3, <1>4

\* Binding the approval keeps Inv.
LEMMA BindKeeps ==
  ASSUME Inv, NEW w \in Workers, BindAutonomyApproval(w), UNCHANGED world
  PROVE  Inv'
<1> DEFINE o == worker[w].occ
<1>0. TypeOK
  BY DEF Inv
<1>1. /\ worker[w].pc \in Working /\ Unlocked(o) /\ Move(w, Idle)
      /\ UNCHANGED <<row, grant, delegation, binding, stop, approvals, crashes>>
  BY DEF BindAutonomyApproval, Working
<1>2. o \in Occurrences /\ occ[o] \in OccRecs
  BY <1>0, <1>1, Types DEF Inv, Claimed
<1>3. CASE occ' = occ
  BY <1>0, <1>1, <1>3, RestKeeps DEF TypeOK
<1>4. CASE /\ occ[o].fence = worker[w].fence
           /\ occ' = [occ EXCEPT ![o].status = "APPROVAL_REQUIRED", ![o].approval = TRUE]
  <2>2. /\ occ'[o] = [occ[o] EXCEPT !.status = "APPROVAL_REQUIRED", !.approval = TRUE]
        /\ \A other \in Occurrences \ {o} : occ'[other] = occ[other]
        /\ occ' = [p \in Occurrences |-> occ'[p]]
    BY <1>0, <1>2, <1>4, Types DEF OccRecs
  <2>3. /\ occ'[o] \in OccRecs /\ occ'[o].status = "APPROVAL_REQUIRED"
        /\ occ'[o].fence = occ[o].fence
    BY <1>2, <2>2 DEF OccRecs, Statuses
  <2>4. \A p \in Occurrences : occ'[p] \in {NoOcc} \cup OccRecs
    BY <1>0, <2>2, <2>3, Types
  <2>5. occ' \in [Occurrences -> {NoOcc} \cup OccRecs]
    BY <2>2, <2>4
  <2>6. "APPROVAL_REQUIRED" \in Statuses \ {"CLAIMED"}
    BY DEF Statuses
  <2> QED BY <1>1, <1>4, <2>2, <2>3, <2>5, <2>6, GiveUpKeeps
<1> QED BY <1>3, <1>4 DEF BindAutonomyApproval

-----------------------------------------------------------------------------

\* Inv holds initially.
LEMMA InitInv == Init => Inv
<1> SUFFICES ASSUME Init PROVE Inv
  OBVIOUS
<1>1. binding \in BOOLEAN /\ stop \in BOOLEAN
  BY DEF Init
<1>2. TypeOK
  BY SMT, <1>1, WorldsAssumption DEF Init, TypeOK, Authorities
<1>3. \A w \in Workers : worker[w] = Idle
  BY DEF Init
<1>4. \A w \in Workers : Turned(w) /\ Selected(w) /\ Claimed(w) /\ Gate(w)
  BY <1>3, Resting DEF Turned, Selected, Claimed, Gate, Working
<1>5. Locks /\ CurrentClaimStands /\ EligibleStood
  BY <1>3, Resting DEF Locks, Claiming, CurrentClaimStands, EligibleStood
<1>6. Authorized /\ OneClaimPerVersion
  BY DEF Init, Authorized, OneClaimPerVersion, NoOcc, None
<1> QED BY <1>2, <1>4, <1>5, <1>6 DEF Inv

\* Every step keeps Inv.
LEMMA NextKeepsInv == Inv /\ [Next]_vars => Inv'
<1> SUFFICES ASSUME Inv, [Next]_vars PROVE Inv'
  OBVIOUS
<1>1. CASE Control /\ UNCHANGED world
  BY <1>1, ControlStep, MaterializeKeeps
<1>2. ASSUME NEW w \in Workers, Run(w), UNCHANGED world PROVE Inv'
  <2>1. CASE ClaimNextAutonomyDue(w)
    BY <1>2, <2>1, LockKeeps, SelectKeeps, CommitKeeps DEF ClaimNextAutonomyDue
  <2>2. CASE SubmissionPossible(w)
    BY <1>2, <2>2, RestKeeps DEF SubmissionPossible, Inv, TypeOK
  <2> QED BY <1>2, <2>1, <2>2, BlockKeeps, RequestKeeps, BindKeeps, GateKeeps, FenceKeeps DEF Run
<1>3. ASSUME NEW w \in Workers, Crash(w), UNCHANGED world PROVE Inv'
  <2>1. crashes' \in 0..world.crashes
    BY SMT, <1>3, WorldsAssumption DEF Crash, Inv, TypeOK
  <2> QED BY <1>3, <2>1, RestKeeps DEF Crash
<1>4. ASSUME NEW o \in Occurrences, LeaseExpires(o), UNCHANGED world PROVE Inv'
  BY <1>4, LeaseKeeps
<1>5. CASE UNCHANGED vars
  <2>1. UNCHANGED <<world, row, occ, grant, delegation, binding, stop, approvals, worker, crashes>>
    BY <1>5 DEF vars
  <2>2. TypeOK' /\ Authorized'
    BY <2>1 DEF Inv, TypeOK, Authorized, Occurrences
  <2> QED BY <2>1, <2>2, ControlKeeps
<1> QED BY <1>1, <1>2, <1>3, <1>4, <1>5 DEF Next

\* Whatever leases, takeovers and crashes do, no two occurrences of one schedule
\* version are claimed at once (ClaimAutonomyDue's lock on the schedule row and its
\* second statement).
THEOREM ClaimsExclusive == Spec => []OneClaimPerVersion
<1>1. Inv => OneClaimPerVersion
  BY DEF Inv
<1> QED BY <1>1, InitInv, NextKeepsInv, PTL DEF Spec

\* The fencing token works: an occurrence is as the worker with the latest fence
\* left it, and a worker whose lease was taken over changes nothing
\* (BlockAutonomyOccurrence, BindAutonomyApproval).
THEOREM FencedClaims == Spec => []CurrentClaimStands
<1>1. Inv => CurrentClaimStands
  BY DEF Inv
<1> QED BY <1>1, InitInv, NextKeepsInv, PTL DEF Spec

\* What the gate asks for held together at the moment it read the emergency stop,
\* although BeforeDispatch reads the stop, the schedule, the grant, the delegation
\* and the fence one after the other.
THEOREM GateIsConsistent == Spec => []EligibleStood
<1>1. Inv => EligibleStood
  BY DEF Inv
<1> QED BY <1>1, InitInv, NextKeepsInv, PTL DEF Spec

\* The variables of the autonomous runtime keep their types.
THEOREM AutonomyTyped == Spec => []TypeOK
<1>1. Inv => TypeOK
  BY DEF Inv
<1> QED BY <1>1, InitInv, NextKeepsInv, PTL DEF Spec

-----------------------------------------------------------------------------
(* Smallest counterexamples.                                               *)

\* A set of natural numbers that is not empty has a least member.
LEMMA LeastNat ==
  ASSUME NEW T \in SUBSET Nat, T # {}
  PROVE  \E n \in T : \A m \in T : n <= m
<1>1. \E x \in T : \A y \in T : ~(<<y, x>> \in OpToRel(<, Nat))
  BY NatLessThanWellFounded, WFMin
<1>2. PICK x \in T : \A y \in T : ~(<<y, x>> \in OpToRel(<, Nat))
  BY <1>1
<1>3. \A y \in T : ~(y < x)
  <2> SUFFICES ASSUME NEW y \in T, y < x PROVE <<y, x>> \in OpToRel(<, Nat)
    BY <1>2
  <2> QED BY DEF OpToRel
<1> QED BY SMT, <1>3

\* Among finite sets one is smallest: a smallest counterexample.
LEMMA Smallest ==
  ASSUME NEW Bad, Bad # {}, \A s \in Bad : IsFiniteSet(s)
  PROVE  \E s \in Bad : \A t \in Bad : ~(Cardinality(t) < Cardinality(s))
<1> DEFINE T == {Cardinality(s) : s \in Bad}
<1>1. T \in SUBSET Nat /\ T # {}
  BY FS_CardinalityType
<1>2. PICK n \in T : \A m \in T : n <= m
  BY <1>1, LeastNat
<1>3. PICK s \in Bad : n = Cardinality(s)
  BY <1>2
<1>4. \A t \in Bad : n <= Cardinality(t) /\ Cardinality(t) \in Nat
  BY <1>2, FS_CardinalityType
<1> QED BY SMT, <1>3, <1>4, FS_CardinalityType

-----------------------------------------------------------------------------
(* Folds of addition.                                                      *)

Pick(s) == CHOOSE x \in s : TRUE

IsSum(f, a, S) ==
  f = [s \in SUBSET S |-> IF s = {} THEN 0 ELSE a[Pick(s)] + f[s \ {Pick(s)}]]

\* Total, with the amounts as a parameter.
SumOf(a, S) == MapThenSumSet(LAMBDA o : a[o], S)

\* The member the fold takes next is a member.
LEMMA PickIn == ASSUME NEW s, s # {} PROVE Pick(s) \in s
BY DEF Pick

\* The subsets of S with at most n elements.
Level(S, n) == {s \in SUBSET S : Cardinality(s) <= n}

IsSumTo(f, a, S, n) ==
  f = [s \in Level(S, n) |-> IF s = {} THEN 0 ELSE a[Pick(s)] + f[s \ {Pick(s)}]]

\* The fold is defined, one number of elements after the other.
LEMMA SumExists ==
  ASSUME NEW a, NEW S, IsFiniteSet(S)
  PROVE  \E f : IsSum(f, a, S)
<1>1. \A s \in SUBSET S : IsFiniteSet(s) /\ Cardinality(s) \in Nat
                          /\ Cardinality(s) <= Cardinality(S)
  BY FS_Subset, FS_CardinalityType
<1>2. \A n \in Nat : \E f : IsSumTo(f, a, S, n)
  <2> DEFINE T == {n \in Nat : ~\E f : IsSumTo(f, a, S, n)}
  <2> SUFFICES ASSUME T # {} PROVE FALSE
    OBVIOUS
  <2>1. PICK n \in T : \A m \in T : n <= m
    <3> HIDE DEF T
    <3>1. T \in SUBSET Nat
      BY DEF T
    <3> QED BY <3>1, LeastNat
  <2>2. CASE n = 0
    <3>1. Level(S, 0) = {{}}
      BY SMT, <1>1, FS_EmptySet DEF Level
    <3>2. IsSumTo([s \in {{}} |-> 0], a, S, 0)
      BY <3>1 DEF IsSumTo
    <3> QED BY <2>1, <2>2, <3>2
  <2>3. CASE n # 0
    <3>1. n - 1 \in Nat /\ ~(n <= n - 1)
      BY SMT, <2>1, <2>3
    <3>2. PICK g : IsSumTo(g, a, S, n - 1)
      BY <2>1, <3>1
    <3> DEFINE f == [s \in Level(S, n) |->
                       IF s \in Level(S, n - 1) THEN g[s] ELSE a[Pick(s)] + g[s \ {Pick(s)}]]
    <3>3. ASSUME NEW s \in Level(S, n), s # {}
          PROVE  s \ {Pick(s)} \in Level(S, n - 1) /\ s \ {Pick(s)} \in Level(S, n)
      <4>1. Pick(s) \in s /\ s \in SUBSET S /\ Cardinality(s) <= n
        BY <3>3, PickIn DEF Level
      <4>2. Cardinality(s \ {Pick(s)}) = Cardinality(s) - 1
        BY <1>1, <4>1, FS_RemoveElement
      <4>3. s \ {Pick(s)} \in SUBSET S /\ Cardinality(s) \in Nat
        BY <1>1, <4>1
      <4>4. Cardinality(s) - 1 <= n - 1 /\ Cardinality(s) - 1 <= n
        BY SMT, <2>1, <4>1, <4>3
      <4> QED BY <4>2, <4>3, <4>4 DEF Level
    <3>4. {} \in Level(S, n - 1) /\ Level(S, n - 1) \subseteq Level(S, n)
      <4>1. \A s \in SUBSET S : Cardinality(s) <= n - 1 => Cardinality(s) <= n
        BY SMT, <1>1, <2>1, <3>1
      <4> QED BY SMT, <3>1, <4>1, FS_EmptySet DEF Level
    <3>5. ASSUME NEW s \in Level(S, n)
          PROVE  f[s] = IF s = {} THEN 0 ELSE a[Pick(s)] + f[s \ {Pick(s)}]
      <4>1. CASE s = {}
        BY <3>2, <3>4, <4>1 DEF IsSumTo
      <4>2. CASE s # {}
        <5>1. f[s \ {Pick(s)}] = g[s \ {Pick(s)}]
          BY <3>3, <4>2
        <5>2. CASE s \in Level(S, n - 1)
          BY <3>2, <4>2, <5>1, <5>2 DEF IsSumTo
        <5>3. CASE s \notin Level(S, n - 1)
          BY <4>2, <5>1, <5>3
        <5> QED BY <5>2, <5>3
      <4> QED BY <4>1, <4>2
    <3>6. IsSumTo(f, a, S, n)
      <4>1. f = [s \in Level(S, n) |-> f[s]]
        OBVIOUS
      <4> HIDE DEF f
      <4> QED BY <3>5, <4>1 DEF IsSumTo
    <3> QED BY <2>1, <3>6
  <2> QED BY <2>2, <2>3
<1>3. Cardinality(S) \in Nat /\ Level(S, Cardinality(S)) = SUBSET S
  BY <1>1, FS_CardinalityType DEF Level
<1> QED BY <1>2, <1>3 DEF IsSumTo, IsSum

\* Two folds agree where both are defined.
LEMMA SumsAgree ==
  ASSUME NEW a, NEW S, NEW V, NEW f, NEW g, IsSum(f, a, S), IsSum(g, a, V),
         NEW t, t \subseteq S, t \subseteq V, IsFiniteSet(t)
  PROVE  f[t] = g[t]
<1> DEFINE Bad == {s \in SUBSET t : f[s] # g[s]}
<1> SUFFICES ASSUME Bad # {} PROVE FALSE
  OBVIOUS
<1>1. \A s \in SUBSET t : IsFiniteSet(s)
  BY FS_Subset
<1>2. PICK s \in Bad : \A u \in Bad : ~(Cardinality(u) < Cardinality(s))
  <2>1. \A s \in Bad : IsFiniteSet(s)
    BY <1>1
  <2> HIDE DEF Bad
  <2> QED BY <2>1, Smallest
<1>3. f[s] = IF s = {} THEN 0 ELSE a[Pick(s)] + f[s \ {Pick(s)}]
  BY <1>2 DEF IsSum
<1>4. g[s] = IF s = {} THEN 0 ELSE a[Pick(s)] + g[s \ {Pick(s)}]
  BY <1>2 DEF IsSum
<1>5. s # {}
  BY <1>2, <1>3, <1>4
<1>6. Pick(s) \in s /\ IsFiniteSet(s) /\ Cardinality(s) \in Nat
  BY <1>1, <1>2, <1>5, PickIn, FS_CardinalityType
<1>7. Cardinality(s \ {Pick(s)}) < Cardinality(s)
  <2>1. Cardinality(s \ {Pick(s)}) = Cardinality(s) - 1
    BY <1>6, FS_RemoveElement
  <2> QED BY SMT, <1>6, <2>1
<1>8. s \ {Pick(s)} \notin Bad
  BY <1>2, <1>7
<1>9. f[s \ {Pick(s)}] = g[s \ {Pick(s)}]
  BY <1>2, <1>8
<1> QED BY <1>2, <1>3, <1>4, <1>9

\* The fold is a function with the recurrence of a sum.
LEMMA SumIsSum ==
  ASSUME NEW a, NEW S, IsFiniteSet(S)
  PROVE  \E f : IsSum(f, a, S) /\ SumOf(a, S) = f[S]
<1> DEFINE g == CHOOSE f : IsSum(f, a, S)
<1>1. IsSum(g, a, S)
  BY SumExists
<1>2. SumOf(a, S) = g[S]
  BY DEF SumOf, MapThenSumSet, MapThenFoldSet, IsSum, Pick
<1> QED BY <1>1, <1>2

\* The empty sum.
LEMMA SumEmpty == ASSUME NEW a PROVE SumOf(a, {}) = 0
<1>1. PICK f : IsSum(f, a, {}) /\ SumOf(a, {}) = f[{}]
  BY SumIsSum, FS_EmptySet
<1> QED BY <1>1 DEF IsSum

\* A sum, and the member the fold takes next.
LEMMA SumPick ==
  ASSUME NEW a, NEW S, IsFiniteSet(S), S # {}
  PROVE  SumOf(a, S) = a[Pick(S)] + SumOf(a, S \ {Pick(S)})
<1>1. PICK f : IsSum(f, a, S) /\ SumOf(a, S) = f[S]
  BY SumIsSum
<1> DEFINE R == S \ {Pick(S)}
<1>2. IsFiniteSet(R)
  BY FS_RemoveElement
<1>3. PICK g : IsSum(g, a, R) /\ SumOf(a, R) = g[R]
  BY <1>2, SumIsSum
<1>4. f[R] = g[R]
  BY SMT, <1>1, <1>2, <1>3, SumsAgree
<1>5. f[S] = a[Pick(S)] + f[R]
  BY <1>1 DEF IsSum
<1> QED BY <1>1, <1>3, <1>4, <1>5

-----------------------------------------------------------------------------
(* Laws of sums,  for finite sets of occurrences.                          *)

FiniteSubset(S) == S \subseteq GrantOccurrences /\ IsFiniteSet(S)

\* A finite set without one of its members is smaller.
LEMMA Smaller ==
  ASSUME NEW S, FiniteSubset(S), NEW x \in S
  PROVE  /\ FiniteSubset(S \ {x}) /\ Cardinality(S \ {x}) < Cardinality(S)
         /\ Cardinality(S) \in Nat
<1>1. Cardinality(S) \in Nat /\ Cardinality(S \ {x}) = Cardinality(S) - 1 /\ IsFiniteSet(S \ {x})
  BY FS_CardinalityType, FS_RemoveElement DEF FiniteSubset
<1> QED BY SMT, <1>1 DEF FiniteSubset

\* A sum of natural numbers is one.
LEMMA SumNat ==
  ASSUME NEW a \in [GrantOccurrences -> Nat], NEW S, FiniteSubset(S)
  PROVE  SumOf(a, S) \in Nat
<1> DEFINE Bad == {s \in SUBSET S : SumOf(a, s) \notin Nat}
<1> SUFFICES ASSUME Bad # {} PROVE FALSE
  OBVIOUS
<1>1. \A s \in SUBSET S : FiniteSubset(s)
  BY FS_Subset DEF FiniteSubset
<1>2. PICK s \in Bad : \A u \in Bad : ~(Cardinality(u) < Cardinality(s))
  <2>1. \A s \in Bad : IsFiniteSet(s)
    BY <1>1 DEF FiniteSubset
  <2> HIDE DEF Bad
  <2> QED BY <2>1, Smallest
<1>3. s # {} /\ FiniteSubset(s)
  BY SMT, <1>1, <1>2, SumEmpty
<1>4. Pick(s) \in s
  BY <1>3, PickIn
<1>5. SumOf(a, s \ {Pick(s)}) \in Nat
  BY <1>2, <1>3, <1>4, Smaller
<1>6. SumOf(a, s) = a[Pick(s)] + SumOf(a, s \ {Pick(s)})
  BY <1>3, SumPick DEF FiniteSubset
<1>7. a[Pick(s)] \in Nat
  BY <1>3, <1>4 DEF FiniteSubset
<1>8. SumOf(a, s) \in Nat
  BY SMT, <1>5, <1>6, <1>7
<1> QED BY <1>2, <1>8

\* The order does not matter: any element can be taken out first.
LEMMA SumRemove ==
  ASSUME NEW a \in [GrantOccurrences -> Nat], NEW S, FiniteSubset(S), NEW y \in S
  PROVE  SumOf(a, S) = a[y] + SumOf(a, S \ {y})
<1> DEFINE Bad == {s \in SUBSET S : ~\A x \in s : SumOf(a, s) = a[x] + SumOf(a, s \ {x})}
<1> SUFFICES ASSUME Bad # {} PROVE FALSE
  OBVIOUS
<1>1. \A s \in SUBSET S : FiniteSubset(s)
  BY FS_Subset DEF FiniteSubset
<1>2. PICK s \in Bad : \A u \in Bad : ~(Cardinality(u) < Cardinality(s))
  <2>1. \A s \in Bad : IsFiniteSet(s)
    BY <1>1 DEF FiniteSubset
  <2> HIDE DEF Bad
  <2> QED BY <2>1, Smallest
<1>3. PICK x \in s : SumOf(a, s) # a[x] + SumOf(a, s \ {x})
  BY <1>2
<1> DEFINE c == Pick(s)
<1>4. c \in s /\ FiniteSubset(s)
  BY <1>1, <1>2, <1>3, PickIn
<1>5. SumOf(a, s) = a[c] + SumOf(a, s \ {c})
  BY <1>3, <1>4, SumPick DEF FiniteSubset
<1> HIDE DEF c
<1>6. c # x
  BY <1>3, <1>5
<1>7. s \ {c} \notin Bad /\ s \ {x} \notin Bad
  BY <1>2, <1>3, <1>4, Smaller
<1>8. SumOf(a, s \ {c}) = a[x] + SumOf(a, (s \ {c}) \ {x})
  BY <1>2, <1>3, <1>6, <1>7
<1>9. SumOf(a, s \ {x}) = a[c] + SumOf(a, (s \ {x}) \ {c})
  BY <1>2, <1>4, <1>6, <1>7
<1>10. (s \ {c}) \ {x} = (s \ {x}) \ {c}
  OBVIOUS
<1>11. a[c] \in Nat /\ a[x] \in Nat
  BY <1>3, <1>4 DEF FiniteSubset
<1>12. SumOf(a, (s \ {c}) \ {x}) \in Nat
  <2>1. (s \ {c}) \ {x} \in SUBSET S
    BY <1>2
  <2> QED BY <1>1, <2>1, SumNat
<1> DEFINE n == SumOf(a, (s \ {c}) \ {x})
<1>13. SumOf(a, s) = a[c] + (a[x] + n) /\ SumOf(a, s \ {x}) = a[c] + n
  BY <1>5, <1>8, <1>9, <1>10
<1> HIDE DEF n
<1>14. n \in Nat
  BY <1>12 DEF n
<1> QED BY SMT, <1>3, <1>11, <1>13, <1>14

\* A sum over one more occurrence.
LEMMA SumAdd ==
  ASSUME NEW a \in [GrantOccurrences -> Nat], NEW S, FiniteSubset(S), NEW o \in GrantOccurrences, o \notin S
  PROVE  /\ FiniteSubset(S \cup {o})
         /\ SumOf(a, S \cup {o}) = SumOf(a, S) + a[o]
<1>1. FiniteSubset(S \cup {o})
  BY FS_AddElement DEF FiniteSubset
<1>2. SumOf(a, S \cup {o}) = a[o] + SumOf(a, (S \cup {o}) \ {o})
  BY SMT, <1>1, SumRemove
<1>3. (S \cup {o}) \ {o} = S
  OBVIOUS
<1>4. SumOf(a, S) \in Nat /\ a[o] \in Nat
  BY SumNat
<1>5. SumOf(a, S \cup {o}) = a[o] + SumOf(a, S)
  BY <1>2, <1>3
<1> QED BY SMT, <1>1, <1>4, <1>5

\* Amounts are not negative: more occurrences sum to no less.
LEMMA SumMonotone ==
  ASSUME NEW a \in [GrantOccurrences -> Nat], NEW S, FiniteSubset(S), NEW R \in SUBSET S
  PROVE  FiniteSubset(R) /\ SumOf(a, R) <= SumOf(a, S)
<1>0. \A s \in SUBSET S : FiniteSubset(s)
  BY FS_Subset DEF FiniteSubset
<1> DEFINE Bad == {s \in SUBSET S : R \subseteq s /\ ~(SumOf(a, R) <= SumOf(a, s))}
<1> SUFFICES ASSUME Bad # {} PROVE FALSE
  BY <1>0
<1>2. PICK s \in Bad : \A u \in Bad : ~(Cardinality(u) < Cardinality(s))
  <2>1. \A s \in Bad : IsFiniteSet(s)
    BY <1>0 DEF FiniteSubset
  <2> HIDE DEF Bad
  <2> QED BY <2>1, Smallest
<1>3. \A t \in SUBSET S : SumOf(a, t) \in Nat
  BY <1>0, SumNat
<1>4. s # R
  BY SMT, <1>2, <1>3
<1>5. PICK x \in s : x \notin R
  BY <1>2, <1>4
<1>6. s \ {x} \notin Bad
  BY <1>0, <1>2, <1>5, Smaller
<1>7. SumOf(a, R) <= SumOf(a, s \ {x})
  BY <1>2, <1>5, <1>6
<1>8. SumOf(a, s) = a[x] + SumOf(a, s \ {x}) /\ a[x] \in Nat
  BY SMT, <1>0, <1>2, <1>5, SumRemove DEF FiniteSubset
<1>9. SumOf(a, s \ {x}) \in Nat /\ SumOf(a, R) \in Nat
  BY <1>2, <1>3
<1>10. SumOf(a, R) <= SumOf(a, s)
  BY SMT, <1>7, <1>8, <1>9
<1> QED BY <1>2, <1>10


-----------------------------------------------------------------------------
(* The caps.                                                               *)

\* The rows a window that starts at start holds.
InWindow(start) == {o \in Counted : rows[o].at \in start..(start + Window)}

\* An occurrence is in retried only when its row is a released one of the table.
RetriedReleased == \A o \in retried : rows[o].state = "RELEASED"

SpendInv == SpendTypeOK /\ IsFiniteSet(Counted) /\ CapsHold /\ RetriedReleased

\* CapsHold, in terms of the amounts and the rows.
LEMMA CapsNow ==
  CapsHold <=> /\ SumOf(amount, Counted) <= Cap
               /\ ledger = "table" =>
                    \A start \in Times : SumOf(amount, InWindow(start)) <= WindowCap
BY DEF CapsHold, InWindow, Total, SumOf

\* CapsHold of the next state, spelled out.
LEMMA CapsNext ==
  CapsHold' <=> /\ SumOf(amount', Counted') <= Cap
                /\ ledger' = "table" =>
                     \A start \in Times : SumOf(amount', InWindow(start)') <= WindowCap
BY DEF CapsHold, InWindow, Total, SumOf, MapThenSumSet, MapThenFoldSet

Second == IF ledger = "memory" THEN "COMMITTED" ELSE "RELEASED"
Rows == {NoReservation} \cup [at : Times, state : {"RESERVED", Second}]

\* What the type invariant says of rows and occurrences.
LEMMA SpendTypes ==
  ASSUME SpendTypeOK
  PROVE  /\ amount \in [GrantOccurrences -> Nat]
         /\ rows \in [GrantOccurrences -> Rows]
         /\ \A o \in GrantOccurrences : rows[o] # NoReservation => rows[o].at \in Times
         /\ \A o \in Counted : rows[o] # NoReservation /\ rows[o].at \in Times /\ rows[o].at \in Nat
         /\ Counted \subseteq GrantOccurrences
         /\ Times \subseteq Nat /\ Window \in Nat /\ Cap \in Nat /\ WindowCap \in Nat
<1>1. /\ Times \subseteq Nat /\ Window \in Nat /\ Cap \in Nat /\ WindowCap \in Nat
      /\ Amounts \subseteq Nat
  BY SpendAssumption
<1>2. amount \in [GrantOccurrences -> Nat]
  BY <1>1 DEF SpendTypeOK
<1>3. rows \in [GrantOccurrences -> Rows]
  BY DEF SpendTypeOK, Rows, Second
<1>4. \A o \in GrantOccurrences : rows[o] # NoReservation => rows[o].at \in Times
  BY <1>3 DEF Rows
<1>5. NoReservation.state = "NONE"
  BY DEF NoReservation
<1>6. \A o \in Counted : rows[o] # NoReservation
  BY <1>5 DEF Counted
<1> QED BY <1>1, <1>2, <1>3, <1>4, <1>6 DEF Counted

\* What is no longer counted breaks no cap.
LEMMA LessKeeps ==
  ASSUME SpendInv, UNCHANGED <<ledger, amount>>, Counted' \subseteq Counted,
         \A o \in Counted' : rows'[o].at = rows[o].at
  PROVE  IsFiniteSet(Counted') /\ CapsHold'
<1>1. amount \in [GrantOccurrences -> Nat] /\ FiniteSubset(Counted) /\ Cap \in Nat /\ WindowCap \in Nat
  BY SpendTypes DEF SpendInv, FiniteSubset
<1>2. FiniteSubset(Counted') /\ SumOf(amount, Counted') <= SumOf(amount, Counted)
  BY <1>1, SumMonotone
<1>3. SumOf(amount, Counted') \in Nat /\ SumOf(amount, Counted) \in Nat
  BY <1>1, <1>2, SumNat
<1>4. SumOf(amount', Counted') <= Cap
  BY SMT, <1>1, <1>2, <1>3, CapsNow DEF SpendInv
<1>5. ASSUME ledger' = "table", NEW start \in Times
      PROVE  SumOf(amount', InWindow(start)') <= WindowCap
  <2>1. FiniteSubset(InWindow(start))
    BY <1>1, FS_Subset DEF FiniteSubset, InWindow
  <2>2. InWindow(start)' \in SUBSET InWindow(start)
    BY DEF InWindow
  <2>3. FiniteSubset(InWindow(start)')
        /\ SumOf(amount, InWindow(start)') <= SumOf(amount, InWindow(start))
    BY <1>1, <2>1, <2>2, SumMonotone
  <2>4. SumOf(amount, InWindow(start)') \in Nat /\ SumOf(amount, InWindow(start)) \in Nat
    BY <1>1, <2>1, <2>3, SumNat
  <2>5. SumOf(amount, InWindow(start)) <= WindowCap
    BY <1>5, CapsNow DEF SpendInv
  <2> QED BY SMT, <1>1, <2>3, <2>4, <2>5
<1> QED BY <1>2, <1>4, <1>5, CapsNext DEF FiniteSubset

\* A reservation within the sums of the transaction breaks no cap: a window that
\* holds the new row started at most Window before it.
LEMMA MoreKeeps ==
  ASSUME SpendInv, UNCHANGED <<ledger, amount>>, NEW o \in GrantOccurrences, o \notin Counted,
         Counted' = Counted \cup {o}, NEW at \in Times, rows'[o].at = at,
         \A p \in Counted : rows'[p].at = rows[p].at,
         Total(Counted) + amount[o] <= Cap,
         ledger = "table" =>
           Total({p \in Counted : rows[p].at >= at - Window}) + amount[o] <= WindowCap
  PROVE  IsFiniteSet(Counted') /\ CapsHold'
<1>1. /\ amount \in [GrantOccurrences -> Nat] /\ FiniteSubset(Counted) /\ Cap \in Nat
      /\ WindowCap \in Nat /\ Window \in Nat /\ Times \subseteq Nat /\ amount[o] \in Nat
      /\ \A p \in Counted : rows[p].at \in Nat
  BY SpendTypes DEF SpendInv, FiniteSubset
<1>2. \A S : Total(S) = SumOf(amount, S)
  BY DEF Total, SumOf
<1>3. FiniteSubset(Counted') /\ SumOf(amount, Counted') = SumOf(amount, Counted) + amount[o]
  BY <1>1, SumAdd
<1>4. SumOf(amount', Counted') <= Cap
  BY <1>2, <1>3
<1>5. ASSUME ledger' = "table", NEW start \in Times
      PROVE  SumOf(amount', InWindow(start)') <= WindowCap
  <2>1. FiniteSubset(InWindow(start)) /\ o \notin InWindow(start)
    BY <1>1, FS_Subset DEF FiniteSubset, InWindow
  <2>2. SumOf(amount, InWindow(start)) <= WindowCap
    BY <1>5, CapsNow DEF SpendInv
  <2>3. CASE at \notin start..(start + Window)
    <3>1. InWindow(start)' = InWindow(start)
      BY <2>3 DEF InWindow
    <3> QED BY <2>2, <3>1
  <2>4. CASE at \in start..(start + Window)
    <3> DEFINE Recent == {p \in Counted : rows[p].at >= at - Window}
    <3>1. InWindow(start)' = InWindow(start) \cup {o}
      BY <2>4 DEF InWindow
    <3>2. InWindow(start) \in SUBSET Recent
      BY SMT, <1>1, <2>4 DEF InWindow
    <3>3. FiniteSubset(Recent)
      BY <1>1, FS_Subset DEF FiniteSubset
    <3>4. SumOf(amount, Recent) + amount[o] <= WindowCap
      BY <1>2, <1>5
    <3> HIDE DEF Recent
    <3>5. SumOf(amount, InWindow(start)) <= SumOf(amount, Recent)
      BY <1>1, <3>2, <3>3, SumMonotone
    <3>6. SumOf(amount, InWindow(start)) \in Nat /\ SumOf(amount, Recent) \in Nat
      BY <1>1, <2>1, <3>3, SumNat
    <3>7. SumOf(amount, InWindow(start)') = SumOf(amount, InWindow(start)) + amount[o]
      BY <1>1, <2>1, <3>1, SumAdd
    <3> QED BY SMT, <1>1, <3>4, <3>5, <3>6, <3>7
  <2> QED BY <2>3, <2>4
<1> QED BY <1>3, <1>4, <1>5, CapsNext DEF FiniteSubset

-----------------------------------------------------------------------------
(* What each step does to the rows.                                        *)

\* The types of a step that keeps the ledger and the amounts.
LEMMA TypedNext ==
  ASSUME SpendTypeOK, UNCHANGED <<ledger, amount>>, rows' \in [GrantOccurrences -> Rows],
         granted' \subseteq GrantOccurrences, retried' \subseteq granted'
  PROVE  SpendTypeOK'
BY DEF SpendTypeOK, Rows, Second

\* A new reservation counts one more occurrence.
LEMMA Reserving ==
  ASSUME SpendTypeOK, NEW o \in GrantOccurrences, NEW at \in Times, rows[o] = NoReservation,
         rows' = Reserved(o, at)
  PROVE  /\ rows' \in [GrantOccurrences -> Rows]
         /\ o \notin Counted /\ Counted' = Counted \cup {o} /\ rows'[o].at = at
         /\ \A p \in Counted : rows'[p].at = rows[p].at
<1> DEFINE reservation == [at |-> at, state |-> "RESERVED"]
<1>1. reservation \in Rows /\ reservation.at = at /\ reservation.state = "RESERVED"
  BY DEF Rows
<1>2. NoReservation.state = "NONE"
  BY DEF NoReservation
<1>3. rows' = [rows EXCEPT ![o] = reservation]
  BY DEF Reserved
<1> HIDE DEF reservation
<1>4. rows \in [GrantOccurrences -> Rows]
  BY SpendTypes
<1> QED BY <1>1, <1>2, <1>3, <1>4 DEF Counted

\* A commit counts the same occurrences.
LEMMA Committing ==
  ASSUME SpendTypeOK, ledger = "memory", NEW o \in GrantOccurrences, rows[o] # NoReservation,
         rows' = [rows EXCEPT ![o].state = "COMMITTED"]
  PROVE  /\ rows' \in [GrantOccurrences -> Rows] /\ Counted' = Counted
         /\ \A p \in Counted : rows'[p].at = rows[p].at
<1>1. rows \in [GrantOccurrences -> Rows]
  BY SpendTypes
<1>2. rows[o] \in [at : Times, state : {"RESERVED", "COMMITTED"}]
  BY <1>1 DEF Rows, Second
<1> DEFINE reservation == [rows[o] EXCEPT !.state = "COMMITTED"]
<1>3. reservation \in Rows /\ reservation.at = rows[o].at /\ reservation.state = "COMMITTED"
  BY <1>2 DEF Rows, Second
<1>4. rows' = [rows EXCEPT ![o] = reservation]
  OBVIOUS
<1> HIDE DEF reservation
<1>5. rows[o].state \in {"RESERVED", "COMMITTED"}
  BY <1>2
<1> QED BY <1>1, <1>3, <1>4, <1>5 DEF Counted

\* A release counts the same occurrences or one fewer.
LEMMA Releasing ==
  ASSUME SpendTypeOK, NEW o \in GrantOccurrences,
         \/ rows' = IF rows[o].state = "RESERVED" THEN [rows EXCEPT ![o] = NoReservation] ELSE rows
         \/ /\ ledger = "table"
            /\ rows' = IF rows[o].state = "RESERVED"
                       THEN [rows EXCEPT ![o].state = "RELEASED"] ELSE rows
  PROVE  /\ rows' \in [GrantOccurrences -> Rows]
         /\ Counted' \in {Counted, Counted \ {o}}
         /\ \A p \in Counted' : rows'[p].at = rows[p].at
<1>1. rows \in [GrantOccurrences -> Rows]
  BY SpendTypes
<1>2. CASE rows' = rows
  BY <1>1, <1>2 DEF Counted
<1>3. ASSUME NEW reservation \in Rows, reservation.state \in {"NONE", "RELEASED"}, rows' = [rows EXCEPT ![o] = reservation]
      PROVE  /\ rows' \in [GrantOccurrences -> Rows]
             /\ Counted' = Counted \ {o}
             /\ \A p \in Counted' : rows'[p].at = rows[p].at
  BY <1>1, <1>3 DEF Counted
<1>4. CASE rows' = [rows EXCEPT ![o] = NoReservation]
  <2>1. NoReservation \in Rows /\ NoReservation.state = "NONE"
    BY DEF Rows, NoReservation
  <2> QED BY <1>3, <1>4, <2>1
<1>5. CASE /\ ledger = "table" /\ rows[o].state = "RESERVED"
           /\ rows' = [rows EXCEPT ![o].state = "RELEASED"]
  <2>1. rows[o] \in [at : Times, state : {"RESERVED", "RELEASED"}]
    BY SMT, <1>1, <1>5 DEF Rows, Second, NoReservation
  <2> DEFINE reservation == [rows[o] EXCEPT !.state = "RELEASED"]
  <2>2. reservation \in Rows /\ reservation.state = "RELEASED"
    BY <1>5, <2>1 DEF Rows, Second
  <2>3. rows' = [rows EXCEPT ![o] = reservation]
    BY <1>5
  <2> HIDE DEF reservation
  <2> QED BY <1>3, <2>2, <2>3
<1> QED BY <1>2, <1>4, <1>5

-----------------------------------------------------------------------------
(* The caps.                                                               *)

\* SpendInv holds initially.
LEMMA SpendInitInv == ASSUME SpendInit PROVE SpendInv
<1>1. NoReservation.state = "NONE" /\ NoReservation \in Rows
  BY DEF NoReservation, Rows
<1>2. Counted = {}
  BY <1>1 DEF SpendInit, Counted
<1>3. SpendTypeOK
  BY <1>1 DEF SpendInit, SpendTypeOK, Rows, Second
<1>4. \A start : InWindow(start) = {}
  BY <1>2 DEF InWindow
<1>5. SumOf(amount, {}) <= Cap /\ SumOf(amount, {}) <= WindowCap
  BY SMT, SumEmpty, SpendAssumption
<1>6. RetriedReleased
  BY DEF SpendInit, RetriedReleased
<1> QED BY <1>2, <1>3, <1>4, <1>5, <1>6, CapsNow, FS_EmptySet DEF SpendInv

\* A step that changes nothing keeps SpendInv.
LEMMA StutterInv == ASSUME SpendInv, UNCHANGED spendVars PROVE SpendInv'
<1>1. Counted' = Counted
  BY DEF Counted, spendVars
<1>2. IsFiniteSet(Counted') /\ CapsHold'
  BY <1>1, LessKeeps DEF spendVars
<1>3. SpendTypeOK'
  BY SpendTypes, TypedNext DEF SpendInv, SpendTypeOK, spendVars
<1> QED BY <1>2, <1>3 DEF SpendInv, RetriedReleased, spendVars

\* Nothing is retried in memory, where a released row is deleted.
LEMMA NoneRetried ==
  ASSUME SpendInv
  PROVE  /\ ledger = "memory" => retried = {}
         /\ \A o \in GrantOccurrences : rows[o] = NoReservation => o \notin retried
         /\ retried \subseteq granted /\ granted \subseteq GrantOccurrences
<1>1. NoReservation.state = "NONE"
  BY DEF NoReservation
<1>2. retried \subseteq granted /\ granted \subseteq GrantOccurrences
  BY DEF SpendInv, SpendTypeOK
<1>3. ASSUME ledger = "memory" PROVE retried = {}
  <2>1. rows \in [GrantOccurrences -> Rows]
    BY SpendTypes DEF SpendInv
  <2>2. \A o \in GrantOccurrences : rows[o].state # "RELEASED"
    BY <1>1, <1>3, <2>1 DEF Rows, Second
  <2> QED BY <1>2, <2>2 DEF SpendInv, RetriedReleased
<1> QED BY <1>1, <1>2, <1>3 DEF SpendInv, RetriedReleased

\* Reserving in memory keeps SpendInv.
LEMMA ReserveInv ==
  ASSUME SpendInv, UNCHANGED <<ledger, amount>>, ledger = "memory", NEW o \in GrantOccurrences,
         NEW at \in Times, Reserve(o, at)
  PROVE  SpendInv'
<1>1. retried' = {} /\ granted' \subseteq GrantOccurrences
  BY NoneRetried DEF Reserve
<1>2. CASE rows' = rows
  <2>1. Counted' = Counted /\ rows' \in [GrantOccurrences -> Rows]
    BY <1>2, SpendTypes DEF Counted, SpendInv
  <2>2. IsFiniteSet(Counted') /\ CapsHold'
    BY <1>2, <2>1, LessKeeps
  <2>3. SpendTypeOK'
    BY <1>1, <2>1, TypedNext DEF SpendInv
  <2> QED BY <1>1, <2>2, <2>3 DEF SpendInv, RetriedReleased
<1>3. CASE rows[o] = NoReservation /\ Fits(o, at) /\ rows' = Reserved(o, at)
  <2>1. /\ rows' \in [GrantOccurrences -> Rows]
        /\ o \notin Counted /\ Counted' = Counted \cup {o} /\ rows'[o].at = at
        /\ \A p \in Counted : rows'[p].at = rows[p].at
    BY <1>3, Reserving DEF SpendInv
  <2>2. IsFiniteSet(Counted') /\ CapsHold'
    BY <1>3, <2>1, MoreKeeps DEF Fits
  <2>3. SpendTypeOK'
    BY <1>1, <2>1, TypedNext DEF SpendInv
  <2> QED BY <1>1, <2>2, <2>3 DEF SpendInv, RetriedReleased
<1> QED BY <1>2, <1>3 DEF Reserve

\* Committing in memory keeps SpendInv.
LEMMA CommitInv ==
  ASSUME SpendInv, UNCHANGED <<ledger, amount>>, ledger = "memory", NEW o \in GrantOccurrences, Commit(o)
  PROVE  SpendInv'
<1>1. retried' = {} /\ granted' \subseteq GrantOccurrences
  BY NoneRetried DEF Commit
<1>2. /\ rows' \in [GrantOccurrences -> Rows] /\ Counted' = Counted
      /\ \A p \in Counted : rows'[p].at = rows[p].at
  BY Committing DEF Commit, SpendInv
<1>3. IsFiniteSet(Counted') /\ CapsHold'
  BY <1>2, LessKeeps
<1>4. SpendTypeOK'
  BY <1>1, <1>2, TypedNext DEF SpendInv
<1> QED BY <1>1, <1>3, <1>4 DEF SpendInv, RetriedReleased

\* Releasing in memory keeps SpendInv.
LEMMA ReleaseInv ==
  ASSUME SpendInv, UNCHANGED <<ledger, amount>>, ledger = "memory", NEW o \in GrantOccurrences, Release(o)
  PROVE  SpendInv'
<1>1. retried' = {} /\ granted' \subseteq GrantOccurrences
  BY NoneRetried DEF Release
<1>2. /\ rows' \in [GrantOccurrences -> Rows] /\ Counted' \subseteq Counted
      /\ \A p \in Counted' : rows'[p].at = rows[p].at
  BY Releasing DEF Release, SpendInv
<1>3. IsFiniteSet(Counted') /\ CapsHold'
  BY <1>2, LessKeeps
<1>4. SpendTypeOK'
  BY <1>1, <1>2, TypedNext DEF SpendInv
<1> QED BY <1>1, <1>3, <1>4 DEF SpendInv, RetriedReleased

\* Reserving in the table keeps SpendInv.
LEMMA ReserveAutonomySpendInv ==
  ASSUME SpendInv, UNCHANGED <<ledger, amount>>, NEW o \in GrantOccurrences,
         NEW at \in Times, ReserveAutonomySpend(o, at)
  PROVE  SpendInv'
<1>1. retried' \subseteq granted' /\ granted' \subseteq GrantOccurrences
  BY NoneRetried DEF ReserveAutonomySpend
<1>2. CASE rows' = rows
  <2>1. Counted' = Counted /\ rows' \in [GrantOccurrences -> Rows]
    BY <1>2, SpendTypes DEF Counted, SpendInv
  <2>2. IsFiniteSet(Counted') /\ CapsHold'
    BY <1>2, <2>1, LessKeeps
  <2>3. SpendTypeOK'
    BY <1>1, <2>1, TypedNext DEF SpendInv
  <2>4. RetriedReleased'
    BY <1>2 DEF SpendInv, RetriedReleased, ReserveAutonomySpend
  <2> QED BY <2>2, <2>3, <2>4 DEF SpendInv
<1>3. CASE /\ rows[o] = NoReservation /\ FitsTable(o, at) /\ rows' = Reserved(o, at)
           /\ UNCHANGED retried
  <2>1. /\ rows' \in [GrantOccurrences -> Rows]
        /\ o \notin Counted /\ Counted' = Counted \cup {o} /\ rows'[o].at = at
        /\ \A p \in Counted : rows'[p].at = rows[p].at
    BY <1>3, Reserving DEF SpendInv
  <2>2. IsFiniteSet(Counted') /\ CapsHold'
    BY <1>3, <2>1, MoreKeeps DEF FitsTable
  <2>3. SpendTypeOK'
    BY <1>1, <2>1, TypedNext DEF SpendInv
  <2>4. o \notin retried /\ retried \subseteq GrantOccurrences
    BY <1>3, NoneRetried
  <2>5. \A p \in GrantOccurrences \ {o} : rows'[p] = rows[p]
    BY <1>3 DEF Reserved, SpendInv, SpendTypeOK
  <2>6. RetriedReleased'
    BY <1>3, <2>4, <2>5 DEF SpendInv, RetriedReleased
  <2> QED BY <2>2, <2>3, <2>6 DEF SpendInv
<1> QED BY <1>2, <1>3 DEF ReserveAutonomySpend

\* Releasing in the table keeps SpendInv.
LEMMA ReleaseAutonomySpendInv ==
  ASSUME SpendInv, UNCHANGED <<ledger, amount>>, ledger = "table", NEW o \in GrantOccurrences,
         ReleaseAutonomySpend(o)
  PROVE  SpendInv'
<1>1. retried' \subseteq granted' /\ granted' \subseteq GrantOccurrences
  BY NoneRetried DEF ReleaseAutonomySpend
<1>2. /\ rows' \in [GrantOccurrences -> Rows] /\ Counted' \subseteq Counted
      /\ \A p \in Counted' : rows'[p].at = rows[p].at
  BY Releasing DEF ReleaseAutonomySpend, SpendInv
<1>3. IsFiniteSet(Counted') /\ CapsHold'
  BY <1>2, LessKeeps
<1>4. SpendTypeOK'
  BY <1>1, <1>2, TypedNext DEF SpendInv
<1>5. \A p \in GrantOccurrences \ {o} : rows'[p] = rows[p]
  BY DEF ReleaseAutonomySpend, SpendInv, SpendTypeOK
<1>6. RetriedReleased'
  BY <1>5, NoneRetried DEF SpendInv, RetriedReleased, ReleaseAutonomySpend
<1> QED BY <1>3, <1>4, <1>6 DEF SpendInv

\* Every step keeps SpendInv.
LEMMA SpendNextInv == ASSUME SpendInv, [SpendNext]_spendVars PROVE SpendInv'
<1>1. ASSUME NEW o \in GrantOccurrences, Memory(o), UNCHANGED <<ledger, amount>> PROVE SpendInv'
  BY <1>1, ReserveInv, CommitInv, ReleaseInv DEF Memory
<1>2. ASSUME NEW o \in GrantOccurrences, Table(o), UNCHANGED <<ledger, amount>> PROVE SpendInv'
  BY <1>2, ReserveAutonomySpendInv, ReleaseAutonomySpendInv DEF Table
<1> QED BY <1>1, <1>2, StutterInv DEF SpendNext

\* SpendInv holds of every reachable state.
LEMMA Invariant == SpendSpec => []SpendInv
<1> QED BY SpendInitInv, SpendNextInv, PTL DEF SpendSpec

\* For any occurrences, amounts, times and caps: what ReserveAutonomySpend and the
\* reference ledger have reserved never exceeds the aggregate cap, and in the table
\* no rolling window, wherever it starts, holds more than its cap, although the
\* callers' clocks are not ordered.
THEOREM CapsNeverExceeded == SpendSpec => []CapsHold
<1>1. SpendInv => CapsHold
  BY DEF SpendInv
<1> QED BY <1>1, Invariant, PTL

\* The rows of both ledgers keep their type: none of the table is ever COMMITTED,
\* none in memory RELEASED, and whoever is retried is granted.
THEOREM SpendTyped == SpendSpec => []SpendTypeOK
<1>1. SpendInv => SpendTypeOK
  BY DEF SpendInv
<1> QED BY <1>1, Invariant, PTL

-----------------------------------------------------------------------------
(* The ledgers implement SpendBudget.                                      *)

\* What stands for "held" and for "granted" of the budget.
HeldAt == [o \in GrantOccurrences |-> IF o \in Counted THEN rows[o].at ELSE Never]
Backed == granted \ retried

\* What the budget holds is what the ledger counts.
LEMMA HeldIsCounted ==
  ASSUME SpendTypeOK
  PROVE  /\ Budget!Held = Counted
         /\ \A o \in GrantOccurrences : HeldAt[o] # Never <=> o \in Counted
         /\ \A o \in Counted : HeldAt[o] = rows[o].at
<1>1. \A o \in Counted : rows[o].at \in Nat /\ o \in GrantOccurrences
  BY SpendTypes
<1>2. \A n \in Nat : n # Never
  BY SMT DEF Never
<1>3. /\ \A o \in GrantOccurrences : HeldAt[o] # Never <=> o \in Counted
      /\ \A o \in Counted : HeldAt[o] = rows[o].at
  BY <1>1, <1>2 DEF HeldAt
<1>4. Budget!Held = {o \in GrantOccurrences : HeldAt[o] # Never}
  BY DEF Budget!Held, Budget!Never, Never, HeldAt
<1> QED BY <1>1, <1>3, <1>4

\* The budget adds up as the ledger does.
LEMMA SameTotal == \A S : Budget!Total(S) = Total(S)
BY DEF Budget!Total, Total, Budget!MapThenSumSet, MapThenSumSet,
             Budget!MapThenFoldSet, MapThenFoldSet

\* The same occurrences at the same times are the same holdings.
LEMMA HeldKept ==
  ASSUME Counted' = Counted, \A p \in Counted : rows'[p].at = rows[p].at
  PROVE  HeldAt' = HeldAt
BY DEF HeldAt

\* A reservation within both caps is a Hold of the budget.
LEMMA HoldStep ==
  ASSUME SpendTypeOK, SpendTypeOK', NEW o \in GrantOccurrences, NEW at \in Times, o \notin Counted,
         Counted' = Counted \cup {o}, rows'[o].at = at,
         \A p \in Counted : rows'[p].at = rows[p].at,
         Total(Counted) + amount[o] <= Cap,
         Total({p \in Counted : at - rows[p].at < Window}) + amount[o] <= WindowCap
  PROVE  Budget!Hold(o, at)
<1>1. HeldAt[o] = Never
  BY HeldIsCounted
<1>2. HeldAt' = [HeldAt EXCEPT ![o] = at]
  BY DEF HeldAt
<1>3. {p \in Budget!Held : at - HeldAt[p] < Window} = {p \in Counted : at - rows[p].at < Window}
  BY HeldIsCounted
<1>4. Budget!Total(Budget!Held) + amount[o] <= Cap
  BY HeldIsCounted, SameTotal
<1>5. Budget!Total({p \in Budget!Held : at - HeldAt[p] < Window}) + amount[o] <= WindowCap
  BY <1>3, SameTotal
<1> QED BY <1>1, <1>2, <1>4, <1>5 DEF Budget!Hold, Budget!Never, Never, HeldAt

\* The answers of the budget.
LEMMA BudgetReserve ==
  ASSUME UNCHANGED amount, NEW o \in GrantOccurrences, NEW at \in Times,
         \/ Budget!Hold(o, at) /\ Backed' = Backed \cup {o}
         \/ HeldAt[o] # Never /\ HeldAt' = HeldAt /\ Backed' = Backed \cup {o}
         \/ HeldAt' = HeldAt /\ Backed' = Backed \ {o}
         \/ Budget!Hold(o, at) /\ Backed' = Backed
  PROVE  Budget!Next
<1>1. Budget!Reserve(o, at)
  BY DEF Budget!Reserve, Budget!Never, Never, HeldAt, Backed
<1> QED BY <1>1 DEF Budget!Next

\* Giving an occurrence up is a step of the budget.
LEMMA BudgetRelease ==
  ASSUME UNCHANGED amount, NEW o \in GrantOccurrences, Backed' = Backed \ {o},
         HeldAt' = HeldAt \/ HeldAt' = [HeldAt EXCEPT ![o] = Never]
  PROVE  Budget!Next
<1>1. Budget!Release(o)
  BY DEF Budget!Release, Budget!Never, Never, HeldAt, Backed
<1> QED BY <1>1 DEF Budget!Next

\* The same holdings are a stutter of the budget.
LEMMA BudgetStutter ==
  ASSUME UNCHANGED amount, HeldAt' = HeldAt, Backed' = Backed
  PROVE  UNCHANGED Budget!budgetVars
BY DEF Budget!budgetVars, HeldAt, Backed

\* A release is a step of the budget.
LEMMA ReleaseRefines ==
  ASSUME SpendInv, UNCHANGED <<ledger, amount>>, NEW o \in GrantOccurrences,
         \/ ledger = "memory" /\ Release(o)
         \/ ledger = "table" /\ ReleaseAutonomySpend(o)
  PROVE  Budget!Next
<1>1. Backed' = Backed \ {o}
  BY NoneRetried DEF Backed, Release, ReleaseAutonomySpend
<1>2. /\ Counted' = Counted \/ Counted' = Counted \ {o}
      /\ \A p \in Counted' : rows'[p].at = rows[p].at
  BY Releasing DEF Release, ReleaseAutonomySpend, SpendInv
<1>3. HeldAt' = HeldAt \/ HeldAt' = [HeldAt EXCEPT ![o] = Never]
  BY <1>2 DEF HeldAt
<1> QED BY <1>1, <1>3, BudgetRelease

\* A commit is a stutter of the budget.
LEMMA CommitRefines ==
  ASSUME SpendInv, UNCHANGED <<ledger, amount>>, ledger = "memory", NEW o \in GrantOccurrences, Commit(o)
  PROVE  UNCHANGED Budget!budgetVars
<1>1. Counted' = Counted /\ \A p \in Counted : rows'[p].at = rows[p].at
  BY Committing DEF Commit, SpendInv
<1>2. HeldAt' = HeldAt /\ Backed' = Backed
  BY <1>1, HeldKept DEF Commit, Backed
<1> QED BY <1>2, BudgetStutter

\* In memory every row is counted, so a repeated request finds its amount held.
LEMMA ReserveRefines ==
  ASSUME SpendInv, SpendInv', UNCHANGED <<ledger, amount>>, ledger = "memory", NEW o \in GrantOccurrences,
         NEW at \in Times, Reserve(o, at)
  PROVE  Budget!Next
<1>1. Backed = granted /\ Backed' = granted'
  BY NoneRetried DEF Backed, Reserve
<1>2. CASE rows' = rows
  <2>1. HeldAt' = HeldAt
    BY <1>2, HeldKept DEF Counted
  <2>2. ASSUME rows[o] # NoReservation PROVE HeldAt[o] # Never
    <3>1. rows[o] \in [at : Times, state : {"RESERVED", "COMMITTED"}]
      BY <2>2, SpendTypes DEF SpendInv, Rows, Second
    <3>2. o \in Counted
      BY <3>1 DEF Counted
    <3> QED BY <3>2, HeldIsCounted DEF SpendInv
  <2>3. CASE rows[o] # NoReservation
    BY <1>1, <2>1, <2>2, <2>3, BudgetReserve DEF Reserve
  <2>4. CASE rows[o] = NoReservation /\ granted' = granted \ {o}
    BY <1>1, <2>1, <2>4, BudgetReserve
  <2>5. CASE rows[o] = NoReservation /\ rows' = Reserved(o, at)
    <3>1. o \notin Counted /\ Counted' = Counted \cup {o}
      BY <2>5, Reserving DEF SpendInv
    <3>2. Counted' = Counted
      BY <1>2 DEF Counted
    <3> QED BY <3>1, <3>2
  <2> QED BY <2>3, <2>4, <2>5 DEF Reserve
<1>3. CASE /\ rows[o] = NoReservation /\ Fits(o, at) /\ rows' = Reserved(o, at)
           /\ granted' = granted \cup {o}
  <2>1. /\ o \notin Counted /\ Counted' = Counted \cup {o} /\ rows'[o].at = at
        /\ \A p \in Counted : rows'[p].at = rows[p].at
    BY <1>3, Reserving DEF SpendInv
  <2>2. Budget!Hold(o, at)
    BY <1>3, <2>1, HoldStep DEF Fits, SpendInv
  <2> QED BY <1>1, <1>3, <2>2, BudgetReserve
<1> QED BY <1>2, <1>3 DEF Reserve

\* The window of the table is closed at its start, the budget's open: what fits the
\* one fits the other.
LEMMA FitsBudget ==
  ASSUME SpendInv, NEW o \in GrantOccurrences, NEW at \in Times, FitsTable(o, at)
  PROVE  Total({p \in Counted : at - rows[p].at < Window}) + amount[o] <= WindowCap
<1> DEFINE Open == {p \in Counted : at - rows[p].at < Window}
           Closed == {p \in Counted : rows[p].at >= at - Window}
<1>1. /\ amount \in [GrantOccurrences -> Nat] /\ FiniteSubset(Counted) /\ amount[o] \in Nat
      /\ WindowCap \in Nat /\ Window \in Nat /\ at \in Nat
      /\ \A p \in Counted : rows[p].at \in Nat
  BY SpendTypes DEF SpendInv, FiniteSubset
<1>2. Open \in SUBSET Closed
  BY SMT, <1>1
<1>3. FiniteSubset(Closed) /\ FiniteSubset(Open)
  BY <1>1, FS_Subset DEF FiniteSubset
<1>4. SumOf(amount, Closed) + amount[o] <= WindowCap
  BY DEF FitsTable, Total, SumOf
<1>5. Total(Open) = SumOf(amount, Open)
  BY DEF Total, SumOf
<1> HIDE DEF Open, Closed
<1>6. SumOf(amount, Open) <= SumOf(amount, Closed)
  BY <1>1, <1>2, <1>3, SumMonotone
<1>7. SumOf(amount, Open) \in Nat /\ SumOf(amount, Closed) \in Nat
  BY <1>1, <1>3, SumNat
<1>8. Total(Open) + amount[o] <= WindowCap
  BY SMT, <1>1, <1>4, <1>5, <1>6, <1>7
<1> QED BY <1>8 DEF Open

\* A released row answers "reserved" and holds nothing: the budget sees a refusal.
LEMMA ReserveAutonomySpendRefines ==
  ASSUME SpendInv, SpendInv', UNCHANGED <<ledger, amount>>, ledger = "table", NEW o \in GrantOccurrences,
         NEW at \in Times, ReserveAutonomySpend(o, at)
  PROVE  Budget!Next
<1>1. CASE rows[o] # NoReservation
  <2>1. rows' = rows /\ granted' = granted \cup {o}
        /\ retried' = IF rows[o].state = "RELEASED" THEN retried \cup {o} ELSE retried
    BY <1>1 DEF ReserveAutonomySpend
  <2>2. HeldAt' = HeldAt
    BY <2>1, HeldKept DEF Counted
  <2>3. CASE rows[o].state = "RELEASED"
    <3>1. Backed' = Backed \ {o}
      BY <2>1, <2>3 DEF Backed
    <3> QED BY <2>2, <3>1, BudgetReserve
  <2>4. CASE rows[o].state # "RELEASED"
    <3>1. rows[o] \in [at : Times, state : {"RESERVED", "RELEASED"}]
      BY <1>1, SpendTypes DEF SpendInv, Rows, Second
    <3>2. o \in Counted
      BY <2>4, <3>1 DEF Counted
    <3>3. HeldAt[o] # Never
      BY <3>2, HeldIsCounted DEF SpendInv
    <3>4. o \notin retried
      BY <2>4 DEF SpendInv, RetriedReleased
    <3>5. Backed' = Backed \cup {o}
      BY <2>1, <2>4, <3>4 DEF Backed
    <3> QED BY <2>2, <3>3, <3>5, BudgetReserve
  <2> QED BY <2>3, <2>4
<1>2. CASE rows[o] = NoReservation /\ ~FitsTable(o, at)
  <2>1. rows' = rows /\ Backed' = Backed \ {o}
    BY <1>2 DEF ReserveAutonomySpend, Backed
  <2>2. HeldAt' = HeldAt
    BY <2>1, HeldKept DEF Counted
  <2> QED BY <2>1, <2>2, BudgetReserve
<1>3. CASE rows[o] = NoReservation /\ FitsTable(o, at)
  <2>1. /\ rows' = Reserved(o, at) /\ retried' = retried
        /\ granted' = granted \/ granted' = granted \cup {o}
    BY <1>3 DEF ReserveAutonomySpend
  <2>2. /\ o \notin Counted /\ Counted' = Counted \cup {o} /\ rows'[o].at = at
        /\ \A p \in Counted : rows'[p].at = rows[p].at
    BY <1>3, <2>1, Reserving DEF SpendInv
  <2>3. Budget!Hold(o, at)
    BY <1>3, <2>2, HoldStep, FitsBudget DEF FitsTable, SpendInv
  <2>4. o \notin retried
    BY <1>3, NoneRetried
  <2>5. Backed' = Backed \/ Backed' = Backed \cup {o}
    BY <2>1, <2>4 DEF Backed
  <2> QED BY <2>3, <2>5, BudgetReserve
<1> QED BY <1>1, <1>2, <1>3

\* The initial ledgers map to the initial budget.
LEMMA InitRefines == ASSUME SpendInit PROVE Budget!Init
<1>1. NoReservation.state = "NONE"
  BY DEF NoReservation
<1>2. Counted = {}
  BY <1>1 DEF SpendInit, Counted
<1>3. HeldAt = [o \in GrantOccurrences |-> Never] /\ Backed = {}
  BY <1>2 DEF HeldAt, SpendInit, Backed
<1> QED BY <1>3 DEF Budget!Init, SpendInit, HeldAt, Backed, Never, Budget!Never

\* Every step maps to a step or a stutter of the budget.
LEMMA NextRefines ==
  ASSUME SpendInv, SpendInv', [SpendNext]_spendVars
  PROVE  [Budget!Next]_(Budget!budgetVars)
<1>1. ASSUME NEW o \in GrantOccurrences, Memory(o), UNCHANGED <<ledger, amount>>
      PROVE  Budget!Next \/ UNCHANGED Budget!budgetVars
  BY <1>1, ReserveRefines, CommitRefines, ReleaseRefines DEF Memory
<1>2. ASSUME NEW o \in GrantOccurrences, Table(o), UNCHANGED <<ledger, amount>>
      PROVE  Budget!Next \/ UNCHANGED Budget!budgetVars
  BY <1>2, ReserveAutonomySpendRefines, ReleaseRefines DEF Table
<1>3. CASE UNCHANGED spendVars
  BY <1>3, BudgetStutter DEF spendVars, HeldAt, Backed, Counted
<1> QED BY <1>1, <1>2, <1>3 DEF SpendNext

\* Both ledgers implement SpendBudget for any occurrences, amounts, times, window and
\* caps: a reservation is made only within both caps, and whoever was told "reserved"
\* (by Reserve in memory, by ReserveAutonomySpend for a row that was not released)
\* finds the amount held until it is released, with answers lost and requests repeated.
THEOREM LedgersKeepBudget == SpendSpec => KeepsBudget
<1>1. SpendInit => Budget!Init
  BY InitRefines
<1>2. SpendInv /\ SpendInv' /\ [SpendNext]_spendVars => [Budget!Next]_(Budget!budgetVars)
  BY NextRefines
<1> QED BY <1>1, <1>2, Invariant, PTL DEF SpendSpec, KeepsBudget, Budget!Spec

=============================================================================
