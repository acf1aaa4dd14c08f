----------------------------- MODULE Enrollment -----------------------------
(***************************************************************************)
(* Owner onboarding of one tenant: an administrator stages a user and a    *)
(* wallet binding, the wallet proves control of its address, and the       *)
(* administrator activates the binding on that proof, or revokes the       *)
(* tenant, an identity or a binding (internal/onboarding,                  *)
(* cmd/onboarding-admin and the functions of migrations 000011 and 000012).*)
(* The storage interface can also create and update bindings directly;     *)
(* such a binding may be ACTIVE with no approved proof behind it.          *)
(***************************************************************************)
EXTENDS Naturals, FiniteSetsExt

CONSTANTS Users, Bindings, Addresses,
          Proofs,      \* challenge identifiers, which name the proofs
          RequestIds,  \* identifiers of administration requests
          Worlds,      \* how browsers sign in, and bounds on what a behaviour creates
          None,
          External     \* a verification reference that names no enrollment proof

ASSUME NamesAreNotNone ==
  {None, External} \cap (Users \cup Bindings \cup Addresses \cup Proofs) = {}
ASSUME NoneIsNoStatus == None \notin {"PENDING", "INACTIVE", "ACTIVE", "REVOKED"}
ASSUME WorldsAssumption ==
  \A w \in Worlds : w.signIn \in {"wallet", "verifier"} /\ {w.users, w.bindings} \subseteq Nat
ASSUME IdentifiersAreNumbers ==
  UNION {Bindings, Addresses, Proofs, RequestIds} \subseteq Nat

VARIABLES world,       \* the one of this behaviour; never changes
          tenant,      \* the tenants row
          identity,    \* the identities rows
          binding,     \* the wallet_bindings rows
          proof,       \* wallet_enrollment_proofs: what each proof was made for
          stale,       \* proofs older than 24 hours
          approval,    \* wallet_enrollment_approvals: the approved proof of a binding
          delegated,   \* the administrator's delegation has not expired
          applied      \* onboarding_administration_audit: the requests applied

enrollmentVars == <<tenant, identity, binding, proof, stale, approval, delegated, applied>>

IdentityStatuses == {"UNKNOWN", "ACTIVE", "SUSPENDED", "REVOKED"}
BindingStatuses == {"PENDING", "ACTIVE", "REVOKED"}
NoBinding == [status |-> None, version |-> 0, user |-> None, address |-> None,
              verification |-> None]
NoProof == [binding |-> None, user |-> None, version |-> 0]

\* Identifiers are random; here the unused ones are drawn in order.
Fresh(id, unused) == id \in unused /\ \A other \in unused : id <= other

EnrollmentTypeOK ==
  /\ world \in Worlds
  /\ tenant \in {None, "INACTIVE", "ACTIVE", "REVOKED"}
  /\ identity \in [Users -> IdentityStatuses \cup {None}]
  /\ binding \in [Bindings -> {NoBinding} \cup
       [status : BindingStatuses, version : Nat \ {0}, user : Users, address : Addresses,
        verification : Proofs \cup {None, External}]]
  /\ proof \in [Proofs -> {NoProof} \cup
                          [binding : Bindings, user : Users, version : Nat \ {0}]]
  /\ stale \subseteq Proofs
  /\ approval \in [Bindings -> Proofs \cup {None}]
  /\ delegated \in BOOLEAN
  /\ applied \subseteq RequestIds

EnrollmentInit ==
  /\ tenant = None
  /\ identity = [u \in Users |-> None]
  /\ binding = [b \in Bindings |-> NoBinding]
  /\ proof = [p \in Proofs |-> NoProof]
  /\ stale = {}
  /\ approval = [b \in Bindings |-> None]
  /\ delegated = TRUE
  /\ applied = {}

-----------------------------------------------------------------------------
(* Storage operations on tenants, identities and wallet bindings.          *)

AddressTaken(a) == \E b \in Bindings : binding[b].address = a

\* The named bounds on identities and bindings.
UserBound(u) == Cardinality({v \in Users : identity[v] # None} \cup {u}) <= world.users
BindingBound(b, a) ==
  /\ Fresh(b, {x \in Bindings \cap 1..world.bindings : binding[x] = NoBinding})
  /\ AddressTaken(a) \/ Fresh(a, {x \in Addresses : ~AddressTaken(x)})

\* A tenant that exists is left as it is.
CreateTenant ==
  /\ tenant = None /\ tenant' = "INACTIVE"
  /\ UNCHANGED <<identity, binding, proof, stale, approval, delegated, applied>>

\* An identity may be provisioned in any status; creating it again changes nothing.
CreateIdentity(u, status) ==
  /\ tenant # None /\ identity[u] = None /\ UserBound(u)
  /\ identity' = [identity EXCEPT ![u] = status]
  /\ UNCHANGED <<tenant, binding, proof, stale, approval, delegated, applied>>

ValidateTransition(current, next) ==
  \/ current = "PENDING" /\ next \in {"ACTIVE", "REVOKED"}
  \/ current = "ACTIVE" /\ next = "REVOKED"

\* Transition to another status.
Transitioned(row, next, reference) ==
  [row EXCEPT !.status = next, !.version = @ + 1,
              !.verification = IF next = "ACTIVE" THEN reference ELSE @]

\* The binding is new; its owner exists and no binding of the tenant has the address.
InsertBinding(b, u, a) ==
  /\ BindingBound(b, a) /\ ~AddressTaken(a)
  /\ binding' = [binding EXCEPT ![b] = [status |-> "PENDING", version |-> 1, user |-> u,
                                        address |-> a, verification |-> None]]

CreateBinding(b, u, a) ==
  /\ identity[u] # None
  /\ InsertBinding(b, u, a)
  /\ UNCHANGED <<tenant, identity, proof, stale, approval, delegated, applied>>

\* A value read at some version, transitioned, and written if that version still stands.
UpdateBinding(b, next) ==
  /\ binding[b] # NoBinding
  /\ ValidateTransition(binding[b].status, next)
  /\ binding' = [binding EXCEPT ![b] = Transitioned(@, next, External)]
  /\ UNCHANGED <<tenant, identity, proof, stale, approval, delegated, applied>>

-----------------------------------------------------------------------------
(* Administration.  A request carries exactly the fields of its action.    *)

AdminRequests ==
  [action : {"STAGE", "ACTIVATE", "REVOKE_TENANT", "REVOKE_IDENTITY", "REVOKE_BINDING"},
   user : Users \cup {None}, binding : Bindings \cup {None},
   address : Addresses \cup {None}, verification : Proofs \cup {None}]

Validate(r) ==
  /\ (r.user = None) = (r.action = "REVOKE_TENANT")
  /\ (r.binding = None) = (r.action \in {"REVOKE_TENANT", "REVOKE_IDENTITY"})
  /\ (r.address = None) = (r.action # "STAGE")
  /\ (r.verification = None) = (r.action # "ACTIVATE")

ValidRequests == {r \in AdminRequests : Validate(r)}

Stage(r) ==
  /\ tenant # "REVOKED" /\ identity[r.user] \in {None, "UNKNOWN", "ACTIVE"}
  /\ UserBound(r.user)
  /\ tenant' = IF tenant = None THEN "INACTIVE" ELSE tenant
  /\ identity' = [identity EXCEPT ![r.user] = IF @ = None THEN "UNKNOWN" ELSE @]
  /\ InsertBinding(r.binding, r.user, r.address)
  /\ UNCHANGED approval

\* The proof was made by this user, for this version of this binding, within a day.
ProofStands(p, u, b) ==
  proof[p] = [binding |-> b, user |-> u, version |-> binding[b].version] /\ p \notin stale

\* The approvals table holds one approval per binding and one per proof.
ActivateWallet(r) ==
  LET b == r.binding
      p == r.verification
  IN /\ identity[r.user] \in {"UNKNOWN", "ACTIVE"}
     /\ tenant \in {"INACTIVE", "ACTIVE"}
     /\ binding[b].user = r.user /\ binding[b].status = "PENDING"
     /\ ProofStands(p, r.user, b)
     /\ approval[b] = None /\ \A c \in Bindings : approval[c] # p
     /\ approval' = [approval EXCEPT ![b] = p]
     /\ identity' = [identity EXCEPT ![r.user] = "ACTIVE"]
     /\ tenant' = "ACTIVE"
     /\ binding' = [binding EXCEPT ![b] = Transitioned(@, "ACTIVE", p)]

RevokeTenant ==
  /\ tenant \notin {None, "REVOKED"} /\ tenant' = "REVOKED"
  /\ UNCHANGED <<identity, binding, approval>>

RevokeIdentity(u) ==
  /\ identity[u] \notin {None, "REVOKED"}
  /\ identity' = [identity EXCEPT ![u] = "REVOKED"]
  /\ UNCHANGED <<tenant, binding, approval>>

RevokeBinding(u, b) ==
  /\ binding[b].user = u /\ binding[b].status \in {"PENDING", "ACTIVE"}
  /\ binding' = [binding EXCEPT ![b] = Transitioned(@, "REVOKED", None)]
  /\ UNCHANGED <<tenant, identity, approval>>

\* The audit row is inserted in the same transaction: a repeated request is denied.
FirstRequest(id) == delegated /\ Fresh(id, (RequestIds \cap 1..world.requests) \ applied)

Administer(id, r) ==
  /\ FirstRequest(id) /\ applied' = applied \cup {id}
  /\ \/ r.action = "STAGE" /\ Stage(r)
     \/ r.action = "ACTIVATE" /\ ActivateWallet(r)
     \/ r.action = "REVOKE_TENANT" /\ RevokeTenant
     \/ r.action = "REVOKE_IDENTITY" /\ RevokeIdentity(r.user)
     \/ r.action = "REVOKE_BINDING" /\ RevokeBinding(r.user, r.binding)
  /\ UNCHANGED <<proof, stale, delegated>>

\* The migration owner withdraws the delegation, or it expires.
DelegationEnds ==
  /\ delegated /\ delegated' = FALSE
  /\ UNCHANGED <<tenant, identity, binding, proof, stale, approval, applied>>

-----------------------------------------------------------------------------
(* Proofs.                                                                 *)

\* Who may prove or sign in: FinalizeSIWE's checks on identity, tenant and binding.
Eligible(b, purpose) ==
  LET row == binding[b]
      enrolling == purpose = "ENROLL"
  IN /\ row # NoBinding
     /\ identity[row.user] = "ACTIVE" \/ (enrolling /\ identity[row.user] = "UNKNOWN")
     /\ tenant = "ACTIVE" \/ (enrolling /\ tenant = "INACTIVE")
     /\ \/ row.status = "ACTIVE" /\ row.verification # None
        \/ enrolling /\ row.status = "PENDING"

\* A verified ENROLL signature; the boundary trigger wants the binding PENDING.
RecordProof(p, b) ==
  /\ Eligible(b, "ENROLL") /\ binding[b].status = "PENDING"
  /\ proof[p] = NoProof
  /\ proof' = [proof EXCEPT ![p] = [binding |-> b, user |-> binding[b].user,
                                    version |-> binding[b].version]]

\* Twenty-four hours pass after the proof.
ProofAges(p) ==
  /\ proof[p] # NoProof /\ p \notin stale
  /\ stale' = stale \cup {p}
  /\ UNCHANGED <<tenant, identity, binding, proof, approval, delegated, applied>>

\* Mutant of HasVerifiedEnrollment: being ACTIVE is enough.
HasVerifiedEnrollmentMut(b) == binding[b].status = "ACTIVE"

\* The binding is at the version that the approval of its proof made ACTIVE.
HasVerifiedEnrollment(b) ==
  LET p == approval[b]
  IN p # None /\ binding[b].verification = p /\ binding[b].version = proof[p].version + 1

-----------------------------------------------------------------------------

Onboard ==
  \/ \E id \in RequestIds : FirstRequest(id) /\ \E r \in ValidRequests : Administer(id, r)
  \/ DelegationEnds
  \/ \E p \in Proofs : ProofAges(p)
  \/ CreateTenant
  \/ \E u \in Users, status \in IdentityStatuses : CreateIdentity(u, status)
  \/ \E b \in Bindings, u \in Users, a \in Addresses : CreateBinding(b, u, a)
  \/ \E b \in Bindings, next \in BindingStatuses : UpdateBinding(b, next)

-----------------------------------------------------------------------------
(* Properties.                                                             *)

\* What hasVerifiedEnrollment accepts was activated by the administrator on a
\* proof of the version just before, made by the binding's owner, and the
\* binding has not changed since.
EnrollmentRestsOnProof ==
  \A b \in Bindings : HasVerifiedEnrollment(b) =>
    LET p == approval[b]
    IN /\ binding[b].status = "ACTIVE" /\ p # None
       /\ proof[p].binding = b /\ proof[p].user = binding[b].user
       /\ binding[b].version = 2

=============================================================================
