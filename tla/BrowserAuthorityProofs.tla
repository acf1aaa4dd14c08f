----------------------- MODULE BrowserAuthorityProofs -----------------------
(***************************************************************************)
(* What an admitted call, a token, a consent and a wallet sign-in rest on, *)
(* for any number of users, wallets, sessions, grants, tokens and bearer   *)
(* requests, and for any lifetimes.                                        *)
(***************************************************************************)
EXTENDS BrowserAuthority, TLAPS

\* Most steps are first-order; the ones that calculate say so.
USE Zenon

-----------------------------------------------------------------------------
(* The inductive invariant.  Types first.                                  *)

BindingRecs == [status : BindingStatuses, version : Nat, user : Users, address : Addresses,
                verification : Proofs \cup {None, External}]
ProofRecs == [binding : Bindings, user : Users, version : Nat]
SessionRecs == [state : {"PENDING", "AUTHENTICATED"}, decision : {"OPEN", "GRANTED", "DENIED"},
                tx : Transactions, user : Users \cup {None}, expires : Nat, revoked : BOOLEAN]
ChallengeRecs == [session : Sessions, binding : Bindings, purpose : {"ENROLL", "AUTHENTICATE"},
                  expires : Nat, consumed : BOOLEAN]
SignInRecs == [challenge : Challenges, binding : Bindings, version : Nat]
GrantRecs == [pc : {"started", "granted"}, session : Sessions, issued : Nat, expires : Nat,
              consent : Nat, consumed : BOOLEAN, revoked : BOOLEAN]
TokenRecs == [grant : Grants, issued : Nat, expires : Nat, revoked : BOOLEAN]
CheckRecs == [pc : {"idle", "token", "binding", "identity", "admitted"},
              token : Tokens \cup {None}, at : Nat, stood : BOOLEAN]

EnrollmentTyped ==
  /\ tenant \in {None, "INACTIVE", "ACTIVE", "REVOKED"}
  /\ identity \in [Users -> IdentityStatuses \cup {None}]
  /\ binding \in [Bindings -> {NoBinding} \cup BindingRecs]
  /\ proof \in [Proofs -> {NoProof} \cup ProofRecs]
  /\ approval \in [Bindings -> Proofs \cup {None}]

BrowserTyped ==
  /\ clock \in Nat
  /\ tx \in [Transactions -> [status : {None, "open", "completed"}, expires : Nat]]
  /\ session \in [Sessions -> {NoSession} \cup SessionRecs]
  /\ challenge \in [Challenges -> {NoChallenge} \cup ChallengeRecs]
  /\ signedIn \in [Sessions -> {NotSignedIn} \cup SignInRecs]
  /\ oauthSession \in [Sessions -> [expires : Nat, revoked : BOOLEAN]]
  /\ grant \in [Grants -> {NoGrant} \cup GrantRecs]
  /\ token \in [Tokens -> {NoToken} \cup TokenRecs]
  /\ check \in [Checks -> CheckRecs]

\* A binding is PENDING at version 1, ACTIVE at 2 and REVOKED after; one that was
\* never ACTIVE names no proof.
BindingStage(b) ==
  binding[b] # NoBinding =>
    \/ binding[b].status = "PENDING" /\ binding[b].version = 1 /\ binding[b].verification = None
    \/ binding[b].status = "ACTIVE" /\ binding[b].version = 2
    \/ binding[b].status = "REVOKED" /\ binding[b].version = 2 /\ binding[b].verification = None
    \/ binding[b].status = "REVOKED" /\ binding[b].version = 3

\* A proof is of its binding's first version and of its owner.
ProofMade(p) ==
  proof[p] # NoProof =>
    /\ binding[proof[p].binding] # NoBinding /\ proof[p].version = 1
    /\ proof[p].user = binding[proof[p].binding].user

Approved(b) ==
  approval[b] # None => proof[approval[b]] # NoProof /\ proof[approval[b]].binding = b

Enrolled ==
  /\ \A b \in Bindings : BindingStage(b) /\ Approved(b)
  /\ \A p \in Proofs : ProofMade(p)

\* A proof, or a sign-in, has spent its challenge.
Proving(p) ==
  proof[p] # NoProof =>
    challenge[p] # NoChallenge /\ challenge[p].consumed /\ challenge[p].purpose = "ENROLL"

\* The tenant and the binding have been ACTIVE since before the sign-in, until revoked.
SignIn(s) ==
  signedIn[s] # NotSignedIn =>
    LET a == signedIn[s]
    IN /\ world.signIn = "wallet"
       /\ challenge[a.challenge] # NoChallenge /\ challenge[a.challenge].consumed
       /\ challenge[a.challenge].purpose = "AUTHENTICATE"
       /\ a.version = 2 /\ approval[a.binding] # None
       /\ binding[a.binding] # NoBinding /\ binding[a.binding].status # "PENDING"
       /\ tenant \in {"ACTIVE", "REVOKED"}
       /\ session[s].state = "AUTHENTICATED"

SignIns ==
  /\ \A p \in Proofs : Proving(p)
  /\ \A s \in Sessions : SignIn(s)
  /\ \A s, other \in Sessions :
       signedIn[s] # NotSignedIn /\ signedIn[other].challenge = signedIn[s].challenge => other = s

\* The OAuth session of s exists only after consent, and logout reaches it.
Granted(s) ==
  /\ session[s].state # "AUTHENTICATED" => oauthSession[s] = NoOAuthSession
  /\ oauthSession[s] # NoOAuthSession => session[s].decision = "GRANTED"
  /\ session[s].revoked => oauthSession[s].revoked
  /\ session[s].decision # "OPEN" => tx[session[s].tx].status = "completed"

Decided(s) == session[s].decision # "OPEN"

Decisions ==
  /\ \A s \in Sessions : Granted(s)
  /\ \A s, other \in Sessions :
       Decided(s) /\ Decided(other) /\ session[s].tx = session[other].tx => s = other

IsCode(g) == grant[g] # NoGrant /\ grant[g].pc = "granted"

Code(g) ==
  grant[g] # NoGrant =>
    /\ session[grant[g].session].state = "AUTHENTICATED"
    /\ grant[g].pc = "granted" => session[grant[g].session].decision = "GRANTED"

Codes ==
  /\ \A g \in Grants : Code(g)
  /\ \A g, other \in Grants :
       IsCode(g) /\ IsCode(other) /\ session[grant[g].session].tx = session[grant[other].session].tx
         => g = other

Bounded(k) ==
  token[k] # NoToken =>
    /\ IsCode(token[k].grant) /\ grant[token[k].grant].consumed
    /\ token[k].expires <= grant[token[k].grant].consent
    /\ token[k].expires <= oauthSession[SessionOf(k)].expires

TokensOK ==
  /\ \A k \in Tokens : Bounded(k)
  /\ \A k, other \in Tokens :
       token[k] # NoToken /\ token[other].grant = token[k].grant => other = k

\* What did not stand at the first statement will not pass the second.
Checked(x) ==
  /\ check[x].pc # "idle" => check[x].token \in Tokens /\ token[check[x].token] # NoToken
  /\ check[x].pc = "binding" /\ ~check[x].stood =>
       \/ ~CheckSIWESession(SessionOf(check[x].token))
       \/ clock >= token[check[x].token].expires
  /\ check[x].pc \in {"identity", "admitted"} => check[x].stood

ChecksOK == \A x \in Checks : Checked(x)

Inv ==
  /\ EnrollmentTyped /\ BrowserTyped
  /\ Enrolled /\ SignIns /\ Decisions /\ Codes /\ TokensOK /\ ChecksOK

-----------------------------------------------------------------------------
(* Identifiers and minima.                                                 *)

\* Min of up to three numbers is the least of them.
LEMMA MinIsLeast ==
  ASSUME NEW a \in Nat, NEW b \in Nat, NEW c \in Nat, NEW T, T = {a, b, c}
  PROVE  Min(T) \in Nat /\ \A m \in T : Min(T) <= m
<1>1. T \subseteq Nat
  OBVIOUS
<1>2. \E n \in T : \A m \in T : n <= m
  <2>1. CASE a <= b /\ a <= c
    BY SMT, <2>1
  <2>2. CASE b <= a /\ b <= c
    BY SMT, <2>2
  <2>3. CASE c <= a /\ c <= b
    BY SMT, <2>3
  <2> QED BY SMT, <2>1, <2>2, <2>3
<1>3. Min(T) \in T /\ \A m \in T : Min(T) <= m
  BY <1>2 DEF Min
<1> QED BY <1>1, <1>3

-----------------------------------------------------------------------------
(* Enrollment.                                                             *)

\* What no step of the enrollment takes back.
BindingsOnward ==
  \A b \in Bindings : binding[b] # NoBinding /\ binding[b].status # "PENDING" =>
    /\ binding'[b] # NoBinding /\ binding'[b].status # "PENDING"
    /\ binding'[b].status = "ACTIVE" => binding'[b] = binding[b]

TenantOnward ==
  tenant \in {"ACTIVE", "REVOKED"} =>
    tenant' \in {"ACTIVE", "REVOKED"} /\ (tenant' = "ACTIVE" => tenant = "ACTIVE")

Onward ==
  /\ EnrollmentTyped' /\ Enrolled'
  /\ \A p \in Proofs : proof[p] # NoProof => proof'[p] = proof[p]
  /\ \A b \in Bindings : approval[b] # None => approval'[b] = approval[b]
  /\ BindingsOnward /\ TenantOnward

\* A binding row that exists has the fields of one.
LEMMA BindingFacts ==
  ASSUME EnrollmentTyped, NEW b \in Bindings
  PROVE  /\ binding[b] \in {NoBinding} \cup BindingRecs
         /\ binding[b] # NoBinding <=> binding[b].user \in Users
         /\ binding[b] # NoBinding => /\ binding[b] \in BindingRecs
                                      /\ binding[b].version \in Nat
                                      /\ binding[b].status \in BindingStatuses
         /\ binding[b] = NoBinding => binding[b].verification = None /\ binding[b].status = None
<1>1. binding[b] \in {NoBinding} \cup BindingRecs
  BY DEF EnrollmentTyped
<1>2. NoBinding.user = None /\ NoBinding.verification = None /\ NoBinding.status = None
  BY DEF NoBinding
<1>3. None \notin Users
  BY NamesAreNotNone
<1>4. ASSUME binding[b] \in BindingRecs
      PROVE  /\ binding[b].user \in Users /\ binding[b].version \in Nat
             /\ binding[b].status \in BindingStatuses
  BY <1>4 DEF BindingRecs
<1> QED BY <1>1, <1>2, <1>3, <1>4

\* A binding is inserted, activated or revoked.
LEMMA BindingMoves ==
  ASSUME EnrollmentTyped, Enrolled, NEW b \in Bindings, NEW row \in BindingRecs,
         binding' = [binding EXCEPT ![b] = row], proof' = proof,
         \/ /\ binding[b] = NoBinding
            /\ row.status = "PENDING" /\ row.version = 1 /\ row.verification = None
         \/ /\ binding[b] # NoBinding
            /\ row.user = binding[b].user /\ row.version = binding[b].version + 1
            /\ \/ binding[b].status = "PENDING" /\ row.status = "ACTIVE"
               \/ /\ binding[b].status \in {"PENDING", "ACTIVE"} /\ row.status = "REVOKED"
                  /\ row.verification = binding[b].verification
  PROVE  /\ binding' \in [Bindings -> {NoBinding} \cup BindingRecs]
         /\ \A c \in Bindings : BindingStage(c)'
         /\ \A p \in Proofs : ProofMade(p)'
         /\ BindingsOnward
<1>1. binding \in [Bindings -> {NoBinding} \cup BindingRecs]
  BY DEF EnrollmentTyped
<1>2. /\ binding' \in [Bindings -> {NoBinding} \cup BindingRecs] /\ binding'[b] = row
      /\ \A c \in Bindings \ {b} : binding'[c] = binding[c]
  BY <1>1
<1>3. row # NoBinding /\ row.version \in Nat /\ row.user \in Users
  BY SMT, NamesAreNotNone DEF BindingRecs, NoBinding
<1>4. BindingStage(b) /\ (binding[b] # NoBinding => binding[b].version \in Nat)
  BY BindingFacts DEF Enrolled
<1>5. BindingStage(b)'
  BY SMT, <1>2, <1>4 DEF BindingStage
<1>6. ASSUME NEW c \in Bindings \ {b} PROVE BindingStage(c)'
  BY <1>2 DEF BindingStage, Enrolled
<1>7. ASSUME NEW p \in Proofs PROVE ProofMade(p)'
  <2>1. ProofMade(p)
    BY DEF Enrolled
  <2>2. proof[p] # NoProof => proof[p].binding \in Bindings
    BY DEF EnrollmentTyped, ProofRecs
  <2> QED BY <1>2, <1>3, <2>1, <2>2 DEF ProofMade
<1>8. binding[b] # NoBinding /\ binding[b].status # "PENDING" =>
        row.status # "PENDING" /\ row.status # "ACTIVE"
  OBVIOUS
<1> QED BY <1>2, <1>3, <1>5, <1>6, <1>7, <1>8 DEF BindingsOnward

\* Transition's result: the next version, and a reference only when it activates.
LEMMA TransitionedFields ==
  ASSUME NEW row \in BindingRecs, NEW next \in BindingStatuses,
         NEW ref \in Proofs \cup {None, External}
  PROVE  LET n == Transitioned(row, next, ref)
         IN  /\ n \in BindingRecs /\ n.status = next /\ n.version = row.version + 1
             /\ n.user = row.user
             /\ next # "ACTIVE" => n.verification = row.verification
<1> DEFINE v == IF next = "ACTIVE" THEN ref ELSE row.verification
           n == Transitioned(row, next, ref)
<1>1. v \in Proofs \cup {None, External} /\ row.version + 1 \in Nat
  BY SMT DEF BindingRecs
<1>2. n = [row EXCEPT !.status = next, !.version = row.version + 1, !.verification = v]
  BY DEF Transitioned
<1>3. next # "ACTIVE" => v = row.verification
  OBVIOUS
<1> HIDE DEF v
<1>4. n \in BindingRecs
  BY <1>1, <1>2 DEF BindingRecs
<1>5. n.status = next /\ n.version = row.version + 1 /\ n.user = row.user /\ n.verification = v
  BY <1>2 DEF BindingRecs
<1> QED BY <1>3, <1>4, <1>5

\* An insertion writes a PENDING row where there was none.
LEMMA InsertBindingMoves ==
  ASSUME EnrollmentTyped, NEW b, b \in Bindings, NEW u \in Users, NEW a \in Addresses,
         InsertBinding(b, u, a)
  PROVE  \E row \in BindingRecs :
           /\ binding' = [binding EXCEPT ![b] = row] /\ binding[b] = NoBinding
           /\ row.status = "PENDING" /\ row.version = 1 /\ row.verification = None
<1> DEFINE row == [status |-> "PENDING", version |-> 1, user |-> u, address |-> a,
                   verification |-> None]
           Unused == {x \in Bindings \cap 1..world.bindings : binding[x] = NoBinding}
<1>1. row \in BindingRecs /\ row.status = "PENDING" /\ row.version = 1 /\ row.verification = None
  BY DEF BindingRecs, BindingStatuses
<1>2. b \in Unused
  BY DEF InsertBinding, BindingBound, Fresh
<1>3. binding' = [binding EXCEPT ![b] = row] /\ binding[b] = NoBinding
  BY <1>2 DEF InsertBinding
<1> QED BY <1>1, <1>3

\* The bindings, proofs and approvals stay as they are.
LEMMA StillEnrolled ==
  ASSUME EnrollmentTyped, Enrolled, UNCHANGED <<binding, proof, approval>>,
         tenant' \in {None, "INACTIVE", "ACTIVE", "REVOKED"}, TenantOnward,
         identity' \in [Users -> IdentityStatuses \cup {None}]
  PROVE  Onward
<1>1. EnrollmentTyped'
  BY DEF EnrollmentTyped
<1>2. \A b \in Bindings : BindingStage(b)' /\ Approved(b)'
  BY DEF Enrolled, BindingStage, Approved
<1>3. \A p \in Proofs : ProofMade(p)'
  BY DEF Enrolled, ProofMade
<1>4. Enrolled'
  BY <1>2, <1>3 DEF Enrolled
<1>5. BindingsOnward
  BY DEF BindingsOnward
<1> QED BY <1>1, <1>4, <1>5 DEF Onward

\* A binding moves and no approval is written.
LEMMA MovesOnward ==
  ASSUME EnrollmentTyped, Enrolled, UNCHANGED <<proof, approval>>,
         tenant' \in {None, "INACTIVE", "ACTIVE", "REVOKED"}, TenantOnward,
         identity' \in [Users -> IdentityStatuses \cup {None}],
         binding' \in [Bindings -> {NoBinding} \cup BindingRecs],
         \A c \in Bindings : BindingStage(c)', \A p \in Proofs : ProofMade(p)', BindingsOnward
  PROVE  Onward
<1>1. EnrollmentTyped'
  BY DEF EnrollmentTyped
<1>2. \A b \in Bindings : Approved(b)'
  BY DEF Enrolled, Approved
<1>3. Enrolled'
  BY <1>2 DEF Enrolled
<1> QED BY <1>1, <1>3 DEF Onward

\* A step that inserts a binding goes onward.
LEMMA InsertOnward ==
  ASSUME EnrollmentTyped, Enrolled, UNCHANGED <<proof, approval>>,
         tenant' \in {None, "INACTIVE", "ACTIVE", "REVOKED"}, TenantOnward,
         identity' \in [Users -> IdentityStatuses \cup {None}],
         NEW b, b \in Bindings, NEW u, u \in Users, NEW a, a \in Addresses, InsertBinding(b, u, a)
  PROVE  Onward
<1>1. PICK row \in BindingRecs :
        /\ binding' = [binding EXCEPT ![b] = row] /\ binding[b] = NoBinding
        /\ row.status = "PENDING" /\ row.version = 1 /\ row.verification = None
  BY InsertBindingMoves
<1>2. /\ binding' \in [Bindings -> {NoBinding} \cup BindingRecs]
      /\ \A c \in Bindings : BindingStage(c)'
      /\ \A p \in Proofs : ProofMade(p)'
      /\ BindingsOnward
  BY <1>1, BindingMoves
<1> QED BY <1>2, MovesOnward

\* A step that moves a binding to its next status goes onward.
LEMMA TransitionOnward ==
  ASSUME EnrollmentTyped, Enrolled, UNCHANGED <<proof, approval>>,
         tenant' = tenant, identity' \in [Users -> IdentityStatuses \cup {None}],
         NEW b, b \in Bindings, NEW next \in BindingStatuses,
         NEW ref \in Proofs \cup {None, External},
         binding[b] # NoBinding, ValidateTransition(binding[b].status, next),
         binding' = [binding EXCEPT ![b] = Transitioned(binding[b], next, ref)]
  PROVE  Onward
<1> DEFINE n == Transitioned(binding[b], next, ref)
<1>1. binding[b] \in BindingRecs
  BY BindingFacts
<1>2. /\ n \in BindingRecs /\ n.status = next /\ n.version = binding[b].version + 1
      /\ n.user = binding[b].user /\ (next # "ACTIVE" => n.verification = binding[b].verification)
  BY <1>1, TransitionedFields
<1>3. binding' = [binding EXCEPT ![b] = n]
  OBVIOUS
<1> HIDE DEF n
<1>4. \/ binding[b].status = "PENDING" /\ n.status = "ACTIVE"
      \/ /\ binding[b].status \in {"PENDING", "ACTIVE"} /\ n.status = "REVOKED"
         /\ n.verification = binding[b].verification
  BY <1>2 DEF ValidateTransition
<1>5. /\ binding' \in [Bindings -> {NoBinding} \cup BindingRecs]
      /\ \A c \in Bindings : BindingStage(c)'
      /\ \A p \in Proofs : ProofMade(p)'
      /\ BindingsOnward
  BY <1>2, <1>3, <1>4, BindingMoves
<1>6. TenantOnward /\ tenant' \in {None, "INACTIVE", "ACTIVE", "REVOKED"}
  BY DEF TenantOnward, EnrollmentTyped
<1> QED BY <1>5, <1>6, MovesOnward

\* admin_activate_wallet goes onward: the approval names a proof of this binding.
LEMMA ActivateOnward ==
  ASSUME EnrollmentTyped, Enrolled, proof' = proof, NEW r \in ValidRequests,
         r.action = "ACTIVATE", ActivateWallet(r)
  PROVE  Onward
<1> DEFINE b == r.binding
           p == r.verification
           n == Transitioned(binding[b], "ACTIVE", p)
<1>1. b \in Bindings /\ p \in Proofs /\ r.user \in Users
  BY DEF ValidRequests, Validate, AdminRequests
<1>2. /\ tenant \in {"INACTIVE", "ACTIVE"} /\ tenant' = "ACTIVE"
      /\ binding[b].user = r.user /\ binding[b].status = "PENDING"
      /\ ProofStands(p, r.user, b) /\ approval[b] = None
      /\ approval' = [approval EXCEPT ![b] = p]
      /\ identity' = [identity EXCEPT ![r.user] = "ACTIVE"]
      /\ binding' = [binding EXCEPT ![b] = n]
  BY DEF ActivateWallet
<1>3. binding[b] # NoBinding /\ binding[b] \in BindingRecs
  BY <1>1, <1>2, BindingFacts
<1>4. /\ n \in BindingRecs /\ n.status = "ACTIVE" /\ n.version = binding[b].version + 1
      /\ n.user = binding[b].user
  BY SMT, <1>1, <1>3, TransitionedFields DEF BindingStatuses
<1> HIDE DEF n
<1>5. /\ binding' \in [Bindings -> {NoBinding} \cup BindingRecs]
      /\ \A c \in Bindings : BindingStage(c)'
      /\ \A q \in Proofs : ProofMade(q)'
      /\ BindingsOnward
  BY <1>1, <1>2, <1>3, <1>4, BindingMoves
<1>6. proof[p].binding = b /\ proof[p] # NoProof
  BY SMT, <1>1, <1>2, NamesAreNotNone DEF ProofStands, NoProof
<1>7. /\ approval' \in [Bindings -> Proofs \cup {None}]
      /\ approval'[b] = p /\ \A c \in Bindings \ {b} : approval'[c] = approval[c]
  BY <1>1, <1>2 DEF EnrollmentTyped
<1>8. ASSUME NEW c \in Bindings PROVE Approved(c)'
  BY <1>6, <1>7 DEF Approved, Enrolled
<1>9. EnrollmentTyped' /\ Enrolled'
  <2>1. identity' \in [Users -> IdentityStatuses \cup {None}]
    BY <1>1, <1>2 DEF EnrollmentTyped, IdentityStatuses
  <2>2. EnrollmentTyped'
    BY <1>2, <1>5, <1>7, <2>1 DEF EnrollmentTyped
  <2> QED BY <2>2, <1>5, <1>8 DEF Enrolled
<1>10. TenantOnward
  BY <1>2 DEF TenantOnward
<1> QED BY <1>2, <1>5, <1>7, <1>9, <1>10 DEF Onward

\* No administration request or storage operation takes an enrollment back.
LEMMA OnboardOnward ==
  ASSUME EnrollmentTyped, Enrolled, Onboard
  PROVE  Onward /\ proof' = proof
<1> DEFINE Ids == identity' \in [Users -> IdentityStatuses \cup {None}]
           Ten == TenantOnward /\ tenant' \in {None, "INACTIVE", "ACTIVE", "REVOKED"}
<1>0. (identity' = identity => Ids) /\ (tenant' = tenant => Ten)
  BY DEF EnrollmentTyped, TenantOnward
<1>1. ASSUME NEW id \in RequestIds, NEW r \in ValidRequests, Administer(id, r)
      PROVE  Onward /\ proof' = proof
  <2>0. proof' = proof
    BY <1>1 DEF Administer
  <2>1. CASE r.action = "STAGE" /\ Stage(r)
    <3>1. r.user \in Users /\ r.binding \in Bindings /\ r.address \in Addresses
      BY <2>1 DEF ValidRequests, Validate, AdminRequests
    <3>2. Ids
      BY <2>1, <3>1 DEF Stage, EnrollmentTyped, IdentityStatuses
    <3>3. Ten
      BY <2>1, NoneIsNoStatus DEF Stage, EnrollmentTyped, TenantOnward
    <3>4. InsertBinding(r.binding, r.user, r.address) /\ approval' = approval
      BY <2>1 DEF Stage
    <3> QED BY <2>0, <3>1, <3>2, <3>3, <3>4, InsertOnward
  <2>2. CASE r.action = "ACTIVATE" /\ ActivateWallet(r)
    BY <2>0, <2>2, ActivateOnward
  <2>3. CASE RevokeTenant
    <3>1. Ten
      BY <2>3 DEF RevokeTenant, TenantOnward
    <3> QED BY <1>0, <2>0, <2>3, <3>1, StillEnrolled DEF RevokeTenant
  <2>4. CASE r.action = "REVOKE_IDENTITY" /\ RevokeIdentity(r.user)
    <3>1. Ids
      BY <2>4 DEF RevokeIdentity, EnrollmentTyped, IdentityStatuses
    <3> QED BY <1>0, <2>0, <2>4, <3>1, StillEnrolled DEF RevokeIdentity
  <2>5. CASE r.action = "REVOKE_BINDING" /\ RevokeBinding(r.user, r.binding)
    <3>1. r.user \in Users /\ r.binding \in Bindings
      BY <2>5 DEF ValidRequests, Validate, AdminRequests
    <3>2. /\ binding[r.binding].user = r.user /\ UNCHANGED <<tenant, identity, approval>>
          /\ binding[r.binding].status \in {"PENDING", "ACTIVE"}
          /\ binding' = [binding EXCEPT ![r.binding] =
                           Transitioned(binding[r.binding], "REVOKED", None)]
      BY <2>5 DEF RevokeBinding
    <3>3. /\ binding[r.binding] # NoBinding /\ "REVOKED" \in BindingStatuses
          /\ ValidateTransition(binding[r.binding].status, "REVOKED")
      BY <3>1, <3>2, BindingFacts DEF ValidateTransition, BindingStatuses
    <3> QED BY <1>0, <2>0, <3>1, <3>2, <3>3, TransitionOnward
  <2> QED BY <1>1, <2>1, <2>2, <2>3, <2>4, <2>5 DEF Administer
<1>2. CASE DelegationEnds
  BY <1>0, <1>2, StillEnrolled DEF DelegationEnds
<1>3. ASSUME NEW p \in Proofs, ProofAges(p) PROVE Onward /\ proof' = proof
  BY <1>0, <1>3, StillEnrolled DEF ProofAges
<1>4. CASE CreateTenant
  <2>1. Ten
    BY <1>4, NoneIsNoStatus DEF CreateTenant, TenantOnward
  <2> QED BY <1>0, <1>4, <2>1, StillEnrolled DEF CreateTenant
<1>5. ASSUME NEW u \in Users, NEW status \in IdentityStatuses, CreateIdentity(u, status)
      PROVE  Onward /\ proof' = proof
  <2>1. Ids
    BY <1>5 DEF CreateIdentity, EnrollmentTyped
  <2> QED BY <1>0, <1>5, <2>1, StillEnrolled DEF CreateIdentity
<1>6. ASSUME NEW b \in Bindings, NEW u \in Users, NEW a \in Addresses, CreateBinding(b, u, a)
      PROVE  Onward /\ proof' = proof
  BY <1>0, <1>6, InsertOnward DEF CreateBinding
<1>7. ASSUME NEW b \in Bindings, NEW next \in BindingStatuses, UpdateBinding(b, next)
      PROVE  Onward /\ proof' = proof
  BY <1>0, <1>7, TransitionOnward DEF UpdateBinding
<1> QED BY <1>1, <1>2, <1>3, <1>4, <1>5, <1>6, <1>7 DEF Onboard

\* A step that leaves the enrollment alone goes onward.
LEMMA EnrollmentSame ==
  ASSUME EnrollmentTyped, Enrolled, UNCHANGED enrollmentVars
  PROVE  Onward /\ proof' = proof
<1>1. /\ UNCHANGED <<binding, proof, approval>> /\ tenant' = tenant /\ identity' = identity
  BY DEF enrollmentVars
<1>2. /\ tenant' \in {None, "INACTIVE", "ACTIVE", "REVOKED"} /\ TenantOnward
      /\ identity' \in [Users -> IdentityStatuses \cup {None}]
  BY <1>1 DEF EnrollmentTyped, TenantOnward
<1> QED BY <1>1, <1>2, StillEnrolled

\* A verified ENROLL signature goes onward: a proof is written once.
LEMMA RecordOnward ==
  ASSUME EnrollmentTyped, Enrolled, NEW p \in Proofs, NEW b \in Bindings, RecordProof(p, b),
         UNCHANGED <<tenant, identity, binding, approval>>
  PROVE  /\ Onward
         /\ proof'[p] # NoProof /\ \A q \in Proofs \ {p} : proof'[q] = proof[q]
<1> DEFINE made == [binding |-> b, user |-> binding[b].user, version |-> binding[b].version]
<1>1. /\ binding[b] # NoBinding /\ binding[b].status = "PENDING" /\ proof[p] = NoProof
      /\ proof' = [proof EXCEPT ![p] = made]
  BY DEF RecordProof, Eligible
<1>2. /\ binding[b].user \in Users /\ binding[b].version \in Nat /\ binding[b].version = 1
  BY <1>1, BindingFacts DEF Enrolled, BindingStage
<1>3. /\ made \in ProofRecs /\ made # NoProof /\ made.binding = b /\ made.version = 1
      /\ made.user = binding[b].user
  BY <1>2, NamesAreNotNone DEF ProofRecs, NoProof
<1> HIDE DEF made
<1>4. /\ proof' \in [Proofs -> {NoProof} \cup ProofRecs] /\ proof'[p] = made
      /\ \A q \in Proofs \ {p} : proof'[q] = proof[q]
  BY <1>1, <1>3 DEF EnrollmentTyped
<1>5. EnrollmentTyped'
  BY <1>4 DEF EnrollmentTyped
<1>6. ASSUME NEW c \in Bindings PROVE BindingStage(c)' /\ Approved(c)'
  <2>1. BindingStage(c)'
    BY DEF BindingStage, Enrolled
  <2>2. approval[c] # None => approval[c] \in Proofs \ {p} /\ proof[approval[c]].binding = c
    BY <1>1 DEF EnrollmentTyped, Enrolled, Approved
  <2> QED BY <1>4, <2>1, <2>2 DEF Approved, Enrolled
<1>7. ASSUME NEW q \in Proofs PROVE ProofMade(q)'
  BY <1>1, <1>3, <1>4 DEF ProofMade, Enrolled
<1>8. Enrolled'
  BY <1>6, <1>7 DEF Enrolled
<1>9. BindingsOnward /\ TenantOnward
  BY DEF BindingsOnward, TenantOnward
<1> QED BY <1>1, <1>3, <1>4, <1>5, <1>8, <1>9 DEF Onward

-----------------------------------------------------------------------------
(* What no step of the browser part takes back.                            *)

ChallengesOnward ==
  \A c \in Challenges : challenge[c] # NoChallenge =>
    /\ challenge'[c] # NoChallenge /\ challenge'[c].purpose = challenge[c].purpose
    /\ challenge[c].consumed => challenge'[c].consumed

SessionsOnward ==
  \A s \in Sessions : session[s].state = "AUTHENTICATED" =>
    /\ session'[s].state = "AUTHENTICATED" /\ session'[s].tx = session[s].tx
    /\ session[s].decision = "GRANTED" => session'[s].decision = "GRANTED"

TransactionsOnward ==
  \A t \in Transactions : tx[t].status = "completed" => tx'[t].status = "completed"

\* A code stays a code, with the same consent.
GrantsOnward ==
  \A g \in Grants : grant[g] # NoGrant =>
    /\ grant'[g] # NoGrant /\ grant'[g].session = grant[g].session
    /\ IsCode(g) => IsCode(g)' /\ grant'[g].consent = grant[g].consent
    /\ grant[g].consumed => grant'[g].consumed

TokensOnward ==
  \A k \in Tokens : token[k] # NoToken =>
    /\ token'[k] # NoToken /\ token'[k].grant = token[k].grant
    /\ token'[k].expires = token[k].expires

\* A session row that exists has the fields of one.
LEMMA SessionFacts ==
  ASSUME BrowserTyped, NEW s \in Sessions
  PROVE  /\ session[s] = NoSession \/ session[s] \in SessionRecs
         /\ session[s] = NoSession => /\ session[s].state = None /\ session[s].decision = "OPEN"
                                      /\ session[s].revoked = FALSE
         /\ session[s].state = "AUTHENTICATED" => session[s] # NoSession
         /\ session[s] # NoSession => /\ session[s].tx \in Transactions
                                      /\ session[s].expires \in Nat
                                      /\ session[s].state \in {"PENDING", "AUTHENTICATED"}
                                      /\ session[s].decision \in {"OPEN", "GRANTED", "DENIED"}
         /\ session[s].decision # "OPEN" => session[s] # NoSession
         /\ session[s].revoked \in BOOLEAN
<1>1. session[s] = NoSession \/ session[s] \in SessionRecs
  BY DEF BrowserTyped
<1>2. NoSession.state = None /\ NoSession.decision = "OPEN" /\ NoSession.revoked = FALSE
  BY DEF NoSession
<1>3. ASSUME session[s] \in SessionRecs
      PROVE  /\ session[s].tx \in Transactions /\ session[s].expires \in Nat
             /\ session[s].state \in {"PENDING", "AUTHENTICATED"}
             /\ session[s].decision \in {"OPEN", "GRANTED", "DENIED"}
             /\ session[s].revoked \in BOOLEAN
  BY <1>3 DEF SessionRecs
<1>4. None # "AUTHENTICATED"
  BY NoneIsNoState
<1> QED BY <1>1, <1>2, <1>3, <1>4

\* A sign-in that exists names a challenge and a binding.
LEMMA SignedFacts ==
  ASSUME BrowserTyped, NEW s \in Sessions
  PROVE  /\ signedIn[s] # NotSignedIn => /\ signedIn[s] \in SignInRecs
                                         /\ signedIn[s].challenge \in Challenges
                                         /\ signedIn[s].binding \in Bindings
         /\ signedIn[s] = NotSignedIn => signedIn[s].challenge = None
BY SMT DEF BrowserTyped, SignInRecs, NotSignedIn

\* A grant that exists has the fields of one.
LEMMA GrantFacts ==
  ASSUME BrowserTyped, NEW g \in Grants
  PROVE  /\ grant[g] # NoGrant => /\ grant[g] \in GrantRecs /\ grant[g].session \in Sessions
                                  /\ grant[g].consent \in Nat /\ grant[g].expires \in Nat
                                  /\ grant[g].pc \in {"started", "granted"}
         /\ grant[g].pc # "idle" <=> grant[g] # NoGrant
<1>1. grant[g] = NoGrant \/ grant[g] \in GrantRecs
  BY DEF BrowserTyped
<1>2. NoGrant.pc = "idle"
  BY DEF NoGrant
<1>3. ASSUME grant[g] \in GrantRecs
      PROVE  /\ grant[g].session \in Sessions /\ grant[g].consent \in Nat
             /\ grant[g].expires \in Nat /\ grant[g].pc \in {"started", "granted"}
  BY <1>3 DEF GrantRecs
<1> QED BY <1>1, <1>2, <1>3

\* A token that exists names a grant.
LEMMA TokenFacts ==
  ASSUME BrowserTyped, NEW k \in Tokens
  PROVE  /\ token[k] # NoToken => /\ token[k] \in TokenRecs /\ token[k].grant \in Grants
                                  /\ token[k].expires \in Nat
         /\ token[k] = NoToken => token[k].grant = None
BY SMT DEF BrowserTyped, TokenRecs, NoToken

\* Sign-ins stand when challenges, sessions and the enrollment go onward.
LEMMA KeepSignIns ==
  ASSUME EnrollmentTyped, BrowserTyped, SignIns, Onward, UNCHANGED <<world, signedIn>>,
         \A p \in Proofs : proof'[p] = proof[p] \/ Proving(p)', ChallengesOnward, SessionsOnward
  PROVE  SignIns'
<1>1. ASSUME NEW p \in Proofs PROVE Proving(p)'
  BY DEF SignIns, Proving, ChallengesOnward, Challenges
<1>2. ASSUME NEW s \in Sessions PROVE SignIn(s)'
  <2> SUFFICES ASSUME signedIn[s] # NotSignedIn PROVE SignIn(s)'
    BY DEF SignIn
  <2>1. SignIn(s) /\ signedIn[s].challenge \in Challenges /\ signedIn[s].binding \in Bindings
    BY SignedFacts DEF SignIns
  <2>2. /\ challenge'[signedIn[s].challenge] # NoChallenge
        /\ challenge'[signedIn[s].challenge].consumed
        /\ challenge'[signedIn[s].challenge].purpose = "AUTHENTICATE"
    BY <2>1 DEF SignIn, ChallengesOnward
  <2>3. /\ approval'[signedIn[s].binding] # None
        /\ binding'[signedIn[s].binding] # NoBinding
        /\ binding'[signedIn[s].binding].status # "PENDING"
        /\ tenant' \in {"ACTIVE", "REVOKED"}
    BY <2>1 DEF SignIn, Onward, BindingsOnward, TenantOnward
  <2>4. session'[s].state = "AUTHENTICATED"
    BY <2>1 DEF SignIn, SessionsOnward
  <2> QED BY <2>1, <2>2, <2>3, <2>4 DEF SignIn
<1> QED BY <1>1, <1>2 DEF SignIns

\* What holds of a session and its OAuth session, when neither is written.
LEMMA SameGranted ==
  ASSUME BrowserTyped, NEW s \in Sessions, Granted(s), TransactionsOnward,
         session'[s] = session[s], oauthSession'[s] = oauthSession[s]
  PROVE  Granted(s)'
<1>1. session[s].decision # "OPEN" => session[s].tx \in Transactions
  BY SessionFacts
<1> QED BY <1>1 DEF Granted, TransactionsOnward

\* At most the session d decides, on a transaction that was open.
LEMMA KeepDecisions ==
  ASSUME BrowserTyped, Decisions, \A s \in Sessions : Granted(s)', NEW d,
         \A s \in Sessions : Decided(s)' =>
           /\ session'[s].tx = session[s].tx
           /\ Decided(s) \/ (s = d /\ tx[session[s].tx].status = "open")
  PROVE  Decisions'
<1> SUFFICES ASSUME NEW s \in Sessions, NEW other \in Sessions, Decided(s)', Decided(other)',
                    session'[s].tx = session'[other].tx
             PROVE  s = other
  BY DEF Decisions
<1>1. Granted(s) /\ Granted(other)
  BY DEF Decisions
<1>2. CASE Decided(s) /\ Decided(other)
  BY <1>2 DEF Decisions
<1>3. CASE Decided(s) /\ ~Decided(other)
  BY <1>1, <1>3 DEF Granted, Decided
<1>4. CASE ~Decided(s) /\ Decided(other)
  BY SMT, <1>1, <1>4 DEF Granted, Decided
<1> QED BY <1>2, <1>3, <1>4

\* Codes stand when sessions go onward and no grant changes place.
LEMMA KeepCodes ==
  ASSUME BrowserTyped, Codes, SessionsOnward,
         \A g \in Grants : grant'[g] # NoGrant =>
           /\ grant[g] # NoGrant /\ grant'[g].session = grant[g].session
           /\ grant'[g].pc = grant[g].pc
  PROVE  Codes'
<1>1. ASSUME NEW g \in Grants, grant[g] # NoGrant
      PROVE  /\ session'[grant[g].session].state = "AUTHENTICATED"
             /\ session'[grant[g].session].tx = session[grant[g].session].tx
             /\ grant[g].pc = "granted" => session'[grant[g].session].decision = "GRANTED"
  BY <1>1, GrantFacts DEF Codes, Code, SessionsOnward
<1>2. \A g \in Grants : Code(g)'
  BY <1>1 DEF Code
<1> QED BY SMT, <1>1, <1>2 DEF Codes, IsCode

\* The OAuth session of a code is the one of a session whose consent was granted.
LEMMA TokenSession ==
  ASSUME BrowserTyped, Codes, TokensOK, NEW k \in Tokens, token[k] # NoToken
  PROVE  /\ token[k].grant \in Grants /\ IsCode(token[k].grant) /\ grant[token[k].grant] # NoGrant
         /\ SessionOf(k) = grant[token[k].grant].session /\ SessionOf(k) \in Sessions
         /\ session[SessionOf(k)].state = "AUTHENTICATED"
         /\ session[SessionOf(k)].decision = "GRANTED"
<1>1. token[k].grant \in Grants /\ IsCode(token[k].grant)
  BY TokenFacts DEF TokensOK, Bounded
<1>2. grant[token[k].grant] # NoGrant /\ grant[token[k].grant].session \in Sessions
  BY <1>1, GrantFacts DEF IsCode
<1> QED BY <1>1, <1>2 DEF Codes, Code, IsCode, SessionOf

OAuthOnward ==
  \A s \in Sessions : session[s].decision = "GRANTED" =>
    oauthSession'[s].expires = oauthSession[s].expires

\* A token stays within its consent and its OAuth session.
LEMMA KeepBounded ==
  ASSUME BrowserTyped, Codes, TokensOK, GrantsOnward, OAuthOnward,
         NEW k \in Tokens, token[k] # NoToken,
         token'[k].grant = token[k].grant, token'[k].expires = token[k].expires
  PROVE  Bounded(k)'
<1> DEFINE g == token[k].grant
           s == SessionOf(k)
<1>1. /\ g \in Grants /\ IsCode(g) /\ grant[g] # NoGrant /\ s = grant[g].session /\ s \in Sessions
      /\ session[s].decision = "GRANTED"
  BY TokenSession
<1>2. Bounded(k)
  BY DEF TokensOK
<1>3. /\ IsCode(g)' /\ grant'[g].consumed /\ grant'[g].consent = grant[g].consent
      /\ grant'[g].session = s
  BY <1>1, <1>2 DEF GrantsOnward, Bounded
<1>4. oauthSession'[s].expires = oauthSession[s].expires
  BY <1>1 DEF OAuthOnward
<1>5. (SessionOf(k))' = s
  BY <1>3 DEF SessionOf
<1> HIDE DEF s
<1> QED BY <1>2, <1>3, <1>4, <1>5 DEF Bounded, IsCode, s

\* Tokens stand when grants and OAuth sessions go onward.
LEMMA KeepTokens ==
  ASSUME BrowserTyped, Codes, TokensOK, UNCHANGED token, GrantsOnward, OAuthOnward
  PROVE  TokensOK'
<1>1. ASSUME NEW k \in Tokens PROVE Bounded(k)'
  <2>1. CASE token[k] # NoToken
    BY <2>1, KeepBounded
  <2>2. CASE token[k] = NoToken
    BY <2>2 DEF Bounded
  <2> QED BY <2>1, <2>2
<1> QED BY <1>1 DEF TokensOK

\* A binding or a tenant that no longer stands does not come back.
LEMMA NoComeback ==
  ASSUME BrowserTyped, SignIns, Onward, NEW s \in Sessions, signedIn'[s] = signedIn[s],
         ~CheckSIWESession(s)
  PROVE  ~(CheckSIWESession(s))'
<1> DEFINE a == signedIn[s]
<1>1. a # NotSignedIn /\ SignIn(s) /\ a.binding \in Bindings
  BY SignedFacts DEF CheckSIWESession, SignIns
<1>2. SUFFICES ASSUME tenant' = "ACTIVE", binding'[a.binding].status = "ACTIVE",
                      binding'[a.binding].version = a.version
               PROVE  FALSE
  BY <1>1 DEF CheckSIWESession
<1>3. tenant = "ACTIVE"
  BY <1>1, <1>2 DEF SignIn, Onward, TenantOnward
<1>4. binding'[a.binding] = binding[a.binding]
  BY <1>1, <1>2 DEF SignIn, Onward, BindingsOnward
<1> QED BY <1>1, <1>2, <1>3, <1>4 DEF CheckSIWESession

\* A bearer request that does not move: what failed it still fails it.
LEMMA KeepChecked ==
  ASSUME BrowserTyped, BrowserTyped', SignIns, Codes, TokensOK, Onward, GrantsOnward, TokensOnward,
         clock' >= clock,
         \A s \in Sessions : session[s].state = "AUTHENTICATED" => signedIn'[s] = signedIn[s],
         NEW x \in Checks, Checked(x), check'[x] = check[x]
  PROVE  Checked(x)'
<1> SUFFICES ASSUME check[x].pc # "idle" PROVE Checked(x)'
  BY DEF Checked
<1> DEFINE k == check[x].token
<1>1. k \in Tokens /\ token[k] # NoToken
  BY DEF Checked
<1>2. token'[k] # NoToken /\ token'[k].expires = token[k].expires /\ token'[k].grant = token[k].grant
  BY <1>1 DEF TokensOnward
<1>3. /\ token[k].grant \in Grants /\ grant[token[k].grant] # NoGrant
      /\ SessionOf(k) = grant[token[k].grant].session /\ SessionOf(k) \in Sessions
      /\ session[SessionOf(k)].state = "AUTHENTICATED"
  BY <1>1, TokenSession
<1>4. (SessionOf(k))' = SessionOf(k)
  BY <1>2, <1>3 DEF SessionOf, GrantsOnward
<1>5. ~CheckSIWESession(SessionOf(k)) => ~(CheckSIWESession(SessionOf(k)))'
  <2> DEFINE s == SessionOf(k)
  <2>1. s \in Sessions /\ signedIn'[s] = signedIn[s] /\ s' = s
    BY <1>3, <1>4
  <2> HIDE DEF s
  <2>2. ~CheckSIWESession(s) => ~(CheckSIWESession(s))'
    BY <2>1, NoComeback DEF CheckSIWESession
  <2> QED BY <2>1, <2>2 DEF s
<1>6. clock >= token[k].expires => clock' >= token'[k].expires
  <2>1. clock \in Nat /\ clock' \in Nat /\ token[k].expires \in Nat
    BY <1>1, TokenFacts DEF BrowserTyped
  <2> QED BY SMT, <1>2, <2>1
<1> QED BY <1>1, <1>2, <1>5, <1>6 DEF Checked

\* Bearer requests stand when everything they read goes onward.
LEMMA KeepChecks ==
  ASSUME BrowserTyped, BrowserTyped', SignIns, Codes, TokensOK, ChecksOK, Onward,
         GrantsOnward, TokensOnward, clock' >= clock, UNCHANGED check,
         \A s \in Sessions : session[s].state = "AUTHENTICATED" => signedIn'[s] = signedIn[s]
  PROVE  ChecksOK'
BY KeepChecked DEF ChecksOK

\* What is not written goes onward.
LEMMA SameOnward ==
  /\ challenge' = challenge => ChallengesOnward
  /\ session' = session => SessionsOnward
  /\ tx' = tx => TransactionsOnward
  /\ grant' = grant => GrantsOnward
  /\ token' = token => TokensOnward
  /\ oauthSession' = oauthSession => OAuthOnward
BY DEF ChallengesOnward, SessionsOnward, TransactionsOnward, GrantsOnward, TokensOnward,
       OAuthOnward, IsCode

\* The fields of a transaction row.
LEMMA TxFacts ==
  ASSUME BrowserTyped, NEW t \in Transactions
  PROVE  tx[t].status \in {None, "open", "completed"} /\ tx[t].expires \in Nat
BY DEF BrowserTyped

\* A step that writes neither sign-ins nor grants, tokens or bearer requests.
LEMMA QuietStep ==
  ASSUME Inv, Onward, proof' = proof, UNCHANGED <<world, signedIn, grant, token, check>>,
         BrowserTyped', ChallengesOnward, SessionsOnward, OAuthOnward, clock' >= clock, Decisions'
  PROVE  Inv'
<1>1. GrantsOnward /\ TokensOnward
  BY SameOnward
<1>2. SignIns'
  BY KeepSignIns DEF Inv
<1>3. Codes'
  BY KeepCodes DEF Inv
<1>4. TokensOK'
  BY <1>1, KeepTokens DEF Inv
<1>5. ChecksOK'
  BY <1>1, KeepChecks DEF Inv
<1> QED BY <1>2, <1>3, <1>4, <1>5 DEF Inv, Onward

\* Decisions stand when neither sessions nor OAuth sessions are written.
LEMMA SameDecisions ==
  ASSUME BrowserTyped, Decisions, UNCHANGED <<session, oauthSession>>, TransactionsOnward
  PROVE  Decisions'
<1>1. \A s \in Sessions : Granted(s)'
  BY SameGranted DEF Decisions
<1> QED BY <1>1, KeepDecisions DEF Decided

\* Administration and storage operations keep Inv.
LEMMA OnboardKeeps ==
  ASSUME Inv, Onboard, UNCHANGED <<browserVars, world>>
  PROVE  Inv'
<1>1. Onward /\ proof' = proof
  BY OnboardOnward DEF Inv
<1>2. UNCHANGED <<clock, tx, session, challenge, signedIn, oauthSession, grant, token, check>>
  BY DEF browserVars
<1>3. BrowserTyped' /\ clock' >= clock
  BY SMT, <1>2 DEF Inv, BrowserTyped
<1>4. ChallengesOnward /\ SessionsOnward /\ OAuthOnward /\ TransactionsOnward
  BY <1>2, SameOnward
<1>5. Decisions'
  BY <1>2, <1>4, SameDecisions DEF Inv
<1> QED BY <1>1, <1>2, <1>3, <1>4, <1>5, QuietStep

\* The clock, and retiring the client, keep Inv.
LEMMA ClockKeeps ==
  ASSUME Inv, Tick \/ RetireClient, UNCHANGED <<enrollmentVars, world>>
  PROVE  Inv'
<1>1. Onward /\ proof' = proof
  BY EnrollmentSame DEF Inv
<1>2. UNCHANGED <<tx, session, challenge, signedIn, oauthSession, grant, token, check>>
  BY DEF Tick, RetireClient
<1>3. clock' \in Nat /\ clock' >= clock
  BY SMT DEF Tick, RetireClient, Inv, BrowserTyped
<1>4. BrowserTyped'
  BY <1>2, <1>3 DEF Inv, BrowserTyped
<1>5. ChallengesOnward /\ SessionsOnward /\ OAuthOnward /\ TransactionsOnward
  BY <1>2, SameOnward
<1>6. Decisions'
  BY <1>2, <1>5, SameDecisions DEF Inv
<1> QED BY <1>1, <1>2, <1>3, <1>4, <1>5, <1>6, QuietStep

\* A new authorization request keeps Inv.
LEMMA BeginKeeps ==
  ASSUME Inv, NEW t \in Transactions, Begin(t), UNCHANGED <<enrollmentVars, world>>
  PROVE  Inv'
<1> DEFINE row == [status |-> "open", expires |-> clock + TransactionLifetime]
<1>1. Onward /\ proof' = proof
  BY EnrollmentSame DEF Inv
<1>2. /\ UNCHANGED <<clock, session, challenge, signedIn, oauthSession, grant, token, check>>
      /\ tx[t] = NoTx /\ tx' = [tx EXCEPT ![t] = row]
  BY DEF Begin, CreateOAuthTransaction
<1>3. clock \in Nat /\ row \in [status : {None, "open", "completed"}, expires : Nat]
  BY SMT, LifetimesAssumption DEF Inv, BrowserTyped
<1> HIDE DEF row
<1>4. BrowserTyped' /\ clock' >= clock
  BY SMT, <1>2, <1>3 DEF Inv, BrowserTyped
<1>5. TransactionsOnward
  BY SMT, <1>2, NoneIsNoState DEF TransactionsOnward, NoTx, Inv, BrowserTyped
<1>6. ChallengesOnward /\ SessionsOnward /\ OAuthOnward
  BY <1>2, SameOnward
<1>7. Decisions'
  BY <1>2, <1>5, SameDecisions DEF Inv
<1> QED BY <1>1, <1>2, <1>4, <1>6, <1>7, QuietStep

\* A fresh session identifier has no row.
LEMMA FreshSessionUnused ==
  ASSUME NEW s, FreshSession(s)
  PROVE  s \in Sessions /\ session[s] = NoSession
BY DEF FreshSession, Fresh

\* A session that decided nothing is written, and no OAuth session.
LEMMA WriteOpenSession ==
  ASSUME BrowserTyped, Decisions, NEW s \in Sessions, NEW row,
         session' = [session EXCEPT ![s] = row], UNCHANGED <<oauthSession, tx>>,
         session[s].state # "AUTHENTICATED", row.state # "AUTHENTICATED", row.decision = "OPEN"
  PROVE  SessionsOnward /\ Decisions'
<1>1. session'[s] = row /\ \A o \in Sessions \ {s} : session'[o] = session[o]
  BY DEF BrowserTyped
<1>2. TransactionsOnward
  BY SameOnward
<1>3. ASSUME NEW o \in Sessions PROVE Granted(o)'
  <2>1. CASE o # s
    BY <1>1, <1>2, <2>1, SameGranted DEF Decisions
  <2>2. CASE o = s
    <3>1. oauthSession[s] = NoOAuthSession
      BY DEF Decisions, Granted
    <3>2. NoOAuthSession.revoked
      BY DEF NoOAuthSession
    <3> QED BY <1>1, <2>2, <3>1, <3>2 DEF Granted
  <2> QED BY <2>1, <2>2
<1>4. SessionsOnward
  BY <1>1 DEF SessionsOnward
<1>5. Decisions'
  BY <1>1, <1>3, KeepDecisions DEF Decided
<1> QED BY <1>4, <1>5

\* A new browser session keeps Inv.
LEMMA PrepareKeeps ==
  ASSUME Inv, NEW t \in Transactions, NEW s \in Sessions, Prepare(t, s),
         UNCHANGED <<enrollmentVars, world>>
  PROVE  Inv'
<1> DEFINE e == Min({clock + PendingLifetime, tx[t].expires})
           row == [NoSession EXCEPT !.state = "PENDING", !.tx = t, !.expires = e]
<1>1. Onward /\ proof' = proof
  BY EnrollmentSame DEF Inv
<1>2. /\ UNCHANGED <<clock, tx, challenge, signedIn, oauthSession, grant, token, check>>
      /\ FreshSession(s) /\ session' = [session EXCEPT ![s] = row]
  BY DEF Prepare, Start, CreateBrowserSession
<1>3. e \in Nat
  <2>1. clock \in Nat /\ tx[t].expires \in Nat /\ clock + PendingLifetime \in Nat
    BY SMT, LifetimesAssumption, TxFacts DEF Inv, BrowserTyped
  <2> DEFINE T == {clock + PendingLifetime, tx[t].expires}
  <2>2. T = {clock + PendingLifetime, tx[t].expires, tx[t].expires}
    OBVIOUS
  <2> HIDE DEF T
  <2>3. Min(T) \in Nat
    BY <2>1, <2>2, MinIsLeast
  <2> QED BY <2>3 DEF T
<1> HIDE DEF e
<1>4. row \in SessionRecs /\ row.state = "PENDING" /\ row.decision = "OPEN"
  BY <1>3 DEF SessionRecs, NoSession
<1> HIDE DEF row
<1>5. session[s] = NoSession /\ session[s].state # "AUTHENTICATED"
  BY <1>2, FreshSessionUnused, SessionFacts DEF Inv
<1>6. BrowserTyped' /\ clock' >= clock
  BY SMT, <1>2, <1>4 DEF Inv, BrowserTyped
<1>7. SessionsOnward /\ Decisions'
  BY <1>2, <1>4, <1>5, WriteOpenSession DEF Inv
<1>8. ChallengesOnward /\ OAuthOnward
  BY <1>2, SameOnward
<1> QED BY <1>1, <1>2, <1>6, <1>7, <1>8, QuietStep

\* Deleting an expired pending session keeps Inv.
LEMMA CleanupKeeps ==
  ASSUME Inv, NEW s \in Sessions, CleanupBrowserSessions(s), UNCHANGED <<enrollmentVars, world>>
  PROVE  Inv'
<1>1. Onward /\ proof' = proof
  BY EnrollmentSame DEF Inv
<1>2. /\ UNCHANGED <<clock, tx, challenge, signedIn, oauthSession, grant, token, check>>
      /\ session[s].state = "PENDING" /\ session' = [session EXCEPT ![s] = NoSession]
  BY DEF CleanupBrowserSessions
<1>3. NoSession.state # "AUTHENTICATED" /\ NoSession.decision = "OPEN"
  BY NoneIsNoState DEF NoSession
<1>4. BrowserTyped' /\ clock' >= clock
  BY SMT, <1>2 DEF Inv, BrowserTyped
<1>5. SessionsOnward /\ Decisions'
  BY <1>2, <1>3, WriteOpenSession DEF Inv
<1>6. ChallengesOnward /\ OAuthOnward
  BY <1>2, SameOnward
<1> QED BY <1>1, <1>2, <1>4, <1>5, <1>6, QuietStep

\* What a logout or a rotation does to the OAuth session.
LEMMA RevokeBrowserFacts ==
  ASSUME BrowserTyped, NEW s \in Sessions
  PROVE  /\ RevokeBrowser(s) \in [Sessions -> [expires : Nat, revoked : BOOLEAN]]
         /\ \A o \in Sessions : RevokeBrowser(s)[o].expires = oauthSession[o].expires
         /\ \A o \in Sessions \ {s} : RevokeBrowser(s)[o] = oauthSession[o]
         /\ session[s].state # "AUTHENTICATED" => RevokeBrowser(s)[s] = oauthSession[s]
         /\ session[s].state = "AUTHENTICATED" => RevokeBrowser(s)[s].revoked
         /\ oauthSession[s] = NoOAuthSession => RevokeBrowser(s)[s] = NoOAuthSession
<1> DEFINE Rows == [expires : Nat, revoked : BOOLEAN]
           n == [oauthSession[s] EXCEPT !.revoked = TRUE]
<1>1. oauthSession \in [Sessions -> Rows]
  BY DEF BrowserTyped
<1>2. /\ n \in Rows /\ n.revoked = TRUE /\ n.expires = oauthSession[s].expires
      /\ oauthSession[s] = NoOAuthSession => n = NoOAuthSession
  <2>1. oauthSession[s] \in Rows
    BY <1>1
  <2>2. n.revoked = TRUE
    BY <2>1
  <2>3. n.expires = oauthSession[s].expires
    BY <2>1
  <2>4. n \in Rows
    BY <2>1
  <2>5. n = [expires |-> n.expires, revoked |-> n.revoked]
    <3> HIDE DEF n
    <3> QED BY <2>4
  <2>6. oauthSession[s] = NoOAuthSession => n = NoOAuthSession
    BY SMT, <2>2, <2>3, <2>5 DEF NoOAuthSession
  <2> QED BY <2>2, <2>3, <2>4, <2>6
<1>3. RevokeBrowser(s) = IF session[s].state = "AUTHENTICATED" THEN [oauthSession EXCEPT ![s] = n]
                         ELSE oauthSession
  BY DEF RevokeBrowser
<1> HIDE DEF n, Rows
<1>4. CASE session[s].state = "AUTHENTICATED"
  <2>1. RevokeBrowser(s) = [oauthSession EXCEPT ![s] = n]
    BY <1>3, <1>4
  <2>2. /\ RevokeBrowser(s) \in [Sessions -> Rows] /\ RevokeBrowser(s)[s] = n
        /\ \A o \in Sessions \ {s} : RevokeBrowser(s)[o] = oauthSession[o]
    BY <1>1, <1>2, <2>1
  <2> QED BY <1>2, <1>4, <2>2 DEF Rows
<1>5. CASE session[s].state # "AUTHENTICATED"
  BY <1>1, <1>3, <1>5 DEF Rows
<1> QED BY <1>4, <1>5

\* The session row of a logout or a rotation.
RevokedRow(s) == [session[s] EXCEPT !.revoked = TRUE]

\* The fields of a revoked row.
LEMMA RevokedRowFacts ==
  ASSUME BrowserTyped, NEW s \in Sessions, session[s] # NoSession
  PROVE  /\ RevokedRow(s) \in SessionRecs /\ RevokedRow(s).revoked = TRUE
         /\ RevokedRow(s).state = session[s].state /\ RevokedRow(s).tx = session[s].tx
         /\ RevokedRow(s).decision = session[s].decision
<1>1. session[s] \in SessionRecs
  BY SessionFacts
<1> QED BY <1>1 DEF SessionRecs, RevokedRow

\* A revoked session has a revoked OAuth session.
LEMMA RevokedGranted ==
  ASSUME BrowserTyped, Decisions, NEW s \in Sessions, session[s] # NoSession,
         session'[s] = RevokedRow(s), oauthSession' = RevokeBrowser(s), TransactionsOnward
  PROVE  Granted(s)'
<1>1. /\ session'[s].state = session[s].state /\ session'[s].decision = session[s].decision
      /\ session'[s].tx = session[s].tx /\ session[s].tx \in Transactions
  BY RevokedRowFacts, SessionFacts
<1>2. Granted(s)
  BY DEF Decisions
<1>3. NoOAuthSession.revoked = TRUE
  BY DEF NoOAuthSession
<1>4. oauthSession'[s].revoked
  BY <1>2, <1>3, RevokeBrowserFacts DEF Granted
<1>5. /\ session'[s].state # "AUTHENTICATED" => oauthSession'[s] = NoOAuthSession
      /\ oauthSession'[s] # NoOAuthSession => session'[s].decision = "GRANTED"
  BY <1>1, <1>2, RevokeBrowserFacts DEF Granted
<1>6. session'[s].decision # "OPEN" => tx'[session'[s].tx].status = "completed"
  BY <1>1, <1>2 DEF Granted, TransactionsOnward
<1> QED BY <1>4, <1>5, <1>6 DEF Granted

\* A logout keeps Inv.
LEMMA LogoutKeeps ==
  ASSUME Inv, NEW s \in Sessions, Logout(s), UNCHANGED <<enrollmentVars, world>>
  PROVE  Inv'
<1>1. Onward /\ proof' = proof
  BY EnrollmentSame DEF Inv
<1>2. /\ UNCHANGED <<clock, tx, challenge, signedIn, grant, token, check>>
      /\ session[s] # NoSession /\ oauthSession' = RevokeBrowser(s)
      /\ session' = [session EXCEPT ![s] = RevokedRow(s)]
  BY DEF Logout, Load, RevokeBrowserSession, RevokedRow
<1>3. BrowserTyped
  BY DEF Inv
<1>4. /\ session' \in [Sessions -> {NoSession} \cup SessionRecs] /\ session'[s] = RevokedRow(s)
      /\ \A o \in Sessions \ {s} : session'[o] = session[o]
  BY <1>2, <1>3, RevokedRowFacts DEF BrowserTyped
<1>5. oauthSession' \in [Sessions -> [expires : Nat, revoked : BOOLEAN]] /\ OAuthOnward
  BY <1>2, <1>3, RevokeBrowserFacts DEF OAuthOnward
<1>6. BrowserTyped' /\ clock' >= clock
  BY SMT, <1>2, <1>3, <1>4, <1>5 DEF BrowserTyped
<1>7. SessionsOnward
  BY <1>2, <1>3, <1>4, RevokedRowFacts DEF SessionsOnward
<1>8. TransactionsOnward /\ ChallengesOnward
  BY <1>2, SameOnward
<1>9. ASSUME NEW o \in Sessions PROVE Granted(o)'
  <2>1. CASE o = s
    BY <1>2, <1>3, <1>4, <1>8, <2>1, RevokedGranted DEF Inv
  <2>2. CASE o # s
    BY <1>2, <1>3, <1>4, <1>8, <2>2, SameGranted, RevokeBrowserFacts DEF Inv, Decisions
  <2> QED BY <2>1, <2>2
<1>10. \A o \in Sessions : Decided(o)' => session'[o].tx = session[o].tx /\ Decided(o)
  BY <1>2, <1>3, <1>4, RevokedRowFacts DEF Decided
<1>11. Decisions'
  BY <1>3, <1>9, <1>10, KeepDecisions DEF Inv
<1> QED BY <1>1, <1>2, <1>5, <1>6, <1>7, <1>8, <1>11, QuietStep

\* A rotation revokes one session and writes an undecided one in a fresh place.
LEMMA RotateSteps ==
  ASSUME BrowserTyped, Decisions, NEW s \in Sessions, session[s] # NoSession, NEW next,
         NEW u \in Users, NEW e \in Nat, Rotate(s, next, u, e), UNCHANGED tx
  PROVE  /\ next \in Sessions /\ session[next] = NoSession
         /\ session' \in [Sessions -> {NoSession} \cup SessionRecs]
         /\ oauthSession' \in [Sessions -> [expires : Nat, revoked : BOOLEAN]]
         /\ session'[next].state = "AUTHENTICATED"
         /\ SessionsOnward /\ OAuthOnward /\ Decisions'
<1> DEFINE row == [NoSession EXCEPT !.state = "AUTHENTICATED", !.tx = session[s].tx,
                                    !.user = u, !.expires = e]
<1>1. next \in Sessions /\ session[next] = NoSession
  BY FreshSessionUnused DEF Rotate
<1>2. session[s].tx \in Transactions
  BY SessionFacts
<1>3. /\ row \in SessionRecs /\ row.state = "AUTHENTICATED" /\ row.decision = "OPEN"
      /\ row.revoked = FALSE
  BY <1>2 DEF SessionRecs, NoSession
<1>4. session' = [session EXCEPT ![s] = RevokedRow(s), ![next] = row]
  BY DEF Rotate, RevokedRow
<1>5. oauthSession' = RevokeBrowser(s)
  BY DEF Rotate
<1> HIDE DEF row
<1>6. /\ session' \in [Sessions -> {NoSession} \cup SessionRecs] /\ session'[s] = RevokedRow(s)
      /\ session'[next] = row /\ \A o \in Sessions \ {s, next} : session'[o] = session[o]
  BY <1>1, <1>3, <1>4, RevokedRowFacts DEF BrowserTyped
<1>7. oauthSession' \in [Sessions -> [expires : Nat, revoked : BOOLEAN]] /\ OAuthOnward
  BY <1>5, RevokeBrowserFacts DEF OAuthOnward
<1>8. SessionsOnward
  <2> SUFFICES ASSUME NEW o \in Sessions, session[o].state = "AUTHENTICATED"
               PROVE  /\ session'[o].state = "AUTHENTICATED" /\ session'[o].tx = session[o].tx
                      /\ session[o].decision = "GRANTED" => session'[o].decision = "GRANTED"
    BY DEF SessionsOnward
  <2>1. o # next
    BY <1>1, SessionFacts
  <2>2. CASE o = s
    BY <1>6, <2>2, RevokedRowFacts
  <2>3. CASE o # s
    <3>1. session'[o] = session[o]
      BY <1>6, <2>1, <2>3
    <3> QED BY <3>1
  <2> QED BY <2>2, <2>3
<1>9. TransactionsOnward
  BY SameOnward
<1>10. ASSUME NEW o \in Sessions PROVE Granted(o)'
  <2>1. CASE o = s
    BY <1>5, <1>6, <1>9, <2>1, RevokedGranted
  <2>2. CASE o = next
    <3>1. oauthSession[next] = NoOAuthSession
      BY <1>1, SessionFacts DEF Decisions, Granted
    <3>2. oauthSession'[next] = NoOAuthSession
      BY <1>1, <1>5, <3>1, RevokeBrowserFacts
    <3> QED BY <1>3, <1>6, <2>2, <3>2 DEF Granted
  <2>3. CASE o \notin {s, next}
    BY <1>5, <1>6, <1>9, <2>3, SameGranted, RevokeBrowserFacts DEF Decisions
  <2> QED BY <2>1, <2>2, <2>3
<1>11. ASSUME NEW o \in Sessions, Decided(o)' PROVE session'[o].tx = session[o].tx /\ Decided(o)
  <2>1. CASE o = s
    BY <1>6, <1>11, <2>1, RevokedRowFacts DEF Decided
  <2>2. CASE o = next
    BY <1>3, <1>6, <1>11, <2>2 DEF Decided
  <2>3. CASE o \notin {s, next}
    <3>1. session'[o] = session[o]
      BY <1>6, <2>3
    <3> QED BY <1>11, <3>1 DEF Decided
  <2> QED BY <2>1, <2>2, <2>3
<1>12. Decisions'
  BY <1>10, <1>11, KeepDecisions
<1> QED BY <1>1, <1>3, <1>6, <1>7, <1>8, <1>12

\* Sign-in through a verifier keeps Inv.
LEMMA AuthenticateKeeps ==
  ASSUME Inv, NEW s \in Sessions, NEW next \in Sessions, NEW u \in Users,
         NEW until \in {clock + 1, clock + SessionLifetime}, Authenticate(s, next, u, until),
         UNCHANGED <<enrollmentVars, world>>
  PROVE  Inv'
<1> DEFINE T == {clock + SessionLifetime, until}
<1>1. Onward /\ proof' = proof
  BY EnrollmentSame DEF Inv
<1>2. /\ UNCHANGED <<clock, tx, challenge, signedIn, grant, token, check>>
      /\ session[s] # NoSession /\ Rotate(s, next, u, Min(T))
  BY DEF Authenticate, RotateBrowserSession, Load
<1>3. Min(T) \in Nat
  <2>1. clock + SessionLifetime \in Nat /\ until \in Nat
    BY SMT, LifetimesAssumption DEF Inv, BrowserTyped
  <2>2. T = {clock + SessionLifetime, until, until}
    OBVIOUS
  <2> HIDE DEF T
  <2> QED BY <2>1, <2>2, MinIsLeast
<1> HIDE DEF T
<1>4. /\ session' \in [Sessions -> {NoSession} \cup SessionRecs]
      /\ oauthSession' \in [Sessions -> [expires : Nat, revoked : BOOLEAN]]
      /\ SessionsOnward /\ OAuthOnward /\ Decisions'
  BY <1>2, <1>3, RotateSteps DEF Inv
<1>5. BrowserTyped' /\ clock' >= clock
  BY SMT, <1>2, <1>4 DEF BrowserTyped, Inv
<1>6. ChallengesOnward
  BY <1>2, SameOnward
<1> QED BY <1>1, <1>2, <1>4, <1>5, <1>6, QuietStep

\* The transaction is completed by a decision.
LEMMA TxCompleted ==
  ASSUME BrowserTyped, NEW t \in Transactions, tx' = [tx EXCEPT ![t].status = "completed"]
  PROVE  /\ tx' \in [Transactions -> [status : {None, "open", "completed"}, expires : Nat]]
         /\ TransactionsOnward /\ tx'[t].status = "completed"
<1> DEFINE row == [tx[t] EXCEPT !.status = "completed"]
<1>1. row \in [status : {None, "open", "completed"}, expires : Nat] /\ row.status = "completed"
  BY DEF BrowserTyped
<1>2. tx' = [tx EXCEPT ![t] = row]
  OBVIOUS
<1> HIDE DEF row
<1> QED BY <1>1, <1>2 DEF BrowserTyped, TransactionsOnward

DecidedRow(s, d) == [session[s] EXCEPT !.decision = d]

\* The fields of a decided row.
LEMMA DecidedRowFacts ==
  ASSUME BrowserTyped, NEW s \in Sessions, session[s] # NoSession, NEW d \in {"GRANTED", "DENIED"}
  PROVE  /\ DecidedRow(s, d) \in SessionRecs /\ DecidedRow(s, d).revoked = session[s].revoked
         /\ DecidedRow(s, d).state = session[s].state /\ DecidedRow(s, d).tx = session[s].tx
         /\ DecidedRow(s, d).decision = d
<1>1. session[s] \in SessionRecs
  BY SessionFacts
<1> QED BY <1>1 DEF SessionRecs, DecidedRow

\* A session decides on its open transaction; its OAuth session stays or is inserted.
LEMMA DecideSteps ==
  ASSUME BrowserTyped, Decisions, NEW s \in Sessions, session[s] # NoSession, session[s].decision = "OPEN",
         tx[session[s].tx].status = "open", NEW d \in {"GRANTED", "DENIED"},
         session' = [session EXCEPT ![s] = DecidedRow(s, d)],
         tx' = [tx EXCEPT ![session[s].tx].status = "completed"],
         \A o \in Sessions \ {s} : oauthSession'[o] = oauthSession[o],
         oauthSession'[s] # NoOAuthSession =>
           session[s].state = "AUTHENTICATED" /\ d = "GRANTED" /\ ~session[s].revoked
  PROVE  /\ session' \in [Sessions -> {NoSession} \cup SessionRecs]
         /\ session'[s] = DecidedRow(s, d) /\ \A o \in Sessions \ {s} : session'[o] = session[o]
         /\ tx' \in [Transactions -> [status : {None, "open", "completed"}, expires : Nat]]
         /\ SessionsOnward /\ OAuthOnward /\ Decisions'
<1>1. session[s].tx \in Transactions
  BY SessionFacts
<1>2. /\ tx' \in [Transactions -> [status : {None, "open", "completed"}, expires : Nat]]
      /\ TransactionsOnward /\ tx'[session[s].tx].status = "completed"
  BY <1>1, TxCompleted
<1>3. /\ session' \in [Sessions -> {NoSession} \cup SessionRecs] /\ session'[s] = DecidedRow(s, d)
      /\ \A o \in Sessions \ {s} : session'[o] = session[o]
  BY DecidedRowFacts DEF BrowserTyped
<1>4. SessionsOnward
  BY <1>3, DecidedRowFacts DEF SessionsOnward
<1>5. OAuthOnward
  BY DEF OAuthOnward
<1>6. ASSUME NEW o \in Sessions PROVE Granted(o)'
  <2>1. CASE o = s
    <3>1. NoOAuthSession.revoked = TRUE
      BY DEF NoOAuthSession
    <3> QED BY SMT, <1>2, <1>3, <2>1, <3>1, DecidedRowFacts DEF Granted
  <2>2. CASE o # s
    BY <1>2, <1>3, <2>2, SameGranted DEF Decisions
  <2> QED BY <2>1, <2>2
<1>7. \A o \in Sessions : Decided(o)' =>
        /\ session'[o].tx = session[o].tx
        /\ Decided(o) \/ (o = s /\ tx[session[o].tx].status = "open")
  BY <1>3, DecidedRowFacts DEF Decided
<1>8. Decisions'
  BY SMT, <1>6, <1>7, KeepDecisions
<1> QED BY <1>2, <1>3, <1>4, <1>5, <1>8

\* A denial keeps Inv.
LEMMA DenyKeeps ==
  ASSUME Inv, NEW s \in Sessions, Deny(s), UNCHANGED <<enrollmentVars, world>>
  PROVE  Inv'
<1>1. Onward /\ proof' = proof
  BY EnrollmentSame DEF Inv
<1>2. /\ UNCHANGED <<clock, challenge, signedIn, oauthSession, grant, token, check>>
      /\ session[s] # NoSession /\ session[s].decision = "OPEN"
      /\ tx[session[s].tx].status = "open"
      /\ session' = [session EXCEPT ![s] = DecidedRow(s, "DENIED")]
      /\ tx' = [tx EXCEPT ![session[s].tx].status = "completed"]
  BY DEF Deny, Load, DenyBrowserConsent, LockBrowserTransaction, DecidedRow
<1>3. oauthSession'[s] = NoOAuthSession
  BY <1>2 DEF Inv, Decisions, Granted
<1>4. /\ session' \in [Sessions -> {NoSession} \cup SessionRecs]
      /\ tx' \in [Transactions -> [status : {None, "open", "completed"}, expires : Nat]]
      /\ SessionsOnward /\ OAuthOnward /\ Decisions'
  BY <1>2, <1>3, DecideSteps DEF Inv
<1>5. BrowserTyped' /\ clock' >= clock
  BY SMT, <1>2, <1>4 DEF BrowserTyped, Inv
<1>6. ChallengesOnward
  BY <1>2, SameOnward
<1> QED BY <1>1, <1>2, <1>4, <1>5, <1>6, QuietStep

\* A step that writes neither sign-ins nor bearer requests.
LEMMA IssueStep ==
  ASSUME Inv, Onward, proof' = proof, UNCHANGED <<world, signedIn, check>>, BrowserTyped',
         ChallengesOnward, SessionsOnward, GrantsOnward, TokensOnward, clock' >= clock,
         Decisions', Codes', TokensOK'
  PROVE  Inv'
<1>1. SignIns'
  BY KeepSignIns DEF Inv
<1>2. ChecksOK'
  BY KeepChecks DEF Inv
<1> QED BY <1>1, <1>2 DEF Inv, Onward

\* A consent request, before its transaction, keeps Inv.
LEMMA GrantKeeps ==
  ASSUME Inv, NEW s \in Sessions, NEW g \in Grants, Complete(g, s),
         UNCHANGED <<enrollmentVars, world>>
  PROVE  Inv'
<1> DEFINE Unused == {x \in Grants \cap 1..world.grants : grant[x] = NoGrant}
           T == {clock + CodeLifetime, tx[session[s].tx].expires, session[s].expires}
           row == [NoGrant EXCEPT !.pc = "started", !.session = s, !.issued = clock,
                                  !.expires = Min(T)]
<1>1. Onward /\ proof' = proof
  BY EnrollmentSame DEF Inv
<1>2. /\ UNCHANGED <<clock, tx, session, challenge, signedIn, oauthSession, token, check>>
      /\ Fresh(g, Unused) /\ session[s] # NoSession /\ session[s].state = "AUTHENTICATED"
      /\ grant' = [grant EXCEPT ![g] = row]
  BY DEF Complete, AuthorizeBrowser, Load
<1>3. BrowserTyped
  BY DEF Inv
<1>4. grant[g] = NoGrant
  BY <1>2 DEF Fresh
<1>5. Min(T) \in Nat /\ clock \in Nat
  <2>1. clock \in Nat /\ {clock + CodeLifetime, tx[session[s].tx].expires, session[s].expires} \subseteq Nat
    <3>1. clock \in Nat
      BY <1>3 DEF BrowserTyped
    <3>2. session[s].tx \in Transactions /\ session[s].expires \in Nat
      BY <1>2, <1>3, SessionFacts
    <3>3. tx[session[s].tx].expires \in Nat
      BY <1>3, <3>2, TxFacts
    <3> QED BY SMT, <3>1, <3>2, <3>3, LifetimesAssumption
  <2> QED BY <2>1, MinIsLeast
<1> HIDE DEF T
<1>6. row \in GrantRecs /\ row.pc = "started" /\ row.session = s /\ row # NoGrant
  BY <1>5 DEF GrantRecs, NoGrant
<1> HIDE DEF row
<1>7. /\ grant' \in [Grants -> {NoGrant} \cup GrantRecs] /\ grant'[g] = row
      /\ \A h \in Grants \ {g} : grant'[h] = grant[h]
  BY <1>2, <1>3, <1>6 DEF BrowserTyped
<1>8. BrowserTyped' /\ clock' >= clock
  BY SMT, <1>2, <1>3, <1>7 DEF BrowserTyped
<1>9. GrantsOnward
  BY <1>4, <1>7 DEF GrantsOnward, IsCode
<1>10. ChallengesOnward /\ SessionsOnward /\ TransactionsOnward /\ TokensOnward /\ OAuthOnward
  BY <1>2, SameOnward
<1>11. Decisions'
  BY <1>2, <1>3, <1>10, SameDecisions DEF Inv
<1>12. Codes'
  <2>1. ASSUME NEW h \in Grants PROVE Code(h)' /\ (IsCode(h)' => h # g /\ IsCode(h))
    BY <1>2, <1>6, <1>7 DEF Code, IsCode, Inv, Codes
  <2> QED BY <1>2, <1>7, <2>1 DEF Codes, Inv
<1>13. TokensOK'
  BY <1>2, <1>3, <1>9, <1>10, KeepTokens DEF Inv
<1> QED BY <1>1, <1>2, <1>8, <1>9, <1>10, <1>11, <1>12, <1>13, IssueStep

\* The granting transaction keeps Inv: no other code has this transaction.
LEMMA ConsentKeeps ==
  ASSUME Inv, NEW g \in Grants, CompleteOAuthAuthorization(g), UNCHANGED <<enrollmentVars, world>>
  PROVE  Inv'
<1> DEFINE s == grant[g].session
           row == [expires |-> session[s].expires, revoked |-> FALSE]
           T == {session[s].expires, row.expires}
           code == [grant[g] EXCEPT !.pc = "granted", !.consent = Min(T)]
<1>1. Onward /\ proof' = proof
  BY EnrollmentSame DEF Inv
<1>2. BrowserTyped
  BY DEF Inv
<1>3. /\ UNCHANGED <<clock, challenge, signedIn, token, check>> /\ grant[g].pc = "started"
      /\ session[s] # NoSession /\ ~session[s].revoked
      /\ session[s].state = "AUTHENTICATED" /\ session[s].decision = "OPEN"
      /\ tx[session[s].tx].status = "open"
      /\ session' = [session EXCEPT ![s] = DecidedRow(s, "GRANTED")]
      /\ tx' = [tx EXCEPT ![session[s].tx].status = "completed"]
  BY DEF CompleteOAuthAuthorization, MayGrant, LockBrowser, LockBrowserTransaction, DecidedRow
<1>4. grant[g] \in GrantRecs /\ grant[g] # NoGrant /\ s \in Sessions
  BY <1>2, <1>3, GrantFacts
<1>5. oauthSession[s] = NoOAuthSession
  BY <1>3, <1>4 DEF Inv, Decisions, Granted
<1>6. oauthSession' = [oauthSession EXCEPT ![s] = row] /\ grant' = [grant EXCEPT ![g] = code]
  BY <1>5 DEF CompleteOAuthAuthorization
<1>7. row \in [expires : Nat, revoked : BOOLEAN] /\ Min(T) \in Nat
  <2>1. session[s].expires \in Nat
    BY <1>2, <1>3, <1>4, SessionFacts
  <2>2. row.expires \in Nat /\ T = {session[s].expires, row.expires, row.expires}
    BY <2>1
  <2>3. Min(T) \in Nat
    <3> HIDE DEF T, row
    <3> QED BY <2>1, <2>2, MinIsLeast
  <2> QED BY <2>1, <2>3
<1> HIDE DEF T, row
<1>8. /\ code \in GrantRecs /\ code.pc = "granted" /\ code.session = s /\ code # NoGrant
      /\ code.consumed = grant[g].consumed
  BY <1>4, <1>7 DEF GrantRecs, NoGrant
<1> HIDE DEF code, s
<1>9. /\ oauthSession' \in [Sessions -> [expires : Nat, revoked : BOOLEAN]]
      /\ \A o \in Sessions \ {s} : oauthSession'[o] = oauthSession[o]
  BY <1>2, <1>4, <1>6, <1>7 DEF BrowserTyped
<1>10. /\ session' \in [Sessions -> {NoSession} \cup SessionRecs]
       /\ session'[s] = DecidedRow(s, "GRANTED")
       /\ \A o \in Sessions \ {s} : session'[o] = session[o]
       /\ tx' \in [Transactions -> [status : {None, "open", "completed"}, expires : Nat]]
       /\ SessionsOnward /\ OAuthOnward /\ Decisions'
  BY <1>2, <1>3, <1>4, <1>9, DecideSteps DEF Inv
<1>11. /\ grant' \in [Grants -> {NoGrant} \cup GrantRecs] /\ grant'[g] = code
       /\ \A h \in Grants \ {g} : grant'[h] = grant[h]
  BY <1>2, <1>6, <1>8 DEF BrowserTyped
<1>12. BrowserTyped' /\ clock' >= clock
  BY SMT, <1>2, <1>3, <1>9, <1>10, <1>11 DEF BrowserTyped
<1>13. GrantsOnward
  BY <1>3, <1>8, <1>11 DEF GrantsOnward, IsCode, s
<1>14. ChallengesOnward /\ TokensOnward
  BY <1>3, SameOnward
<1>15. Codes'
  <2>1. /\ session'[s].state = "AUTHENTICATED" /\ session'[s].decision = "GRANTED"
        /\ session'[s].tx = session[s].tx
    BY <1>2, <1>3, <1>4, <1>10, DecidedRowFacts
  <2>2. ASSUME NEW h \in Grants \ {g}, grant[h] # NoGrant
        PROVE  /\ grant[h].session \in Sessions /\ session[grant[h].session].state = "AUTHENTICATED"
               /\ session'[grant[h].session].state = "AUTHENTICATED"
               /\ session'[grant[h].session].tx = session[grant[h].session].tx
               /\ grant[h].pc = "granted" =>
                    /\ session[grant[h].session].decision = "GRANTED"
                    /\ session'[grant[h].session].decision = "GRANTED"
    <3>1. grant[h].session \in Sessions
      BY <1>2, <2>2, GrantFacts
    <3>2. /\ session[grant[h].session].state = "AUTHENTICATED"
          /\ grant[h].pc = "granted" => session[grant[h].session].decision = "GRANTED"
      BY <2>2 DEF Inv, Codes, Code
    <3> QED BY <1>10, <3>1, <3>2 DEF SessionsOnward
  <2>3. ASSUME NEW h \in Grants PROVE Code(h)'
    BY SMT, <1>8, <1>11, <2>1, <2>2 DEF Code
  <2>4. ASSUME NEW h \in Grants \ {g}, IsCode(h) PROVE session[grant[h].session].tx # session[s].tx
    <3>1. /\ grant[h].session \in Sessions /\ session[grant[h].session].decision = "GRANTED"
      BY <2>2, <2>4 DEF IsCode
    <3>2. tx[session[grant[h].session].tx].status = "completed"
      BY <3>1 DEF Inv, Decisions, Granted
    <3> QED BY <1>3, <3>2
  <2>5. ASSUME NEW h \in Grants, NEW other \in Grants, IsCode(h)', IsCode(other)',
               session'[grant'[h].session].tx = session'[grant'[other].session].tx
        PROVE  h = other
    <3>1. CASE h # g /\ other # g
      <4>1. IsCode(h) /\ IsCode(other)
        BY <1>11, <2>5, <3>1 DEF IsCode
      <4>2. session[grant[h].session].tx = session[grant[other].session].tx
        BY <1>11, <2>2, <2>5, <3>1, <4>1 DEF IsCode
      <4> QED BY <4>1, <4>2 DEF Inv, Codes
    <3>2. CASE h = g /\ other # g
      <4>1. IsCode(other)
        BY <1>11, <2>5, <3>2 DEF IsCode
      <4>2. session[grant[other].session].tx = session[s].tx
        BY SMT, <1>8, <1>11, <2>1, <2>2, <2>5, <3>2, <4>1 DEF IsCode
      <4> QED BY <2>4, <3>2, <4>1, <4>2
    <3>3. CASE h # g /\ other = g
      <4>1. IsCode(h)
        BY <1>11, <2>5, <3>3 DEF IsCode
      <4>2. session[grant[h].session].tx = session[s].tx
        BY <1>8, <1>11, <2>1, <2>2, <2>5, <3>3, <4>1 DEF IsCode
      <4> QED BY <2>4, <3>3, <4>1, <4>2
    <3> QED BY <3>1, <3>2, <3>3
  <2> QED BY <2>3, <2>5 DEF Codes
<1>16. TokensOK'
  BY <1>2, <1>3, <1>10, <1>13, KeepTokens DEF Inv
<1> QED BY <1>1, <1>3, <1>10, <1>12, <1>13, <1>14, <1>15, <1>16, IssueStep

\* The row of a grant that is consumed or revoked.
LEMMA MarkedGrant ==
  ASSUME BrowserTyped, Codes, NEW g \in Grants, grant[g] # NoGrant, NEW row,
         row \in { [grant[g] EXCEPT !.consumed = TRUE], [grant[g] EXCEPT !.revoked = TRUE] },
         grant' = [grant EXCEPT ![g] = row], SessionsOnward
  PROVE  /\ grant' \in [Grants -> {NoGrant} \cup GrantRecs]
         /\ GrantsOnward /\ Codes'
         /\ grant'[g] = row /\ \A h \in Grants \ {g} : grant'[h] = grant[h]
<1>1. grant[g] \in GrantRecs /\ NoGrant.pc = "idle" /\ grant[g].pc # "idle"
  BY GrantFacts DEF NoGrant
<1>2. /\ row \in GrantRecs /\ row.pc = grant[g].pc /\ row.session = grant[g].session
      /\ row.consent = grant[g].consent /\ (grant[g].consumed => row.consumed)
  <2>1. CASE row = [grant[g] EXCEPT !.consumed = TRUE]
    BY <1>1, <2>1 DEF GrantRecs
  <2>2. CASE row = [grant[g] EXCEPT !.revoked = TRUE]
    BY <1>1, <2>2 DEF GrantRecs
  <2> QED BY <2>1, <2>2
<1>3. row # NoGrant
  BY <1>1, <1>2
<1>4. /\ grant' \in [Grants -> {NoGrant} \cup GrantRecs] /\ grant'[g] = row
      /\ \A h \in Grants \ {g} : grant'[h] = grant[h]
  BY <1>2 DEF BrowserTyped
<1>5. GrantsOnward
  BY <1>2, <1>3, <1>4 DEF GrantsOnward, IsCode
<1>6. Codes'
  BY <1>2, <1>4, KeepCodes
<1> QED BY <1>4, <1>5, <1>6

\* Redeeming a code keeps Inv: it had no token before.
LEMMA ExchangeKeeps ==
  ASSUME Inv, NEW g \in Grants, NEW k \in Tokens, Exchange(g, k), UNCHANGED <<enrollmentVars, world>>
  PROVE  Inv'
<1> DEFINE s == grant[g].session
           T == {grant[g].consent, oauthSession[s].expires} \cup {clock + TokenLifetime}
           Unused == {x \in Tokens \cap 1..world.tokens : token[x] = NoToken}
           spent == [grant[g] EXCEPT !.consumed = TRUE]
           row == [grant |-> g, issued |-> clock, revoked |-> FALSE, expires |-> Min(T)]
<1>1. Onward /\ proof' = proof
  BY EnrollmentSame DEF Inv
<1>2. BrowserTyped
  BY DEF Inv
<1>3. /\ UNCHANGED <<clock, tx, session, challenge, signedIn, oauthSession, check>>
      /\ grant[g].pc = "granted" /\ ~grant[g].consumed /\ Fresh(k, Unused)
      /\ grant' = [grant EXCEPT ![g] = spent] /\ token' = [token EXCEPT ![k] = row]
  BY DEF Exchange, RedeemOAuthCode, FreshToken
<1>4. /\ grant[g] # NoGrant /\ grant[g] \in GrantRecs /\ s \in Sessions
      /\ grant[g].consent \in Nat
  BY <1>2, <1>3, GrantFacts
<1>5. spent.consumed = TRUE /\ spent.consent = grant[g].consent /\ spent.session = s
  BY <1>4 DEF GrantRecs
<1>6. token[k] = NoToken
  BY <1>3 DEF Fresh
<1>7. /\ clock \in Nat /\ Min(T) \in Nat
      /\ Min(T) <= grant[g].consent /\ Min(T) <= oauthSession[s].expires
  <2>1. clock \in Nat /\ oauthSession[s].expires \in Nat
    BY <1>2, <1>4 DEF BrowserTyped
  <2>2. /\ grant[g].consent \in Nat /\ clock + TokenLifetime \in Nat
        /\ T = {grant[g].consent, oauthSession[s].expires, clock + TokenLifetime}
    BY SMT, <1>4, <2>1, LifetimesAssumption
  <2>3. grant[g].consent \in T /\ oauthSession[s].expires \in T
    BY <2>2
  <2> HIDE DEF T
  <2> QED BY <2>1, <2>2, <2>3, MinIsLeast
<1> HIDE DEF T
<1>8. row \in TokenRecs /\ row.grant = g /\ row.expires = Min(T) /\ row # NoToken
  BY <1>7, NoneIsNoKey DEF TokenRecs, NoToken
<1> HIDE DEF row
<1>9. /\ SessionsOnward /\ ChallengesOnward /\ TransactionsOnward /\ OAuthOnward
  BY <1>3, SameOnward
<1>10. /\ grant' \in [Grants -> {NoGrant} \cup GrantRecs] /\ GrantsOnward /\ Codes'
       /\ grant'[g] = spent /\ \A h \in Grants \ {g} : grant'[h] = grant[h]
  BY <1>2, <1>3, <1>4, <1>9, MarkedGrant DEF Inv
<1> HIDE DEF spent
<1>11. /\ token' \in [Tokens -> {NoToken} \cup TokenRecs] /\ token'[k] = row
       /\ \A j \in Tokens \ {k} : token'[j] = token[j]
  BY <1>2, <1>3, <1>8 DEF BrowserTyped
<1>12. BrowserTyped' /\ clock' >= clock
  BY SMT, <1>2, <1>3, <1>10, <1>11 DEF BrowserTyped
<1>13. TokensOnward
  BY <1>6, <1>11 DEF TokensOnward
<1>14. Decisions'
  BY <1>2, <1>3, <1>9, SameDecisions DEF Inv
<1>15. IsCode(g)'
  BY <1>3, <1>4, <1>10 DEF IsCode, GrantsOnward
<1>16. TokensOK'
  <2>1. ASSUME NEW j \in Tokens PROVE Bounded(j)'
    <3>1. CASE j = k
      <4>1. token'[k].grant = g /\ token'[k].expires = Min(T) /\ (SessionOf(k))' = s
        BY <1>5, <1>8, <1>10, <1>11 DEF SessionOf
      <4> QED BY SMT, <1>3, <1>5, <1>7, <1>10, <1>15, <3>1, <4>1 DEF Bounded, IsCode
    <3>2. CASE j # k /\ token[j] # NoToken
      BY <1>2, <1>9, <1>10, <1>11, <3>2, KeepBounded DEF Inv
    <3>3. CASE j # k /\ token[j] = NoToken
      BY <1>11, <3>3 DEF Bounded
    <3> QED BY <3>1, <3>2, <3>3
  <2>2. ASSUME NEW j \in Tokens \ {k} PROVE token[j].grant # g
    <3>1. token[j] # NoToken => Bounded(j)
      BY DEF Inv, TokensOK
    <3>2. token[j] # NoToken /\ token[j].grant = g => grant[g].consumed
      BY <3>1 DEF Bounded
    <3>3. token[j] = NoToken => token[j].grant # g
      BY <1>2, TokenFacts, NoneIsNoKey
    <3> QED BY <1>3, <3>2, <3>3
  <2>3. ASSUME NEW j \in Tokens, NEW other \in Tokens, token'[j] # NoToken,
               token'[other].grant = token'[j].grant
        PROVE  other = j
    <3>1. CASE j # k /\ other # k
      BY <1>11, <2>3, <3>1 DEF Inv, TokensOK
    <3> QED BY <1>8, <1>11, <2>2, <2>3, <3>1
  <2> QED BY <2>1, <2>3 DEF TokensOK
<1> QED BY <1>1, <1>3, <1>9, <1>10, <1>12, <1>13, <1>14, <1>16, IssueStep

\* Revoking a consent, a token or an OAuth session keeps Inv.
LEMMA RevokeKeeps ==
  ASSUME Inv, RevokeOAuthAuthority, UNCHANGED <<enrollmentVars, world>>
  PROVE  Inv'
<1>1. Onward /\ proof' = proof
  BY EnrollmentSame DEF Inv
<1>2. BrowserTyped
  BY DEF Inv
<1>3. UNCHANGED <<clock, tx, session, challenge, signedIn, check>>
  BY DEF RevokeOAuthAuthority
<1>4. SessionsOnward /\ ChallengesOnward /\ TransactionsOnward
  BY <1>3, SameOnward
<1>5. ASSUME NEW g \in Grants, grant[g].pc = "granted", UNCHANGED <<token, oauthSession>>,
             grant' = [grant EXCEPT ![g].revoked = TRUE]
      PROVE  Inv'
  <2>1. grant[g] # NoGrant
    BY <1>2, <1>5, GrantFacts
  <2>2. grant' = [grant EXCEPT ![g] = [grant[g] EXCEPT !.revoked = TRUE]]
    BY <1>5
  <2>3. grant' \in [Grants -> {NoGrant} \cup GrantRecs] /\ GrantsOnward /\ Codes'
    BY <1>2, <1>4, <2>1, <2>2, MarkedGrant DEF Inv
  <2>4. BrowserTyped' /\ clock' >= clock
    BY SMT, <1>2, <1>3, <1>5, <2>3 DEF BrowserTyped
  <2>5. OAuthOnward /\ TokensOnward
    BY <1>5, SameOnward
  <2>6. Decisions'
    BY <1>2, <1>3, <1>4, <1>5, SameDecisions DEF Inv
  <2>7. TokensOK'
    BY <1>2, <1>5, <2>3, <2>5, KeepTokens DEF Inv
  <2> QED BY <1>1, <1>3, <1>4, <2>3, <2>4, <2>5, <2>6, <2>7, IssueStep
<1>6. ASSUME NEW k \in Tokens, token[k] # NoToken, UNCHANGED <<grant, oauthSession>>,
             token' = [token EXCEPT ![k].revoked = TRUE]
      PROVE  Inv'
  <2> DEFINE row == [token[k] EXCEPT !.revoked = TRUE]
  <2>1. token[k] \in TokenRecs
    BY <1>2, <1>6, TokenFacts
  <2>2. row \in TokenRecs /\ row.grant = token[k].grant /\ row.expires = token[k].expires
    BY <2>1 DEF TokenRecs
  <2>3. token' = [token EXCEPT ![k] = row] /\ row # NoToken
    BY <1>6, <2>2, NoneIsNoKey DEF TokenRecs, NoToken
  <2> HIDE DEF row
  <2>4. /\ token' \in [Tokens -> {NoToken} \cup TokenRecs] /\ token'[k] = row
        /\ \A j \in Tokens \ {k} : token'[j] = token[j]
    BY <1>2, <2>2, <2>3 DEF BrowserTyped
  <2>5. BrowserTyped' /\ clock' >= clock
    BY SMT, <1>2, <1>3, <1>6, <2>4 DEF BrowserTyped
  <2>6. TokensOnward
    BY <2>2, <2>3, <2>4 DEF TokensOnward
  <2>7. GrantsOnward /\ OAuthOnward
    BY <1>6, SameOnward
  <2>8. Decisions'
    BY <1>2, <1>3, <1>4, <1>6, SameDecisions DEF Inv
  <2>9. Codes'
    BY <1>2, <1>4, <1>6, KeepCodes DEF Inv
  <2>10. ASSUME NEW j \in Tokens PROVE Bounded(j)'
    <3>1. CASE token[j] # NoToken
      BY <1>2, <2>2, <2>4, <2>7, <3>1, KeepBounded DEF Inv
    <3>2. CASE token[j] = NoToken
      BY <1>6, <2>4, <3>2 DEF Bounded
    <3> QED BY <3>1, <3>2
  <2>11. TokensOK'
    BY SMT, <1>6, <2>2, <2>4, <2>10 DEF Inv, TokensOK
  <2> QED BY <1>1, <1>3, <1>4, <2>5, <2>6, <2>7, <2>8, <2>9, <2>11, IssueStep
<1>7. ASSUME NEW s \in Sessions, ~oauthSession[s].revoked, UNCHANGED <<grant, token>>,
             oauthSession' = [oauthSession EXCEPT ![s].revoked = TRUE]
      PROVE  Inv'
  <2> DEFINE row == [oauthSession[s] EXCEPT !.revoked = TRUE]
  <2>1. oauthSession[s] \in [expires : Nat, revoked : BOOLEAN]
    BY <1>2 DEF BrowserTyped
  <2>2. row \in [expires : Nat, revoked : BOOLEAN]
    BY <2>1
  <2>3. row.revoked = TRUE
    BY <2>1
  <2>4. row.expires = oauthSession[s].expires
    BY <2>1
  <2>5. oauthSession' = [oauthSession EXCEPT ![s] = row]
    BY <1>7
  <2> HIDE DEF row
  <2>6. /\ oauthSession' \in [Sessions -> [expires : Nat, revoked : BOOLEAN]]
        /\ oauthSession'[s] = row /\ \A o \in Sessions \ {s} : oauthSession'[o] = oauthSession[o]
    BY <1>2, <2>2, <2>5 DEF BrowserTyped
  <2>7. BrowserTyped' /\ clock' >= clock
    BY SMT, <1>2, <1>3, <1>7, <2>6 DEF BrowserTyped
  <2>8. OAuthOnward
    BY <2>4, <2>6 DEF OAuthOnward
  <2>9. oauthSession[s] # NoOAuthSession
    BY SMT, <1>7 DEF NoOAuthSession
  <2>10. ASSUME NEW o \in Sessions PROVE Granted(o)'
    <3>1. CASE o = s
      BY <1>3, <2>3, <2>6, <2>9, <3>1 DEF Granted, Inv, Decisions
    <3>2. CASE o # s
      BY <1>2, <1>3, <1>4, <2>6, <3>2, SameGranted DEF Inv, Decisions
    <3> QED BY <3>1, <3>2
  <2>11. Decisions'
    BY <1>2, <1>3, <2>10, KeepDecisions DEF Inv, Decided
  <2> QED BY <1>1, <1>3, <1>4, <1>7, <2>7, <2>8, <2>11, QuietStep
<1> QED BY <1>5, <1>6, <1>7 DEF RevokeOAuthAuthority

\* A bearer request moves and nothing else does.
LEMMA CheckStep ==
  ASSUME Inv, UNCHANGED <<enrollmentVars, world>>, NEW x \in Checks, NEW row \in CheckRecs,
         UNCHANGED <<clock, clientActive, tx, session, challenge, signedIn, oauthSession, grant, token>>,
         check' = [check EXCEPT ![x] = row],
         row.pc # "idle" => row.token \in Tokens /\ token[row.token] # NoToken,
         row.pc = "binding" /\ ~row.stood =>
           \/ ~CheckSIWESession(SessionOf(row.token)) \/ clock >= token[row.token].expires,
         row.pc \in {"identity", "admitted"} => row.stood
  PROVE  Inv'
<1>1. Onward /\ proof' = proof
  BY EnrollmentSame DEF Inv
<1>2. BrowserTyped
  BY DEF Inv
<1>3. /\ check' \in [Checks -> CheckRecs] /\ check'[x] = row
      /\ \A y \in Checks \ {x} : check'[y] = check[y]
  BY <1>2 DEF BrowserTyped
<1>4. BrowserTyped' /\ clock' >= clock
  BY SMT, <1>2, <1>3 DEF BrowserTyped
<1>5. /\ SessionsOnward /\ ChallengesOnward /\ TransactionsOnward /\ OAuthOnward /\ GrantsOnward
      /\ TokensOnward
  BY SameOnward
<1>6. Decisions'
  BY <1>2, <1>5, SameDecisions DEF Inv
<1>7. Codes' /\ TokensOK'
  BY <1>2, <1>5, KeepCodes, KeepTokens DEF Inv
<1>8. SignIns'
  BY <1>1, <1>2, <1>5, KeepSignIns DEF Inv
<1>9. ASSUME NEW y \in Checks PROVE Checked(y)'
  <2>1. CASE y # x
    BY <1>1, <1>2, <1>3, <1>4, <1>5, <2>1, KeepChecked DEF Inv, ChecksOK
  <2>2. CASE y = x
    <3>1. row.token \in Tokens => (CheckSIWESession(SessionOf(row.token)))' =
                                   CheckSIWESession(SessionOf(row.token))
      BY DEF CheckSIWESession, SessionOf, enrollmentVars
    <3> QED BY <1>3, <2>2, <3>1 DEF Checked, CheckSIWESession, SessionOf, enrollmentVars
  <2> QED BY <2>1, <2>2
<1> QED BY <1>1, <1>4, <1>6, <1>7, <1>8, <1>9 DEF Inv, Onward, ChecksOK

\* Where the first statement passes, only the binding can be missing.
LEMMA PassedStands ==
  ASSUME Inv, NEW x \in Checks, check[x].pc = "token", ValidateOAuthAccessToken(x),
         CheckSIWESession(SessionOf(check[x].token)), clock < token[check[x].token].expires
  PROVE  Stands(check[x].token)
<1> DEFINE k == check[x].token
           g == token[k].grant
           s == SessionOf(k)
<1>1. BrowserTyped /\ Codes /\ TokensOK /\ Checked(x)
  BY DEF Inv, ChecksOK
<1>2. k \in Tokens /\ token[k] # NoToken
  BY <1>1 DEF Checked
<1>3. g \in Grants /\ grant[g] # NoGrant /\ s \in Sessions
  BY <1>1, <1>2, TokenSession
<1>4. token[k].expires <= grant[g].consent /\ token[k].expires <= oauthSession[s].expires
  BY <1>1, <1>2 DEF TokensOK, Bounded
<1>5. /\ clock \in Nat /\ token[k].expires \in Nat /\ grant[g].consent \in Nat
      /\ oauthSession[s].expires \in Nat
  BY <1>1, <1>2, <1>3, TokenFacts, GrantFacts DEF BrowserTyped
<1>6. clock < grant[g].consent /\ clock < oauthSession[s].expires
  BY SMT, <1>4, <1>5
<1> QED BY <1>6 DEF ValidateOAuthAccessToken, Stands

\* The statements of a bearer request keep Inv.
LEMMA HandlerKeeps ==
  ASSUME Inv, NEW x \in Checks, Handler(x), UNCHANGED <<enrollmentVars, world>>
  PROVE  Inv'
<1>1. UNCHANGED <<clock, clientActive, tx, session, challenge, signedIn, oauthSession, grant, token>>
  BY DEF Handler
<1>2. check[x] \in CheckRecs /\ Checked(x) /\ clock \in Nat
  BY DEF Inv, BrowserTyped, ChecksOK
<1>3. ASSUME NEW k \in Tokens, Receive(x, k) PROVE Inv'
  <2> DEFINE row == [pc |-> "token", token |-> k, at |-> clock, stood |-> FALSE]
  <2>1. /\ row \in CheckRecs /\ row.pc = "token" /\ row.token = k
        /\ token[k] # NoToken /\ check' = [check EXCEPT ![x] = row]
    BY <1>2, <1>3 DEF Receive, CheckRecs
  <2> HIDE DEF row
  <2> QED BY <1>1, <2>1, CheckStep
<1>4. CASE ValidateToken(x)
  <2> DEFINE k == check[x].token
             row == [check[x] EXCEPT !.pc = "binding", !.stood = Stands(k)]
  <2>1. check[x].pc = "token" /\ ValidateOAuthAccessToken(x) /\ check' = [check EXCEPT ![x] = row]
    BY <1>4 DEF ValidateToken
  <2>2. k \in Tokens /\ token[k] # NoToken
    BY <1>2, <2>1 DEF Checked
  <2>3. Stands(k) \in BOOLEAN
    BY DEF Stands
  <2>4. row \in CheckRecs /\ row.pc = "binding" /\ row.token = k
    BY <1>2, <2>3 DEF CheckRecs
  <2>5. row.stood = Stands(k)
    BY <1>2 DEF CheckRecs
  <2> HIDE DEF row
  <2>6. ~row.stood => ~CheckSIWESession(SessionOf(k)) \/ ~(clock < token[k].expires)
    BY <2>1, <2>5, PassedStands
  <2>7. ~row.stood => ~CheckSIWESession(SessionOf(k)) \/ clock >= token[k].expires
    <3>1. token[k].expires \in Nat
      BY <2>2, TokenFacts DEF Inv
    <3>2. ~(clock < token[k].expires) => clock >= token[k].expires
      BY SMT, <1>2, <3>1
    <3> QED BY <2>6, <3>2
  <2> QED BY <1>1, <2>1, <2>2, <2>4, <2>7, CheckStep
<1>5. CASE ValidateOAuthToken(x)
  <2> DEFINE row == [check[x] EXCEPT !.pc = "identity"]
  <2>1. /\ check[x].pc = "binding" /\ CheckSIWESession(SessionOf(check[x].token))
        /\ clock < token[check[x].token].expires /\ check' = [check EXCEPT ![x] = row]
    BY <1>5 DEF ValidateOAuthToken, Next1
  <2>2. /\ row \in CheckRecs /\ row.pc = "identity" /\ row.token = check[x].token
        /\ row.stood = check[x].stood
    BY <1>2 DEF CheckRecs
  <2> HIDE DEF row
  <2>3. check[x].token \in Tokens /\ token[check[x].token] # NoToken
    BY <1>2, <2>1 DEF Checked
  <2>4. ~(clock >= token[check[x].token].expires)
    <3>1. token[check[x].token].expires \in Nat
      BY <2>3, TokenFacts DEF Inv
    <3> QED BY SMT, <1>2, <2>1, <3>1
  <2>5. check[x].stood
    BY <1>2, <2>1, <2>4 DEF Checked
  <2> QED BY <1>1, <2>1, <2>2, <2>3, <2>5, CheckStep
<1>6. CASE ResolveIdentity(x)
  <2> DEFINE row == [check[x] EXCEPT !.pc = "admitted"]
  <2>1. check[x].pc = "identity" /\ check' = [check EXCEPT ![x] = row]
    BY <1>6 DEF ResolveIdentity, Next1
  <2>2. /\ row \in CheckRecs /\ row.pc = "admitted" /\ row.token = check[x].token
        /\ row.stood = check[x].stood
    BY <1>2 DEF CheckRecs
  <2> HIDE DEF row
  <2>3. check[x].token \in Tokens /\ token[check[x].token] # NoToken /\ check[x].stood
    BY <1>2, <2>1 DEF Checked
  <2> QED BY <1>1, <2>1, <2>2, <2>3, CheckStep
<1>7. CASE Leave(x)
  <2>1. check' = [check EXCEPT ![x] = NoCheck] /\ NoCheck \in CheckRecs /\ NoCheck.pc = "idle"
    BY <1>7 DEF Leave, NoCheck, CheckRecs
  <2> QED BY <1>1, <2>1, CheckStep
<1> QED BY <1>3, <1>4, <1>5, <1>6, <1>7 DEF Handler

-----------------------------------------------------------------------------
(* Wallet sign-in.                                                         *)

\* Issuing a challenge keeps Inv.
LEMMA ChallengeKeeps ==
  ASSUME Inv, NEW s \in Sessions, NEW c \in Challenges, NEW b \in Bindings, Challenge(s, c, b),
         UNCHANGED world
  PROVE  Inv'
<1> DEFINE T == {clock + ChallengeLifetime, tx[session[s].tx].expires, session[s].expires}
           p == IF binding[b].status = "ACTIVE" THEN "AUTHENTICATE" ELSE "ENROLL"
           row == [session |-> s, binding |-> b, purpose |-> p, expires |-> Min(T),
                   consumed |-> FALSE]
           Unused == {x \in Challenges \cap 1..world.challenges : challenge[x] = NoChallenge}
<1>1. /\ UNCHANGED <<enrollmentVars, clock, tx, session, signedIn, oauthSession, grant, token, check>>
      /\ session[s] # NoSession /\ Fresh(c, Unused) /\ challenge' = [challenge EXCEPT ![c] = row]
  BY DEF Challenge, IssueSIWE, SIWEPending, LockBrowser
<1>2. Onward /\ proof' = proof
  BY <1>1, EnrollmentSame DEF Inv
<1>3. BrowserTyped
  BY DEF Inv
<1>4. challenge[c] = NoChallenge
  BY <1>1 DEF Fresh
<1>5. Min(T) \in Nat
  <2>1. session[s].tx \in Transactions /\ session[s].expires \in Nat
    BY <1>1, <1>3, SessionFacts
  <2>2. clock \in Nat /\ tx[session[s].tx].expires \in Nat
    BY <1>3, <2>1, TxFacts DEF BrowserTyped
  <2>3. clock + ChallengeLifetime \in Nat
    BY SMT, <2>2, LifetimesAssumption
  <2> QED BY <2>1, <2>2, <2>3, MinIsLeast
<1> HIDE DEF T
<1>6. row \in ChallengeRecs
  BY <1>5 DEF ChallengeRecs
<1> HIDE DEF row
<1>7. BrowserTyped' /\ clock' >= clock
  BY SMT, <1>1, <1>3, <1>6 DEF BrowserTyped
<1>8. ChallengesOnward
  BY <1>1, <1>3, <1>4 DEF ChallengesOnward, BrowserTyped
<1>9. SessionsOnward /\ OAuthOnward /\ TransactionsOnward
  BY <1>1, SameOnward
<1>10. Decisions'
  BY <1>1, <1>3, <1>9, SameDecisions DEF Inv
<1> QED BY <1>1, <1>2, <1>7, <1>8, <1>9, <1>10, QuietStep

\* The challenge is spent.
LEMMA Consumed ==
  ASSUME BrowserTyped, NEW c \in Challenges, challenge[c].session \in Sessions, ConsumeChallenge(c)
  PROVE  /\ challenge' \in [Challenges -> {NoChallenge} \cup ChallengeRecs] /\ ChallengesOnward
         /\ challenge[c] \in ChallengeRecs /\ challenge'[c] # NoChallenge /\ challenge'[c].consumed
         /\ challenge'[c].purpose = challenge[c].purpose
<1> DEFINE row == [challenge[c] EXCEPT !.consumed = TRUE]
<1>1. challenge[c] \in ChallengeRecs
  BY SMT, NoneIsNoKey DEF BrowserTyped, NoChallenge
<1>2. /\ row \in ChallengeRecs /\ row.purpose = challenge[c].purpose /\ row.consumed = TRUE
      /\ row.session = challenge[c].session
  BY <1>1 DEF ChallengeRecs
<1>3. challenge' = [challenge EXCEPT ![c] = row]
  BY DEF ConsumeChallenge
<1> HIDE DEF row
<1>4. row # NoChallenge
  BY SMT, <1>2, NoneIsNoKey DEF NoChallenge
<1>5. /\ challenge' \in [Challenges -> {NoChallenge} \cup ChallengeRecs] /\ challenge'[c] = row
      /\ \A d \in Challenges \ {c} : challenge'[d] = challenge[d]
  BY <1>2, <1>3 DEF BrowserTyped
<1>6. ChallengesOnward
  BY <1>2, <1>4, <1>5 DEF ChallengesOnward
<1> QED BY <1>1, <1>2, <1>4, <1>5, <1>6

\* A verified signature keeps Inv: it spends its challenge on one proof or one session.
LEMMA VerifyKeeps ==
  ASSUME Inv, NEW s \in Sessions, NEW c \in Challenges, NEW next \in Sessions,
         VerifyWallet(s, c, next), UNCHANGED world
  PROVE  Inv'
<1> DEFINE b == challenge[c].binding
<1>1. BrowserTyped /\ EnrollmentTyped /\ Enrolled /\ SignIns
  BY DEF Inv
<1>2. /\ UNCHANGED <<tenant, identity, binding, stale, approval, delegated, applied, clock,
                     tx, grant, token, check>>
      /\ world.signIn = "wallet" /\ session[s] # NoSession
      /\ challenge[c].session = s /\ ~challenge[c].consumed
      /\ Eligible(b, challenge[c].purpose) /\ ConsumeChallenge(c)
  BY DEF VerifyWallet, FinalizeSIWE, SIWEPending, LockBrowser
<1>3. /\ challenge' \in [Challenges -> {NoChallenge} \cup ChallengeRecs] /\ ChallengesOnward
      /\ challenge[c] \in ChallengeRecs /\ challenge'[c] # NoChallenge /\ challenge'[c].consumed
      /\ challenge'[c].purpose = challenge[c].purpose
  BY <1>1, <1>2, Consumed
<1>4. b \in Bindings /\ c \in Proofs
  BY <1>3 DEF ChallengeRecs, Challenges
<1>5. GrantsOnward /\ TokensOnward /\ TransactionsOnward
  BY <1>2, SameOnward
<1>6. CASE /\ challenge[c].purpose = "ENROLL" /\ RecordProof(c, b)
           /\ UNCHANGED <<session, signedIn, oauthSession>>
  <2>1. Onward /\ proof'[c] # NoProof /\ \A q \in Proofs \ {c} : proof'[q] = proof[q]
    BY <1>1, <1>2, <1>4, <1>6, RecordOnward
  <2>2. BrowserTyped' /\ clock' >= clock
    BY SMT, <1>1, <1>2, <1>3, <1>6 DEF BrowserTyped
  <2>3. SessionsOnward /\ OAuthOnward
    BY <1>6, SameOnward
  <2>4. Proving(c)'
    BY <1>3, <1>6 DEF Proving
  <2>5. SignIns'
    BY <1>1, <1>2, <1>3, <1>6, <2>1, <2>3, <2>4, KeepSignIns
  <2>6. Decisions'
    BY <1>1, <1>2, <1>5, <1>6, SameDecisions DEF Inv
  <2>7. Codes'
    BY <1>1, <1>2, <2>3, KeepCodes DEF Inv
  <2>8. TokensOK'
    BY <1>1, <1>2, <1>5, <2>3, KeepTokens DEF Inv
  <2>9. ChecksOK'
    BY <1>1, <1>2, <1>5, <1>6, <2>1, <2>2, KeepChecks DEF Inv
  <2> QED BY <2>1, <2>2, <2>5, <2>6, <2>7, <2>8, <2>9 DEF Inv, Onward
<1>7. ASSUME challenge[c].purpose = "AUTHENTICATE", HasVerifiedEnrollment(b), UNCHANGED proof,
             Rotate(s, next, binding[b].user, clock + SessionLifetime),
             signedIn' = [signedIn EXCEPT ![next] =
               [challenge |-> c, binding |-> b, version |-> binding[b].version]]
      PROVE  Inv'
  <2> DEFINE a == [challenge |-> c, binding |-> b, version |-> binding[b].version]
  <2>1. Onward /\ proof' = proof
    BY <1>1, <1>2, <1>7, EnrollmentSame DEF enrollmentVars
  <2>2. /\ binding[b] # NoBinding /\ tenant = "ACTIVE" /\ binding[b].status = "ACTIVE"
        /\ binding[b].user \in Users /\ binding[b].version = 2 /\ approval[b] # None
    BY <1>1, <1>2, <1>4, <1>7, BindingFacts
       DEF Eligible, Enrolled, BindingStage, HasVerifiedEnrollment
  <2>3. clock + SessionLifetime \in Nat
    <3>1. clock \in Nat
      BY <1>1 DEF BrowserTyped
    <3> QED BY SMT, <3>1, LifetimesAssumption
  <2>4. /\ session[next] = NoSession
        /\ session' \in [Sessions -> {NoSession} \cup SessionRecs]
        /\ oauthSession' \in [Sessions -> [expires : Nat, revoked : BOOLEAN]]
        /\ session'[next].state = "AUTHENTICATED"
        /\ SessionsOnward /\ OAuthOnward /\ Decisions'
    BY <1>1, <1>2, <1>7, <2>2, <2>3, RotateSteps DEF Inv
  <2>5. a \in SignInRecs /\ a.challenge = c /\ a.binding = b /\ a.version = 2 /\ a # NotSignedIn
    BY SMT, <1>4, <2>2, NamesAreNotNone DEF SignInRecs, NotSignedIn
  <2>6. signedIn' = [signedIn EXCEPT ![next] = a]
    BY <1>7
  <2> HIDE DEF a
  <2>7. /\ signedIn' \in [Sessions -> {NotSignedIn} \cup SignInRecs] /\ signedIn'[next] = a
        /\ \A o \in Sessions \ {next} : signedIn'[o] = signedIn[o]
    BY <1>1, <2>5, <2>6 DEF BrowserTyped
  <2>8. BrowserTyped' /\ clock' >= clock
    BY SMT, <1>1, <1>2, <1>3, <2>4, <2>7 DEF BrowserTyped
  <2>9. ASSUME NEW p \in Proofs PROVE Proving(p)'
    BY <1>1, <1>3, <2>1 DEF SignIns, Proving, ChallengesOnward, Challenges
  <2>10. ASSUME NEW o \in Sessions PROVE SignIn(o)'
    <3>1. CASE o = next
      BY <1>2, <1>3, <1>7, <2>2, <2>4, <2>5, <2>7, <3>1 DEF SignIn
    <3>2. CASE o # next /\ signedIn[o] # NotSignedIn
      <4>1. SignIn(o) /\ signedIn[o].challenge \in Challenges /\ signedIn[o].binding \in Bindings
        BY <1>1, <3>2, SignedFacts DEF SignIns
      <4>2. /\ challenge'[signedIn[o].challenge] # NoChallenge
            /\ challenge'[signedIn[o].challenge].consumed
            /\ challenge'[signedIn[o].challenge].purpose = "AUTHENTICATE"
        BY <1>3, <3>2, <4>1 DEF SignIn, ChallengesOnward
      <4>3. session'[o].state = "AUTHENTICATED"
        BY <2>4, <3>2, <4>1 DEF SignIn, SessionsOnward
      <4> QED BY <1>2, <2>7, <3>2, <4>1, <4>2, <4>3 DEF SignIn
    <3>3. CASE o # next /\ signedIn[o] = NotSignedIn
      BY <2>7, <3>3 DEF SignIn
    <3> QED BY <3>1, <3>2, <3>3
  <2>11. ASSUME NEW o \in Sessions PROVE signedIn[o].challenge # c
    <3>1. signedIn[o] # NotSignedIn => SignIn(o)
      BY <1>1 DEF SignIns
    <3>2. None # c
      BY <1>4, NamesAreNotNone
    <3> QED BY <1>1, <1>2, <3>1, <3>2, SignedFacts DEF SignIn
  <2>12. ASSUME NEW o \in Sessions, NEW other \in Sessions, signedIn'[o] # NotSignedIn,
                signedIn'[other].challenge = signedIn'[o].challenge
         PROVE  other = o
    <3>1. CASE o # next /\ other # next
      BY <1>1, <2>7, <2>12, <3>1 DEF SignIns
    <3> QED BY <2>5, <2>7, <2>11, <2>12, <3>1
  <2>13. SignIns'
    BY <2>9, <2>10, <2>12 DEF SignIns
  <2>14. Codes'
    BY <1>1, <1>2, <2>4, KeepCodes DEF Inv
  <2>15. TokensOK'
    BY <1>1, <1>2, <1>5, <2>4, KeepTokens DEF Inv
  <2>16. \A o \in Sessions : session[o].state = "AUTHENTICATED" => signedIn'[o] = signedIn[o]
    BY <1>1, <2>4, <2>7, SessionFacts
  <2>17. ChecksOK'
    BY <1>1, <1>2, <1>5, <2>1, <2>8, <2>16, KeepChecks DEF Inv
  <2> QED BY <2>1, <2>4, <2>8, <2>13, <2>14, <2>15, <2>17 DEF Inv, Onward
<1> QED BY <1>6, <1>7 DEF VerifyWallet, FinalizeSIWE

-----------------------------------------------------------------------------
(* The invariant, and what it gives.                                       *)

\* Inv holds initially.
LEMMA InitInv ==
  Init => Inv
<1> SUFFICES ASSUME Init PROVE Inv
  OBVIOUS
<1>1. /\ tenant \in {None, "ACTIVE"} /\ identity \in [Users -> IdentityStatuses \cup {None}]
      /\ binding = [b \in Bindings |-> NoBinding] /\ proof = [p \in Proofs |-> NoProof]
      /\ approval = [b \in Bindings |-> None]
  BY DEF Init, EnrollmentInit, Provisioned, IdentityStatuses
<1>2. EnrollmentTyped
  BY <1>1 DEF EnrollmentTyped
<1>3. Enrolled
  BY <1>1 DEF Enrolled, BindingStage, Approved, ProofMade
<1>4. /\ clock = 0 /\ tx = [t \in Transactions |-> NoTx]
      /\ session = [s \in Sessions |-> NoSession]
      /\ challenge = [c \in Challenges |-> NoChallenge]
      /\ signedIn = [s \in Sessions |-> NotSignedIn]
      /\ oauthSession = [s \in Sessions |-> NoOAuthSession]
      /\ grant = [g \in Grants |-> NoGrant] /\ token = [k \in Tokens |-> NoToken]
      /\ check = [x \in Checks |-> NoCheck]
  BY DEF Init
<1>5. /\ NoTx \in [status : {None, "open", "completed"}, expires : Nat]
      /\ NoOAuthSession \in [expires : Nat, revoked : BOOLEAN] /\ NoCheck \in CheckRecs
  BY DEF NoTx, NoOAuthSession, NoCheck, CheckRecs
<1>6. BrowserTyped
  BY <1>4, <1>5 DEF BrowserTyped
<1>7. SignIns
  BY <1>1, <1>4 DEF SignIns, Proving, SignIn
<1>8. Decisions
  <2>1. NoSession.decision = "OPEN" /\ NoSession.revoked = FALSE
    BY DEF NoSession
  <2> QED BY <1>4, <2>1 DEF Decisions, Granted, Decided
<1>9. Codes
  BY <1>4 DEF Codes, Code, IsCode
<1>10. TokensOK
  BY <1>4 DEF TokensOK, Bounded
<1>11. ChecksOK
  BY <1>4 DEF ChecksOK, Checked, NoCheck
<1> QED BY <1>2, <1>3, <1>6, <1>7, <1>8, <1>9, <1>10, <1>11 DEF Inv

\* Every step keeps Inv.
LEMMA NextInv ==
  Inv /\ [Next]_vars => Inv'
<1> SUFFICES ASSUME Inv, [Next]_vars PROVE Inv'
  OBVIOUS
<1>1. ASSUME Browse, UNCHANGED enrollmentVars, UNCHANGED world PROVE Inv'
  <2>1. CASE \E t \in Transactions : Begin(t)
    BY <1>1, <2>1, BeginKeeps
  <2>2. CASE \E t \in Transactions, s \in Sessions : Prepare(t, s)
    BY <1>1, <2>2, PrepareKeeps
  <2>3. CASE \E s, next \in Sessions, u \in Users, until \in {clock + 1, clock + SessionLifetime} :
               Authenticate(s, next, u, until)
    BY <1>1, <2>3, AuthenticateKeeps
  <2>4. CASE \E s \in Sessions : CleanupBrowserSessions(s)
    BY <1>1, <2>4, CleanupKeeps
  <2>5. CASE \E g \in Grants : CompleteOAuthAuthorization(g)
    BY <1>1, <2>5, ConsentKeeps
  <2>6. CASE \E g \in Grants, k \in Tokens : Exchange(g, k)
    BY <1>1, <2>6, ExchangeKeeps
  <2>7. CASE RevokeOAuthAuthority
    BY <1>1, <2>7, RevokeKeeps
  <2>8. CASE \E x \in Checks : Handler(x)
    BY <1>1, <2>8, HandlerKeeps
  <2>9. CASE Tick \/ RetireClient
    BY <1>1, <2>9, ClockKeeps
  <2> QED BY <1>1, <2>1, <2>2, <2>3, <2>4, <2>5, <2>6, <2>7, <2>8, <2>9 DEF Browse
<1>2. ASSUME Onboard, UNCHANGED browserVars, UNCHANGED world PROVE Inv'
  BY <1>2, OnboardKeeps
<1>3. ASSUME NEW r \in ServedRequests, ServeHTTP(r), UNCHANGED world PROVE Inv'
  <2>0. r.cookie \in Sessions
    BY DEF ServedRequests, BrowserRequests
  <2>1. CASE \E c \in Challenges, b \in Bindings : Challenge(r.cookie, c, b)
    BY <1>3, <2>0, <2>1, ChallengeKeeps
  <2>2. CASE \E c \in Challenges, next \in Sessions : VerifyWallet(r.cookie, c, next)
    BY <1>3, <2>0, <2>2, VerifyKeeps
  <2>3. CASE Grant(r.cookie) /\ UNCHANGED enrollmentVars
    BY <1>3, <2>0, <2>3, GrantKeeps DEF Grant
  <2>4. CASE Deny(r.cookie) /\ UNCHANGED enrollmentVars
    BY <1>3, <2>0, <2>4, DenyKeeps
  <2>5. CASE Logout(r.cookie) /\ UNCHANGED enrollmentVars
    BY <1>3, <2>0, <2>5, LogoutKeeps
  <2> QED BY <1>3, <2>1, <2>2, <2>3, <2>4, <2>5 DEF ServeHTTP, WalletAction
<1>4. CASE UNCHANGED vars
  <2>1. /\ UNCHANGED enrollmentVars /\ world' = world
        /\ UNCHANGED <<clock, tx, session, challenge, signedIn, oauthSession, grant, token, check>>
    BY <1>4 DEF vars, browserVars
  <2>2. Onward /\ proof' = proof
    BY <2>1, EnrollmentSame DEF Inv
  <2>3. BrowserTyped' /\ clock' >= clock
    BY SMT, <2>1 DEF Inv, BrowserTyped
  <2>4. ChallengesOnward /\ SessionsOnward /\ OAuthOnward /\ TransactionsOnward
    BY <2>1, SameOnward
  <2>5. Decisions'
    BY <2>1, <2>4, SameDecisions DEF Inv
  <2> QED BY <2>1, <2>2, <2>3, <2>4, <2>5, QuietStep
<1> QED BY <1>1, <1>2, <1>3, <1>4 DEF Next

\* Inv holds of every reachable state.
THEOREM AuthorityInvariant == Spec => []Inv
<1>1. Init => Inv
  BY InitInv
<1>2. Inv /\ [Next]_vars => Inv'
  BY NextInv
<1> QED BY <1>1, <1>2, PTL DEF Spec

\* An admitted bearer request's token had all of its authority at the moment of
\* the first of the three statements that checked it, although no transaction
\* spans them and revocations, logouts, clock ticks and administration run in
\* between (ValidateOAuthAccessToken, ValidateOAuthToken, the identity resolver).
THEOREM AdmittedCallsStood == Spec => []AdmittedStood
<1>1. Inv => AdmittedStood
  BY DEF Inv, ChecksOK, Checked, AdmittedStood
<1> QED BY <1>1, AuthorityInvariant, PTL

\* Logging out, or rotating, a browser session revokes the OAuth session granted
\* from it, in whatever order consent and logout are served (RevokeBrowserSession,
\* RotateBrowserSession, CompleteOAuthAuthorization).
THEOREM LogoutIsComplete == Spec => []LogoutReachesTokens
<1>1. Inv => LogoutReachesTokens
  BY DEF Inv, Decisions, Granted, LogoutReachesTokens
<1> QED BY <1>1, AuthorityInvariant, PTL

\* A wallet signs a session in only at the version that the administrator's approval
\* of its owner's proof made ACTIVE, and each challenge serves one session or one
\* proof (FinalizeSIWE, hasVerifiedEnrollment, admin_activate_wallet).
THEOREM SignInsRestOnProof == Spec => []AuthorityRestsOnProof
<1>1. Inv => AuthorityRestsOnProof
  <2> SUFFICES ASSUME Inv PROVE AuthorityRestsOnProof
    OBVIOUS
  <2>1. ASSUME NEW b \in Bindings, approval[b] # None
        PROVE  /\ approval[b] \in Proofs /\ proof[approval[b]] # NoProof
               /\ proof[approval[b]].binding = b /\ proof[approval[b]].version = 1
               /\ proof[approval[b]].user = binding[b].user /\ binding[b] # NoBinding
    <3>1. approval[b] \in Proofs
      BY <2>1 DEF Inv, EnrollmentTyped
    <3>2. proof[approval[b]] # NoProof /\ proof[approval[b]].binding = b
      BY <2>1 DEF Inv, Enrolled, Approved
    <3> QED BY <3>1, <3>2 DEF Inv, Enrolled, ProofMade
  <2>2. ASSUME NEW b \in Bindings, HasVerifiedEnrollment(b)
        PROVE  /\ binding[b].status = "ACTIVE" /\ approval[b] # None
               /\ proof[approval[b]].binding = b /\ proof[approval[b]].user = binding[b].user
               /\ binding[b].version = 2
    <3>1. /\ approval[b] # None /\ binding[b].verification = approval[b]
          /\ binding[b].version = proof[approval[b]].version + 1
      BY <2>2 DEF HasVerifiedEnrollment
    <3>2. binding[b].version = 2 /\ binding[b].verification # None
      BY SMT, <2>1, <3>1
    <3>3. binding[b].status = "ACTIVE"
      BY SMT, <2>1, <3>1, <3>2 DEF Inv, Enrolled, BindingStage
    <3> QED BY <2>1, <3>1, <3>2, <3>3
  <2>3. EnrollmentRestsOnProof
    BY <2>2 DEF EnrollmentRestsOnProof
  <2>4. ASSUME NEW s \in Sessions, signedIn[s] # NotSignedIn
        PROVE  /\ approval[signedIn[s].binding] # None
               /\ signedIn[s].version = proof[approval[signedIn[s].binding]].version + 1
               /\ proof[signedIn[s].challenge] = NoProof
    <3>1. SignIn(s) /\ signedIn[s].binding \in Bindings /\ signedIn[s].challenge \in Proofs
      BY <2>4, SignedFacts DEF Inv, SignIns, Challenges
    <3>2. approval[signedIn[s].binding] # None /\ signedIn[s].version = 2
      BY <2>4, <3>1 DEF SignIn
    <3>3. Proving(signedIn[s].challenge)
      BY <3>1 DEF Inv, SignIns
    <3>4. proof[signedIn[s].challenge] = NoProof
      BY <2>4, <3>1, <3>3 DEF SignIn, Proving
    <3> QED BY SMT, <2>1, <3>1, <3>2, <3>4
  <2>5. \A s, other \in Sessions :
          signedIn[s] # NotSignedIn /\ signedIn[other].challenge = signedIn[s].challenge => other = s
    BY DEF Inv, SignIns
  <2> QED BY <2>3, <2>4, <2>5 DEF AuthorityRestsOnProof
<1> QED BY <1>1, AuthorityInvariant, PTL

\* A consent page that is shown is one whose consent will be granted: the session
\* holds, its transaction is open, and no OAuth session stands in the way
\* (View, FindBrowserAuthentication against CompleteOAuthAuthorization).
THEOREM ViewsAreGrantable == Spec => []ViewOffersOnlyGrantable
<1>1. Inv => ViewOffersOnlyGrantable
  <2> SUFFICES ASSUME Inv, NEW s \in Sessions, View(s), identity[session[s].user] = "ACTIVE"
               PROVE  MayGrant(s) /\ oauthSession[s] = NoOAuthSession
    BY DEF ViewOffersOnlyGrantable
  <2>1. /\ LockBrowser(s) /\ session[s].state = "AUTHENTICATED"
        /\ tx[session[s].tx].status = "open" /\ LockBrowserTransaction(session[s].tx)
    BY DEF View, Load, LockBrowser, TransactionOf, FindOAuthTransaction, FindOAuthClient,
           LockBrowserTransaction
  <2>2. session[s].decision = "OPEN" /\ oauthSession[s] = NoOAuthSession
    BY <2>1 DEF Inv, Decisions, Granted
  <2>3. CheckSIWESession(s)
    <3>1. CASE signedIn[s] = NotSignedIn
      BY <3>1 DEF CheckSIWESession
    <3>2. CASE signedIn[s] # NotSignedIn
      <4>1. world.signIn = "wallet"
        BY <3>2 DEF Inv, SignIns, SignIn
      <4> QED BY <4>1 DEF View, FindBrowserAuthentication
    <3> QED BY <3>1, <3>2
  <2> QED BY <2>1, <2>2, <2>3 DEF MayGrant
<1> QED BY <1>1, AuthorityInvariant, PTL

\* A transaction is decided once and has at most one code, none after a denial; a code
\* is exchanged for at most one token; and no token outlives its consent or its OAuth
\* session, however grants, denials, retries and exchanges race
\* (CompleteOAuthAuthorization, DenyBrowserConsent, RedeemOAuthCode).
THEOREM ConsentsSpentOnce == Spec => []ConsentIsSpentOnce
<1>1. Inv => ConsentIsSpentOnce
  <2> SUFFICES ASSUME Inv PROVE ConsentIsSpentOnce
    OBVIOUS
  <2>1. ASSUME NEW t \in Transactions
        PROVE  LET decided == {s \in Sessions : session[s].tx = t /\ session[s].decision # "OPEN"}
                   codes == {g \in Grants : grant[g].pc = "granted"
                                              /\ session[grant[g].session].tx = t}
               IN  /\ \A s, other \in decided : s = other
                   /\ \A g, other \in codes : g = other
                   /\ \A g \in codes : session[grant[g].session].decision = "GRANTED"
    <3> DEFINE decided == {s \in Sessions : session[s].tx = t /\ session[s].decision # "OPEN"}
               codes == {g \in Grants : grant[g].pc = "granted"
                                          /\ session[grant[g].session].tx = t}
    <3>1. \A x, y \in decided : x = y
      BY DEF Inv, Decisions, Decided
    <3>2. ASSUME NEW g \in codes PROVE IsCode(g) /\ session[grant[g].session].decision = "GRANTED"
      <4>1. g \in Grants /\ grant[g] # NoGrant /\ grant[g].pc = "granted"
        BY <3>2, GrantFacts DEF Inv
      <4> QED BY <4>1 DEF Inv, Codes, Code, IsCode
    <3>3. \A x, y \in codes : x = y
      BY <3>2 DEF Inv, Codes
    <3> QED BY <3>1, <3>2, <3>3
  <2>2. ASSUME NEW k \in Tokens, token[k] # NoToken
        PROVE  /\ \A other \in Tokens : token[other].grant = token[k].grant => other = k
               /\ token[k].expires <= grant[token[k].grant].consent
               /\ token[k].expires <= oauthSession[SessionOf(k)].expires
    BY <2>2 DEF Inv, TokensOK, Bounded
  <2> QED BY <2>1, <2>2 DEF ConsentIsSpentOnce
<1> QED BY <1>1, AuthorityInvariant, PTL
=============================================================================
