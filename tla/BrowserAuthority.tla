-------------------------- MODULE BrowserAuthority --------------------------
(***************************************************************************)
(* From an OAuth authorization request to an admitted MCP call: browser    *)
(* sessions, wallet sign-in, consent, codes, access tokens and the checks  *)
(* of a bearer request (internal/oauth, internal/browser, internal/siwe,   *)
(* internal/http, internal/requestauth and their PostgreSQL repositories), *)
(* on top of the enrollment of the wallets that sign in.                   *)
(*                                                                         *)
(* A repository transaction holds the rows it reads until it commits and   *)
(* samples the clock under those locks: it is one step.  What a request    *)
(* computes before its transaction (the times of a code), and the          *)
(* statements that validate a token outside any transaction, are steps of  *)
(* their own.  A request that is denied changes nothing.                   *)
(***************************************************************************)
EXTENDS Enrollment

CONSTANTS Transactions, Sessions,
          Grants,      \* consent requests; each names its consent and its code
          Tokens,
          Checks,      \* bearer requests to the MCP endpoint
          TransactionLifetime, PendingLifetime, SessionLifetime, CodeLifetime,
          TokenLifetime, ChallengeLifetime, ChallengeLimit,
          MaxTime      \* bound: the last instant of any world

Challenges == Proofs

ASSUME NoneIsNoKey ==
  None \notin Transactions \cup Sessions \cup Grants \cup Tokens \cup Checks
ASSUME NoneIsNoState == None \notin {"open", "completed", "AUTHENTICATED"}
ASSUME LifetimesAssumption ==
  {TransactionLifetime, PendingLifetime, SessionLifetime, CodeLifetime, TokenLifetime,
   ChallengeLifetime} \subseteq Nat
ASSUME KeysAreNumbers == Sessions \cup Grants \cup Tokens \subseteq Nat

VARIABLES clock, clientActive,
          tx,           \* oauth_transactions
          session,      \* browser_sessions
          challenge,    \* siwe_challenges
          signedIn,     \* siwe_authentications
          oauthSession, \* oauth_sessions
          grant,        \* a consent request and its oauth_consents and oauth_codes rows
          token,        \* oauth_access_tokens
          check         \* per bearer request: where it is, and what it has read

browserVars == <<clock, clientActive, tx, session, challenge, signedIn, oauthSession,
                 grant, token, check>>
vars == <<world, enrollmentVars, browserVars>>

Times == 0..(MaxTime + SessionLifetime)

NoTx == [status |-> None, expires |-> 0]
NoSession == [state |-> None, decision |-> "OPEN", tx |-> None, user |-> None,
              expires |-> 0, revoked |-> FALSE]
NoChallenge == [session |-> None, binding |-> None, purpose |-> None, expires |-> 0,
                consumed |-> FALSE]
NotSignedIn == [challenge |-> None, binding |-> None, version |-> 0]
NoOAuthSession == [expires |-> 0, revoked |-> TRUE]
NoGrant == [pc |-> "idle", session |-> None, issued |-> 0, expires |-> 0,
            consent |-> 0, consumed |-> FALSE, revoked |-> FALSE]
NoToken == [grant |-> None, issued |-> 0, expires |-> 0, revoked |-> FALSE]
NoCheck == [pc |-> "idle", token |-> None, at |-> 0, stood |-> FALSE]

TypeOK ==
  /\ EnrollmentTypeOK
  /\ clock \in 0..MaxTime /\ clientActive \in BOOLEAN
  /\ tx \in [Transactions -> [status : {None, "open", "completed"}, expires : Times]]
  /\ session \in [Sessions -> {NoSession} \cup
       [state : {"PENDING"}, decision : {"OPEN", "DENIED"}, tx : Transactions,
        user : {None}, expires : Times, revoked : BOOLEAN] \cup
       [state : {"AUTHENTICATED"}, decision : {"OPEN", "GRANTED", "DENIED"},
        tx : Transactions, user : Users, expires : Times, revoked : BOOLEAN]]
  /\ challenge \in [Challenges -> {NoChallenge} \cup
       [session : Sessions, binding : Bindings, purpose : {"ENROLL", "AUTHENTICATE"},
        expires : Times, consumed : BOOLEAN]]
  /\ signedIn \in [Sessions -> {NotSignedIn} \cup
       [challenge : Challenges, binding : Bindings, version : Nat]]
  /\ oauthSession \in [Sessions -> [expires : Times, revoked : BOOLEAN]]
  /\ grant \in [Grants -> {NoGrant} \cup
       [pc : {"started", "granted"}, session : Sessions, issued : Times,
        expires : Times, consent : Times, consumed : BOOLEAN, revoked : BOOLEAN]]
  /\ token \in [Tokens -> {NoToken} \cup
       [grant : Grants, issued : Times, expires : Times, revoked : BOOLEAN]]
  /\ check \in [Checks -> [pc : {"idle", "token", "binding", "identity", "admitted"},
                           token : Tokens \cup {None}, at : Times, stood : BOOLEAN]]

\* With a verifier, users and their tenant were provisioned through storage.
Provisioned ==
  /\ tenant = "ACTIVE" /\ identity = [u \in Users |-> "ACTIVE"]
  /\ binding = [b \in Bindings |-> NoBinding]
  /\ proof = [p \in Proofs |-> NoProof] /\ stale = {}
  /\ approval = [b \in Bindings |-> None] /\ delegated = TRUE /\ applied = {}

Init ==
  /\ world \in Worlds
  /\ IF world.signIn = "wallet" THEN EnrollmentInit ELSE Provisioned
  /\ clock = 0 /\ clientActive = TRUE
  /\ tx = [t \in Transactions |-> NoTx]
  /\ session = [s \in Sessions |-> NoSession]
  /\ challenge = [c \in Challenges |-> NoChallenge]
  /\ signedIn = [s \in Sessions |-> NotSignedIn]
  /\ oauthSession = [s \in Sessions |-> NoOAuthSession]
  /\ grant = [g \in Grants |-> NoGrant]
  /\ token = [k \in Tokens |-> NoToken]
  /\ check = [x \in Checks |-> NoCheck]

-----------------------------------------------------------------------------
(* Row locks: what a transaction finds when it holds the row.              *)

LockBrowser(s) ==
  session[s] # NoSession /\ ~session[s].revoked /\ clock < session[s].expires

\* The transaction is open, its client active, and it has not expired.
LockBrowserTransaction(t) ==
  tx[t].status = "open" /\ clientActive /\ clock < tx[t].expires

\* A session that a wallet signed in stands with the exact version of the binding.
CheckSIWESession(s) ==
  LET a == signedIn[s]
  IN a # NotSignedIn =>
     /\ tenant = "ACTIVE"
     /\ binding[a.binding].status = "ACTIVE"
     /\ binding[a.binding].version = a.version

\* Mutant of RevokeBrowser: logout leaves the OAuth session alone.
RevokeBrowserMut(s) == oauthSession

\* The OAuth session that goes with an authenticated browser session is revoked too.
RevokeBrowser(s) ==
  IF session[s].state = "AUTHENTICATED" THEN [oauthSession EXCEPT ![s].revoked = TRUE]
                                        ELSE oauthSession

-----------------------------------------------------------------------------
(* Authorization requests and browser sessions.                            *)

CreateOAuthTransaction(t, expires) ==
  tx[t] = NoTx /\ tx' = [tx EXCEPT ![t] = [status |-> "open", expires |-> expires]]

\* The client is active and the request names one of its redirects.
FindOAuthClient == clientActive

Begin(t) ==
  /\ FindOAuthClient /\ CreateOAuthTransaction(t, clock + TransactionLifetime)
  /\ UNCHANGED <<clock, clientActive, session, challenge, signedIn, oauthSession, grant,
                 token, check>>

FreshSession(s) ==
  Fresh(s, {x \in Sessions \cap 1..world.sessions : session[x] = NoSession})

CreateBrowserSession(t, s, expires) ==
  /\ LockBrowserTransaction(t) /\ FreshSession(s)
  /\ session' = [session EXCEPT ![s] =
       [NoSession EXCEPT !.state = "PENDING", !.tx = t, !.expires = expires]]

FindOAuthTransaction(t) == tx[t].status = "open"

Start(t, s) ==
  /\ FindOAuthTransaction(t) /\ clock < tx[t].expires
  /\ CreateBrowserSession(t, s, Min({clock + PendingLifetime, tx[t].expires}))

\* The authorization endpoint starts one session for the transaction it has just begun.
Prepare(t, s) ==
  /\ \A other \in Sessions : session[other].tx # t
  /\ Start(t, s)
  /\ UNCHANGED <<clock, clientActive, tx, challenge, signedIn, oauthSession, grant, token,
                 check>>

\* The old session is revoked and an authenticated one takes its place.
Rotate(s, next, user, expires) ==
  /\ FreshSession(next)
  /\ session' = [session EXCEPT
       ![s].revoked = TRUE,
       ![next] = [NoSession EXCEPT !.state = "AUTHENTICATED", !.tx = session[s].tx,
                                   !.user = user, !.expires = expires]]
  /\ oauthSession' = RevokeBrowser(s)

\* What the service finds before it calls the repository.
Load(s) == session[s] # NoSession /\ ~session[s].revoked /\ clock < session[s].expires

\* The request carries the token derived from its own session cookie.
Proof(r) == r.csrf = r.cookie

TransactionOf(s) ==
  LET t == session[s].tx
  IN FindOAuthTransaction(t) /\ clock < tx[t].expires /\ FindOAuthClient

\* Sign-in through an identity verifier, which vouches for the user until some time.
RotateBrowserSession(s, next, u, until) ==
  /\ LockBrowser(s) /\ session[s].decision = "OPEN"
  /\ session[s].state = "AUTHENTICATED" => session[s].user = u
  /\ LockBrowserTransaction(session[s].tx)
  /\ identity[u] = "ACTIVE"
  /\ Rotate(s, next, u, Min({clock + SessionLifetime, until}))

Authenticate(s, next, u, until) ==
  /\ world.signIn = "verifier" /\ Load(s) /\ TransactionOf(s) /\ until > clock
  /\ RotateBrowserSession(s, next, u, until)
  /\ UNCHANGED <<clock, clientActive, tx, challenge, signedIn, grant, token, check>>

\* Expired pending sessions that never asked for a challenge are deleted a day later.
CleanupBrowserSessions(s) ==
  /\ session[s].state = "PENDING" /\ clock > session[s].expires
  /\ \A c \in Challenges : challenge[c].session # s
  /\ session' = [session EXCEPT ![s] = NoSession]
  /\ UNCHANGED <<clock, clientActive, tx, challenge, signedIn, oauthSession, grant, token,
                 check>>

-----------------------------------------------------------------------------
(* Wallet sign-in.                                                         *)

SIWEPending(s) ==
  LockBrowser(s) /\ session[s].state = "PENDING" /\ session[s].decision = "OPEN"

Asked(s) == {c \in Challenges : challenge[c].session = s}

\* An enrolled wallet gets a challenge to sign in, a staged one to prove control.
IssueSIWE(s, c, b) ==
  LET row == binding[b]
      active == row.status = "ACTIVE"
  IN /\ SIWEPending(s) /\ LockBrowserTransaction(session[s].tx)
     /\ tenant \in {"INACTIVE", "ACTIVE"} /\ row.status \in {"PENDING", "ACTIVE"}
     /\ identity[row.user] \in {"UNKNOWN", "ACTIVE"}
     /\ active => tenant = "ACTIVE" /\ identity[row.user] = "ACTIVE"
     /\ active => HasVerifiedEnrollment(b)
     /\ Cardinality(Asked(s)) < ChallengeLimit
     /\ Fresh(c, {x \in Challenges \cap 1..world.challenges : challenge[x] = NoChallenge})
     /\ challenge' = [challenge EXCEPT ![c] =
          [session |-> s, binding |-> b,
           purpose |-> IF active THEN "AUTHENTICATE" ELSE "ENROLL",
           expires |-> Min({clock + ChallengeLifetime, tx[session[s].tx].expires,
                            session[s].expires}),
           consumed |-> FALSE]]

Challenge(s, c, b) ==
  /\ world.signIn = "wallet" /\ session[s].state = "PENDING" /\ session[s].decision = "OPEN"
  /\ IssueSIWE(s, c, b)
  /\ UNCHANGED <<enrollmentVars, clock, clientActive, tx, session, signedIn, oauthSession,
                 grant, token, check>>

ConsumeChallenge(c) == challenge' = [challenge EXCEPT ![c].consumed = TRUE]

\* The challenge carries a valid signature of its address.
FinalizeSIWE(s, c, next) ==
  LET b == challenge[c].binding
      purpose == challenge[c].purpose
  IN /\ SIWEPending(s) /\ LockBrowserTransaction(session[s].tx)
     /\ challenge[c].session = s /\ ~challenge[c].consumed /\ clock < challenge[c].expires
     /\ Eligible(b, purpose)
     /\ ConsumeChallenge(c)
     /\ \/ /\ purpose = "ENROLL" /\ RecordProof(c, b)
           /\ UNCHANGED <<session, signedIn, oauthSession>>
        \/ /\ purpose = "AUTHENTICATE" /\ HasVerifiedEnrollment(b)
           /\ Rotate(s, next, binding[b].user, clock + SessionLifetime)
           /\ signedIn' = [signedIn EXCEPT ![next] =
                [challenge |-> c, binding |-> b, version |-> binding[b].version]]
           /\ UNCHANGED proof

VerifyWallet(s, c, next) ==
  /\ world.signIn = "wallet" /\ session[s].state = "PENDING" /\ session[s].decision = "OPEN"
  /\ FinalizeSIWE(s, c, next)
  /\ UNCHANGED <<tenant, identity, binding, stale, approval, delegated, applied, clock,
                 clientActive, tx, grant, token, check>>

-----------------------------------------------------------------------------
(* Consent.                                                                *)

\* The session row, the identity and the binding, as the granting transaction checks them.
MayGrant(s) ==
  /\ LockBrowser(s)
  /\ session[s].state = "AUTHENTICATED" /\ session[s].decision = "OPEN"
  /\ LockBrowserTransaction(session[s].tx)
  /\ identity[session[s].user] = "ACTIVE" /\ CheckSIWESession(s)

AuthorizeBrowser(s) ==
  /\ Load(s) /\ session[s].state = "AUTHENTICATED" /\ session[s].decision = "OPEN"
  /\ TransactionOf(s)

\* Complete, before its transaction: the decision, and the times of the code.
Complete(g, s) ==
  /\ Fresh(g, {x \in Grants \cap 1..world.grants : grant[x] = NoGrant})
  /\ AuthorizeBrowser(s)
  /\ grant' = [grant EXCEPT ![g] =
       [NoGrant EXCEPT !.pc = "started", !.session = s, !.issued = clock,
          !.expires = Min({clock + CodeLifetime, tx[session[s].tx].expires,
                           session[s].expires})]]
  /\ UNCHANGED <<clock, clientActive, tx, session, challenge, signedIn, oauthSession,
                 token, check>>

\* Mutant of CompleteOAuthAuthorization: what Complete read before the transaction is
\* not looked at again.
CompleteOAuthAuthorizationMut(g) ==
  LET s == grant[g].session
  IN /\ grant[g].pc = "started" /\ LockBrowser(s) /\ clock < grant[g].expires
     /\ oauthSession' = [oauthSession EXCEPT ![s] =
          IF @ = NoOAuthSession THEN [expires |-> session[s].expires, revoked |-> FALSE] ELSE @]
     /\ grant' = [grant EXCEPT ![g].pc = "granted", ![g].consent = session[s].expires]
     /\ tx' = [tx EXCEPT ![session[s].tx].status = "completed"]
     /\ session' = [session EXCEPT ![s].decision = "GRANTED"]
     /\ UNCHANGED <<clock, clientActive, challenge, signedIn, token, check>>

\* The OAuth session is inserted unless it is there, and must not be revoked.
CompleteOAuthAuthorization(g) ==
  LET s == grant[g].session
      row == IF oauthSession[s] = NoOAuthSession
             THEN [expires |-> session[s].expires, revoked |-> FALSE] ELSE oauthSession[s]
  IN /\ grant[g].pc = "started"
     /\ MayGrant(s) /\ clock < grant[g].expires
     /\ ~row.revoked /\ clock < row.expires
     /\ oauthSession' = [oauthSession EXCEPT ![s] = row]
     /\ grant' = [grant EXCEPT ![g].pc = "granted",
                               ![g].consent = Min({session[s].expires, row.expires})]
     /\ tx' = [tx EXCEPT ![session[s].tx].status = "completed"]
     /\ session' = [session EXCEPT ![s].decision = "GRANTED"]
     /\ UNCHANGED <<clock, clientActive, challenge, signedIn, token, check>>

DenyBrowserConsent(s) ==
  /\ LockBrowser(s) /\ session[s].decision = "OPEN"
  /\ LockBrowserTransaction(session[s].tx)
  /\ tx' = [tx EXCEPT ![session[s].tx].status = "completed"]
  /\ session' = [session EXCEPT ![s].decision = "DENIED"]
  /\ UNCHANGED <<clock, clientActive, challenge, signedIn, oauthSession, grant, token, check>>

RevokeBrowserSession(s) ==
  /\ LockBrowser(s)
  /\ session' = [session EXCEPT ![s].revoked = TRUE]
  /\ oauthSession' = RevokeBrowser(s)
  /\ UNCHANGED <<clock, clientActive, tx, challenge, signedIn, grant, token, check>>

Grant(s) ==
  /\ Load(s) /\ session[s].state = "AUTHENTICATED" /\ session[s].decision = "OPEN"
  /\ \E g \in Grants : Complete(g, s)

Deny(s) == Load(s) /\ DenyBrowserConsent(s)

Logout(s) == Load(s) /\ RevokeBrowserSession(s)

\* The POST endpoints: this origin only, one session cookie, that session's own token.
BrowserRequests ==
  [path : {"grant", "deny", "logout", "challenge", "verify"},
   origin : {"connect", "elsewhere"}, cookie : Sessions, csrf : Sessions]

ServedRequests == {r \in BrowserRequests : r.origin = "connect" /\ Proof(r)}

WalletAction(path, s) ==
  /\ Load(s)
  /\ \/ path = "challenge" /\ \E c \in Challenges, b \in Bindings : Challenge(s, c, b)
     \/ path = "verify" /\ \E c \in Challenges, next \in Sessions : VerifyWallet(s, c, next)

ServeHTTP(r) ==
  \/ WalletAction(r.path, r.cookie)
  \/ /\ \/ r.path = "grant" /\ Grant(r.cookie)
        \/ r.path = "deny" /\ Deny(r.cookie)
        \/ r.path = "logout" /\ Logout(r.cookie)
     /\ UNCHANGED enrollmentVars

-----------------------------------------------------------------------------
(* Tokens.                                                                 *)

FreshToken(k) == Fresh(k, {x \in Tokens \cap 1..world.tokens : token[x] = NoToken})

\* The client, redirect, resource and verifier are those of the code.
RedeemOAuthCode(g, k) ==
  LET s == grant[g].session
      ends == {grant[g].consent, oauthSession[s].expires}
  IN /\ grant[g].pc = "granted" /\ ~grant[g].consumed
     /\ clientActive /\ ~grant[g].revoked /\ ~oauthSession[s].revoked
     /\ identity[session[s].user] = "ACTIVE" /\ CheckSIWESession(s)
     /\ \A end \in ends \cup {grant[g].expires} : clock < end
     /\ grant' = [grant EXCEPT ![g].consumed = TRUE]
     /\ FreshToken(k)
     /\ token' = [token EXCEPT ![k] =
          [grant |-> g, issued |-> clock, revoked |-> FALSE,
           expires |-> Min(ends \cup {clock + TokenLifetime})]]

Exchange(g, k) ==
  /\ FindOAuthClient /\ RedeemOAuthCode(g, k)
  /\ UNCHANGED <<clock, clientActive, tx, session, challenge, signedIn, oauthSession, check>>

RevokeOAuthAuthority ==
  /\ \/ /\ \E g \in Grants : /\ grant[g].pc = "granted" /\ ~grant[g].revoked
                             /\ grant' = [grant EXCEPT ![g].revoked = TRUE]
        /\ UNCHANGED <<token, oauthSession>>
     \/ /\ \E k \in Tokens : /\ token[k] # NoToken /\ ~token[k].revoked
                             /\ token' = [token EXCEPT ![k].revoked = TRUE]
        /\ UNCHANGED <<grant, oauthSession>>
     \/ /\ \E s \in Sessions : /\ ~oauthSession[s].revoked
                               /\ oauthSession' = [oauthSession EXCEPT ![s].revoked = TRUE]
        /\ UNCHANGED <<grant, token>>
  /\ UNCHANGED <<clock, clientActive, tx, session, challenge, signedIn, check>>

-----------------------------------------------------------------------------
(* A bearer request.  No transaction spans its statements.                 *)

SessionOf(k) == grant[token[k].grant].session

\* Every part of the token's authority, at one instant.
Stands(k) ==
  LET g == token[k].grant
      s == SessionOf(k)
  IN /\ ~token[k].revoked /\ ~grant[g].revoked /\ ~oauthSession[s].revoked /\ clientActive
     /\ clock < token[k].expires /\ clock < grant[g].consent
     /\ clock < oauthSession[s].expires
     /\ identity[session[s].user] = "ACTIVE" /\ CheckSIWESession(s)

Next1(x, pc) == check' = [check EXCEPT ![x].pc = pc]

\* The request is recorded as RECEIVED, and the service samples the clock.
Receive(x, k) ==
  /\ check[x].pc = "idle" /\ token[k] # NoToken
  /\ check' = [check EXCEPT ![x] = [pc |-> "token", token |-> k, at |-> clock, stood |-> FALSE]]

\* Mutant of ValidateOAuthAccessToken: revoked consents and sessions go unnoticed.
ValidateOAuthAccessTokenMut(x) ==
  LET k == check[x].token
  IN token[k].issued <= check[x].at /\ check[x].at < token[k].expires /\ clientActive

\* The first statement, with the time sampled before it.
ValidateOAuthAccessToken(x) ==
  LET k == check[x].token
      g == token[k].grant
      s == SessionOf(k)
      at == check[x].at
  IN /\ ~token[k].revoked /\ token[k].issued <= at /\ at < token[k].expires
     /\ clientActive
     /\ ~grant[g].revoked /\ grant[g].issued <= at /\ at < grant[g].consent
     /\ ~oauthSession[s].revoked /\ at < oauthSession[s].expires
     /\ identity[session[s].user] = "ACTIVE"

ValidateToken(x) ==
  /\ check[x].pc = "token" /\ ValidateOAuthAccessToken(x)
  /\ check' = [check EXCEPT ![x].pc = "binding", ![x].stood = Stands(check[x].token)]

\* The second statement, and the expiry compared with a fresh clock.
ValidateOAuthToken(x) ==
  /\ check[x].pc = "binding"
  /\ CheckSIWESession(SessionOf(check[x].token))
  /\ clock < token[check[x].token].expires
  /\ Next1(x, "identity")

\* The identity is resolved again; AUTHORIZED is recorded before the call goes on.
ResolveIdentity(x) ==
  /\ check[x].pc = "identity"
  /\ identity[session[SessionOf(check[x].token)].user] = "ACTIVE"
  /\ Next1(x, "admitted")

\* A check or an audit write fails, or the request is over.
Leave(x) == check[x].pc # "idle" /\ check' = [check EXCEPT ![x] = NoCheck]

Handler(x) ==
  /\ \/ \E k \in Tokens : Receive(x, k)
     \/ ValidateToken(x) \/ ValidateOAuthToken(x) \/ ResolveIdentity(x) \/ Leave(x)
  /\ UNCHANGED <<clock, clientActive, tx, session, challenge, signedIn, oauthSession,
                 grant, token>>

-----------------------------------------------------------------------------

Tick == /\ clock < world.time /\ clock' = clock + 1
        /\ UNCHANGED <<clientActive, tx, session, challenge, signedIn, oauthSession, grant,
                       token, check>>

\* The database owner retires the client.
RetireClient ==
  /\ clientActive /\ clientActive' = FALSE
  /\ UNCHANGED <<clock, tx, session, challenge, signedIn, oauthSession, grant, token, check>>

Browse ==
  \/ \E t \in Transactions : Begin(t)
  \/ \E t \in Transactions, s \in Sessions : Prepare(t, s)
  \/ \E s, next \in Sessions, u \in Users, until \in {clock + 1, clock + SessionLifetime} :
       Authenticate(s, next, u, until)
  \/ \E s \in Sessions : CleanupBrowserSessions(s)
  \/ \E g \in Grants : CompleteOAuthAuthorization(g)
  \/ \E g \in Grants, k \in Tokens : Exchange(g, k)
  \/ RevokeOAuthAuthority
  \/ \E x \in Checks : Handler(x)
  \/ Tick
  \/ RetireClient

Next ==
  /\ \/ Browse /\ UNCHANGED enrollmentVars
     \/ Onboard /\ UNCHANGED browserVars
     \/ \E r \in ServedRequests : ServeHTTP(r)
  /\ UNCHANGED world

Spec == Init /\ [][Next]_vars

-----------------------------------------------------------------------------
(* What the consent page shows.                                            *)

\* Mutant of FindBrowserAuthentication: the binding is not looked at again.
FindBrowserAuthenticationMut(s) ==
  /\ LockBrowser(s) /\ session[s].decision = "OPEN"
  /\ LockBrowserTransaction(session[s].tx)
  /\ identity[session[s].user] = "ACTIVE" /\ signedIn[s] # NotSignedIn

\* FindBrowserAuthentication: the sign-in belongs to this session's own transaction.
FindBrowserAuthentication(s) ==
  LET c == signedIn[s].challenge
  IN /\ LockBrowser(s) /\ session[s].decision = "OPEN"
     /\ LockBrowserTransaction(session[s].tx)
     /\ identity[session[s].user] = "ACTIVE" /\ CheckSIWESession(s)
     /\ signedIn[s] # NotSignedIn /\ challenge[c].consumed
     /\ session[challenge[c].session].tx = session[s].tx

\* The view offers consent to this session.
View(s) ==
  /\ Load(s) /\ session[s].state = "AUTHENTICATED"
  /\ session[s].decision # "DENIED"
  /\ TransactionOf(s)
  /\ world.signIn = "wallet" => FindBrowserAuthentication(s)

-----------------------------------------------------------------------------
(* Properties.                                                             *)

\* An admitted request's token had all of its authority (token, consent,
\* session, client, identity, binding version) at one instant: the moment of
\* the first statement.  The later statements read later states, and what they
\* check cannot have come back in between.
AdmittedStood == \A x \in Checks : check[x].pc = "admitted" => check[x].stood

\* What the owner decides is spent once, however grants, denials, retries and
\* exchanges race: a transaction has one decision and at most one code, none when
\* consent was denied; a code is exchanged for at most one token; and no token
\* outlives the consent or the session it was issued under
\* (CompleteOAuthAuthorization, DenyBrowserConsent, RedeemOAuthCode).
ConsentIsSpentOnce ==
  /\ \A t \in Transactions :
       LET decided == {s \in Sessions : session[s].tx = t /\ session[s].decision # "OPEN"}
           codes == {g \in Grants : grant[g].pc = "granted" /\ session[grant[g].session].tx = t}
       IN /\ \A s, other \in decided : s = other
          /\ \A g, other \in codes : g = other
          /\ \A g \in codes : session[grant[g].session].decision = "GRANTED"
  /\ \A k \in Tokens : token[k] # NoToken =>
       /\ \A other \in Tokens : token[other].grant = token[k].grant => other = k
       /\ token[k].expires <= grant[token[k].grant].consent
       /\ token[k].expires <= oauthSession[SessionOf(k)].expires

\* Logging out or rotating a browser session reaches the OAuth session that
\* was granted from it, whatever the order of grant and logout.
LogoutReachesTokens ==
  \A s \in Sessions : session[s].revoked => oauthSession[s].revoked

\* A wallet signs a session in only at the version which the owner's approval
\* of its proof made ACTIVE, never through a binding activated in another way;
\* a challenge serves one session or one proof.  What counts as enrolled rests on
\* such a proof too (FinalizeSIWE, hasVerifiedEnrollment, admin_activate_wallet).
AuthorityRestsOnProof ==
  /\ EnrollmentRestsOnProof
  /\ \A s \in Sessions : signedIn[s] # NotSignedIn =>
       LET a == signedIn[s]
       IN /\ approval[a.binding] # None /\ a.version = proof[approval[a.binding]].version + 1
          /\ proof[a.challenge] = NoProof
          /\ \A other \in Sessions : signedIn[other].challenge = a.challenge => other = s

\* When the page offers consent, granting it is not refused.
ViewOffersOnlyGrantable ==
  \A s \in Sessions :
    View(s) /\ identity[session[s].user] = "ACTIVE" =>
      MayGrant(s) /\ oauthSession[s] = NoOAuthSession

=============================================================================
