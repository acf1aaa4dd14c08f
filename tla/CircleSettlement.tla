------------------------- MODULE CircleSettlement -------------------------
(***************************************************************************)
(* One execution settled through the Circle adapter                        *)
(* (internal/providers/circle): the runtime's submitOrReconcile and verify *)
(* around Execute, GetStatus and ResolveReference, the stored provider     *)
(* reference between them, and Circle, the user and the chain moving on    *)
(* their own.  GetStatus is several HTTP reads, so what it read first may  *)
(* be old when it reads next.                                              *)
(*                                                                         *)
(* Leases and workers are ExecutionRuntime's; here one claim is worked on  *)
(* at a time and may be lost at any point (Crash).                         *)
(***************************************************************************)
EXTENDS Naturals

CONSTANTS ReadFaults,   \* what a reconciliation read may answer besides the truth
          MaxFaults     \* bound: faults, crashes and sign-outs of a behaviour

AllReadFaults == {"unreachable", "unreadable", "unauthorized", "rejected",
                  "conflict", "limited", "server", "foreign", "badhash"}

ASSUME FaultsAssumption == /\ ReadFaults \subseteq AllReadFaults
                           /\ MaxFaults \in Nat

VARIABLES challenge, tx, chain, crowded,  \* Circle's side and the chain
          session, fresh,                 \* the user's token; the plan's deadline
          exec, reason, started, stored,  \* what the database holds
          call,                           \* the adapter call in progress
          faults,
          misread    \* history: a reconciliation read was refused, or gave a bad hash

circleVars == <<challenge, tx, chain, crowded, session, fresh, exec, reason, started,
                stored, call, faults, misread>>

circle == <<challenge, tx, chain, crowded>>
db == <<exec, reason, started, stored>>

-----------------------------------------------------------------------------
(* The taxonomy of outcomes.                                               *)

PreSubmission == "PRE_SUBMISSION_VALIDATION_FAILURE"
UserAuthorizationRequired == "USER_AUTHORIZATION_REQUIRED"
Transient == "TRANSIENT_PROVIDER_ERROR"
PermanentRejection == "PERMANENT_PROVIDER_REJECTION"
Ambiguous == "AMBIGUOUS_SUBMISSION"
SubmittedPending == "SUBMITTED_PENDING"

Classification == {PreSubmission, UserAuthorizationRequired, Transient,
                   PermanentRejection, Ambiguous, SubmittedPending}

\* A submission that got no clean answer may have happened; a read may not have.
ClassifyHTTPStatus(status, submitted) ==
  IF submitted \/ status = "conflict" THEN Ambiguous
  ELSE IF status \in {"unauthorized", "rejected"} THEN PermanentRejection
  ELSE Transient

ClassifyTransactionState(state) ==
  CASE state \in {"INITIATED", "SENT", "STUCK", "COMPLETE"} -> SubmittedPending
    [] state \in {"FAILED", "DENIED"}                       -> PermanentRejection
    [] OTHER                                                -> Ambiguous

ClassifyChallengeStatus(status) ==
  CASE status \in {"PENDING", "IN_PROGRESS"} -> UserAuthorizationRequired
    [] status = "COMPLETE"                   -> SubmittedPending
    [] status \in {"FAILED", "EXPIRED"}      -> PermanentRejection

-----------------------------------------------------------------------------
(* The provider reference, and the reads that enrich it.                   *)

TransactionHashes == {"", "hash"}

Reference == [challenge : BOOLEAN, id : BOOLEAN, hash : TransactionHashes]

NoReference == [challenge |-> FALSE, id |-> FALSE, hash |-> ""]

NoTransaction == [state |-> "NONE", hash |-> ""]

\* It never clears an identifier that is already known.
WithTransaction(ref, hash) ==
  [ref EXCEPT !.id = TRUE, !.hash = IF hash # "" THEN hash ELSE @]

\* A hash that is not one is dropped.
ApplyTransaction(ref, record) ==
  LET enriched == WithTransaction(ref, record.hash)
  IN  [enriched EXCEPT !.hash = IF @ \in TransactionHashes THEN @ ELSE ""]

ClassifyResolutionMut(ref, state) == ClassifyTransactionState(state)

\* The chain, not Circle's verdict, decides about a transaction that has a hash.
ClassifyResolution(ref, state) ==
  IF ref.hash # "" /\ ClassifyTransactionState(state) = PermanentRejection
    THEN SubmittedPending
    ELSE ClassifyTransactionState(state)

\* How a read may end: the truth, or a fault while the budget lasts.
Answers == {"ok"} \cup (IF faults < MaxFaults THEN ReadFaults ELSE {})

Spend(answer) == /\ faults' = IF answer = "ok" THEN faults ELSE faults + 1
                 /\ misread' = (misread \/ answer \in {"unauthorized", "rejected", "badhash"})

\* client.do on a read: the class of the error it returns.
ReadError(answer) ==
  CASE answer = "unreadable"  -> Ambiguous
    [] answer = "unreachable" -> Transient
    [] OTHER                  -> ClassifyHTTPStatus(answer, FALSE)

\* getTransaction, by identifier.
GetTransaction(answer) ==
  IF answer = "badhash" THEN [tx EXCEPT !.hash = "malformed"] ELSE tx

\* findTransactionByRef sees the newest page of the wallet's transactions only.
FindTransactionByRef(answer) ==
  IF crowded THEN NoTransaction ELSE GetTransaction(answer)

\* resolveTransaction: an error class, nothing found, or the enriched reference.
\* A record of another wallet or chain is an error nobody classified.
ResolveTransaction(ref, answer) ==
  LET record == IF ref.id THEN GetTransaction(answer) ELSE FindTransactionByRef(answer)
      failed == answer \notin {"ok", "badhash", "foreign"}
      missed == record.state = "NONE"
  IN  [err |-> IF failed THEN ReadError(answer)
               ELSE IF answer = "foreign" /\ ~missed THEN Ambiguous ELSE "",
       found |-> ~missed,
       state |-> record.state,
       ref   |-> IF missed THEN ref ELSE ApplyTransaction(ref, record)]

-----------------------------------------------------------------------------
(* State.                                                                  *)

NoCall == [pc |-> "idle", ref |-> NoReference, class |-> Ambiguous]

CircleTypeOK ==
  /\ challenge \in {"NONE", "PENDING", "IN_PROGRESS", "COMPLETE", "FAILED", "EXPIRED"}
  /\ tx \in [state : {"NONE", "INITIATED", "SENT", "STUCK", "OTHER", "COMPLETE", "FAILED",
                      "DENIED"}, hash : TransactionHashes]
  /\ chain \in {"NONE", "success", "reverted"}
  /\ {crowded, session, fresh, started, misread} \subseteq BOOLEAN
  /\ exec \in {"EXECUTING", "SUBMITTED", "RECOVERY_REQUIRED", "FAILED_RECOVERABLE",
               "FAILED", "VERIFIED"}
  /\ reason \in Classification \cup {""}
  /\ stored \in Reference
  /\ call \in [pc : {"idle", "execute", "resolve", "challenge", "done", "hash", "receipt"},
               ref : Reference, class : Classification]
  /\ faults \in 0 .. MaxFaults

CircleInit ==
  /\ challenge = "NONE" /\ tx = NoTransaction /\ chain = "NONE" /\ crowded = FALSE
  /\ session \in BOOLEAN /\ fresh = TRUE
  /\ exec = "EXECUTING" /\ reason = "" /\ started = FALSE /\ stored = NoReference
  /\ call = NoCall /\ faults = 0 /\ misread = FALSE

\* The adapter has an outcome; the runtime has not stored it yet.
Outcome(class, ref) == call' = [pc |-> "done", ref |-> ref, class |-> class]

-----------------------------------------------------------------------------
(* The runtime and the adapter.                                            *)

\* submitOrReconcile, first time: the marker is stored before Execute is called.
Submit == /\ call.pc = "idle" /\ exec = "EXECUTING" /\ ~started
          /\ started' = TRUE
          /\ call' = [NoCall EXCEPT !.pc = "execute"]
          /\ UNCHANGED <<circle, session, fresh, exec, reason, stored, faults, misread>>

\* Execute stops before the provider: no plan, an invalid one, or a deadline passed.
\* Whether there is a valid plan is free.
ExecuteRefused == /\ call.pc = "execute"
                  /\ Outcome(PreSubmission, NoReference)
                  /\ UNCHANGED <<circle, session, fresh, db, faults, misread>>

\* The user has not delegated a session: a wait for user action.
ExecuteUnauthorized == /\ call.pc = "execute" /\ fresh /\ ~session
                       /\ Outcome(UserAuthorizationRequired, NoReference)
                       /\ UNCHANGED <<circle, session, fresh, db, faults, misread>>

\* createChallenge answers with the challenge's identifier.
ExecuteChallenge == /\ call.pc = "execute" /\ fresh /\ session /\ challenge = "NONE"
                    /\ challenge' = "PENDING"
                    /\ Outcome(UserAuthorizationRequired, [NoReference EXCEPT !.challenge = TRUE])
                    /\ UNCHANGED <<tx, chain, crowded, session, fresh, db, faults, misread>>

\* It fails: the circuit is open, or the request went out and the challenge may or
\* may not exist.  No reference is kept.
ExecuteFails ==
  /\ call.pc = "execute" /\ fresh /\ session /\ challenge = "NONE" /\ faults < MaxFaults
  /\ \/ challenge' = "NONE" /\ Outcome(Transient, NoReference)
     \/ /\ challenge' \in {"NONE", "PENDING"}
        /\ Outcome(ClassifyHTTPStatus("server", TRUE), NoReference)
  /\ faults' = faults + 1
  /\ UNCHANGED <<tx, chain, crowded, session, fresh, db, misread>>

\* submitOrReconcile, every later time: GetStatus up to its first read.
GetStatus ==
  /\ call.pc = "idle" /\ exec = "EXECUTING" /\ started
  /\ \/ /\ faults < MaxFaults /\ faults' = faults + 1   \* LatestReference fails
        /\ Outcome(Transient, NoReference)
     \/ /\ stored = NoReference
        /\ Outcome(Ambiguous, NoReference) /\ UNCHANGED faults
     \/ /\ stored # NoReference /\ ~session
        /\ Outcome(UserAuthorizationRequired, stored) /\ UNCHANGED faults
     \/ /\ stored # NoReference /\ session
        /\ call' = [NoCall EXCEPT !.pc = "resolve", !.ref = stored] /\ UNCHANGED faults
  /\ UNCHANGED <<circle, session, fresh, db, misread>>

\* reconcile: the transaction, if there is one, gives the outcome.
Reconcile ==
  /\ call.pc = "resolve"
  /\ \E answer \in Answers :
       LET observed == ResolveTransaction(call.ref, answer)
       IN  /\ IF observed.err # "" THEN Outcome(observed.err, call.ref)
              ELSE IF observed.found
                THEN Outcome(ClassifyResolution(observed.ref, observed.state), observed.ref)
                ELSE IF call.ref.challenge THEN call' = [call EXCEPT !.pc = "challenge"]
                ELSE Outcome(Ambiguous, call.ref)
           /\ Spend(answer)
  /\ UNCHANGED <<circle, session, fresh, db>>

ChallengeClassMut(status) == ClassifyChallengeStatus(status)

\* An authorized challenge whose transaction is not visible is no submission yet.
ChallengeClass(status) ==
  IF ClassifyChallengeStatus(status) = SubmittedPending
    THEN Ambiguous
    ELSE ClassifyChallengeStatus(status)

\* Circle lists outstanding challenges; it may still list one that ended.
FindChallenge == {challenge} \cup (IF challenge \in {"PENDING", "IN_PROGRESS"}
                                    THEN {} ELSE {"ABSENT"})

ChallengeOutcome ==
  /\ call.pc = "challenge"
  /\ \E answer \in Answers \ {"foreign", "badhash"}, status \in FindChallenge :
       /\ Outcome(IF answer # "ok" THEN ReadError(answer)
                  ELSE IF status = "ABSENT" THEN Ambiguous ELSE ChallengeClass(status), call.ref)
       /\ Spend(answer)
  /\ UNCHANGED <<circle, session, fresh, db>>

\* AdapterResult: what status the class becomes.
AdapterResult(class) ==
  CASE class \in {PreSubmission, PermanentRejection}          -> "FAILED"
    [] class = Transient                                      -> "FAILED_RECOVERABLE"
    [] class \in {UserAuthorizationRequired, Ambiguous}       -> "RECOVERY_REQUIRED"
    [] class = SubmittedPending                               -> "SUBMITTED"

\* Evidence without a reference is skipped when the newest one is looked up.
LatestReference(ref) == IF ref = NoReference THEN stored ELSE ref

\* submitOrReconcile stores the result; only an observation carries the reference.
Persist == /\ call.pc = "done"
           /\ exec' = AdapterResult(call.class)
           /\ reason' = call.class
           /\ stored' = IF exec' \in {"RECOVERY_REQUIRED", "SUBMITTED"}
                          THEN LatestReference(call.ref) ELSE stored
           /\ call' = NoCall
           /\ UNCHANGED <<circle, session, fresh, started, faults, misread>>

\* processClaim on FAILED (recoverable) and RECOVERY_REQUIRED.
Recover == /\ call.pc = "idle" /\ exec = "FAILED_RECOVERABLE"
           /\ exec' = "RECOVERY_REQUIRED"
           /\ UNCHANGED <<circle, session, fresh, reason, started, stored, call, faults, misread>>

Resume == /\ call.pc = "idle" /\ exec = "RECOVERY_REQUIRED"
          /\ exec' = "EXECUTING"
          /\ UNCHANGED <<circle, session, fresh, reason, started, stored, call, faults, misread>>

\* verify: the hash is asked for only when it is not known.
Verify == /\ call.pc = "idle" /\ exec = "SUBMITTED"
          /\ call' = [NoCall EXCEPT !.pc = IF stored.hash = "" THEN "hash" ELSE "receipt",
                                  !.ref = stored]
          /\ UNCHANGED <<circle, session, fresh, db, faults, misread>>

\* The hash Circle reports is not carried to the receipt check.
ResolveHashMut == /\ call.pc = "hash"
                  /\ call' = NoCall
                  /\ UNCHANGED <<circle, session, fresh, db, faults, misread>>

\* The adapter reads for the verifier with the user's own token.
ResolveReference(ref, answer) ==
  IF session THEN ResolveTransaction(ref, answer)
  ELSE [err |-> Transient, found |-> FALSE, state |-> "NONE", ref |-> ref]

\* resolveHash: without an answer nothing is learnt; without a hash the execution
\* stays pending and keeps what is known.
ResolveHash ==
  /\ call.pc = "hash"
  /\ \E answer \in Answers :
       LET observed == ResolveReference(call.ref, answer)
       IN  /\ call' = IF observed.err = "" /\ observed.ref.hash # ""
                       THEN [call EXCEPT !.pc = "receipt", !.ref = observed.ref] ELSE NoCall
           /\ stored' = IF observed.err = "" /\ observed.ref.hash = ""
                         THEN observed.ref ELSE stored
           /\ Spend(answer)
  /\ UNCHANGED <<circle, session, fresh, exec, reason, started>>

\* VerificationResult: only a receipt verifies or fails.
VerificationResult == CASE chain = "success"  -> "VERIFIED"
                        [] chain = "reverted" -> "FAILED"
                        [] OTHER              -> exec

\* The receipt decides; an unavailable node decides nothing.
VerifyReceipt ==
  /\ call.pc = "receipt"
  /\ \/ /\ faults < MaxFaults /\ faults' = faults + 1
        /\ UNCHANGED <<exec, reason, stored>>
     \/ /\ faults < MaxFaults /\ faults' = faults + 1   \* a receipt of another transaction
        /\ exec' = "RECOVERY_REQUIRED" /\ reason' = Ambiguous
        /\ UNCHANGED stored
     \/ /\ exec' = VerificationResult
        /\ reason' = ""
        /\ stored' = IF chain = "reverted" THEN stored ELSE call.ref
        /\ UNCHANGED faults
  /\ call' = NoCall
  /\ UNCHANGED <<circle, session, fresh, started, misread>>

\* The worker dies: the answer it held is lost, the marker and the challenge stay.
Crash == /\ call.pc # "idle" /\ faults < MaxFaults
         /\ faults' = faults + 1
         /\ call' = NoCall
         /\ UNCHANGED <<circle, session, fresh, db, misread>>

-----------------------------------------------------------------------------
(* Circle, the user and the chain.                                         *)

ours == <<session, fresh, db, call, faults, misread>>

UserActs == /\ challenge' \in (CASE challenge = "PENDING"     -> {"IN_PROGRESS", "EXPIRED"}
                                 [] challenge = "IN_PROGRESS" -> {"COMPLETE", "FAILED", "EXPIRED"}
                                 [] OTHER                     -> {})
            /\ UNCHANGED <<tx, chain, crowded, ours>>

\* The transaction becomes visible some time after the user authorized it.
Initiate == /\ challenge = "COMPLETE" /\ tx = NoTransaction
            /\ tx' = [state |-> "INITIATED", hash |-> ""]
            /\ UNCHANGED <<challenge, chain, crowded, ours>>

\* It is denied, or broadcast; a broadcast one may look stuck, odd or failed.
Progress == /\ \/ tx.state = "INITIATED" /\ tx' = [tx EXCEPT !.state = "DENIED"]
               \/ tx.state = "INITIATED" /\ tx' = [state |-> "SENT", hash |-> "hash"]
               \/ /\ tx.state = "SENT"
                  /\ \E s \in {"STUCK", "OTHER", "FAILED"} : tx' = [tx EXCEPT !.state = s]
            /\ UNCHANGED <<challenge, chain, crowded, ours>>

\* A broadcast transaction is mined, whatever Circle says of it.
Mine == /\ tx.hash # "" /\ chain = "NONE"
        /\ chain' \in {"success", "reverted"}
        /\ UNCHANGED <<challenge, tx, crowded, ours>>

\* Circle notices.
Complete == /\ chain = "success" /\ tx.state \in {"SENT", "STUCK", "OTHER"}
            /\ tx' = [tx EXCEPT !.state = "COMPLETE"]
            /\ UNCHANGED <<challenge, chain, crowded, ours>>

Crowd == /\ tx # NoTransaction /\ ~crowded
         /\ crowded' = TRUE
         /\ UNCHANGED <<challenge, tx, chain, ours>>

SignIn == /\ ~session /\ session' = TRUE
          /\ UNCHANGED <<circle, fresh, db, call, faults, misread>>

SignOut == /\ session /\ faults < MaxFaults
           /\ session' = FALSE /\ faults' = faults + 1
           /\ UNCHANGED <<circle, fresh, db, call, misread>>

Expire == /\ fresh /\ fresh' = FALSE
          /\ UNCHANGED <<circle, session, db, call, faults, misread>>

Runtime == \/ Submit \/ ExecuteRefused \/ ExecuteUnauthorized \/ ExecuteChallenge
           \/ ExecuteFails \/ GetStatus \/ Reconcile \/ ChallengeOutcome \/ Persist
           \/ Recover \/ Resume \/ Verify \/ ResolveHash \/ VerifyReceipt

CircleNext == \/ Runtime \/ Crash
              \/ UserActs \/ Initiate \/ Progress \/ Mine \/ Complete \/ Crowd
              \/ SignIn \/ SignOut \/ Expire

CircleSpec == CircleInit /\ [][CircleNext]_circleVars

\* The worker keeps polling, the user comes back, Circle follows the chain.
CircleFairSpec == /\ CircleSpec
                  /\ WF_circleVars(Runtime) /\ WF_circleVars(SignIn) /\ WF_circleVars(Complete)

-----------------------------------------------------------------------------
(* Properties.                                                             *)

\* A terminally FAILED execution never paid and never will: Circle's FAILED verdict
\* on a broadcast transaction, an expired challenge read after an old transaction
\* list, or a lost create answer must not end it (classifyResolution,
\* challengeOutcome, submitOrReconcile).  Two answers do: a reconciliation read that
\* Circle refuses outright (an expired token, a 404), which ClassifyHTTPStatus takes
\* for a rejection of the payment, and a FAILED transaction with a malformed hash.
FailedNeverPaid == exec = "FAILED" /\ ~misread => chain # "success"

\* SUBMITTED is only claimed for a transaction that can be shown, and VERIFIED only
\* for one the chain executed (challengeOutcome, AdapterResult, VerifyObservation).
SubmissionIsShown ==
  /\ exec \in {"SUBMITTED", "VERIFIED"} => stored.id /\ tx # NoTransaction
  /\ exec = "VERIFIED" => stored.hash # "" /\ chain = "success"

\* A payment whose reference was captured is found and verified in the end, through
\* crashes, sign-outs and bad answers (GetStatus, resolveHash), unless a read of it
\* was refused or malformed, or it left the newest page before its identifier was stored.
PaidIsVerified ==
  (chain = "success" /\ stored # NoReference)
    ~> (exec = "VERIFIED" \/ misread \/ (crowded /\ ~stored.id))

\* Not kept by the code.  "The user has not delegated an authorized session.  This is a wait for user
\* action" (Execute): once the user acts, the challenge is created or the execution
\* ends.
AuthorizationEndsWait ==
  (exec = "RECOVERY_REQUIRED" /\ reason = UserAuthorizationRequired)
    ~> (challenge # "NONE" \/ exec = "FAILED")
=============================================================================
