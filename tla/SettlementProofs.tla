----------------------- MODULE SettlementProofs -----------------------
(***************************************************************************)
(* How an execution settles: through the Circle adapter                    *)
(* (CircleSettlement), and by the receipts that are observed for it        *)
(* (ObservationIntegrity). The two have no state in common; each is proved *)
(* from its own specification.                                             *)
(*                                                                         *)
(* The adapter, whatever reads fail and however often: a FAILED execution  *)
(* never paid because what ended it cannot be undone (Dead): the marker    *)
(* allows one Execute, so a challenge that was not created then never is   *)
(* (Once), an ended challenge has no transaction and a denied transaction  *)
(* no hash (Circle). SUBMITTED is shown because an identifier is only      *)
(* learnt from a transaction that exists (Known).                          *)
(*                                                                         *)
(* The observations: a verified success agrees with the stored baseline,   *)
(* and the baseline survives restarts and lost receipts, for any number of *)
(* workers, blocks and answers of the nodes.                               *)
(***************************************************************************)
EXTENDS CircleSettlement, ObservationIntegrity, TLAPS

\* Most steps are first-order; the ones that calculate say so.
USE Zenon

\* What Circle and the chain say of one another.
Circle ==
  /\ tx # NoTransaction => challenge = "COMPLETE" /\ tx.state # "NONE"
  /\ tx.hash = "" <=> tx.state \in {"NONE", "INITIATED", "DENIED"}
  /\ chain # "NONE" => tx.hash # ""

\* Execute runs once, before there is a challenge.
Once == /\ challenge # "NONE" => started
        /\ call.pc = "execute" => started /\ challenge = "NONE"

\* What a reference names exists.
Known(ref) == /\ ref.id => tx # NoTransaction
              /\ ref.challenge => challenge # "NONE"

\* The payment has not been made and will not be.
Dead == \/ chain = "reverted"
        \/ tx.state = "DENIED"
        \/ challenge \in {"FAILED", "EXPIRED"}
        \/ challenge = "NONE" /\ started /\ call.pc # "execute"

\* A final failure, stored or about to be, is of a dead payment or of a misread one.
Ended ==
  (exec = "FAILED" \/ (call.pc = "done" /\ call.class \in {PreSubmission, PermanentRejection}))
    => misread \/ Dead

\* The calls in progress know what they act on.
Calls ==
  /\ call.pc = "challenge" => call.ref.challenge
  /\ call.pc = "done" /\ call.class = SubmittedPending => call.ref.id
  /\ call.pc \in {"hash", "receipt"} => exec = "SUBMITTED" /\ call.ref.id
  /\ call.pc = "receipt" => call.ref.hash # ""

CircleInv == /\ CircleTypeOK /\ Circle /\ Once /\ Known(stored) /\ Known(call.ref)
       /\ Ended /\ Calls /\ SubmissionIsShown

-----------------------------------------------------------------------------
(* The type invariant in two halves.                                       *)

Booleans == {crowded, session, fresh, started, misread} \subseteq BOOLEAN

TxRecs == [state : {"NONE", "INITIATED", "SENT", "STUCK", "OTHER", "COMPLETE", "FAILED",
                    "DENIED"}, hash : TransactionHashes]
Pcs == {"idle", "execute", "resolve", "challenge", "done", "hash", "receipt"}
CallRecs == [pc : Pcs, ref : Reference, class : Classification]

Others ==
  /\ challenge \in {"NONE", "PENDING", "IN_PROGRESS", "COMPLETE", "FAILED", "EXPIRED"}
  /\ tx \in TxRecs
  /\ chain \in {"NONE", "success", "reverted"}
  /\ exec \in {"EXECUTING", "SUBMITTED", "RECOVERY_REQUIRED", "FAILED_RECOVERABLE",
               "FAILED", "VERIFIED"}
  /\ reason \in Classification \cup {""}
  /\ stored \in Reference
  /\ call \in CallRecs
  /\ faults \in 0 .. MaxFaults

\* The types fall into the Boolean ones and the others, which different provers handle.
LEMMA Halves == /\ CircleTypeOK <=> Booleans /\ Others
                /\ CircleTypeOK' <=> Booleans' /\ Others'
BY DEF CircleTypeOK, Booleans, Others, TxRecs, CallRecs, Pcs

\* These sets are constants.
LEMMA Fixed == /\ Reference' = Reference /\ Classification' = Classification
               /\ TxRecs' = TxRecs /\ CallRecs' = CallRecs
BY DEF TxRecs, CallRecs, Pcs, Reference, Classification, TransactionHashes, PreSubmission,
       UserAuthorizationRequired, Transient, PermanentRejection, Ambiguous, SubmittedPending

\* What an absent transaction shows.
LEMMA NoTx == NoTransaction.state = "NONE" /\ NoTransaction.hash = ""
BY DEF NoTransaction

-----------------------------------------------------------------------------
(* What the reads answer.                                                  *)

\* The budget of faults, and the mark of a misread answer, only grow.
Spent == /\ faults' \in 0..MaxFaults
         /\ misread' \in BOOLEAN /\ (misread => misread')

\* Every answer of a read is "ok" or a fault.
LEMMA AnswerType == \A answer \in Answers : answer \in {"ok"} \cup AllReadFaults
BY FaultsAssumption DEF Answers

\* A read that failed never counts as a submission, and counts as a rejection
\* only when Circle refused it.
LEMMA ReadErrorClass ==
  ASSUME NEW answer \in AllReadFaults
  PROVE  /\ ReadError(answer) \in {Ambiguous, Transient, PermanentRejection}
         /\ ReadError(answer) = PermanentRejection => answer \in {"unauthorized", "rejected"}
BY DEF ReadError, ClassifyHTTPStatus, AllReadFaults, Ambiguous, Transient, PermanentRejection

\* ApplyTransaction adds the transaction's identifier and keeps the challenge.
LEMMA ApplyType ==
  ASSUME NEW ref \in Reference, NEW hash \in TransactionHashes \cup {"malformed"},
         NEW state
  PROVE  LET applied == ApplyTransaction(ref, [state |-> state, hash |-> hash])
         IN /\ applied \in Reference /\ applied.id = TRUE
            /\ applied.challenge = ref.challenge
            /\ hash = "hash" => applied.hash # ""
BY DEF ApplyTransaction, WithTransaction, Reference, TransactionHashes

\* What resolveTransaction returns: an error that is a rejection only for a refused
\* read; or a transaction that exists, with the hash Circle shows unless the hash
\* was malformed; or the reference as it was.
LEMMA Resolved ==
  ASSUME CircleTypeOK, NEW ref \in Reference, Known(ref), NEW answer \in Answers
  PROVE  LET observed == ResolveTransaction(ref, answer)
         IN /\ observed.err \in {"", Ambiguous, Transient, PermanentRejection}
            /\ observed.err = PermanentRejection => answer \in {"unauthorized", "rejected"}
            /\ observed.found \in BOOLEAN
            /\ ~observed.found => observed.ref = ref
            /\ observed.found => /\ observed.state = tx.state /\ tx # NoTransaction
                                 /\ observed.ref.id = TRUE
                                 /\ tx.hash # "" /\ answer # "badhash" => observed.ref.hash # ""
            /\ observed.ref \in Reference /\ observed.ref.challenge = ref.challenge
            /\ Known(observed.ref)
<1>1. answer \in {"ok"} \cup AllReadFaults
  BY AnswerType
<1>2. PICK record \in {NoTransaction, GetTransaction(answer)} :
        record = IF ref.id THEN GetTransaction(answer) ELSE FindTransactionByRef(answer)
  BY DEF FindTransactionByRef
<1>3. tx \in [state : {"NONE", "INITIATED", "SENT", "STUCK", "OTHER", "COMPLETE", "FAILED",
                      "DENIED"}, hash : TransactionHashes]
  BY DEF CircleTypeOK
<1>4. PICK hash \in TransactionHashes \cup {"malformed"}, state \in
         {"NONE", "INITIATED", "SENT", "STUCK", "OTHER", "COMPLETE", "FAILED", "DENIED"} :
        /\ record = [state |-> state, hash |-> hash]
        /\ state # "NONE" => state = tx.state /\ (answer # "badhash" => hash = tx.hash)
  <2>1. CASE record = NoTransaction
    BY <2>1 DEF NoTransaction, TransactionHashes
  <2>2. CASE record = tx /\ answer # "badhash"
    BY <1>3, <2>2 DEF TransactionHashes
  <2>3. CASE record = [tx EXCEPT !.hash = "malformed"] /\ answer = "badhash"
    <3>1. record = [state |-> tx.state, hash |-> "malformed"]
      BY <1>3, <2>3
    <3> QED BY <1>3, <2>3, <3>1
  <2> QED BY <1>2, <2>1, <2>2, <2>3 DEF GetTransaction
<1>5. record.state = state
  BY <1>4
<1> DEFINE applied == ApplyTransaction(ref, record)
           observed == ResolveTransaction(ref, answer)
<1>6. /\ applied \in Reference /\ applied.id = TRUE /\ applied.challenge = ref.challenge
      /\ hash = "hash" => applied.hash # ""
  <2>1. applied = ApplyTransaction(ref, [state |-> state, hash |-> hash])
    BY <1>4
  <2> HIDE DEF applied
  <2> QED BY <2>1, ApplyType
<1>7. /\ observed.err = IF answer \notin {"ok", "badhash", "foreign"} THEN ReadError(answer)
                        ELSE IF answer = "foreign" /\ state # "NONE" THEN Ambiguous ELSE ""
      /\ observed.found = (state # "NONE")
      /\ observed.state = state
      /\ observed.ref = IF state = "NONE" THEN ref ELSE applied
  BY <1>2, <1>5 DEF ResolveTransaction
<1> HIDE DEF applied, observed
<1>8. /\ observed.err \in {"", Ambiguous, Transient, PermanentRejection}
      /\ observed.err = PermanentRejection => answer \in {"unauthorized", "rejected"}
  BY <1>1, <1>7, ReadErrorClass DEF AllReadFaults, Ambiguous, PermanentRejection
<1>9. state # "NONE" => tx # NoTransaction
  BY <1>4, NoTx
<1>10. state # "NONE" /\ tx.hash # "" /\ answer # "badhash" => hash = "hash"
  BY <1>3, <1>4 DEF TransactionHashes
<1>11. observed.ref \in Reference /\ observed.ref.challenge = ref.challenge
  BY <1>6, <1>7
<1>12. Known(observed.ref)
  BY <1>6, <1>7, <1>9 DEF Known
<1>13. observed.found \in BOOLEAN
  BY <1>7
<1>14. observed.found => /\ observed.state = tx.state /\ tx # NoTransaction
                         /\ observed.ref.id = TRUE
                         /\ tx.hash # "" /\ answer # "badhash" => observed.ref.hash # ""
  BY <1>4, <1>6, <1>7, <1>9, <1>10
<1>15. ~observed.found => observed.ref = ref
  BY <1>7
<1> QED BY <1>8, <1>11, <1>12, <1>13, <1>14, <1>15 DEF observed

-----------------------------------------------------------------------------
(* Circle, the user and the chain.                                         *)

\* A payment that Circle has given up is not mined as a success.
LEMMA DeadNeverPays == CircleInv /\ Dead => chain # "success"
BY NoTx DEF CircleInv, Circle, Dead

\* A step of the user, of Circle or of the chain keeps CircleInv when it takes nothing back.
LEMMA OutsideKeeps ==
  ASSUME CircleInv, UNCHANGED <<db, call, misread>>, CircleTypeOK', Circle',
         challenge = "NONE" <=> challenge' = "NONE",
         tx # NoTransaction => tx' # NoTransaction,
         Dead => Dead', chain # "NONE" => chain' = chain
  PROVE  CircleInv'
<1>1. Once' /\ Known(stored)' /\ Known(call.ref)' /\ Ended' /\ Calls'
  BY DEF CircleInv, db, Once, Known, Ended, Calls
<1>2. SubmissionIsShown'
  BY DEF CircleInv, db, SubmissionIsShown
<1> QED BY <1>1, <1>2 DEF CircleInv

\* The user, Circle, the chain and other traffic keep CircleInv.
LEMMA OutsideStep ==
  ASSUME CircleInv, UserActs \/ Initiate \/ Progress \/ Mine \/ Complete \/ Crowd
  PROVE  CircleInv'
<1> USE DEF ours, db
<1>0. CircleTypeOK /\ Circle /\ Booleans /\ Others
  BY Halves DEF CircleInv
<1>1. CASE UserActs
  <2>1. /\ challenge' \in {"IN_PROGRESS", "COMPLETE", "FAILED", "EXPIRED"}
        /\ challenge \in {"PENDING", "IN_PROGRESS"}
        /\ UNCHANGED <<tx, chain, crowded, session, fresh, exec, reason, started, stored, call,
                       faults, misread>>
    BY <1>0, <1>1 DEF UserActs, CircleTypeOK
  <2>2. Booleans' /\ Others'
    <3>1. Booleans'
      BY <1>0, <2>1 DEF Booleans
    <3>2. Others'
      BY <1>0, <2>1, Fixed DEF Others
    <3> QED BY <3>1, <3>2
  <2>3. Circle'
    BY <1>0, <2>1 DEF Circle
  <2>4. Dead => Dead'
    BY <1>0, <2>1 DEF Dead
  <2> QED BY <2>1, <2>2, <2>3, <2>4, Halves, OutsideKeeps
<1>2. CASE Initiate
  <2>1. CircleTypeOK'
    BY <1>0, <1>2 DEF Initiate, CircleTypeOK, TransactionHashes
  <2>2. Circle'
    BY <1>0, <1>2 DEF Initiate, Circle, NoTransaction
  <2>3. Dead => Dead'
    BY <1>0, <1>2 DEF Initiate, Dead, Circle, NoTransaction
  <2> QED BY <1>2, <2>1, <2>2, <2>3, OutsideKeeps DEF Initiate
<1>3. CASE Progress \/ Complete
  <2>1. PICK s \in {"DENIED", "SENT", "STUCK", "OTHER", "FAILED", "COMPLETE"}, h \in TransactionHashes :
          tx' = [state |-> s, hash |-> h] /\ (h = "" <=> s = "DENIED")
    BY <1>0, <1>3 DEF Progress, Complete, CircleTypeOK, Circle, TransactionHashes
  <2>2. /\ tx.state \in {"INITIATED", "SENT", "STUCK", "OTHER"}
        /\ chain = "NONE" \/ s # "DENIED"
        /\ UNCHANGED <<challenge, chain, crowded, session, fresh, exec, reason, started, stored,
                       call, faults, misread>>
    BY <1>0, <1>3, <2>1 DEF Progress, Complete, CircleTypeOK, Circle, TransactionHashes
  <2>3. tx'.state = s /\ tx'.hash = h
    BY <2>1
  <2>4. tx # NoTransaction /\ tx' # NoTransaction
    BY <2>2, <2>3, NoTx
  <2>5. Booleans' /\ Others'
    <3>1. Booleans'
      BY <1>0, <2>2 DEF Booleans
    <3>2. tx' \in TxRecs
      BY <2>1 DEF TxRecs
    <3>3. Others'
      BY <1>0, <2>2, <3>2, Fixed DEF Others
    <3> QED BY <3>1, <3>3
  <2>6. Circle'
    BY <1>0, <2>1, <2>2, <2>3, <2>4 DEF Circle
  <2>7. Dead => Dead'
    BY <2>2 DEF Dead
  <2> QED BY <2>2, <2>4, <2>5, <2>6, <2>7, Halves, OutsideKeeps
<1>4. CASE Mine \/ Crowd
  <2>1. CircleTypeOK'
    BY <1>0, <1>4 DEF Mine, Crowd, CircleTypeOK
  <2>2. Circle'
    BY <1>0, <1>4 DEF Mine, Crowd, Circle
  <2>3. Dead => Dead'
    BY <1>0, <1>4 DEF Mine, Crowd, Dead
  <2> QED BY <1>4, <2>1, <2>2, <2>3, OutsideKeeps DEF Mine, Crowd
<1> QED BY <1>1, <1>2, <1>3, <1>4

\* The user's token and the clock say nothing of the payment.
LEMMA ClockStep ==
  ASSUME CircleInv, SignIn \/ SignOut \/ Expire \/ UNCHANGED circleVars
  PROVE  CircleInv'
<1>0. Booleans /\ Others
  BY Halves DEF CircleInv
<1>1. /\ UNCHANGED <<challenge, tx, chain, crowded, exec, reason, started, stored, call, misread>>
      /\ faults' = faults \/ (faults < MaxFaults /\ faults' = faults + 1)
  BY DEF SignIn, SignOut, Expire, circleVars, circle, db
<1>2. Booleans'
  <2>1. /\ session' = session \/ session' = TRUE \/ session' = FALSE
        /\ fresh' = fresh \/ fresh' = FALSE
    BY DEF SignIn, SignOut, Expire, circleVars
  <2> QED BY <1>0, <1>1, <2>1 DEF Booleans
<1>3. Others'
  <2>1. faults' \in 0..MaxFaults
    <3>1. faults \in 0..MaxFaults
      BY <1>0 DEF Others
    <3> QED BY SMT, <1>1, <3>1, FaultsAssumption
  <2> QED BY <1>0, <1>1, <2>1, Fixed DEF Others
<1>4. Circle' /\ (Dead => Dead')
  BY <1>1 DEF CircleInv, Circle, Dead
<1> QED BY <1>1, <1>2, <1>3, <1>4, Halves, OutsideKeeps DEF db

-----------------------------------------------------------------------------
(* The runtime and the adapter.                                            *)

ExecStates == {"EXECUTING", "SUBMITTED", "RECOVERY_REQUIRED", "FAILED_RECOVERABLE",
               "FAILED", "VERIFIED"}

\* A step that leaves Circle alone, with what it must say of the database and the call.
LEMMA RuntimeKeeps ==
  ASSUME CircleInv, UNCHANGED <<circle, session, fresh, started>>, Spent,
         exec' \in ExecStates, reason' \in Classification \cup {""},
         stored' \in Reference, call' \in CallRecs, call'.pc # "execute",
         Known(stored'), Known(call'.ref), Calls', SubmissionIsShown',
         exec' = "FAILED" => exec = "FAILED" \/ misread' \/ Dead',
         call'.pc = "done" /\ call'.class \in {PreSubmission, PermanentRejection}
           => misread' \/ Dead'
  PROVE  CircleInv'
<1> USE DEF circle
<1>0. Booleans /\ Others
  BY Halves DEF CircleInv
<1>1. Booleans'
  BY <1>0 DEF Booleans, Spent
<1>2. Others'
  BY <1>0, Fixed DEF Others, Spent, ExecStates
<1>3. Circle' /\ Once'
  BY DEF CircleInv, Circle, Once
<1>4. Known(stored)' /\ Known(call.ref)'
  BY DEF Known
<1>5. (misread => misread') /\ (Dead => Dead')
  BY DEF Dead, Spent
<1>6. Ended'
  BY <1>5 DEF CircleInv, Ended
<1> QED BY <1>1, <1>2, <1>3, <1>4, <1>6, Halves DEF CircleInv

\* A step that only moves the call.
LEMMA CallKeeps ==
  ASSUME CircleInv, UNCHANGED <<circle, session, fresh, db>>, Spent,
         call' \in CallRecs, call'.pc # "execute", Known(call'.ref), Calls',
         call'.pc = "done" /\ call'.class \in {PreSubmission, PermanentRejection}
           => misread' \/ Dead'
  PROVE  CircleInv'
<1>1. exec' \in ExecStates /\ reason' \in Classification \cup {""} /\ stored' \in Reference
  BY Halves DEF CircleInv, Others, ExecStates, db
<1>2. Known(stored') /\ SubmissionIsShown'
  BY DEF CircleInv, Known, SubmissionIsShown, circle, db
<1> QED BY <1>1, <1>2, RuntimeKeeps DEF db

\* The records of a call.
LEMMA IdleCall == /\ NoReference \in Reference /\ ~NoReference.id /\ ~NoReference.challenge
                  /\ NoReference.hash = ""
                  /\ NoCall \in CallRecs /\ NoCall.pc = "idle" /\ NoCall.ref = NoReference
BY DEF NoReference, Reference, TransactionHashes, NoCall, CallRecs, Pcs, Classification

\* What a finished call holds.
LEMMA OutcomeCall ==
  ASSUME NEW class \in Classification, NEW ref \in Reference, Outcome(class, ref)
  PROVE  call' \in CallRecs /\ call'.pc = "done" /\ call'.ref = ref /\ call'.class = class
BY DEF Outcome, CallRecs, Pcs

\* The classes are distinct.
LEMMA ClassesDiffer ==
  /\ {PreSubmission, UserAuthorizationRequired, Transient, PermanentRejection, Ambiguous,
      SubmittedPending} = Classification
  /\ UserAuthorizationRequired \notin {PreSubmission, PermanentRejection, SubmittedPending}
  /\ Transient \notin {PreSubmission, PermanentRejection, SubmittedPending, ""}
  /\ Ambiguous \notin {PreSubmission, PermanentRejection, SubmittedPending, ""}
  /\ SubmittedPending \notin {PreSubmission, PermanentRejection}
  /\ PermanentRejection \notin {PreSubmission, SubmittedPending, ""}
  /\ PreSubmission # SubmittedPending
BY DEF Classification, PreSubmission, UserAuthorizationRequired, Transient, PermanentRejection,
       Ambiguous, SubmittedPending

\* A call that ends with a class that is no final failure.
LEMMA OutcomeKeeps ==
  ASSUME CircleInv, UNCHANGED <<circle, session, fresh, db>>, Spent,
         NEW class \in Classification, NEW ref \in Reference, Known(ref), Outcome(class, ref),
         class = SubmittedPending => ref.id,
         class \in {PreSubmission, PermanentRejection} => misread' \/ Dead'
  PROVE  CircleInv'
<1>1. call' \in CallRecs /\ call'.pc = "done" /\ call'.ref = ref /\ call'.class = class
  BY OutcomeCall
<1>2. Calls'
  BY <1>1 DEF Calls
<1> QED BY <1>1, <1>2, CallKeeps

\* A step without a fault spends none.
LEMMA Unspent == CircleInv /\ UNCHANGED <<faults, misread>> => Spent
<1> SUFFICES ASSUME CircleInv, UNCHANGED <<faults, misread>> PROVE Spent
  OBVIOUS
<1>1. misread' \in BOOLEAN /\ (misread => misread')
  BY Halves DEF CircleInv, Booleans
<1>2. faults' \in 0..MaxFaults
  BY Halves DEF CircleInv, Others
<1> QED BY <1>1, <1>2 DEF Spent

\* A step with one fault spends one.
LEMMA SpentOnce == CircleInv /\ faults < MaxFaults /\ faults' = faults + 1 /\ UNCHANGED misread => Spent
<1> SUFFICES ASSUME CircleInv, faults < MaxFaults, faults' = faults + 1, UNCHANGED misread PROVE Spent
  OBVIOUS
<1>1. misread' \in BOOLEAN /\ (misread => misread')
  BY Halves DEF CircleInv, Booleans
<1>2. faults \in 0..MaxFaults
  BY Halves DEF CircleInv, Others
<1>3. faults' \in 0..MaxFaults
  BY SMT, <1>2, FaultsAssumption
<1> QED BY <1>1, <1>3 DEF Spent

\* An answer spends at most one fault, and a misreading one is recorded.
LEMMA SpendSpends ==
  ASSUME CircleInv, NEW answer \in Answers, Spend(answer)
  PROVE  Spent /\ (answer \in {"unauthorized", "rejected", "badhash"} => misread')
<1>1. misread' \in BOOLEAN /\ (misread => misread')
      /\ (answer \in {"unauthorized", "rejected", "badhash"} => misread')
  BY DEF Spend
<1>2. faults \in 0..MaxFaults
  BY Halves DEF CircleInv, Others
<1>3. answer = "ok" \/ faults < MaxFaults
  BY DEF Answers
<1>4. faults' \in 0..MaxFaults
  BY SMT, <1>2, <1>3, FaultsAssumption DEF Spend
<1> QED BY <1>1, <1>4 DEF Spent

-----------------------------------------------------------------------------
(* Execute: it is called once, and only it creates a challenge.            *)

\* Submitting the payment, or failing to, keeps CircleInv.
LEMMA ExecuteStep ==
  ASSUME CircleInv, Submit \/ ExecuteChallenge \/ ExecuteFails
  PROVE  CircleInv'
<1>0. Booleans /\ Others /\ Circle /\ Once /\ Ended
  BY Halves DEF CircleInv
<1>1. /\ challenge = "NONE" /\ challenge' \in {"NONE", "PENDING"} /\ started' = TRUE
      /\ challenge' # "NONE" => call.pc = "execute"
      /\ UNCHANGED <<tx, chain, crowded, session, fresh, exec, reason, stored, misread>>
  <2>1. CASE Submit
    BY <1>0, <2>1 DEF Submit, Once, circle, Booleans
  <2>2. CASE ExecuteChallenge \/ ExecuteFails
    BY <1>0, <2>2 DEF ExecuteChallenge, ExecuteFails, Once, db, Booleans
  <2> QED BY <2>1, <2>2
<1>2. Spent
  <2>1. CASE UNCHANGED faults
    BY <1>1, <2>1, Unspent
  <2>2. CASE ExecuteFails
    BY <1>1, <2>2, SpentOnce DEF ExecuteFails
  <2> QED BY <2>1, <2>2 DEF Submit, ExecuteChallenge
<1>3. /\ call' \in CallRecs
      /\ call'.pc = "execute" => challenge' = "NONE"
      /\ call'.pc \in {"execute", "done"}
      /\ call'.class \notin {PreSubmission, PermanentRejection, SubmittedPending}
      /\ ~call'.ref.id /\ (call'.ref.challenge => challenge' # "NONE")
  <2>1. CASE Submit
    <3>1. call' = [NoCall EXCEPT !.pc = "execute"] /\ challenge' = challenge
      BY <2>1 DEF Submit, circle
    <3>2. call' \in CallRecs /\ call'.pc = "execute" /\ call'.ref = NoReference
          /\ call'.class = Ambiguous
      BY <3>1, IdleCall DEF CallRecs, Pcs, NoCall
    <3> QED BY <1>1, <3>1, <3>2, IdleCall, ClassesDiffer
  <2>2. CASE ExecuteChallenge
    <3> DEFINE ref == [NoReference EXCEPT !.challenge = TRUE]
    <3>1. ref \in Reference /\ ~ref.id
      BY DEF NoReference, Reference, TransactionHashes
    <3>2. UserAuthorizationRequired \in Classification
      BY DEF Classification
    <3> HIDE DEF ref
    <3>3. call' \in CallRecs /\ call'.pc = "done" /\ call'.ref = ref
          /\ call'.class = UserAuthorizationRequired
      BY <2>2, <3>1, <3>2, OutcomeCall DEF ExecuteChallenge, ref
    <3> QED BY <2>2, <3>1, <3>3, ClassesDiffer DEF ExecuteChallenge
  <2>3. CASE ExecuteFails
    <3>1. PICK class \in {Transient, Ambiguous} : Outcome(class, NoReference)
      BY <2>3 DEF ExecuteFails, ClassifyHTTPStatus
    <3>2. class \in Classification
      BY DEF Classification
    <3>3. call' \in CallRecs /\ call'.pc = "done" /\ call'.ref = NoReference
          /\ call'.class = class
      BY <3>1, <3>2, IdleCall, OutcomeCall
    <3> QED BY <3>3, IdleCall, ClassesDiffer
  <2> QED BY <2>1, <2>2, <2>3
<1>4. Booleans'
  BY <1>0, <1>1, <1>2 DEF Booleans, Spent
<1>5. Others'
  BY <1>0, <1>1, <1>2, <1>3, Fixed DEF Others, Spent
<1>6. tx = NoTransaction /\ chain = "NONE"
  BY <1>0, <1>1, NoTx DEF Circle
<1>7. Circle' /\ Once'
  BY <1>0, <1>1, <1>3, <1>6 DEF Circle, Once
<1>8. Known(stored)' /\ Known(call.ref)'
  BY <1>1, <1>3 DEF CircleInv, Known
<1>9. Calls' /\ SubmissionIsShown'
  BY <1>1, <1>3 DEF CircleInv, Calls, SubmissionIsShown
<1>10. exec = "FAILED" => misread'
  <2>1. CASE exec = "EXECUTING"
    BY <2>1
  <2>2. CASE call.pc = "execute"
    BY <1>0, <1>1, <1>6, <2>2, NoTx DEF Ended, Dead
  <2> QED BY <2>1, <2>2 DEF Submit, ExecuteChallenge, ExecuteFails
<1>11. Ended'
  BY <1>1, <1>3, <1>10 DEF Ended
<1> QED BY <1>4, <1>5, <1>7, <1>8, <1>9, <1>11, Halves DEF CircleInv

\* A refusal before the provider: the challenge was not created and will not be.
LEMMA RefusedStep ==
  ASSUME CircleInv, ExecuteRefused \/ ExecuteUnauthorized
  PROVE  CircleInv'
<1>1. UNCHANGED <<circle, session, fresh, db>> /\ Spent
  BY Unspent DEF ExecuteRefused, ExecuteUnauthorized
<1>2. PICK class \in {PreSubmission, UserAuthorizationRequired} : Outcome(class, NoReference)
  BY DEF ExecuteRefused, ExecuteUnauthorized
<1>3. class \in Classification /\ class # SubmittedPending
  BY ClassesDiffer DEF Classification
<1>4. call'.pc = "done"
  BY <1>2, <1>3, OutcomeCall, IdleCall
<1>5. Dead'
  BY <1>1, <1>4 DEF Dead, CircleInv, Once, circle, db, ExecuteRefused, ExecuteUnauthorized
<1>6. Known(NoReference)
  BY IdleCall DEF Known
<1> QED BY <1>1, <1>2, <1>3, <1>5, <1>6, IdleCall, OutcomeKeeps

-----------------------------------------------------------------------------
(* Reconciliation.                                                         *)

\* Polling the challenge keeps CircleInv.
LEMMA GetStatusStep == ASSUME CircleInv, GetStatus PROVE CircleInv'
<1>1. UNCHANGED <<circle, session, fresh, db, misread>>
  BY DEF GetStatus
<1>2. Spent
  BY <1>1, Unspent, SpentOnce DEF GetStatus
<1>3. stored \in Reference /\ Known(stored) /\ Known(NoReference)
  BY Halves, IdleCall DEF CircleInv, Others, Known
<1>4. ASSUME NEW class \in {Transient, Ambiguous, UserAuthorizationRequired},
             NEW ref \in {stored, NoReference}, Outcome(class, ref)
      PROVE  CircleInv'
  <2>1. class \in Classification
        /\ class \notin {PreSubmission, PermanentRejection, SubmittedPending}
    BY ClassesDiffer
  <2> QED BY <1>1, <1>2, <1>3, <1>4, <2>1, IdleCall, OutcomeKeeps
<1>5. CASE call' = [NoCall EXCEPT !.pc = "resolve", !.ref = stored]
  <2>1. call' \in CallRecs /\ call'.pc = "resolve" /\ call'.ref = stored
    BY <1>3, <1>5, IdleCall DEF CallRecs, Pcs
  <2>2. Calls'
    BY <2>1 DEF Calls
  <2> QED BY <1>1, <1>2, <1>3, <2>1, <2>2, CallKeeps
<1> QED BY <1>4, <1>5 DEF GetStatus

\* classifyResolution: a rejection is of a transaction that was denied.
LEMMA ResolutionClass ==
  ASSUME CircleTypeOK, Circle, NEW ref \in Reference, ref.id,
         tx.hash # "" => ref.hash # "", tx # NoTransaction
  PROVE  /\ ClassifyResolution(ref, tx.state) \in Classification
         /\ ClassifyResolution(ref, tx.state) # PreSubmission
         /\ ClassifyResolution(ref, tx.state) = PermanentRejection => tx.state = "DENIED"
<1>1. ClassifyTransactionState(tx.state) \in {SubmittedPending, PermanentRejection, Ambiguous}
      /\ (ClassifyTransactionState(tx.state) = PermanentRejection
            => tx.state \in {"FAILED", "DENIED"})
  BY ClassesDiffer DEF ClassifyTransactionState
<1>2. tx.state = "FAILED" => tx.hash # ""
  BY DEF Circle
<1> QED BY <1>1, <1>2, ClassesDiffer DEF ClassifyResolution

\* Reconciliation keeps CircleInv.
LEMMA ReconcileStep == ASSUME CircleInv, Reconcile PROVE CircleInv'
<1>0. CircleTypeOK /\ Circle /\ Known(call.ref) /\ call \in CallRecs
  BY Halves DEF CircleInv, Others
<1>1. PICK answer \in Answers :
        LET observed == ResolveTransaction(call.ref, answer)
        IN /\ IF observed.err # "" THEN Outcome(observed.err, call.ref)
              ELSE IF observed.found
                THEN Outcome(ClassifyResolution(observed.ref, observed.state), observed.ref)
                ELSE IF call.ref.challenge THEN call' = [call EXCEPT !.pc = "challenge"]
                ELSE Outcome(Ambiguous, call.ref)
           /\ Spend(answer)
  BY DEF Reconcile
<1> DEFINE observed == ResolveTransaction(call.ref, answer)
<1>2. call.ref \in Reference
  BY <1>0 DEF CallRecs
<1>3. /\ observed.err \in {"", Ambiguous, Transient, PermanentRejection}
      /\ observed.err = PermanentRejection => answer \in {"unauthorized", "rejected"}
      /\ observed.found \in BOOLEAN
      /\ ~observed.found => observed.ref = call.ref
      /\ observed.found => /\ observed.state = tx.state /\ tx # NoTransaction
                           /\ observed.ref.id = TRUE
                           /\ tx.hash # "" /\ answer # "badhash" => observed.ref.hash # ""
      /\ observed.ref \in Reference /\ observed.ref.challenge = call.ref.challenge
      /\ Known(observed.ref)
  BY <1>0, <1>2, Resolved
<1>4. Spent /\ (answer \in {"unauthorized", "rejected", "badhash"} => misread')
  BY <1>1, SpendSpends
<1>5. UNCHANGED <<circle, session, fresh, db>>
  BY DEF Reconcile
<1> HIDE DEF observed
<1>6. CASE observed.err # ""
  <2>1. Outcome(observed.err, call.ref) /\ observed.err \in {Ambiguous, Transient, PermanentRejection}
    BY <1>1, <1>3, <1>6 DEF observed
  <2>2. observed.err \in Classification /\ observed.err \notin {PreSubmission, SubmittedPending}
    BY <2>1, ClassesDiffer DEF Classification
  <2>3. observed.err = PermanentRejection => misread'
    BY <1>3, <1>4
  <2> QED BY <1>0, <1>2, <1>4, <1>5, <2>1, <2>2, <2>3, OutcomeKeeps
<1>7. CASE observed.err = "" /\ observed.found
  <2> DEFINE class == ClassifyResolution(observed.ref, tx.state)
  <2>1. Outcome(class, observed.ref)
    BY <1>1, <1>3, <1>7 DEF observed
  <2>2. CASE answer = "badhash"
    <3>1. class \in Classification
      BY ClassesDiffer DEF ClassifyResolution, ClassifyTransactionState
    <3> QED BY <1>3, <1>4, <1>5, <1>7, <2>1, <2>2, <3>1, OutcomeKeeps
  <2>3. CASE answer # "badhash"
    <3>1. /\ class \in Classification /\ class # PreSubmission
          /\ class = PermanentRejection => tx.state = "DENIED"
      BY <1>0, <1>3, <1>7, <2>3, ResolutionClass
    <3>2. class = PermanentRejection => Dead'
      BY <1>5, <3>1 DEF Dead, circle
    <3> HIDE DEF class
    <3> QED BY <1>3, <1>4, <1>5, <1>7, <2>1, <3>1, <3>2, OutcomeKeeps
  <2> QED BY <2>2, <2>3
<1>8. CASE observed.err = "" /\ ~observed.found /\ ~call.ref.challenge
  <2>1. Outcome(Ambiguous, call.ref)
    BY <1>1, <1>8 DEF observed
  <2>2. Ambiguous \in Classification
        /\ Ambiguous \notin {PreSubmission, PermanentRejection, SubmittedPending}
    BY ClassesDiffer DEF Classification
  <2> QED BY <1>0, <1>2, <1>4, <1>5, <2>1, <2>2, OutcomeKeeps
<1>9. CASE observed.err = "" /\ ~observed.found /\ call.ref.challenge
  <2>1. call' = [call EXCEPT !.pc = "challenge"]
    BY <1>1, <1>9 DEF observed
  <2>2. call' \in CallRecs /\ call'.pc = "challenge" /\ call'.ref = call.ref
    BY <1>0, <2>1 DEF CallRecs, Pcs
  <2>3. Calls'
    BY <1>9, <2>2 DEF Calls
  <2> QED BY <1>0, <1>4, <1>5, <2>2, <2>3, CallKeeps
<1> QED BY <1>3, <1>6, <1>7, <1>8, <1>9

\* challengeOutcome: an ended challenge ends the execution, an authorized one is
\* no submission.
LEMMA ChallengeStep == ASSUME CircleInv, ChallengeOutcome PROVE CircleInv'
<1>0. CircleTypeOK /\ Circle /\ Known(call.ref) /\ call \in CallRecs /\ Others
  BY Halves DEF CircleInv, Others
<1>1. PICK answer \in Answers \ {"foreign", "badhash"}, status \in FindChallenge :
        /\ Outcome(IF answer # "ok" THEN ReadError(answer)
                   ELSE IF status = "ABSENT" THEN Ambiguous ELSE ChallengeClass(status), call.ref)
        /\ Spend(answer)
  BY DEF ChallengeOutcome
<1>2. call.ref \in Reference /\ challenge # "NONE"
  BY <1>0 DEF CallRecs, CircleInv, Calls, Known, ChallengeOutcome
<1>3. status = "ABSENT" \/ (status = challenge
        /\ challenge \in {"PENDING", "IN_PROGRESS", "COMPLETE", "FAILED", "EXPIRED"})
  BY <1>0, <1>2 DEF FindChallenge, Others
<1>4. Spent /\ (answer \in {"unauthorized", "rejected", "badhash"} => misread')
  BY <1>1, SpendSpends
<1>5. UNCHANGED <<circle, session, fresh, db>>
  BY DEF ChallengeOutcome
<1>6. answer = "ok" \/ answer \in AllReadFaults
  BY AnswerType
<1>7. PICK class \in Classification :
        /\ Outcome(class, call.ref)
        /\ class \notin {PreSubmission, SubmittedPending}
        /\ class = PermanentRejection => misread' \/ challenge \in {"FAILED", "EXPIRED"}
  <2>1. CASE answer # "ok"
    <3>1. Outcome(ReadError(answer), call.ref)
      BY <1>1, <2>1
    <3>2. /\ ReadError(answer) \in {Ambiguous, Transient, PermanentRejection}
          /\ ReadError(answer) = PermanentRejection => misread'
      BY <1>4, <1>6, <2>1, ReadErrorClass
    <3> QED BY <3>1, <3>2, ClassesDiffer
  <2>2. CASE answer = "ok" /\ status = "ABSENT"
    <3>1. Outcome(Ambiguous, call.ref)
      BY <1>1, <2>2
    <3> QED BY <3>1, ClassesDiffer
  <2>3. CASE answer = "ok" /\ status # "ABSENT"
    <3>1. Outcome(ChallengeClass(challenge), call.ref)
      BY <1>1, <1>3, <2>3
    <3>2. ChallengeClass(challenge) \in {UserAuthorizationRequired, Ambiguous, PermanentRejection}
          /\ (ChallengeClass(challenge) = PermanentRejection
                => challenge \in {"FAILED", "EXPIRED"})
      BY <1>3, <2>3, ClassesDiffer DEF ChallengeClass, ClassifyChallengeStatus
    <3> QED BY <3>1, <3>2, ClassesDiffer
  <2> QED BY <2>1, <2>2, <2>3
<1>8. class = PermanentRejection => misread' \/ Dead'
  BY <1>5, <1>7 DEF Dead, circle
<1> QED BY <1>0, <1>2, <1>4, <1>5, <1>7, <1>8, OutcomeKeeps

-----------------------------------------------------------------------------
(* Storing results.                                                        *)

\* Storing the outcome of a call keeps CircleInv.
LEMMA PersistStep == ASSUME CircleInv, Persist PROVE CircleInv'
<1>0. Others /\ call \in CallRecs /\ call.ref \in Reference /\ call.class \in Classification
  BY Halves DEF CircleInv, Others, CallRecs
<1>1. UNCHANGED <<circle, session, fresh, started>> /\ Spent /\ call' = NoCall /\ call.pc = "done"
  BY Unspent DEF Persist
<1>2. /\ exec' \in ExecStates \ {"VERIFIED"} /\ reason' \in Classification \cup {""}
      /\ exec' = "SUBMITTED" => call.class = SubmittedPending
      /\ exec' = "FAILED" => call.class \in {PreSubmission, PermanentRejection}
  BY <1>0 DEF Persist, AdapterResult, ExecStates, Classification, PreSubmission,
              UserAuthorizationRequired, Transient, PermanentRejection, Ambiguous, SubmittedPending
<1>3. stored' \in {stored, call.ref} /\ stored' \in Reference
  BY <1>0 DEF Persist, LatestReference, Others
<1>4. Known(stored') /\ Known(call'.ref)
  BY <1>1, <1>3, IdleCall DEF CircleInv, Known
<1>5. Calls'
  BY <1>1, IdleCall DEF Calls
<1>6. SubmissionIsShown'
  <2>1. ASSUME exec' = "SUBMITTED" PROVE stored'.id /\ tx' # NoTransaction
    <3>1. call.ref.id
      BY <1>1, <1>2, <2>1 DEF CircleInv, Calls
    <3>2. stored' = call.ref
      BY <2>1, <3>1, IdleCall DEF Persist, LatestReference
    <3> QED BY <1>1, <3>1, <3>2 DEF CircleInv, Known, circle
  <2> QED BY <1>2, <2>1 DEF SubmissionIsShown
<1>7. exec' = "FAILED" => misread' \/ Dead'
  <2>1. exec' = "FAILED" => misread \/ Dead
    BY <1>1, <1>2 DEF CircleInv, Ended
  <2>2. Dead => Dead'
    BY <1>1, IdleCall DEF Dead, circle
  <2>3. UNCHANGED misread
    BY DEF Persist
  <2> QED BY <2>1, <2>2, <2>3
<1> QED BY <1>1, <1>2, <1>3, <1>4, <1>5, <1>6, <1>7, IdleCall, RuntimeKeeps

\* Recovery and resumption keep CircleInv.
LEMMA ResumeStep == ASSUME CircleInv, Recover \/ Resume PROVE CircleInv'
<1>0. Others
  BY Halves DEF CircleInv
<1>1. /\ UNCHANGED <<circle, session, fresh, started, reason, stored, call>> /\ Spent
      /\ exec' \in {"RECOVERY_REQUIRED", "EXECUTING"} /\ call.pc = "idle"
  BY Unspent DEF Recover, Resume
<1>2. exec' \in ExecStates /\ reason' \in Classification \cup {""} /\ stored' \in Reference
      /\ call' \in CallRecs
  BY <1>0, <1>1 DEF Others, ExecStates
<1>3. Known(stored') /\ Known(call'.ref) /\ Calls' /\ SubmissionIsShown'
  BY <1>1 DEF CircleInv, Known, Calls, SubmissionIsShown
<1> QED BY <1>1, <1>2, <1>3, RuntimeKeeps

\* The start of a verification keeps CircleInv.
LEMMA VerifyStep == ASSUME CircleInv, Verify PROVE CircleInv'
<1>0. stored \in Reference /\ Known(stored) /\ stored.id
  BY Halves DEF CircleInv, Others, Verify, SubmissionIsShown
<1>1. UNCHANGED <<circle, session, fresh, db>> /\ Spent
  BY Unspent DEF Verify
<1>2. /\ call' \in CallRecs /\ call'.ref = stored
      /\ call'.pc = IF stored.hash = "" THEN "hash" ELSE "receipt"
  <2>1. \A pc \in Pcs : LET c == [NoCall EXCEPT !.pc = pc, !.ref = stored]
                        IN c \in CallRecs /\ c.ref = stored /\ c.pc = pc
    BY <1>0, IdleCall DEF CallRecs
  <2> QED BY <2>1 DEF Verify, Pcs
<1>3. exec' = "SUBMITTED"
  BY <1>1 DEF Verify, db
<1>4. Calls'
  BY <1>0, <1>2, <1>3 DEF Calls
<1> QED BY <1>0, <1>1, <1>2, <1>4, CallKeeps

\* Looking up the transaction hash keeps CircleInv.
LEMMA ResolveHashStep == ASSUME CircleInv, ResolveHash PROVE CircleInv'
<1>0. CircleTypeOK /\ Others /\ call \in CallRecs /\ call.ref \in Reference /\ Known(call.ref)
      /\ call.ref.id /\ call.pc = "hash" /\ exec = "SUBMITTED" /\ tx # NoTransaction
  BY Halves DEF CircleInv, Others, CallRecs, Calls, Known, ResolveHash
<1>1. PICK answer \in Answers :
        LET observed == ResolveReference(call.ref, answer)
        IN /\ call' = IF observed.err = "" /\ observed.ref.hash # ""
                       THEN [call EXCEPT !.pc = "receipt", !.ref = observed.ref] ELSE NoCall
           /\ stored' = IF observed.err = "" /\ observed.ref.hash = ""
                         THEN observed.ref ELSE stored
           /\ Spend(answer)
  BY DEF ResolveHash
<1> DEFINE observed == ResolveReference(call.ref, answer)
<1>2. observed.ref \in Reference /\ observed.ref.id /\ Known(observed.ref)
  <2>1. CASE session
    <3> DEFINE found == ResolveTransaction(call.ref, answer)
    <3>1. /\ found.err \in {"", Ambiguous, Transient, PermanentRejection}
          /\ found.err = PermanentRejection => answer \in {"unauthorized", "rejected"}
          /\ found.found \in BOOLEAN
          /\ ~found.found => found.ref = call.ref
          /\ found.found => /\ found.state = tx.state /\ tx # NoTransaction
                            /\ found.ref.id = TRUE
                            /\ tx.hash # "" /\ answer # "badhash" => found.ref.hash # ""
          /\ found.ref \in Reference /\ found.ref.challenge = call.ref.challenge
          /\ Known(found.ref)
      BY <1>0, Resolved
    <3> HIDE DEF found
    <3>2. found.ref.id
      BY <1>0, <3>1
    <3>3. observed = found
      BY <2>1 DEF ResolveReference, found
    <3> HIDE DEF observed
    <3> QED BY <3>1, <3>2, <3>3
  <2>2. CASE ~session
    BY <1>0, <2>2 DEF ResolveReference
  <2> QED BY <2>1, <2>2
<1>3. /\ call' = IF observed.err = "" /\ observed.ref.hash # ""
                 THEN [call EXCEPT !.pc = "receipt", !.ref = observed.ref] ELSE NoCall
      /\ stored' \in {stored, observed.ref}
  BY <1>1
<1>4. UNCHANGED <<circle, session, fresh, started, exec, reason>> /\ Spent
  BY <1>1, SpendSpends DEF ResolveHash
<1> HIDE DEF observed
<1>5. stored' \in Reference /\ Known(stored') /\ stored'.id
  BY <1>0, <1>2, <1>3 DEF CircleInv, Others, SubmissionIsShown
<1>6. /\ call' \in CallRecs /\ call'.pc \in {"idle", "receipt"}
      /\ call'.pc = "receipt" => call'.ref.id /\ call'.ref.hash # ""
      /\ Known(call'.ref)
  <2>1. CASE call' = NoCall
    BY <2>1, IdleCall DEF Known
  <2>2. CASE /\ call' = [call EXCEPT !.pc = "receipt", !.ref = observed.ref]
             /\ observed.ref.hash # ""
    <3>1. call' \in CallRecs /\ call'.pc = "receipt" /\ call'.ref = observed.ref
      BY <1>0, <1>2, <2>2 DEF CallRecs, Pcs
    <3>2. observed.ref.hash # ""
      BY <2>2
    <3>3. Known(call'.ref) /\ call'.ref.id
      BY <1>2, <3>1 DEF Known
    <3>4. call'.ref.hash # ""
      BY <3>1, <3>2
    <3>5. call'.pc \in {"idle", "receipt"}
      BY <3>1
    <3> QED BY <3>1, <3>3, <3>4, <3>5
  <2> QED BY <1>3, <2>1, <2>2
<1>7. Calls' /\ SubmissionIsShown'
  BY <1>0, <1>4, <1>5, <1>6 DEF Calls, SubmissionIsShown, circle
<1>8. exec' \in ExecStates /\ reason' \in Classification \cup {""} /\ exec' # "FAILED"
  BY <1>0, <1>4 DEF Others, ExecStates
<1> QED BY <1>4, <1>5, <1>6, <1>7, <1>8, RuntimeKeeps

\* Reading the receipt keeps CircleInv.
LEMMA ReceiptStep == ASSUME CircleInv, VerifyReceipt PROVE CircleInv'
<1>0. Others /\ call.ref \in Reference /\ Known(call.ref) /\ call.ref.id /\ call.ref.hash # ""
      /\ exec = "SUBMITTED" /\ stored.id /\ Known(stored) /\ tx # NoTransaction
  BY Halves DEF CircleInv, Others, CallRecs, Calls, SubmissionIsShown, VerifyReceipt
<1>1. UNCHANGED <<circle, session, fresh, started, misread>> /\ call' = NoCall
  BY DEF VerifyReceipt
<1>2. Spent
  BY <1>1, Unspent, SpentOnce DEF VerifyReceipt
<1>3. /\ exec' \in ExecStates /\ reason' \in Classification \cup {""}
      /\ stored' \in {stored, call.ref}
      /\ exec' = "VERIFIED" => chain = "success" /\ stored' = call.ref
      /\ exec' = "FAILED" => chain = "reverted"
  BY <1>0, ClassesDiffer DEF VerifyReceipt, VerificationResult, ExecStates, Others
<1>4. stored' \in Reference /\ Known(stored') /\ stored'.id
  BY <1>0, <1>3 DEF Others
<1>5. Calls' /\ Known(call'.ref)
  BY <1>1, IdleCall DEF Calls, Known
<1>6. SubmissionIsShown'
  BY <1>0, <1>1, <1>3, <1>4 DEF SubmissionIsShown, circle
<1>7. exec' = "FAILED" => Dead'
  BY <1>1, <1>3 DEF Dead, circle
<1> QED BY <1>1, <1>2, <1>3, <1>4, <1>5, <1>6, <1>7, IdleCall, RuntimeKeeps

\* A crash keeps CircleInv.
LEMMA CrashStep == ASSUME CircleInv, Crash PROVE CircleInv'
<1>1. UNCHANGED <<circle, session, fresh, db>> /\ call' = NoCall /\ Spent
  BY SpentOnce DEF Crash
<1>2. Calls' /\ Known(call'.ref)
  BY <1>1, IdleCall DEF Calls, Known
<1> QED BY <1>1, <1>2, IdleCall, CallKeeps

-----------------------------------------------------------------------------

\* CircleInv holds initially.
LEMMA CircleInitInv == CircleInit => CircleInv
<1> SUFFICES ASSUME CircleInit PROVE CircleInv
  OBVIOUS
<1>1. Booleans
  BY DEF CircleInit, Booleans
<1>2. Others
  <2>1. tx \in TxRecs
    BY DEF CircleInit, TxRecs, NoTransaction, TransactionHashes
  <2>2. faults \in 0..MaxFaults
    <3>1. faults = 0
      BY DEF CircleInit
    <3> QED BY SMT, <3>1, FaultsAssumption
  <2> QED BY <2>1, <2>2, IdleCall DEF CircleInit, Others
<1>3. Circle /\ Once /\ Known(stored) /\ Known(call.ref)
  BY NoTx, IdleCall DEF CircleInit, Circle, Once, Known
<1>4. Ended /\ Calls /\ SubmissionIsShown
  BY IdleCall DEF CircleInit, Ended, Calls, SubmissionIsShown
<1> QED BY <1>1, <1>2, <1>3, <1>4, Halves DEF CircleInv

\* Every step keeps CircleInv.
LEMMA NextKeepsInv == CircleInv /\ [CircleNext]_circleVars => CircleInv'
<1> SUFFICES ASSUME CircleInv, [CircleNext]_circleVars PROVE CircleInv'
  OBVIOUS
<1>1. CASE Runtime
  BY <1>1, ExecuteStep, RefusedStep, GetStatusStep, ReconcileStep, ChallengeStep, PersistStep,
     ResumeStep, VerifyStep, ResolveHashStep, ReceiptStep DEF Runtime
<1> QED BY <1>1, CrashStep, OutsideStep, ClockStep DEF CircleNext

\* A terminally FAILED execution has not paid and never will, unless a
\* reconciliation read was refused or carried a malformed hash: whatever Circle
\* answers in whatever order, and wherever the worker dies (classifyResolution,
\* challengeOutcome, submitOrReconcile, VerifyObservation).
THEOREM FailureIsFinal == CircleSpec => []FailedNeverPaid
<1>1. CircleInv => FailedNeverPaid
  BY DeadNeverPays DEF CircleInv, Ended, FailedNeverPaid
<1> QED BY <1>1, CircleInitInv, NextKeepsInv, PTL DEF CircleSpec

\* SUBMITTED and VERIFIED executions have the identifier of a transaction that
\* exists, and VERIFIED ones are on the chain (challengeOutcome, AdapterResult,
\* resolveHash, VerifyObservation).
THEOREM SubmissionsShown == CircleSpec => []SubmissionIsShown
<1>1. CircleInv => SubmissionIsShown
  BY DEF CircleInv
<1> QED BY <1>1, CircleInitInv, NextKeepsInv, PTL DEF CircleSpec

\* The variables of the settlement keep their types.
THEOREM CircleTyped == CircleSpec => []CircleTypeOK
<1>1. CircleInv => CircleTypeOK
  BY DEF CircleInv
<1> QED BY <1>1, CircleInitInv, NextKeepsInv, PTL DEF CircleSpec

-----------------------------------------------------------------------------
(* Observation integrity.                                                  *)

\* A receipt names its block.  The reader does not insist on it, and an observation
\* without a hash is comparable with any: a receipt without one would erase the hash
\* that was remembered.
NamesBlocks == \A b \in Blocks : b.hash # NoHash /\ b.number # 0

-----------------------------------------------------------------------------
(* The inductive invariant.                                                *)

Memories == {Nothing} \cup [found : {TRUE}, observation : Observations]

Evaluations(w) ==
  [at : {"evaluated"}, base : Observations, receipt : Receipts,
   outcome : {"PENDING", "VERIFIED", "FAILED"}, merged : Observations,
   after : SUBSET (Workers \ {w}), superseded : BOOLEAN, outdated : BOOLEAN]

Passes(w) == {Idle} \cup [at : {"loaded"}, base : Observations] \cup Evaluations(w)

Verdicts == [outcome : {"none"}] \cup
            [outcome : {"VERIFIED", "FAILED"}, receipt : Receipts, baseline : Observations,
             outdated : BOOLEAN]

Typed ==
  /\ durable \in Observations
  /\ memory \in [Workers -> Memories]
  /\ DOMAIN pass = Workers /\ pass = [w \in Workers |-> pass[w]]
  /\ \A w \in Workers : pass[w] \in Passes(w)
  /\ holder \in Workers /\ verdict \in Verdicts /\ stable \in BOOLEAN
  /\ outdated \subseteq Workers

\* What is observed names its block, or nothing is.
Named(o) == IF HasInclusion(o) THEN o.hash # NoHash /\ o.number # 0 ELSE o.logs = NoLogs

AllNamed ==
  /\ Named(durable)
  /\ \A w \in Workers : memory[w] # Nothing => Named(memory[w].observation)
  /\ \A w \in Workers : pass[w] # Idle => Named(pass[w].base)

\* A receipt that is consistent with m agrees with d.
Covers(m, d) ==
  HasInclusion(d) =>
    /\ HasInclusion(m) /\ m.hash = d.hash /\ m.number = d.number
    /\ d.present /\ d.logs # NoLogs => m.present /\ m.logs = d.logs

Judged(w) == pass[w].at = "evaluated"

\* No other worker has stored anything since what w remembers or has loaded.
Current(w) == w \notin outdated /\ verdict.outcome = "none"

Loads(w) == Current(w) /\ pass[w] # Idle => pass[w].base = durable

Remembers(w) ==
  Current(w) /\ memory[w] # Nothing /\ ~Judged(w) => Covers(memory[w].observation, durable)

Merges(w) ==
  Judged(w) =>
    /\ memory[w] = Remembered(pass[w].merged)
    /\ Present(pass[w].receipt) => pass[w].merged.hash = pass[w].receipt.hash
    /\ Current(w) /\ ~Present(pass[w].receipt) /\ HasInclusion(durable)
         => HasInclusion(pass[w].merged) /\ pass[w].merged.hash = durable.hash

Verifies(w) ==
  Judged(w) /\ pass[w].outcome = "VERIFIED" /\ ~pass[w].outdated /\ verdict.outcome = "none"
    => Agrees(pass[w].receipt, pass[w].base)

\* A pass that a later one has overtaken, and those before it, are outdated.
Overtaken(w) ==
  Judged(w) =>
    /\ pass[w].superseded => w \in outdated
    /\ \A v \in pass[w].after : Judged(v) =>
         /\ pass[w].superseded => v \in outdated
         /\ pass[v].after \subseteq pass[w].after \cup {u \in Workers : ~Judged(u)}

Stands(w) == Loads(w) /\ Remembers(w) /\ Merges(w) /\ Verifies(w)

Inv ==
  /\ Typed /\ AllNamed /\ VerifiedAgreesWithBaseline
  /\ \A w \in Workers : Stands(w) /\ Overtaken(w)

-----------------------------------------------------------------------------
(* Receipts and observations.                                              *)

\* A receipt is in a block exactly when it names one.
LEMMA ReceiptFields ==
  ASSUME NamesBlocks, NEW r \in Receipts
  PROVE  /\ r.hash \in Hashes /\ r.number \in Numbers /\ r.confirmations \in 0..MaxDepth
         /\ r.logs \in Logs \cup {NoLogs}
         /\ IF Present(r) THEN r.hash # NoHash /\ r.number # 0
                          ELSE r.hash = NoHash /\ r.number = 0
         /\ r.status = "SUCCESS" => Present(r)
<1>1. PICK a \in RPCAnswers : r = TransactionReceipt(a)
  BY DEF Receipts
<1>2. CASE a = None
  <2>1. /\ r.status = "UNKNOWN" /\ r.hash = NoHash /\ r.number = 0 /\ r.confirmations = 0
        /\ r.logs = NoLogs
    BY <1>1, <1>2 DEF TransactionReceipt
  <2>2. 0 \in 0..MaxDepth
    BY SMT, DepthAssumption
  <2> QED BY <2>1, <2>2 DEF Present, Hashes, Numbers
<1>3. CASE a # None
  <2>1. a \in [block : Blocks, depth : 1 .. MaxDepth,
               status : {"success", "reverted", "other"}, logs : Logs]
    BY <1>3, AnswersAssumption DEF AllAnswers
  <2>2. /\ r.hash = a.block.hash /\ r.number = a.block.number /\ r.confirmations = a.depth
        /\ r.logs = a.logs
    BY <1>1, <1>3 DEF TransactionReceipt
  <2>3. /\ a.block \in Blocks /\ a.depth \in 0..MaxDepth /\ a.logs \in Logs
    BY SMT, <2>1, DepthAssumption
  <2>4. r.hash # NoHash /\ r.number # 0
    BY <2>2, <2>3 DEF NamesBlocks
  <2> QED BY <2>2, <2>3, <2>4 DEF Present, Hashes, Numbers
<1> QED BY <1>2, <1>3

\* What ObservationFromReceipt takes from a receipt.
LEMMA ObservedFields ==
  ASSUME NamesBlocks, NEW r \in Receipts
  PROVE  LET o == ObservationFromReceipt(r)
         IN  /\ o \in Observations /\ Named(o)
             /\ o.present = Present(r) /\ o.known = Present(r) /\ o.hash = r.hash
             /\ o.number = r.number /\ o.logs = IF Present(r) THEN r.logs ELSE NoLogs
             /\ HasInclusion(o) = Present(r)
<1> DEFINE o == ObservationFromReceipt(r)
<1>1. Present(r) \in BOOLEAN
  BY DEF Present
<1>2. /\ o.present = Present(r) /\ o.known = Present(r) /\ o.hash = r.hash
      /\ o.number = r.number /\ o.logs = IF Present(r) THEN r.logs ELSE NoLogs
  BY DEF ObservationFromReceipt
<1>3. o \in Observations
  BY <1>1, ReceiptFields DEF ObservationFromReceipt, Observations
<1> HIDE DEF o
<1>4. HasInclusion(o) = Present(r)
  BY <1>1, <1>2, ReceiptFields DEF HasInclusion
<1>5. Named(o)
  BY <1>1, <1>2, <1>4, ReceiptFields DEF Named
<1>6. QED BY <1>2, <1>3, <1>4, <1>5 DEF o

\* A merge follows a receipt that is there and otherwise keeps the earlier inclusion.
LEMMA MergedFields ==
  ASSUME NamesBlocks, NEW r \in Receipts, NEW prior \in Observations, Named(prior)
  PROVE  LET m == MergeObservation(prior, ObservationFromReceipt(r))
         IN  /\ m \in Observations /\ Named(m)
             /\ Present(r) => m = ObservationFromReceipt(r) /\ m.hash = r.hash
             /\ ~Present(r) /\ HasInclusion(prior) => HasInclusion(m) /\ m.hash = prior.hash
<1> DEFINE o == ObservationFromReceipt(r)
           m == MergeObservation(prior, o)
<1>1. o \in Observations /\ Named(o) /\ o.present = Present(r) /\ o.hash = r.hash
  BY ObservedFields
<1> HIDE DEF o
<1>2. CASE Present(r) \/ ~HasInclusion(prior)
  BY <1>1, <1>2 DEF MergeObservation, o
<1>3. CASE ~Present(r) /\ HasInclusion(prior)
  <2>1. m = [prior EXCEPT !.present = FALSE, !.known = TRUE, !.confirmations = 0]
    BY <1>1, <1>3 DEF MergeObservation
  <2>2. 0 \in 0..MaxDepth
    BY SMT, DepthAssumption
  <2>3. m \in Observations
    BY <2>1, <2>2 DEF Observations
  <2>4. m.hash = prior.hash /\ m.number = prior.number /\ m.known = TRUE
    BY <2>1 DEF Observations
  <2> HIDE DEF m
  <2>5. HasInclusion(m)
    BY <2>4 DEF HasInclusion
  <2>6. Named(m)
    BY <1>3, <2>4, <2>5 DEF Named
  <2> QED BY <1>3, <2>3, <2>4, <2>5, <2>6 DEF m, o
<1> QED BY <1>2, <1>3

\* An observation covers itself.
LEMMA CoversItself == ASSUME NEW o PROVE Covers(o, o)
BY DEF Covers

\* A final success that is consistent with what covers d agrees with d and covers d.
LEMMA ConsistentCovers ==
  ASSUME NamesBlocks, NEW r \in Receipts, NEW prior \in Observations, NEW d \in Observations,
         Named(prior), Named(d), Covers(prior, d), FinalSuccess(prior, r)
  PROVE  /\ Agrees(r, d)
         /\ Covers(MergeObservation(prior, ObservationFromReceipt(r)), d)
<1> DEFINE o == ObservationFromReceipt(r)
<1>1. Present(r) /\ r.hash # NoHash /\ r.number # 0
  BY ReceiptFields DEF FinalSuccess
<1>2. /\ o.present = TRUE /\ o.hash = r.hash /\ o.number = r.number /\ o.logs = r.logs
      /\ HasInclusion(o)
  BY <1>1, ObservedFields
<1>3. MergeObservation(prior, o) = o
  BY <1>2 DEF MergeObservation
<1>4. ~Inconsistent(prior, o)
  BY DEF FinalSuccess
<1> HIDE DEF o
<1>5. CASE ~HasInclusion(d)
  BY <1>3, <1>5 DEF HasInclusion, Agrees, Covers, o
<1>6. CASE HasInclusion(d)
  <2>1. /\ HasInclusion(prior) /\ prior.hash = d.hash /\ prior.number = d.number
        /\ d.present /\ d.logs # NoLogs => prior.present /\ prior.logs = d.logs
        /\ d.hash # NoHash /\ d.number # 0
    BY <1>6 DEF Covers, Named
  <2>2. r.hash = d.hash /\ r.number = d.number
    BY <1>1, <1>2, <1>4, <2>1 DEF Inconsistent
  <2>3. d.present /\ d.logs # NoLogs => r.logs = d.logs
    BY <1>2, <1>4, <2>1 DEF Inconsistent
  <2>4. Agrees(r, d)
    BY <2>2, <2>3 DEF Agrees
  <2>5. Covers(o, d)
    BY <1>2, <2>2, <2>3 DEF Covers
  <2> QED BY <1>3, <2>4, <2>5 DEF o
<1> QED BY <1>5, <1>6

\* What storage keeps of an observation.
LEMMA StoredFields ==
  ASSUME NEW o \in Observations, Named(o)
  PROVE  /\ Stored(o) \in Observations /\ Named(Stored(o)) /\ Stored(o).hash = o.hash
         /\ Covers(o, Stored(o))
<1>1. CASE HasInclusion(o)
  <2>1. Stored(o) = [o EXCEPT !.known = TRUE]
    BY <1>1 DEF Stored, HasInclusion
  <2> DEFINE s == Stored(o)
  <2>2. /\ s \in Observations /\ s.hash = o.hash /\ s.number = o.number /\ s.known = TRUE
        /\ s.present = o.present /\ s.logs = o.logs
    BY <2>1 DEF Observations
  <2> HIDE DEF s
  <2>3. HasInclusion(s)
    BY <2>2 DEF HasInclusion
  <2>4. Named(s) /\ Covers(o, s)
    BY <1>1, <2>2, <2>3 DEF Named, Covers
  <2> QED BY <2>2, <2>4 DEF s
<1>2. CASE ~HasInclusion(o)
  <2>1. Stored(o) = NoObservation /\ o.hash = NoHash
    BY <1>2 DEF Stored, HasInclusion, Named
  <2>2. 0 \in 0..MaxDepth
    BY SMT, DepthAssumption
  <2>3. NoObservation \in Observations
    BY <2>2 DEF NoObservation, Observations, Hashes, Numbers
  <2>4. ~HasInclusion(NoObservation) /\ NoObservation.logs = NoLogs /\ NoObservation.hash = NoHash
    BY DEF HasInclusion, NoObservation
  <2> QED BY <2>1, <2>3, <2>4 DEF Named, Covers
<1> QED BY <1>1, <1>2

-----------------------------------------------------------------------------
(* What a step must establish.                                             *)

\* The phases of a pass and of the memory tell their records apart.
LEMMA Kinds ==
  /\ Idle.at = "idle" /\ Nothing.found = FALSE
  /\ \A w : \A p \in Passes(w) :
       /\ p = Idle <=> p.at = "idle"
       /\ p.at = "loaded" <=> p \in [at : {"loaded"}, base : Observations]
       /\ p.at = "evaluated" <=> p \in Evaluations(w)
       /\ p.at \in {"idle", "loaded", "evaluated"}
  /\ \A m \in Memories : /\ m.found <=> m # Nothing
                         /\ m.found => m.observation \in Observations
  /\ \A o \in Observations : /\ Remembered(o) \in Memories /\ Remembered(o) # Nothing
                             /\ Remembered(o).observation = o
<1>1. Idle.at = "idle" /\ Nothing.found = FALSE
  BY DEF Idle, Nothing
<1>2. ASSUME NEW w, NEW p \in Passes(w)
      PROVE  /\ p = Idle <=> p.at = "idle"
             /\ p.at = "loaded" <=> p \in [at : {"loaded"}, base : Observations]
             /\ p.at = "evaluated" <=> p \in Evaluations(w)
             /\ p.at \in {"idle", "loaded", "evaluated"}
  BY <1>1 DEF Passes, Evaluations
<1>3. ASSUME NEW m \in Memories
      PROVE  /\ m.found <=> m # Nothing
             /\ m.found => m.observation \in Observations
  BY <1>1 DEF Memories
<1>4. ASSUME NEW o \in Observations
      PROVE  /\ Remembered(o) \in Memories /\ Remembered(o) # Nothing
             /\ Remembered(o).observation = o
  <2>1. Remembered(o).found = TRUE /\ Remembered(o).observation = o
        /\ Remembered(o) \in [found : {TRUE}, observation : Observations]
    BY DEF Remembered
  <2> QED BY <1>1, <2>1 DEF Memories
<1> QED BY <1>1, <1>2, <1>3, <1>4

\* The pass of v goes on, with at most its place in the order changed.
GoesOn(v) ==
  /\ memory'[v] = memory[v] /\ (pass'[v] = Idle <=> pass[v] = Idle)
  /\ pass'[v].at = pass[v].at
  /\ pass[v] # Idle => pass'[v].base = pass[v].base
  /\ Judged(v) => /\ pass'[v].receipt = pass[v].receipt /\ pass'[v].outcome = pass[v].outcome
                  /\ pass'[v].merged = pass[v].merged /\ pass'[v].outdated = pass[v].outdated

\* What holds of a worker still holds after a step of another one.
LEMMA OthersStand ==
  ASSUME NEW v \in Workers, Stands(v), GoesOn(v), Typed,
         verdict'.outcome = "none" => verdict.outcome = "none",
         memory[v] # Nothing \/ pass[v] # Idle =>
           (v \notin outdated' => v \notin outdated /\ durable' = durable)
  PROVE  Stands(v)'
<1>1. Judged(v)' <=> Judged(v)
  BY DEF GoesOn, Judged
<1>2. Judged(v) => pass[v] # Idle
  BY Kinds DEF Judged
<1>3. memory[v] # Nothing \/ pass[v] # Idle =>
        (Current(v)' => Current(v) /\ durable' = durable)
  BY DEF Current
<1>4. Loads(v)'
  BY <1>3 DEF Stands, Loads, GoesOn
<1>5. Remembers(v)'
  BY <1>1, <1>3 DEF Stands, Remembers, GoesOn
<1>6. Merges(v)'
  BY <1>1, <1>2, <1>3 DEF Stands, Merges, GoesOn
<1>7. Verifies(v)'
  BY <1>1, <1>2 DEF Stands, Verifies, GoesOn
<1> QED BY <1>4, <1>5, <1>6, <1>7 DEF Stands

\* The pass of w ends or begins.
LEMMA PassKeeps ==
  ASSUME Inv, NEW w \in Workers, NEW p \in {Idle} \cup [at : {"loaded"}, base : Observations],
         pass' = [pass EXCEPT ![w] = p], outdated' \in {outdated, outdated \ {w}}
  PROVE  /\ \A v \in Workers : pass'[v] \in Passes(v)
         /\ DOMAIN pass' = Workers /\ pass' = [v \in Workers |-> pass'[v]]
         /\ pass'[w] = p /\ \A v \in Workers \ {w} : pass'[v] = pass[v]
         /\ \A v \in Workers : Overtaken(v)'
         /\ ~Judged(w)'
<1>1. DOMAIN pass = Workers /\ \A v \in Workers : pass[v] \in Passes(v)
  BY DEF Inv, Typed
<1>2. pass'[w] = p /\ \A v \in Workers \ {w} : pass'[v] = pass[v]
  BY <1>1
<1>3. DOMAIN pass' = Workers /\ pass' = [v \in Workers |-> pass'[v]]
  BY <1>1
<1>4. p \in Passes(w) /\ p.at # "evaluated"
  BY Kinds DEF Passes
<1>5. \A v \in Workers : pass'[v] \in Passes(v)
  BY <1>1, <1>2, <1>4
<1>6. ~Judged(w)' /\ \A v \in Workers : Judged(v)' => v # w /\ Judged(v)
  BY <1>2, <1>4 DEF Judged
<1>7. ASSUME NEW v \in Workers PROVE Overtaken(v)'
  <2> SUFFICES ASSUME Judged(v)'
               PROVE  /\ pass'[v].superseded => v \in outdated'
                      /\ \A u \in pass'[v].after : Judged(u)' =>
                           /\ pass'[v].superseded => u \in outdated'
                           /\ pass'[u].after \subseteq
                                pass'[v].after \cup {x \in Workers : ~Judged(x)'}
    BY DEF Overtaken
  <2>1. v # w /\ Judged(v) /\ pass'[v] = pass[v] /\ Overtaken(v)
    BY <1>2, <1>6 DEF Inv
  <2>2. pass[v].after \subseteq Workers
    BY <1>1, <2>1, Kinds DEF Judged, Evaluations
  <2>3. \A u \in pass[v].after : Judged(u)' => u # w /\ Judged(u) /\ pass'[u] = pass[u]
    BY <1>2, <1>6, <2>2
  <2>4. {x \in Workers : ~Judged(x)} \subseteq {x \in Workers : ~Judged(x)'}
    BY <1>6
  <2> QED BY <2>1, <2>3, <2>4 DEF Overtaken
<1> QED BY <1>2, <1>3, <1>5, <1>6, <1>7

\* What the tracker compares with covers what is stored.
LEMMA PriorCovers ==
  ASSUME Inv, NEW w \in Workers, pass[w].at = "loaded"
  PROVE  /\ Prior(w) \in Observations /\ Named(Prior(w))
         /\ pass[w].base \in Observations /\ Named(pass[w].base)
         /\ Current(w) => pass[w].base = durable /\ Covers(Prior(w), durable)
<1>1. /\ pass[w] \in [at : {"loaded"}, base : Observations] /\ pass[w] # Idle /\ ~Judged(w)
  BY Kinds DEF Inv, Typed, Judged
<1>2. Named(pass[w].base) /\ pass[w].base \in Observations
  BY <1>1 DEF Inv, AllNamed
<1>3. Current(w) => pass[w].base = durable
  BY <1>1 DEF Inv, Stands, Loads
<1>4. memory[w] \in Memories
  BY DEF Inv, Typed
<1>5. CASE memory[w].found
  <2>1. memory[w] # Nothing /\ memory[w].observation \in Observations
    BY <1>4, <1>5, Kinds
  <2>2. Named(memory[w].observation)
    BY <2>1 DEF Inv, AllNamed
  <2>3. Current(w) => Covers(memory[w].observation, durable)
    BY <1>1, <2>1 DEF Inv, Stands, Remembers
  <2> QED BY <1>2, <1>3, <1>5, <2>1, <2>2, <2>3 DEF Prior
<1>6. CASE ~memory[w].found
  BY <1>2, <1>3, <1>6, CoversItself DEF Prior
<1> QED BY <1>5, <1>6

\* A step of w that begins or ends its pass and stores nothing.
LEMMA WorkerKeeps ==
  ASSUME Inv, NEW w \in Workers, NEW p \in {Idle} \cup [at : {"loaded"}, base : Observations],
         NEW m \in Memories,
         pass' = [pass EXCEPT ![w] = p], memory' = [memory EXCEPT ![w] = m],
         outdated' \in {outdated, outdated \ {w}}, durable' = durable,
         holder' \in Workers, stable' \in BOOLEAN,
         verdict' \in Verdicts, VerifiedAgreesWithBaseline',
         verdict'.outcome = "none" => verdict.outcome = "none",
         p # Idle => Named(p.base), m # Nothing => Named(m.observation),
         Current(w)' /\ p # Idle => p.base = durable,
         Current(w)' /\ m # Nothing => Covers(m.observation, durable)
  PROVE  Inv'
<1>1. /\ \A v \in Workers : pass'[v] \in Passes(v)
      /\ DOMAIN pass' = Workers /\ pass' = [v \in Workers |-> pass'[v]]
      /\ pass'[w] = p /\ \A v \in Workers \ {w} : pass'[v] = pass[v]
      /\ \A v \in Workers : Overtaken(v)'
      /\ ~Judged(w)'
  BY PassKeeps
<1>2. /\ memory' \in [Workers -> Memories] /\ memory'[w] = m
      /\ \A v \in Workers \ {w} : memory'[v] = memory[v]
  BY DEF Inv, Typed
<1>3. durable \in Observations /\ outdated \subseteq Workers /\ Typed
  BY DEF Inv, Typed
<1>4. Typed'
  <2>1. Observations' = Observations /\ \A v : Passes(v)' = Passes(v)
    BY DEF Observations, Passes
  <2>2. Memories' = Memories /\ Verdicts' = Verdicts
    BY DEF Memories, Verdicts
  <2> QED BY <1>1, <1>2, <1>3, <2>1, <2>2 DEF Typed
<1>5. AllNamed'
  BY SMT, <1>1, <1>2, <1>3 DEF AllNamed, Inv, Named, HasInclusion
<1>6. Stands(w)'
  <2>1. Loads(w)'
    BY <1>1 DEF Loads
  <2>2. Remembers(w)'
    BY <1>2 DEF Remembers
  <2>3. Merges(w)' /\ Verifies(w)'
    BY <1>1 DEF Merges, Verifies
  <2> QED BY <2>1, <2>2, <2>3 DEF Stands
<1>7. ASSUME NEW v \in Workers \ {w} PROVE Stands(v)'
  <2>1. GoesOn(v)
    BY <1>1, <1>2 DEF GoesOn
  <2>2. v \notin outdated' => v \notin outdated
    OBVIOUS
  <2> QED BY <1>3, <2>1, <2>2, OthersStand DEF Inv
<1> QED BY <1>1, <1>4, <1>5, <1>6, <1>7 DEF Inv

\* A step that leaves the verdict alone keeps the agreement.
LEMMA SameVerdict ==
  ASSUME Inv, verdict' = verdict
  PROVE  VerifiedAgreesWithBaseline' /\ verdict' \in Verdicts
BY DEF Inv, Typed, VerifiedAgreesWithBaseline

\* Inv holds initially.
LEMMA InitInv == ASSUME Init PROVE Inv
<1>1. Idle.at = "idle" /\ NoObservation \in Observations /\ Named(NoObservation)
  <2>1. 0 \in 0..MaxDepth
    BY SMT, DepthAssumption
  <2>2. NoObservation \in Observations
    BY <2>1 DEF NoObservation, Observations, Hashes, Numbers
  <2>3. ~HasInclusion(NoObservation) /\ NoObservation.logs = NoLogs
    BY DEF HasInclusion, NoObservation
  <2> QED BY <2>2, <2>3, Kinds DEF Named
<1>2. verdict.outcome = "none" /\ verdict \in Verdicts
  BY DEF Init, Verdicts
<1>3. Typed
  BY <1>1, <1>2 DEF Init, Typed, Memories, Passes
<1>4. \A w \in Workers : pass[w] = Idle /\ ~Judged(w) /\ memory[w] = Nothing
  BY <1>1 DEF Init, Judged
<1>5. AllNamed
  BY <1>1, <1>4 DEF Init, AllNamed
<1>6. \A w \in Workers : Stands(w) /\ Overtaken(w)
  BY <1>4 DEF Stands, Loads, Remembers, Merges, Verifies, Overtaken
<1>7. VerifiedAgreesWithBaseline
  BY <1>2 DEF VerifiedAgreesWithBaseline
<1> QED BY <1>3, <1>5, <1>6, <1>7 DEF Inv

\* Starting a pass keeps Inv.
LEMMA StartPassInv ==
  ASSUME Inv, NEW w \in Workers, StartPass(w) PROVE Inv'
<1> DEFINE p == [at |-> "loaded", base |-> durable]
<1>1. /\ p \in [at : {"loaded"}, base : Observations] /\ p.base = durable /\ Named(durable)
      /\ memory[w] \in Memories
  BY DEF Inv, Typed, AllNamed
<1>2. pass' = [pass EXCEPT ![w] = p] /\ memory' = [memory EXCEPT ![w] = memory[w]]
  BY DEF StartPass, Inv, Typed
<1>3. VerifiedAgreesWithBaseline' /\ verdict' \in Verdicts
  BY SameVerdict DEF StartPass
<1>4. memory[w] # Nothing => Named(memory[w].observation)
  BY DEF Inv, AllNamed
<1>5. ~Judged(w)
  BY Kinds DEF StartPass, Judged
<1>6. ASSUME Current(w)', memory[w] # Nothing PROVE Covers(memory[w].observation, durable)
  <2>1. memory[w].found
    BY <1>1, <1>6, Kinds
  <2>2. Current(w)
    BY <1>6, <2>1 DEF StartPass, Current
  <2> QED BY <1>5, <1>6, <2>2 DEF Inv, Stands, Remembers
<1>7. /\ outdated' \in {outdated, outdated \ {w}} /\ durable' = durable /\ holder' \in Workers
      /\ stable' \in BOOLEAN /\ verdict' = verdict
  BY DEF StartPass, Inv, Typed
<1> HIDE DEF p
<1> QED BY <1>1, <1>2, <1>3, <1>4, <1>6, <1>7, WorkerKeeps

\* The process forgets, or its pass ends with what it remembers as before.
LEMMA ForgottenInv ==
  ASSUME Inv, NEW w \in Workers, Forgotten(w), UNCHANGED <<durable, holder, verdict, stable>>
  PROVE  Inv'
<1>1. VerifiedAgreesWithBaseline' /\ verdict' \in Verdicts
  BY SameVerdict
<1>2. Nothing \in Memories /\ holder' \in Workers /\ stable' \in BOOLEAN
  BY DEF Memories, Inv, Typed
<1> QED BY <1>1, <1>2, WorkerKeeps DEF Forgotten

\* A read that fails keeps Inv.
LEMMA ReadFailsInv ==
  ASSUME Inv, NEW w \in Workers, ReadFails(w) PROVE Inv'
<1>1. VerifiedAgreesWithBaseline' /\ verdict' \in Verdicts
  BY SameVerdict DEF ReadFails
<1>2. /\ memory[w] \in Memories /\ memory' = [memory EXCEPT ![w] = memory[w]]
      /\ holder' \in Workers /\ stable' \in BOOLEAN /\ durable' = durable /\ verdict' = verdict
      /\ outdated' = outdated /\ pass' = [pass EXCEPT ![w] = Idle]
  BY DEF ReadFails, Inv, Typed
<1>3. ~Judged(w) /\ (Current(w)' => Current(w))
  BY DEF ReadFails, Judged, Current
<1>4. memory[w] # Nothing => Named(memory[w].observation)
  BY DEF Inv, AllNamed
<1>5. Current(w)' /\ memory[w] # Nothing => Covers(memory[w].observation, durable)
  BY <1>3 DEF Inv, Stands, Remembers
<1> QED BY <1>1, <1>2, <1>4, <1>5, WorkerKeeps

\* A receipt that the domain gate turns down keeps Inv.
LEMMA DomainGateFailsInv ==
  ASSUME Inv, NamesBlocks, NEW w \in Workers, NEW answer \in RPCAnswers, DomainGateFails(w, answer)
  PROVE  Inv'
<1> DEFINE r == TransactionReceipt(answer)
           m == MergeObservation(Prior(w), ObservationFromReceipt(r))
<1>1. r \in Receipts
  BY DEF Receipts
<1>2. /\ pass[w].at = "loaded" /\ FinalSuccess(Prior(w), r)
      /\ memory' = [memory EXCEPT ![w] = Remembered(m)]
  BY DEF DomainGateFails
<1> HIDE DEF r
<1>3. m \in Observations /\ Named(m)
  BY <1>1, <1>2, PriorCovers, MergedFields
<1>4. Named(durable) /\ durable \in Observations
  BY DEF Inv, AllNamed, Typed
<1>5. Current(w) => Covers(m, durable)
  BY <1>1, <1>2, <1>4, PriorCovers, ConsistentCovers
<1> HIDE DEF m
<1>6. Remembered(m) \in Memories /\ Remembered(m).observation = m
  BY <1>3, Kinds
<1>7. VerifiedAgreesWithBaseline' /\ verdict' \in Verdicts
  BY SameVerdict DEF DomainGateFails
<1>8. /\ holder' \in Workers /\ stable' \in BOOLEAN /\ durable' = durable /\ verdict' = verdict
      /\ outdated' = outdated /\ pass' = [pass EXCEPT ![w] = Idle]
  BY DEF DomainGateFails, Inv, Typed
<1>9. Current(w)' => Current(w)
  BY <1>8 DEF Current
<1> QED BY <1>2, <1>3, <1>5, <1>6, <1>7, <1>8, <1>9, WorkerKeeps

\* Storing a verdict keeps Inv.
LEMMA PersistVerdictInv ==
  ASSUME Inv, NEW w \in Workers, PersistVerdict(w) PROVE Inv'
<1>1. CASE ~(holder = w /\ verdict.outcome = "none")
  BY <1>1, ForgottenInv DEF PersistVerdict
<1>2. CASE holder = w /\ verdict.outcome = "none"
  <2>1. /\ Judged(w) /\ pass[w].outcome # "PENDING"
        /\ verdict' = [outcome |-> pass[w].outcome, receipt |-> pass[w].receipt,
                       baseline |-> pass[w].base, outdated |-> pass[w].outdated]
        /\ pass' = [pass EXCEPT ![w] = Idle]
        /\ memory' = memory /\ outdated' = outdated /\ durable' = durable
        /\ holder' = holder /\ stable' = stable
    BY <1>2 DEF PersistVerdict, Judged
  <2>2. pass[w] \in Evaluations(w)
    BY <2>1, Kinds DEF Inv, Typed, Judged
  <2>3. /\ pass[w].outcome \in {"VERIFIED", "FAILED"} /\ pass[w].receipt \in Receipts
        /\ pass[w].base \in Observations /\ pass[w].outdated \in BOOLEAN
    BY <2>1, <2>2 DEF Evaluations
  <2>4. /\ verdict' \in Verdicts /\ verdict'.outcome = pass[w].outcome
        /\ verdict'.receipt = pass[w].receipt /\ verdict'.baseline = pass[w].base
        /\ verdict'.outdated = pass[w].outdated
    BY <2>1, <2>3 DEF Verdicts
  <2>5. VerifiedAgreesWithBaseline'
    <3>1. Verifies(w)
      BY DEF Inv, Stands
    <3>2. verdict'.outcome = "VERIFIED" /\ ~verdict'.outdated
            => Agrees(verdict'.receipt, verdict'.baseline)
      BY <1>2, <2>1, <2>4, <3>1 DEF Verifies
    <3> QED BY <3>2 DEF VerifiedAgreesWithBaseline, Agrees
  <2>6. verdict'.outcome # "none" /\ ~Current(w)'
    BY <2>3, <2>4 DEF Current
  <2>7. /\ memory[w] \in Memories /\ memory' = [memory EXCEPT ![w] = memory[w]]
        /\ holder' \in Workers /\ stable' \in BOOLEAN
    BY <2>1 DEF Inv, Typed
  <2>8. memory[w] # Nothing => Named(memory[w].observation)
    BY DEF Inv, AllNamed
  <2> QED BY <2>1, <2>4, <2>5, <2>6, <2>7, <2>8, WorkerKeeps
<1> QED BY <1>1, <1>2

-----------------------------------------------------------------------------
(* Reading a receipt, and storing what it shows.                           *)

Earlier == {v \in Workers : pass[v].at = "evaluated"}

\* The passes after ReadReceipt(w).
PassesRead(w, e) ==
  [v \in Workers |-> IF v = w THEN e
                     ELSE IF v \in Earlier THEN [pass[v] EXCEPT !.after = @ \ {w}]
                     ELSE pass[v]]

\* Reading a receipt: the other workers' passes go on.
LEMMA Reading ==
  ASSUME Inv, NEW w \in Workers, pass[w].at = "loaded", NEW e \in Evaluations(w),
         e.after = Earlier, e.superseded = FALSE,
         pass' = PassesRead(w, e),
         memory' = [memory EXCEPT ![w] = memory'[w]], outdated' = outdated
  PROVE  /\ \A v \in Workers : pass'[v] \in Passes(v)
         /\ pass'[w] = e
         /\ \A v \in Workers \ {w} : GoesOn(v)
         /\ \A v \in Workers : Overtaken(v)'
<1>1. \A v \in Workers : pass[v] \in Passes(v)
  BY DEF Inv, Typed
<1>2. w \notin Earlier /\ Earlier \subseteq Workers /\ \A v \in Earlier : Judged(v) /\ pass[v] \in Evaluations(v)
  BY <1>1, Kinds DEF Earlier, Judged
<1>3. ASSUME NEW v \in Earlier
      PROVE  /\ pass'[v] \in Evaluations(v) /\ pass'[v].after = pass[v].after \ {w}
             /\ pass'[v].base = pass[v].base /\ pass'[v].receipt = pass[v].receipt
             /\ pass'[v].outcome = pass[v].outcome /\ pass'[v].merged = pass[v].merged
             /\ pass'[v].outdated = pass[v].outdated /\ pass'[v].superseded = pass[v].superseded
             /\ pass'[v].at = "evaluated"
  <2>1. pass'[v] = [pass[v] EXCEPT !.after = @ \ {w}] /\ pass[v] \in Evaluations(v)
    BY <1>2 DEF PassesRead
  <2> QED BY SMT, <2>1 DEF Evaluations
<1>4. pass'[w] = e
  BY DEF PassesRead
<1>5. \A v \in Workers \ ({w} \cup Earlier) : pass'[v] = pass[v]
  BY DEF PassesRead
<1>6. \A v \in Workers : Evaluations(v) \subseteq Passes(v)
  BY DEF Passes
<1>7. \A v \in Workers : pass'[v] \in Passes(v)
  BY SMT, <1>1, <1>3, <1>4, <1>5, <1>6
<1>8. ASSUME NEW v \in Workers \ {w} PROVE GoesOn(v)
  <2>1. memory'[v] = memory[v]
    BY DEF Inv, Typed
  <2>2. CASE v \in Earlier
    <3>1. pass[v] # Idle /\ pass'[v] # Idle /\ pass[v].at = "evaluated"
      BY <1>2, <1>3, <2>2, Kinds DEF Judged
    <3> QED BY <1>3, <2>1, <2>2, <3>1 DEF GoesOn
  <2>3. CASE v \notin Earlier
    BY <1>5, <2>1, <2>3 DEF GoesOn
  <2> QED BY <2>2, <2>3
<1>9. Judged(w)' /\ \A v \in Workers \ {w} : Judged(v)' <=> v \in Earlier
  BY SMT, <1>3, <1>4, <1>5, Kinds DEF Judged, Earlier, Evaluations
<1>10. ASSUME NEW v \in Earlier
       PROVE  pass[v].after \subseteq Workers
  BY <1>2 DEF Evaluations
<1>11. Overtaken(w)'
  <2>1. ASSUME NEW v \in Earlier
        PROVE  pass'[v].after \subseteq Earlier \cup {u \in Workers : ~Judged(u)'}
    BY SMT, <1>3, <1>9, <1>10
  <2> QED BY <1>2, <1>4, <2>1 DEF Overtaken
<1>12. ASSUME NEW v \in Earlier PROVE Overtaken(v)'
  <2>1. Overtaken(v) /\ Judged(v)
    BY <1>2 DEF Inv
  <2>2. pass'[v].superseded => v \in outdated'
    BY <1>3, <2>1 DEF Overtaken
  <2>3. ASSUME NEW u \in pass'[v].after, Judged(u)'
        PROVE  /\ pass'[v].superseded => u \in outdated'
               /\ pass'[u].after \subseteq pass'[v].after \cup {x \in Workers : ~Judged(x)'}
    <3>1. u \in pass[v].after /\ u # w /\ u \in Earlier
      BY SMT, <1>3, <1>9, <1>10, <2>3
    <3>2. Judged(u) /\ pass'[u].after = pass[u].after \ {w}
      BY <1>2, <1>3, <3>1
    <3>3. pass[v].superseded => u \in outdated
      BY <2>1, <3>1, <3>2 DEF Overtaken
    <3>4. pass[u].after \subseteq pass[v].after \cup {x \in Workers : ~Judged(x)}
      BY <2>1, <3>1, <3>2 DEF Overtaken
    <3>5. \A x \in Workers \ {w} : ~Judged(x) => ~Judged(x)'
      BY <1>2, <1>9
    <3>6. pass'[u].after \subseteq pass'[v].after \cup {x \in Workers : ~Judged(x)'}
      BY <1>3, <3>2, <3>4, <3>5
    <3> QED BY <1>3, <3>3, <3>6
  <2> QED BY <2>2, <2>3 DEF Overtaken
<1>13. ASSUME NEW v \in Workers, v # w, v \notin Earlier PROVE Overtaken(v)'
  BY <1>9, <1>13 DEF Overtaken
<1> QED BY <1>4, <1>7, <1>8, <1>11, <1>12, <1>13

\* Reading a receipt keeps Inv.
LEMMA ReadReceiptInv ==
  ASSUME Inv, NamesBlocks, NEW w \in Workers, NEW answer \in RPCAnswers, ReadReceipt(w, answer)
  PROVE  Inv'
<1> DEFINE r == TransactionReceipt(answer)
           m == MergeObservation(Prior(w), ObservationFromReceipt(r))
<1>1. r \in Receipts
  BY DEF Receipts
<1>2. /\ pass[w].at = "loaded" /\ memory' = [memory EXCEPT ![w] = Remembered(m)]
      /\ durable' = durable /\ holder' = holder /\ verdict' = verdict /\ stable' = stable
      /\ outdated' = outdated
  BY DEF ReadReceipt
<1>3. PICK outcome \in Outcomes(Prior(w), r) :
        pass' = [v \in Workers |->
                  IF v = w THEN Evaluated(pass[w].base, r, outcome, m, Earlier, w \in outdated)
                  ELSE IF v \in Earlier THEN [pass[v] EXCEPT !.after = @ \ {w}]
                  ELSE pass[v]]
  BY DEF ReadReceipt, Earlier
<1> HIDE DEF r
<1>4. /\ m \in Observations /\ Named(m) /\ (Present(r) => m.hash = r.hash)
      /\ ~Present(r) /\ HasInclusion(Prior(w)) => HasInclusion(m) /\ m.hash = Prior(w).hash
  BY <1>1, <1>2, PriorCovers, MergedFields
<1> HIDE DEF m
<1>5. /\ outcome \in {"PENDING", "VERIFIED", "FAILED"}
      /\ outcome = "VERIFIED" => FinalSuccess(Prior(w), r)
  BY DEF Outcomes, DomainOutcomes
<1> DEFINE e == Evaluated(pass[w].base, r, outcome, m, Earlier, w \in outdated)
<1>6. Earlier \subseteq Workers \ {w}
  BY <1>2 DEF Earlier
<1>7. /\ e \in Evaluations(w) /\ e.at = "evaluated" /\ e.base = pass[w].base /\ e.receipt = r
      /\ e.outcome = outcome /\ e.merged = m /\ e.after = Earlier /\ e.superseded = FALSE
      /\ e.outdated = (w \in outdated)
  <2>1. pass[w].base \in Observations
    BY <1>2, PriorCovers
  <2> DEFINE old == w \in outdated
  <2>2. old \in BOOLEAN
    BY SMT
  <2>3. e = Evaluated(pass[w].base, r, outcome, m, Earlier, old)
    OBVIOUS
  <2>4. m \in Observations /\ outcome \in {"PENDING", "VERIFIED", "FAILED"}
    BY <1>4, <1>5
  <2> HIDE DEF e, old
  <2>5. /\ e \in Evaluations(w) /\ e.at = "evaluated" /\ e.base = pass[w].base /\ e.receipt = r
        /\ e.outcome = outcome /\ e.merged = m /\ e.after = Earlier /\ e.superseded = FALSE
        /\ e.outdated = old
    BY <1>1, <1>6, <2>1, <2>2, <2>3, <2>4 DEF Evaluated, Evaluations
  <2> QED BY <2>5 DEF old
<1> HIDE DEF e
<1>8. memory'[w] = Remembered(m) /\ memory' = [memory EXCEPT ![w] = memory'[w]]
  BY <1>2 DEF Inv, Typed
<1>9. /\ \A v \in Workers : pass'[v] \in Passes(v)
      /\ pass'[w] = e
      /\ \A v \in Workers \ {w} : GoesOn(v)
      /\ \A v \in Workers : Overtaken(v)'
  <2>1. pass' = PassesRead(w, e)
    BY <1>3 DEF e, PassesRead
  <2> QED BY <1>2, <1>7, <1>8, <2>1, Reading
<1>10. Remembered(m) \in Memories /\ Remembered(m).observation = m
  BY <1>4, Kinds
<1>11. Typed'
  <2>1. Observations' = Observations /\ (\A v : Passes(v)' = Passes(v))
        /\ Memories' = Memories /\ Verdicts' = Verdicts
    BY DEF Observations, Passes, Memories, Verdicts
  <2>2. DOMAIN pass' = Workers /\ pass' = [v \in Workers |-> pass'[v]]
    BY <1>3
  <2>3. memory' \in [Workers -> Memories]
    BY <1>2, <1>10 DEF Inv, Typed
  <2> QED BY <1>2, <1>9, <2>1, <2>2, <2>3 DEF Typed, Inv
<1>12. AllNamed'
  <2>1. Named(durable') /\ Named(pass[w].base)
    BY <1>2, PriorCovers DEF Inv, AllNamed
  <2>2. ASSUME NEW v \in Workers, memory'[v] # Nothing PROVE Named(memory'[v].observation)
    BY SMT, <1>4, <1>8, <1>9, <1>10, <2>2 DEF GoesOn, Inv, AllNamed
  <2>3. ASSUME NEW v \in Workers, pass'[v] # Idle PROVE Named(pass'[v].base)
    BY <1>7, <1>9, <2>1, <2>3 DEF GoesOn, Inv, AllNamed
  <2> QED BY <2>1, <2>2, <2>3 DEF AllNamed, Named, HasInclusion
<1>13. Stands(w)'
  <2>1. Current(w)' => Current(w) /\ pass[w].base = durable /\ Covers(Prior(w), durable)
    BY <1>2, PriorCovers DEF Current
  <2>2. Judged(w)'
    BY <1>7, <1>9 DEF Judged
  <2>3. Loads(w)' /\ Remembers(w)'
    BY <1>2, <1>7, <1>9, <2>1, <2>2 DEF Loads, Remembers
  <2>4. ASSUME Current(w)', ~Present(r), HasInclusion(durable)
        PROVE  HasInclusion(m) /\ m.hash = durable.hash
    BY <1>4, <2>1, <2>4 DEF Covers
  <2>5. Merges(w)'
    BY <1>2, <1>4, <1>7, <1>8, <1>9, <2>4 DEF Merges, Present, HasInclusion
  <2>6. ASSUME outcome = "VERIFIED", w \notin outdated, verdict.outcome = "none"
        PROVE  Agrees(r, pass[w].base)
    <3>1. Current(w)
      BY <2>6 DEF Current
    <3>2. Named(durable) /\ durable \in Observations
      BY DEF Inv, AllNamed, Typed
    <3> QED BY <1>1, <1>2, <1>5, <2>6, <3>1, <3>2, PriorCovers, ConsistentCovers
  <2>7. Verifies(w)'
    BY <1>2, <1>7, <1>9, <2>6 DEF Verifies, Agrees
  <2> QED BY <2>3, <2>5, <2>7 DEF Stands
<1>14. ASSUME NEW v \in Workers \ {w} PROVE Stands(v)'
  BY <1>2, <1>9, OthersStand DEF Inv
<1>15. VerifiedAgreesWithBaseline'
  BY <1>2, SameVerdict
<1> QED BY <1>9, <1>11, <1>12, <1>13, <1>14, <1>15 DEF Inv

\* The passes after PersistPending(w) has stored its reference.
PassesStored(w) ==
  [v \in Workers |-> IF v = w THEN Idle
                     ELSE IF v \in pass[w].after /\ pass[v].at = "evaluated"
                     THEN [pass[v] EXCEPT !.superseded = TRUE]
                     ELSE pass[v]]

\* Storing an observation: the other workers' passes go on, now overtaken.
LEMMA Storing ==
  ASSUME Inv, NEW w \in Workers, Judged(w), pass' = PassesStored(w), memory' = memory,
         outdated' = IF pass[w].superseded THEN outdated
                     ELSE {v \in Workers \ {w} : memory[v].found \/ pass[v] # Idle}
  PROVE  /\ \A v \in Workers : pass'[v] \in Passes(v)
         /\ pass'[w] = Idle
         /\ \A v \in Workers \ {w} : GoesOn(v)
         /\ \A v \in Workers : Overtaken(v)'
<1> DEFINE Behind == {v \in Workers \ {w} : v \in pass[w].after /\ Judged(v)}
<1>1. \A v \in Workers : pass[v] \in Passes(v)
  BY DEF Inv, Typed
<1>2. \A v \in Workers : Judged(v) => pass[v] # Idle /\ pass[v] \in Evaluations(v)
  BY <1>1, Kinds DEF Judged
<1>3. ASSUME NEW v \in Behind
      PROVE  /\ pass'[v] \in Evaluations(v) /\ pass'[v].after = pass[v].after
             /\ pass'[v].base = pass[v].base /\ pass'[v].receipt = pass[v].receipt
             /\ pass'[v].outcome = pass[v].outcome /\ pass'[v].merged = pass[v].merged
             /\ pass'[v].outdated = pass[v].outdated /\ pass'[v].superseded = TRUE
             /\ pass'[v].at = "evaluated"
  <2>1. pass'[v] = [pass[v] EXCEPT !.superseded = TRUE] /\ pass[v] \in Evaluations(v)
    BY <1>2 DEF PassesStored, Judged
  <2> QED BY <2>1 DEF Evaluations
<1>4. pass'[w] = Idle
  BY DEF PassesStored
<1>5. \A v \in Workers \ {w} : v \notin Behind => pass'[v] = pass[v]
  BY DEF PassesStored, Judged
<1>6. \A v \in Behind : v \in Workers \ {w} /\ v \in pass[w].after /\ Judged(v)
  OBVIOUS
<1>7. \A v \in Workers \ {w} : v \in pass[w].after /\ Judged(v) => v \in Behind
  OBVIOUS
<1> HIDE DEF Behind
<1>8. \A v \in Workers : pass'[v] \in Passes(v)
  <2>1. \A v \in Workers : Evaluations(v) \subseteq Passes(v) /\ Idle \in Passes(v)
    BY DEF Passes
  <2> QED BY <1>1, <1>3, <1>4, <1>5, <2>1
<1>9. ASSUME NEW v \in Workers \ {w} PROVE GoesOn(v)
  <2>1. CASE v \in Behind
    <3>1. pass[v] # Idle /\ pass'[v] # Idle /\ pass[v].at = "evaluated"
      BY <1>2, <1>3, <1>6, <2>1, Kinds DEF Judged
    <3> QED BY <1>3, <2>1, <3>1 DEF GoesOn
  <2>2. CASE v \notin Behind
    BY <1>5, <2>2 DEF GoesOn
  <2> QED BY <2>1, <2>2
<1>10. ~Judged(w)' /\ \A v \in Workers \ {w} : Judged(v)' <=> Judged(v)
  BY <1>3, <1>4, <1>5, <1>6, Kinds DEF Judged
<1>11. \A v \in Workers \ {w} : Judged(v) => pass'[v].after = pass[v].after
  BY <1>3, <1>5
\* Whoever is overtaken now is outdated now, and so are those before it.
<1>12. ASSUME NEW v \in Workers \ {w}, Judged(v), pass'[v].superseded
       PROVE  /\ v \in outdated'
              /\ \A u \in pass[v].after : u # w /\ Judged(u) => u \in outdated'
  <2>1. pass[v].after \subseteq Workers
    BY <1>2, <1>12 DEF Evaluations
  <2>2. CASE ~pass[w].superseded
    BY <1>2, <1>12, <2>1, <2>2
  <2>3. CASE pass[w].superseded
    <3>1. Overtaken(w) /\ Overtaken(v) /\ outdated' = outdated
      BY <2>3 DEF Inv
    <3>2. CASE v \in Behind
      <4>1. v \in outdated /\ pass[v].after \subseteq pass[w].after \cup {x \in Workers : ~Judged(x)}
        BY <1>6, <2>3, <3>1, <3>2 DEF Overtaken
      <4>2. \A u \in pass[v].after : Judged(u) => u \in pass[w].after
        BY <4>1
      <4>3. \A u \in pass[v].after : Judged(u) => u \in outdated
        BY <2>3, <3>1, <4>2 DEF Overtaken
      <4> QED BY <3>1, <4>1, <4>3
    <3>3. CASE v \notin Behind
      <4>1. pass[v].superseded
        BY <1>5, <1>12, <3>3
      <4> QED BY <1>12, <3>1, <4>1 DEF Overtaken
    <3> QED BY <3>2, <3>3
  <2> QED BY <2>2, <2>3
<1>13. ASSUME NEW v \in Workers PROVE Overtaken(v)'
  <2> SUFFICES ASSUME Judged(v)'
               PROVE  /\ pass'[v].superseded => v \in outdated'
                      /\ \A u \in pass'[v].after : Judged(u)' =>
                           /\ pass'[v].superseded => u \in outdated'
                           /\ pass'[u].after \subseteq
                                pass'[v].after \cup {x \in Workers : ~Judged(x)'}
    BY DEF Overtaken
  <2>1. v # w /\ Judged(v) /\ Overtaken(v) /\ pass'[v].after = pass[v].after
    BY <1>10, <1>11 DEF Inv
  <2>2. pass[v].after \subseteq Workers
    BY <1>2, <2>1 DEF Evaluations
  <2>3. ASSUME NEW u \in pass'[v].after, Judged(u)'
        PROVE  /\ pass'[v].superseded => u \in outdated'
               /\ pass'[u].after \subseteq pass'[v].after \cup {x \in Workers : ~Judged(x)'}
    <3>1. u \in pass[v].after /\ u # w /\ Judged(u) /\ pass'[u].after = pass[u].after
      BY <1>10, <1>11, <2>1, <2>2, <2>3
    <3>2. pass[u].after \subseteq pass[v].after \cup {x \in Workers : ~Judged(x)}
      BY <2>1, <3>1 DEF Overtaken
    <3>3. \A x \in Workers : ~Judged(x) => ~Judged(x)'
      BY <1>10
    <3> QED BY <1>12, <2>1, <3>1, <3>2, <3>3
  <2> QED BY <1>12, <2>1, <2>3
<1> QED BY <1>4, <1>8, <1>9, <1>13

\* Storing a pending observation keeps Inv.
LEMMA PersistPendingInv ==
  ASSUME Inv, NEW w \in Workers, PersistPending(w) PROVE Inv'
<1> DEFINE merged == pass[w].merged
<1>1. /\ Judged(w) /\ holder' = holder /\ verdict' = verdict /\ stable' = stable
  BY DEF PersistPending, Judged
<1>2. pass[w] \in Evaluations(w) /\ pass[w] # Idle
  BY <1>1, Kinds DEF Judged, Inv, Typed
<1>3. merged \in Observations
  BY <1>2 DEF Evaluations
<1>4. /\ memory[w] = Remembered(merged) /\ memory[w] # Nothing /\ memory[w].observation = merged
      /\ memory[w] \in Memories
  BY <1>1, <1>3, Kinds DEF Inv, Stands, Merges
<1>5. Named(merged)
  BY <1>4 DEF Inv, AllNamed
<1> HIDE DEF merged
<1>6. /\ Stored(merged) \in Observations /\ Named(Stored(merged)) /\ Covers(merged, Stored(merged))
  BY <1>3, <1>5, StoredFields
<1>7. VerifiedAgreesWithBaseline' /\ verdict' \in Verdicts
  BY <1>1, SameVerdict
<1>8. /\ durable \in Observations /\ memory \in [Workers -> Memories] /\ holder \in Workers
      /\ stable \in BOOLEAN /\ outdated \subseteq Workers /\ Typed
  BY DEF Inv, Typed
<1>9. CASE /\ Stored(merged) = pass[w].base /\ pass' = [pass EXCEPT ![w] = Idle]
           /\ durable' = durable /\ memory' = memory /\ outdated' = outdated
  <2>1. memory' = [memory EXCEPT ![w] = memory[w]]
    BY <1>8, <1>9
  <2>2. Current(w)' => pass[w].base = durable
    BY <1>1, <1>2, <1>9 DEF Current, Inv, Stands, Loads
  <2>3. /\ Current(w)' => Covers(memory[w].observation, durable)
        /\ Named(memory[w].observation) /\ memory[w] \in Memories
    BY <1>4, <1>5, <1>6, <1>9, <2>2
  <2> QED BY <1>1, <1>7, <1>8, <1>9, <2>1, <2>3, WorkerKeeps
<1>10. CASE Forgotten(w) /\ durable' = durable
  BY <1>1, <1>10, ForgottenInv
<1>11. CASE /\ durable' = IF pass[w].superseded THEN durable ELSE Stored(merged)
            /\ pass' = PassesStored(w) /\ memory' = memory
            /\ outdated' = IF pass[w].superseded THEN outdated
                           ELSE {v \in Workers \ {w} : memory[v].found \/ pass[v] # Idle}
  <2>1. /\ \A v \in Workers : pass'[v] \in Passes(v)
        /\ pass'[w] = Idle
        /\ \A v \in Workers \ {w} : GoesOn(v)
        /\ \A v \in Workers : Overtaken(v)'
    BY <1>1, <1>11, Storing
  <2>2. Typed'
    <3>1. Observations' = Observations /\ (\A v : Passes(v)' = Passes(v))
          /\ Memories' = Memories /\ Verdicts' = Verdicts
      BY DEF Observations, Passes, Memories, Verdicts
    <3>2. DOMAIN pass' = Workers /\ pass' = [v \in Workers |-> pass'[v]]
      BY <1>11 DEF PassesStored
    <3>3. durable' \in Observations /\ outdated' \subseteq Workers
      BY <1>6, <1>8, <1>11
    <3> QED BY <1>1, <1>7, <1>8, <1>11, <2>1, <3>1, <3>2, <3>3 DEF Typed
  <2>3. AllNamed'
    <3>1. Named(durable')
      BY <1>6, <1>11 DEF Inv, AllNamed
    <3>2. \A v \in Workers : memory'[v] # Nothing => Named(memory'[v].observation)
      BY <1>11 DEF Inv, AllNamed
    <3>3. ASSUME NEW v \in Workers, pass'[v] # Idle PROVE Named(pass'[v].base)
      BY <2>1, <3>3 DEF GoesOn, Inv, AllNamed
    <3> QED BY <3>1, <3>2, <3>3 DEF AllNamed, Named, HasInclusion
  <2>4. Stands(w)'
    <3>1. ~Judged(w)'
      BY <2>1, Kinds DEF Judged
    <3>2. Loads(w)' /\ Merges(w)' /\ Verifies(w)'
      BY <2>1, <3>1 DEF Loads, Merges, Verifies
    <3>3. pass[w].superseded => ~Current(w)'
      BY <1>1, <1>11 DEF Inv, Overtaken, Current
    <3>4. Remembers(w)'
      BY <1>4, <1>6, <1>11, <3>3 DEF Remembers, Covers, HasInclusion
    <3> QED BY <3>2, <3>4 DEF Stands
  <2>5. ASSUME NEW v \in Workers \ {w} PROVE Stands(v)'
    <3>1. memory[v].found <=> memory[v] # Nothing
      BY <1>8, Kinds
    <3>2. memory[v] # Nothing \/ pass[v] # Idle =>
            (v \notin outdated' => v \notin outdated /\ durable' = durable)
      BY <1>11, <3>1
    <3> QED BY <1>1, <1>8, <2>1, <3>2, OthersStand DEF Inv
  <2> QED BY <1>7, <2>1, <2>2, <2>3, <2>4, <2>5 DEF Inv
<1>12. \/ /\ Stored(merged) = pass[w].base /\ pass' = [pass EXCEPT ![w] = Idle]
          /\ durable' = durable /\ memory' = memory /\ outdated' = outdated
       \/ Forgotten(w) /\ durable' = durable
       \/ /\ durable' = IF pass[w].superseded THEN durable ELSE Stored(merged)
          /\ pass' = PassesStored(w) /\ memory' = memory
          /\ outdated' = IF pass[w].superseded THEN outdated
                         ELSE {v \in Workers \ {w} : memory[v].found \/ pass[v] # Idle}
  BY DEF PersistPending, PassesStored, merged
<1> QED BY <1>9, <1>10, <1>11, <1>12

\* A step outside the workers keeps Inv.
LEMMA SameInv == ASSUME Inv, UNCHANGED <<durable, memory, pass, holder, verdict, outdated>>,
                        stable' \in BOOLEAN
                 PROVE  Inv'
<1>1. Typed'
  BY DEF Inv, Typed, Observations, Memories, Passes, Verdicts
<1>2. AllNamed' /\ VerifiedAgreesWithBaseline'
  BY DEF Inv, AllNamed, Named, HasInclusion, VerifiedAgreesWithBaseline
<1>3. ASSUME NEW w \in Workers PROVE Stands(w)'
  BY OthersStand DEF Inv, GoesOn
<1>4. ASSUME NEW w \in Workers PROVE Overtaken(w)'
  <2>1. Overtaken(w)
    BY DEF Inv
  <2> QED BY <2>1 DEF Overtaken, Judged
<1> QED BY <1>1, <1>2, <1>3, <1>4 DEF Inv

\* Every step keeps Inv.
LEMMA NextInv ==
  ASSUME NamesBlocks, Inv, [Next]_vars
  PROVE  Inv'
<1>1. ASSUME NEW w \in Workers, Step(w) PROVE Inv'
  BY <1>1, StartPassInv, ReadReceiptInv, PersistPendingInv, PersistVerdictInv DEF Step
<1>2. ASSUME NEW w \in Workers, NEW answer \in RPCAnswers, DomainGateFails(w, answer) PROVE Inv'
  BY <1>2, DomainGateFailsInv
<1>3. ASSUME NEW w \in Workers, ReadFails(w) PROVE Inv'
  BY <1>3, ReadFailsInv
<1>4. ASSUME NEW w \in Workers, Exit(w) PROVE Inv'
  BY <1>4, ForgottenInv DEF Exit
<1>5. CASE Stabilise
  BY <1>5, SameInv DEF Stabilise
<1>6. CASE UNCHANGED vars
  <2>1. stable' \in BOOLEAN
    BY <1>6 DEF vars, Inv, Typed
  <2> QED BY <1>6, <2>1, SameInv DEF vars
<1> QED BY <1>1, <1>2, <1>3, <1>4, <1>5, <1>6 DEF Next

\* Inv holds of every reachable state.
LEMMA Invariant == ASSUME NamesBlocks PROVE Spec => []Inv
<1>1. Init => Inv
  BY InitInv
<1>2. Inv /\ [Next]_vars => Inv'
  BY NextInv
<1> QED BY <1>1, <1>2, PTL DEF Spec

-----------------------------------------------------------------------------
(* The theorems.                                                           *)

\* When receipts name their blocks, a success that VerifyObservation lets through
\* agrees with the baseline in the reference its pass was given, for any number of
\* workers, through restarts, lost receipts and failing domain gates, unless another
\* worker has stored an observation since the one that the process remembers.
THEOREM VerifiedAgrees == ASSUME NamesBlocks PROVE Spec => []VerifiedAgreesWithBaseline
<1>1. Inv => VerifiedAgreesWithBaseline
  BY DEF Inv
<1> QED BY <1>1, Invariant, PTL

\* A step that changes the stored hash is PersistPending of a worker that read a
\* receipt in that block, or that another one has overtaken.
LEMMA StepRetains ==
  ASSUME Inv, [Next]_vars, HasInclusion(durable), durable'.hash # durable.hash
  PROVE  \E w \in Workers :
            /\ pass[w].at = "evaluated" /\ pass'[w] = Idle
            /\ \/ Present(pass[w].receipt) /\ pass[w].receipt.hash = durable'.hash
               \/ w \in outdated
<1>1. PICK w \in Workers : PersistPending(w)
  BY DEF Next, Step, StartPass, ReadReceipt, PersistVerdict, ReadFails, DomainGateFails, Exit,
         Stabilise, vars
<1>2. /\ pass[w].at = "evaluated" /\ verdict.outcome = "none" /\ ~pass[w].superseded
      /\ durable' = Stored(pass[w].merged) /\ pass' = PassesStored(w)
  BY <1>1 DEF PersistPending, PassesStored
<1>3. pass'[w] = Idle
  BY <1>2 DEF PassesStored
<1>4. Judged(w) /\ Merges(w)
  BY <1>2 DEF Judged, Inv, Stands
<1>5. pass[w].merged \in Observations /\ Named(pass[w].merged)
  <2>1. pass[w].merged \in Observations
    BY <1>2, Kinds DEF Inv, Typed, Evaluations
  <2>2. memory[w] # Nothing /\ memory[w].observation = pass[w].merged
    BY <1>4, <2>1, Kinds DEF Merges
  <2> QED BY <2>1, <2>2 DEF Inv, AllNamed
<1>6. durable'.hash = pass[w].merged.hash
  BY <1>2, <1>5, StoredFields
<1>7. CASE Present(pass[w].receipt)
  BY <1>2, <1>3, <1>4, <1>6, <1>7 DEF Merges
<1>8. CASE ~Present(pass[w].receipt)
  <2>1. ~Current(w)
    BY <1>4, <1>6, <1>8 DEF Merges
  <2> QED BY <1>2, <1>3, <2>1 DEF Current
<1> QED BY <1>7, <1>8

\* When receipts name their blocks, the stored baseline survives restarts and lost
\* receipts: MergeObservation and the reference keep an inclusion until a worker has
\* read a receipt in another block, or a worker that another one has overtaken stores.
THEOREM BaselineIsRetained == ASSUME NamesBlocks PROVE Spec => BaselineRetained
<1>1. Inv /\ [Next]_vars =>
        [HasInclusion(durable) /\ durable'.hash # durable.hash
           => \E w \in Workers :
                /\ pass[w].at = "evaluated" /\ pass'[w] = Idle
                /\ \/ Present(pass[w].receipt) /\ pass[w].receipt.hash = durable'.hash
                   \/ w \in outdated]_vars
  BY StepRetains
<1> QED BY <1>1, Invariant, PTL DEF Spec, BaselineRetained

-----------------------------------------------------------------------------
(* Types, whether receipts name their blocks or not.                       *)

\* What the reader and the tracker make of an answer, and what storage keeps of it,
\* are observations.
LEMMA MadeTyped ==
  /\ NoObservation \in Observations
  /\ \A o \in Observations : Stored(o) \in Observations
  /\ \A r \in Receipts, prior \in Observations :
       MergeObservation(prior, ObservationFromReceipt(r)) \in Observations
<1>1. 0 \in 0..MaxDepth
  BY SMT, DepthAssumption
<1>2. NoObservation \in Observations
  BY <1>1 DEF NoObservation, Observations, Hashes, Numbers
<1>3. ASSUME NEW o \in Observations PROVE Stored(o) \in Observations
  <2>1. [o EXCEPT !.known = TRUE] \in Observations
    BY DEF Observations
  <2> QED BY <1>2, <2>1 DEF Stored
<1>4. ASSUME NEW r \in Receipts PROVE ObservationFromReceipt(r) \in Observations
  <2>1. PICK a \in RPCAnswers : r = TransactionReceipt(a)
    BY DEF Receipts
  <2>2. /\ r.hash \in Hashes /\ r.number \in Numbers /\ r.confirmations \in 0..MaxDepth
        /\ r.logs \in Logs \cup {NoLogs}
    <3>1. CASE a = None
      BY <1>1, <2>1, <3>1 DEF TransactionReceipt, Hashes, Numbers
    <3>2. CASE a # None
      <4>1. a \in [block : Blocks, depth : 1 .. MaxDepth,
                   status : {"success", "reverted", "other"}, logs : Logs]
        BY <3>2, AnswersAssumption DEF AllAnswers
      <4>2. /\ r.hash = a.block.hash /\ r.number = a.block.number /\ r.confirmations = a.depth
            /\ r.logs = a.logs
        BY <2>1, <3>2 DEF TransactionReceipt
      <4>3. a.depth \in 0..MaxDepth
        BY SMT, <4>1, DepthAssumption
      <4> QED BY <4>1, <4>2, <4>3 DEF Hashes, Numbers
    <3> QED BY <3>1, <3>2
  <2>3. Present(r) \in BOOLEAN
    BY DEF Present
  <2> QED BY <2>2, <2>3 DEF ObservationFromReceipt, Observations
<1>5. ASSUME NEW prior \in Observations, NEW o \in Observations
      PROVE  MergeObservation(prior, o) \in Observations
  <2>1. [prior EXCEPT !.present = FALSE, !.known = TRUE, !.confirmations = 0] \in Observations
    BY <1>1 DEF Observations
  <2> QED BY <2>1 DEF MergeObservation
<1> QED BY <1>2, <1>3, <1>4, <1>5

\* A pass of w that begins or ends leaves the passes typed.
LEMMA PassTyped ==
  ASSUME Typed, NEW w \in Workers, NEW p \in {Idle} \cup [at : {"loaded"}, base : Observations],
         pass' = [pass EXCEPT ![w] = p]
  PROVE  /\ DOMAIN pass' = Workers /\ pass' = [v \in Workers |-> pass'[v]]
         /\ \A v \in Workers : pass'[v] \in Passes(v)
<1>1. DOMAIN pass = Workers /\ \A v \in Workers : pass[v] \in Passes(v)
  BY DEF Typed
<1>2. p \in Passes(w)
  BY DEF Passes
<1>3. pass'[w] = p /\ \A v \in Workers \ {w} : pass'[v] = pass[v]
  BY <1>1
<1>4. DOMAIN pass' = Workers /\ pass' = [v \in Workers |-> pass'[v]]
  BY <1>1
<1> QED BY <1>1, <1>2, <1>3, <1>4

\* Every step keeps the types.
LEMMA NextTyped ==
  ASSUME Typed, [Next]_vars
  PROVE  Typed'
<1>1. /\ durable \in Observations /\ memory \in [Workers -> Memories]
      /\ DOMAIN pass = Workers /\ pass = [w \in Workers |-> pass[w]]
      /\ \A w \in Workers : pass[w] \in Passes(w)
      /\ holder \in Workers /\ verdict \in Verdicts /\ stable \in BOOLEAN
      /\ outdated \subseteq Workers
  BY DEF Typed
<1> DEFINE Kept == /\ durable' \in Observations /\ memory' \in [Workers -> Memories]
                   /\ DOMAIN pass' = Workers /\ pass' = [w \in Workers |-> pass'[w]]
                   /\ \A w \in Workers : pass'[w] \in Passes(w)
                   /\ holder' \in Workers /\ verdict' \in Verdicts /\ stable' \in BOOLEAN
                   /\ outdated' \subseteq Workers
<1>2. SUFFICES Kept
  <2>1. /\ Observations' = Observations /\ (\A v : Passes(v)' = Passes(v))
        /\ Memories' = Memories /\ Verdicts' = Verdicts
    BY DEF Observations, Passes, Memories, Verdicts
  <2> QED BY <2>1 DEF Typed
<1>3. Idle \in {Idle} /\ Nothing \in Memories
  BY DEF Memories
<1>4. ASSUME NEW w \in Workers, Forgotten(w), durable' = durable, holder' = holder,
             verdict' \in Verdicts, stable' = stable
      PROVE  Kept
  <2>1. memory' \in [Workers -> Memories] /\ outdated' \subseteq Workers
    BY <1>1, <1>3, <1>4 DEF Forgotten
  <2> QED BY <1>1, <1>4, <2>1, PassTyped DEF Forgotten
<1>5. ASSUME NEW w \in Workers, pass[w].at = "loaded" PROVE Prior(w) \in Observations
  <2>1. pass[w].base \in Observations
    BY <1>1, <1>5, Kinds
  <2> QED BY <1>1, <2>1, Kinds DEF Prior
<1>6. ASSUME NEW w \in Workers, StartPass(w) PROVE Kept
  <2>1. [at |-> "loaded", base |-> durable] \in [at : {"loaded"}, base : Observations]
    BY <1>1
  <2>2. outdated' \subseteq Workers
    BY <1>1, <1>6 DEF StartPass
  <2> QED BY <1>1, <1>6, <2>1, <2>2, PassTyped DEF StartPass
<1>7. ASSUME NEW w \in Workers, NEW answer \in RPCAnswers, ReadReceipt(w, answer) PROVE Kept
  <2> DEFINE r == TransactionReceipt(answer)
             m == MergeObservation(Prior(w), ObservationFromReceipt(r))
             old == w \in outdated
  <2>1. r \in Receipts
    BY DEF Receipts
  <2>2. m \in Observations /\ pass[w].base \in Observations /\ pass[w].at = "loaded"
    <3>1. pass[w].at = "loaded"
      BY <1>7 DEF ReadReceipt
    <3>2. pass[w].base \in Observations
      BY <1>1, <3>1, Kinds
    <3> QED BY <1>5, <2>1, <3>1, <3>2, MadeTyped
  <2>3. PICK outcome \in Outcomes(Prior(w), r) :
          pass' = [v \in Workers |->
                     IF v = w THEN Evaluated(pass[w].base, r, outcome, m, Earlier, old)
                     ELSE IF v \in Earlier THEN [pass[v] EXCEPT !.after = @ \ {w}]
                     ELSE pass[v]]
    BY <1>7 DEF ReadReceipt, Earlier
  <2>4. memory' \in [Workers -> Memories]
    <3>1. Remembered(m) \in Memories
      BY <2>2, Kinds
    <3>2. memory' = [memory EXCEPT ![w] = Remembered(m)]
      BY <1>7 DEF ReadReceipt
    <3> QED BY <1>1, <3>1, <3>2
  <2>5. outcome \in {"PENDING", "VERIFIED", "FAILED"}
    BY DEF Outcomes, DomainOutcomes
  <2>6. Earlier \subseteq Workers \ {w} /\ old \in BOOLEAN
    BY SMT, <2>2 DEF Earlier
  <2> HIDE DEF r, m, old
  <2>7. Evaluated(pass[w].base, r, outcome, m, Earlier, old) \in Passes(w)
    BY <2>1, <2>2, <2>5, <2>6 DEF Evaluated, Evaluations, Passes
  <2>8. ASSUME NEW v \in Workers \ {w}, v \in Earlier
        PROVE  [pass[v] EXCEPT !.after = @ \ {w}] \in Passes(v)
    <3>1. pass[v] \in Evaluations(v)
      BY <1>1, <2>8, Kinds DEF Earlier
    <3> QED BY <3>1 DEF Evaluations, Passes
  <2>9. \A v \in Workers : pass'[v] \in Passes(v)
    BY <1>1, <2>3, <2>7, <2>8
  <2>10. DOMAIN pass' = Workers /\ pass' = [v \in Workers |-> pass'[v]]
    BY <2>3
  <2> QED BY <1>1, <1>7, <2>4, <2>9, <2>10 DEF ReadReceipt
<1>8. ASSUME NEW w \in Workers, PersistPending(w) PROVE Kept
  <2>1. pass[w] \in Evaluations(w)
    BY <1>1, <1>8, Kinds DEF PersistPending
  <2>2. Stored(pass[w].merged) \in Observations
    BY <2>1, MadeTyped DEF Evaluations
  <2>3. CASE /\ pass' = [pass EXCEPT ![w] = Idle]
             /\ UNCHANGED <<durable, memory, outdated>>
    BY <1>1, <1>3, <1>8, <2>3, PassTyped DEF PersistPending
  <2>4. CASE Forgotten(w) /\ UNCHANGED durable
    BY <1>1, <1>4, <1>8, <2>4 DEF PersistPending
  <2>5. CASE /\ durable' = IF pass[w].superseded THEN durable ELSE Stored(pass[w].merged)
             /\ pass' = PassesStored(w)
             /\ outdated' = IF pass[w].superseded THEN outdated
                            ELSE {v \in Workers \ {w} : memory[v].found \/ pass[v] # Idle}
             /\ UNCHANGED memory
    <3>1. durable' \in Observations /\ outdated' \subseteq Workers
      BY <1>1, <2>2, <2>5
    <3>2. ASSUME NEW v \in Workers, pass[v].at = "evaluated"
          PROVE  [pass[v] EXCEPT !.superseded = TRUE] \in Passes(v)
      <4>1. pass[v] \in Evaluations(v)
        BY <1>1, <3>2, Kinds
      <4> QED BY <4>1 DEF Evaluations, Passes
    <3>3. Idle \in Passes(w)
      BY DEF Passes
    <3>4. \A v \in Workers : pass'[v] \in Passes(v)
      BY <1>1, <2>5, <3>2, <3>3 DEF PassesStored
    <3>5. DOMAIN pass' = Workers /\ pass' = [v \in Workers |-> pass'[v]]
      BY <2>5 DEF PassesStored
    <3> QED BY <1>1, <1>8, <2>5, <3>1, <3>4, <3>5 DEF PersistPending
  <2> QED BY <1>8, <2>3, <2>4, <2>5 DEF PersistPending, PassesStored
<1>9. ASSUME NEW w \in Workers, PersistVerdict(w) PROVE Kept
  <2>1. pass[w] \in Evaluations(w) /\ pass[w].outcome # "PENDING"
    BY <1>1, <1>9, Kinds DEF PersistVerdict
  <2>2. [outcome |-> pass[w].outcome, receipt |-> pass[w].receipt,
         baseline |-> pass[w].base, outdated |-> pass[w].outdated] \in Verdicts
    BY <2>1 DEF Evaluations, Verdicts
  <2>3. CASE Forgotten(w) /\ UNCHANGED verdict
    BY <1>1, <1>4, <1>9, <2>3 DEF PersistVerdict
  <2>4. CASE /\ verdict' = [outcome |-> pass[w].outcome, receipt |-> pass[w].receipt,
                            baseline |-> pass[w].base, outdated |-> pass[w].outdated]
             /\ pass' = [pass EXCEPT ![w] = Idle]
             /\ UNCHANGED <<memory, outdated>>
    BY <1>1, <1>3, <1>9, <2>2, <2>4, PassTyped DEF PersistVerdict
  <2> QED BY <1>9, <2>3, <2>4 DEF PersistVerdict
<1>10. ASSUME NEW w \in Workers, ReadFails(w) PROVE Kept
  BY <1>1, <1>3, <1>10, PassTyped DEF ReadFails
<1>11. ASSUME NEW w \in Workers, NEW answer \in RPCAnswers, DomainGateFails(w, answer) PROVE Kept
  <2> DEFINE m == MergeObservation(Prior(w), ObservationFromReceipt(TransactionReceipt(answer)))
  <2>1. m \in Observations
    BY <1>5, <1>11, MadeTyped DEF DomainGateFails, Receipts
  <2>2. memory' = [memory EXCEPT ![w] = Remembered(m)]
    BY <1>11 DEF DomainGateFails
  <2> HIDE DEF m
  <2>3. memory' \in [Workers -> Memories]
    BY <1>1, <2>1, <2>2, Kinds
  <2> QED BY <1>1, <1>3, <1>11, <2>3, PassTyped DEF DomainGateFails
<1>12. ASSUME NEW w \in Workers, Exit(w) PROVE Kept
  BY <1>1, <1>4, <1>12 DEF Exit
<1>13. CASE Stabilise \/ UNCHANGED vars
  BY <1>1, <1>13 DEF Stabilise, vars
<1> HIDE DEF Kept
<1> QED BY <1>6, <1>7, <1>8, <1>9, <1>10, <1>11, <1>12, <1>13 DEF Next, Step

\* Whatever the chain answers, the reference, the memories and the passes of the workers
\* are observations, receipts and outcomes of their types, and a pass is only ever after
\* passes of other workers (ObservationFromReceipt, MergeObservation, VerifyObservation).
THEOREM ObservationTyped == Spec => []TypeOK
<1>1. Typed => TypeOK
  <2> SUFFICES ASSUME Typed PROVE TypeOK
    OBVIOUS
  <2>1. ASSUME NEW w \in Workers
        PROVE  memory[w] = Nothing \/ memory[w].observation \in Observations
    BY DEF Typed, Memories
  <2>2. ASSUME NEW w \in Workers
        PROVE  \/ pass[w] = Idle
               \/ pass[w].at = "loaded" /\ pass[w].base \in Observations
               \/ /\ pass[w].at = "evaluated"
                  /\ pass[w].receipt \in Receipts
                  /\ pass[w].outcome \in {"PENDING", "VERIFIED", "FAILED"}
                  /\ pass[w].merged \in Observations
                  /\ pass[w].after \subseteq Workers \ {w}
    BY DEF Typed, Passes, Evaluations
  <2>3. verdict.outcome \in {"none", "VERIFIED", "FAILED"}
    BY DEF Typed, Verdicts
  <2> QED BY <2>1, <2>2, <2>3 DEF TypeOK, Typed
<1>2. ASSUME Init PROVE Typed
  <2>1. Nothing \in Memories /\ [outcome |-> "none"] \in Verdicts
    BY DEF Memories, Verdicts
  <2>2. memory \in [Workers -> Memories]
    BY <1>2, <2>1 DEF Init
  <2>3. DOMAIN pass = Workers /\ pass = [w \in Workers |-> pass[w]]
    BY <1>2 DEF Init
  <2>4. \A w \in Workers : pass[w] \in Passes(w)
    BY <1>2 DEF Init, Passes
  <2> QED BY <1>2, <2>1, <2>2, <2>3, <2>4, MadeTyped DEF Init, Typed
<1>3. Typed /\ [Next]_vars => Typed'
  BY NextTyped
<1> QED BY <1>1, <1>2, <1>3, PTL DEF Spec

=============================================================================
