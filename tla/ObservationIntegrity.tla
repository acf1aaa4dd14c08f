------------------------ MODULE ObservationIntegrity ------------------------
(***************************************************************************)
(* On-chain verification of one submitted transaction: the Arc receipt     *)
(* reader, the observation tracker that compares successive receipts, the  *)
(* provider verifier, the domain gate behind it, and the observation that  *)
(* the runtime stores in the adapter reference between passes.             *)
(*                                                                         *)
(* A verification pass loads the newest stored reference, reads the        *)
(* receipt once, compares it with what the process remembers (or, after a  *)
(* restart, with the stored observation) and either stores the merged      *)
(* observation or settles the execution.  Worker processes have a memory   *)
(* each; passes of two workers overlap when a lease expires under one.     *)
(* The lifecycle and the lease itself are in ExecutionRuntime.             *)
(***************************************************************************)
EXTENDS Naturals, FiniteSets

CONSTANTS Workers,
          Blocks,            \* inclusions a node may report: [hash, number]
          Logs,              \* log fingerprints a node may report
          VerifiedLogs,      \* the ones the domain verifier accepts
          MaxDepth,          \* bound: confirmation depths reported
          MinConfirmations,
          RPCAnswers,        \* the answers the nodes give, out of AllAnswers
          FinalAnswer        \* the answer once the network has settled

NoLogs == ""
NoHash == ""

None == [depth |-> 0]      \* no receipt, or a head behind the receipt's block

AllAnswers == [block : Blocks, depth : 1 .. MaxDepth,
               status : {"success", "reverted", "other"}, logs : Logs] \cup {None}

ASSUME BlocksAssumption == \A b \in Blocks : b.number \in Nat
ASSUME DepthAssumption == MaxDepth \in Nat /\ MinConfirmations \in Nat \ {0}
ASSUME LogsAssumption == VerifiedLogs \subseteq Logs
ASSUME AnswersAssumption == RPCAnswers \subseteq AllAnswers
ASSUME FinalAnswerAssumption == FinalAnswer \in RPCAnswers \ {None}

VARIABLES durable,   \* the observation in the newest stored reference
          memory,    \* per worker: ObservationTracker's entry, if any
          pass,      \* per worker: the verification pass under way
          holder,    \* the worker whose claim is current
          verdict,   \* how the execution settled, and on what
          stable,    \* from now on the node gives FinalAnswer
          outdated   \* history: workers whose memory, or whose pass, is older than
                     \* an observation that another worker has stored

vars == <<durable, memory, pass, holder, verdict, stable, outdated>>

-----------------------------------------------------------------------------
(* Receipts and observations.                                              *)

Hashes == {b.hash : b \in Blocks} \cup {NoHash}
Numbers == {b.number : b \in Blocks} \cup {0}

Observations == [present : BOOLEAN, known : BOOLEAN, hash : Hashes, number : Numbers,
                 confirmations : 0 .. MaxDepth, logs : Logs \cup {NoLogs}]

NoObservation == [present |-> FALSE, known |-> FALSE, hash |-> NoHash, number |-> 0,
                  confirmations |-> 0, logs |-> NoLogs]

\* The Arc verifier: a success too shallow to be final is reported as unknown,
\* with its block and logs.
TransactionReceipt(answer) ==
  IF answer = None
    THEN [status |-> "UNKNOWN", hash |-> NoHash, number |-> 0, confirmations |-> 0,
          logs |-> NoLogs]
    ELSE [status |-> CASE answer.status = "success" /\ answer.depth >= MinConfirmations -> "SUCCESS"
                       [] answer.status = "reverted" -> "REVERTED"
                       [] OTHER -> "UNKNOWN",
          hash |-> answer.block.hash, number |-> answer.block.number,
          confirmations |-> answer.depth, logs |-> answer.logs]

Receipts == {TransactionReceipt(answer) : answer \in RPCAnswers}

Present(receipt) == \/ receipt.number # 0
                    \/ receipt.hash # NoHash
                    \/ receipt.status \in {"SUCCESS", "REVERTED"}

ObservationFromReceipt(receipt) ==
  [present |-> Present(receipt), known |-> Present(receipt), hash |-> receipt.hash,
   number |-> receipt.number, confirmations |-> receipt.confirmations,
   logs |-> IF Present(receipt) THEN receipt.logs ELSE NoLogs]

HasInclusion(o) == o.known \/ o.present \/ o.hash # NoHash \/ o.number # 0

\* Mutant of Inconsistent: only the block number is compared.
InconsistentMut(prior, current) ==
  HasInclusion(prior) /\ current.present /\ prior.number # current.number

\* CompareReceiptObservations, as whether its signal is any but NONE.
Inconsistent(prior, current) ==
  /\ HasInclusion(prior)
  /\ IF current.present
       THEN \/ NoHash \notin {prior.hash, current.hash} /\ prior.hash # current.hash
            \/ 0 \notin {prior.number, current.number} /\ prior.number # current.number
            \/ prior.present /\ current.confirmations < prior.confirmations
            \/ prior.present /\ prior.logs # NoLogs /\ current.logs # prior.logs
       ELSE prior.present

\* Mutants of MergeObservation: an absent receipt replaces the observation; a
\* contradicting receipt does not.
MergeObservationMut(prior, current) == current
MergeObservationStuck(prior, current) == IF Inconsistent(prior, current) THEN prior ELSE current

\* An absent receipt keeps the last known inclusion and its logs.
MergeObservation(prior, current) ==
  IF current.present \/ ~HasInclusion(prior)
    THEN current
    ELSE [prior EXCEPT !.present = FALSE, !.known = TRUE, !.confirmations = 0]

\* What is left of an observation after WithReceiptObservation, Encode,
\* ParseReference and Reference.ReceiptObservation.
Stored(o) ==
  LET known == o.known \/ o.present \/ o.hash # NoHash \/ o.number # 0 \/ o.logs # NoLogs
  IN  IF known THEN [o EXCEPT !.known = TRUE] ELSE NoObservation

-----------------------------------------------------------------------------
(* A verification pass.                                                    *)

Nothing == [found |-> FALSE]
Remembered(o) == [found |-> TRUE, observation |-> o]

Idle == [at |-> "idle"]

\* after: passes of other workers that read their receipt before this one and
\* are still to be stored.  superseded: a later observation is stored already, so
\* this one will not be the newest by observed_at.  outdated: the receipt was
\* compared with a memory or a reference older than what is stored.
Evaluated(base, receipt, outcome, merged, after, old) ==
  [at |-> "evaluated", base |-> base, receipt |-> receipt, outcome |-> outcome,
   merged |-> merged, after |-> after, superseded |-> FALSE, outdated |-> old]

TypeOK ==
  /\ durable \in Observations
  /\ \A w \in Workers :
       /\ memory[w] = Nothing \/ memory[w].observation \in Observations
       /\ \/ pass[w] = Idle
          \/ pass[w].at = "loaded" /\ pass[w].base \in Observations
          \/ /\ pass[w].at = "evaluated"
             /\ pass[w].receipt \in Receipts
             /\ pass[w].outcome \in {"PENDING", "VERIFIED", "FAILED"}
             /\ pass[w].merged \in Observations
             /\ pass[w].after \subseteq Workers \ {w}
  /\ holder \in Workers
  /\ verdict.outcome \in {"none", "VERIFIED", "FAILED"}
  /\ stable \in BOOLEAN
  /\ outdated \subseteq Workers

Init ==
  /\ durable = NoObservation
  /\ memory = [w \in Workers |-> Nothing]
  /\ pass = [w \in Workers |-> Idle]
  /\ holder \in Workers
  /\ verdict = [outcome |-> "none"]
  /\ stable = FALSE
  /\ outdated = {}

\* A worker claims the execution and reads the newest reference.  Once the
\* network is stable leases no longer expire during a pass.
StartPass(w) ==
  /\ verdict.outcome = "none"
  /\ pass[w] = Idle
  /\ stable => \A v \in Workers : pass[v] = Idle
  /\ pass' = [pass EXCEPT ![w] = [at |-> "loaded", base |-> durable]]
  /\ holder' = w
  /\ outdated' = IF memory[w].found THEN outdated ELSE outdated \ {w}
  /\ UNCHANGED <<durable, memory, verdict, stable>>

\* The observation the tracker compares with: its own before the stored one.
Prior(w) == IF memory[w].found THEN memory[w].observation ELSE pass[w].base

\* The current receipt is a success at the required depth, and does not
\* contradict the prior observation.
FinalSuccess(prior, receipt) ==
  /\ receipt.status = "SUCCESS"
  /\ ~Inconsistent(prior, ObservationFromReceipt(receipt))

\* What the payroll, swap and send verifiers make of the logs.  Logs that do not
\* prove the intent are left pending or contradict it.
DomainOutcomes(receipt) ==
  IF receipt.logs \in VerifiedLogs THEN {"VERIFIED"} ELSE {"PENDING", "FAILED"}

\* VerifyObservation, and the domain gate after a final success.
Outcomes(prior, receipt) ==
  IF FinalSuccess(prior, receipt) THEN DomainOutcomes(receipt)
  ELSE IF /\ receipt.status = "REVERTED"
          /\ ~Inconsistent(prior, ObservationFromReceipt(receipt))
  THEN {"FAILED"} ELSE {"PENDING"}

ReadReceipt(w, answer) ==
  LET receipt == TransactionReceipt(answer)
      merged == MergeObservation(Prior(w), ObservationFromReceipt(receipt))
      earlier == {v \in Workers : pass[v].at = "evaluated"}
  IN
  /\ pass[w].at = "loaded"
  /\ stable => answer = FinalAnswer
  /\ memory' = [memory EXCEPT ![w] = Remembered(merged)]
  /\ \E outcome \in Outcomes(Prior(w), receipt) :
       pass' = [v \in Workers |->
                  IF v = w THEN Evaluated(pass[w].base, receipt, outcome, merged, earlier,
                                          w \in outdated)
                  ELSE IF v \in earlier THEN [pass[v] EXCEPT !.after = @ \ {w}]
                  ELSE pass[v]]
  /\ UNCHANGED <<durable, holder, verdict, stable, outdated>>

\* The node is unreachable: the pass ends with nothing remembered or stored.
ReadFails(w) ==
  /\ pass[w].at = "loaded"
  /\ ~stable
  /\ pass' = [pass EXCEPT ![w] = Idle]
  /\ UNCHANGED <<durable, memory, holder, verdict, stable, outdated>>

\* The domain gate ends in an error (the intent cannot be read, say): the pass
\* ends, and the process remembers an observation that is not stored.
DomainGateFails(w, answer) ==
  LET receipt == TransactionReceipt(answer) IN
  /\ pass[w].at = "loaded"
  /\ ~stable
  /\ FinalSuccess(Prior(w), receipt)
  /\ memory' = [memory EXCEPT ![w] =
                  Remembered(MergeObservation(Prior(w), ObservationFromReceipt(receipt)))]
  /\ pass' = [pass EXCEPT ![w] = Idle]
  /\ UNCHANGED <<durable, holder, verdict, stable, outdated>>

\* The process ends, by itself after an error or by a crash, and starts again
\* with an empty memory.
Forgotten(w) == /\ memory' = [memory EXCEPT ![w] = Nothing]
                /\ pass' = [pass EXCEPT ![w] = Idle]
                /\ outdated' = outdated \ {w}

Exit(w) ==
  /\ ~stable
  /\ Forgotten(w)
  /\ UNCHANGED <<durable, holder, verdict, stable>>

\* The runtime on PENDING: a reference that changed is appended, unfenced but
\* only while the execution is where the worker read it.
PersistPending(w) ==
  /\ pass[w].at = "evaluated"
  /\ pass[w].outcome = "PENDING"
  /\ \/ /\ Stored(pass[w].merged) = pass[w].base
        /\ pass' = [pass EXCEPT ![w] = Idle]
        /\ UNCHANGED <<durable, memory, outdated>>
     \/ /\ Stored(pass[w].merged) # pass[w].base
        /\ verdict.outcome = "none"
        /\ durable' = IF pass[w].superseded THEN durable ELSE Stored(pass[w].merged)
        /\ pass' = [v \in Workers |->
                      IF v = w THEN Idle
                      ELSE IF v \in pass[w].after /\ pass[v].at = "evaluated"
                      THEN [pass[v] EXCEPT !.superseded = TRUE]
                      ELSE pass[v]]
        /\ outdated' = IF pass[w].superseded THEN outdated
                       ELSE {v \in Workers \ {w} : memory[v].found \/ pass[v] # Idle}
        /\ UNCHANGED memory
     \/ /\ Stored(pass[w].merged) # pass[w].base
        /\ verdict.outcome # "none"
        /\ Forgotten(w)
        /\ UNCHANGED durable
  /\ UNCHANGED <<holder, verdict, stable>>

\* The runtime on VERIFIED or FAILED: fenced transactions, so only the current
\* claim settles the execution; any other worker exits with an error.
PersistVerdict(w) ==
  /\ pass[w].at = "evaluated"
  /\ pass[w].outcome # "PENDING"
  /\ IF holder = w /\ verdict.outcome = "none"
       THEN /\ verdict' = [outcome |-> pass[w].outcome, receipt |-> pass[w].receipt,
                           baseline |-> pass[w].base, outdated |-> pass[w].outdated]
            /\ pass' = [pass EXCEPT ![w] = Idle]
            /\ UNCHANGED <<memory, outdated>>
       ELSE Forgotten(w) /\ UNCHANGED verdict
  /\ UNCHANGED <<durable, holder, stable>>

\* Nodes agree from here on, and stay reachable.
Stabilise ==
  /\ ~stable
  /\ stable' = TRUE
  /\ UNCHANGED <<durable, memory, pass, holder, verdict, outdated>>

Step(w) == \/ StartPass(w)
           \/ \E answer \in RPCAnswers : ReadReceipt(w, answer)
           \/ PersistPending(w)
           \/ PersistVerdict(w)

Next == \/ \E w \in Workers :
             \/ Step(w)
             \/ ReadFails(w)
             \/ \E answer \in RPCAnswers : DomainGateFails(w, answer)
             \/ Exit(w)
        \/ Stabilise

Spec == Init /\ [][Next]_vars

\* Once the network is stable the worker polls, calls return, transactions end.
FairSpec == Spec /\ \A w \in Workers : WF_vars(stable /\ Step(w))

-----------------------------------------------------------------------------
(* Properties.                                                             *)

\* A receipt agrees with an observation: same block as far as both name one, and
\* the same logs while the observation is of a present receipt.
Agrees(receipt, o) ==
  /\ NoHash \notin {receipt.hash, o.hash} => receipt.hash = o.hash
  /\ 0 \notin {receipt.number, o.number} => receipt.number = o.number
  /\ o.present /\ o.logs # NoLogs => receipt.logs = o.logs

\* verifier.go: a success verifies only when it is consistent with the durable
\* observation baseline, the one in the reference the pass was given.  It holds
\* across restarts and lost receipts, and between workers as long as no other
\* worker has stored an observation since the one the verifying process remembers:
\* the tracker prefers its own memory to the baseline it is given.
VerifiedAgreesWithBaseline ==
  verdict.outcome = "VERIFIED" /\ ~verdict.outdated
    => Agrees(verdict.receipt, verdict.baseline)

\* Not kept by the code, though reorg.go says it of MergeObservation: a receipt
\* that reappears is still compared with the logs of the receipt that was lost.
VerifiedKeepsLogs ==
  verdict.outcome = "VERIFIED" /\ verdict.baseline.logs # NoLogs
    => verdict.receipt.logs = verdict.baseline.logs

\* The stored baseline survives restarts and lost receipts: a stored inclusion is
\* lost or replaced only by a receipt in another block that a worker has just read,
\* or at the hands of a worker that another one has overtaken.
BaselineRetained ==
  [][HasInclusion(durable) /\ durable'.hash # durable.hash
       => \E w \in Workers :
            /\ pass[w].at = "evaluated" /\ pass'[w] = Idle
            /\ \/ Present(pass[w].receipt) /\ pass[w].receipt.hash = durable'.hash
               \/ w \in outdated]_vars

\* Contradicting answers delay a verdict, they never prevent one: when the node
\* settles on one final answer, the execution settles.
Settles == stable ~> verdict.outcome # "none"
=============================================================================
