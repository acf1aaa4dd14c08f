----------------------------- MODULE MCPayments -----------------------------
(***************************************************************************)
(* Drafts of every type, accepted and refused: the self-transfer, the zero *)
(* address, the payroll contract and the employer as recipients, duplicate *)
(* recipients, unknown tokens, missing and over-long references, minimum   *)
(* outputs on both sides of the slippage floor, deadlines on both sides of *)
(* the clock, of the window and of each other.  A few are followed to the  *)
(* chain, two of each kind so that one may be mistaken for the other.      *)
(***************************************************************************)
EXTENDS DomainVerification, TLC

CONSTANTS Amounts    \* the amounts of the drafts' recipients

Times == 2..MaxTime

SendDrafts ==
  [type : {"SEND"}, token : {"USDC", "OTHER"}, recipient : {"alice", Wallet, AddressZero},
   amount : {0} \cup Amounts, deadline : {1, 3, 4}]

Lines == {<<[address |-> a, amount |-> n]>> :
            a \in {"alice", Wallet, PayrollAddress, AddressZero}, n \in {0} \cup Amounts}
         \cup {<<[address |-> "alice", amount |-> m], [address |-> b, amount |-> n]>> :
                 b \in {"alice", "bob"}, m \in Amounts, n \in Amounts}

SameTokenDrafts ==
  [type : {"PAYROLL"}, token : {"USDC", "OTHER"}, outputToken : {""}, recipients : Lines,
   referenceID : {"", "ref", "over"}, deadline : {1, 3, 4}]

CrossTokenDrafts ==
  [type : {"PAYROLL"}, token : {"USDC", "EURC"}, outputToken : {"EURC"}, recipients : Lines,
   referenceID : {"ref"}, grossInput : {0, 1}, minTotalOut : Amounts, minHopPrice : {1},
   swapDeadline : {2, 4}, deadline : {3, 4}]

SwapDrafts ==
  [type : {"SWAP"}, tokenIn : {"USDC", "EURC"}, tokenOut : {"USDC", "EURC"},
   amountIn : {1} \cup Amounts, expectedOutput : {2, 3}, minAmountOut : 0..3,
   maxSlippageBPS : {0, 3400, 10000}, minHopPrice : {1},
   quoteExpiresAt : Times, swapDeadline : Times, deadline : {3, 4}]

-----------------------------------------------------------------------------

Line(address, amount) == [address |-> address, amount |-> amount]

Two == <<Line("alice", 2), Line("bob", 1)>>

Payroll(recipients, referenceID) ==
  [type |-> "PAYROLL", token |-> "USDC", outputToken |-> "", recipients |-> recipients,
   referenceID |-> referenceID, deadline |-> 3]

Cross(token, outputToken, recipients, minTotalOut) ==
  [type |-> "PAYROLL", token |-> token, outputToken |-> outputToken,
   recipients |-> recipients, referenceID |-> "ref", grossInput |-> 2,
   minTotalOut |-> minTotalOut, minHopPrice |-> 1, swapDeadline |-> 2, deadline |-> 3]

Swap(tokenIn, tokenOut, minAmountOut) ==
  [type |-> "SWAP", tokenIn |-> tokenIn, tokenOut |-> tokenOut, amountIn |-> 2,
   expectedOutput |-> 3, minAmountOut |-> minAmountOut, maxSlippageBPS |-> 5000,
   minHopPrice |-> 1, quoteExpiresAt |-> 2, swapDeadline |-> 2, deadline |-> 3]

Send(recipient) ==
  [type |-> "SEND", token |-> "USDC", recipient |-> recipient, amount |-> 2, deadline |-> 3]

MCSettling ==
  {Payroll(Two, "ref"), Payroll(Two, "ref2"), Cross("USDC", "EURC", Two, 4),
   Cross("EURC", "USDC", <<Line("alice", 2)>>, 2), Swap("USDC", "EURC", 3),
   Swap("EURC", "USDC", 2), Send("alice"), Send("bob")}

MCOthers == {[DraftIntent(d, 1) EXCEPT !.status = "APPROVED"] : d \in MCSettling}

MCDrafts == UNION {SendDrafts, SameTokenDrafts, CrossTokenDrafts, SwapDrafts, MCSettling}

\* The largest batch a payroll intent may have.
LargestBatch == [k \in 1..MaxRecipients |-> Line("recipient " \o ToString(k), 1)]

MCBatch == {Payroll(LargestBatch, "ref")}

=============================================================================
