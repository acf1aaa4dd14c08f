----------------------- MODULE MCObservationIntegrity -----------------------
EXTENDS ObservationIntegrity

\* Two blocks: nodes that contradict each other.
A == [hash |-> "a", number |-> 1]
B == [hash |-> "b", number |-> 2]
MCBlocks == {A, B}

Answer(block, depth, status, logs) ==
  [block |-> block, depth |-> depth, status |-> status, logs |-> logs]

\* Too shallow, final, final with logs that prove nothing, in another block,
\* reverted, and no receipt.
MCAnswers == {Answer(A, 1, "success", "l"), Answer(A, 2, "success", "l"),
              Answer(A, 2, "success", "m"), Answer(B, 2, "success", "l"),
              Answer(B, 1, "reverted", ""), None}
MCFinalAnswer == Answer(A, 2, "success", "l")
=============================================================================
