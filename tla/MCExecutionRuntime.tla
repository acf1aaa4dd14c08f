----------------------- MODULE MCExecutionRuntime -----------------------
(* ExecutionRuntime for TLC: every answer the boundaries admit.           *)
EXTENDS ExecutionRuntime, TLC

MCExecuteOutcomes == AdapterOutcomes
MCStatusOutcomes == AdapterOutcomes
MCVerifyOutcomes == VerifierOutcomes
=============================================================================
