--------------------------- MODULE MCApprovalFlow ---------------------------
EXTENDS ApprovalFlow, TLC

=============================================================================
