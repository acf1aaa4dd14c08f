---------------------------- MODULE MCRecurrence ----------------------------
(* Small instances of the recurrence for TLC: fourteen months of days, up   *)
(* to the end of February of a leap year.                                   *)
EXTENDS Recurrence
MCStarts == {2, 30, 31}
MCDays == {2, 29, 30, 31}
=============================================================================
