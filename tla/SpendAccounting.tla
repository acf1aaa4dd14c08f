-------------------------- MODULE SpendAccounting --------------------------
(***************************************************************************)
(* The two spend ledgers of one grant version whose caps and window are    *)
(* set: the reference ledger in memory (internal/autonomy/accounting.go),  *)
(* whose mutex makes every operation one step, and the production one, the *)
(* table autonomy_spend_reservations in PostgreSQL (ReserveAutonomySpend,  *)
(* ReleaseAutonomySpend), whose reserving transaction is SERIALIZABLE: one *)
(* step or none, with an answer that may be lost around the commit.        *)
(* Nothing writes COMMITTED to the table.  Callers' clocks are not         *)
(* ordered: "at" is any time.                                              *)
(***************************************************************************)
EXTENDS Integers, FiniteSetsExt

CONSTANTS GrantOccurrences, Amounts, Times, Window, Cap, WindowCap

ASSUME SpendAssumption ==
  /\ Amounts \subseteq Nat \ {0} /\ Times \subseteq Nat
  /\ {Window, Cap, WindowCap} \subseteq Nat \ {0}

VARIABLES ledger,    \* which of the two this is; never changes
          amount,    \* what each occurrence spends: fixed by its template
          rows,      \* the reservation of each occurrence
          granted,   \* occurrences last answered "reserved" and not released
          retried    \* history: the ones among them whose row was a released one

spendVars == <<ledger, amount, rows, granted, retried>>

Never == -1
NoReservation == [at |-> Never, state |-> "NONE"]
Total(S) == MapThenSumSet(LAMBDA o : amount[o], S)
Counted == {o \in GrantOccurrences : rows[o].state \in {"RESERVED", "COMMITTED"}}

SpendTypeOK ==
  /\ ledger \in {"memory", "table"}
  /\ amount \in [GrantOccurrences -> Amounts]
  /\ rows \in [GrantOccurrences -> {NoReservation} \cup
       [at : Times, state : {"RESERVED", IF ledger = "memory" THEN "COMMITTED" ELSE "RELEASED"}]]
  /\ granted \subseteq GrantOccurrences /\ retried \subseteq granted

SpendInit ==
  /\ ledger \in {"memory", "table"}
  /\ amount \in [GrantOccurrences -> Amounts]
  /\ rows = [o \in GrantOccurrences |-> NoReservation] /\ granted = {} /\ retried = {}

Reserved(o, at) == [rows EXCEPT ![o] = [at |-> at, state |-> "RESERVED"]]

-----------------------------------------------------------------------------
(* In memory.                                                              *)

\* The window is open at its start.
Fits(o, at) ==
  /\ Total(Counted) + amount[o] <= Cap
  /\ Total({p \in Counted : at - rows[p].at < Window}) + amount[o] <= WindowCap

Reserve(o, at) ==
  /\ \/ rows[o] # NoReservation
        /\ granted' = granted \cup {o} /\ UNCHANGED rows
     \/ rows[o] = NoReservation /\ ~Fits(o, at)
        /\ granted' = granted \ {o} /\ UNCHANGED rows
     \/ rows[o] = NoReservation /\ Fits(o, at)
        /\ granted' = granted \cup {o} /\ rows' = Reserved(o, at)
  /\ UNCHANGED retried

Commit(o) ==
  /\ rows[o] # NoReservation
  /\ rows' = [rows EXCEPT ![o].state = "COMMITTED"]
  /\ UNCHANGED <<granted, retried>>

Release(o) ==
  /\ rows' = IF rows[o].state = "RESERVED" THEN [rows EXCEPT ![o] = NoReservation] ELSE rows
  /\ granted' = granted \ {o} /\ UNCHANGED retried

-----------------------------------------------------------------------------
(* In the table.                                                           *)

\* Mutant of FitsTable: rows of this instant and later are not in the window.
FitsTableMut(o, at) ==
  /\ Total(Counted) + amount[o] <= Cap
  /\ Total({p \in Counted : rows[p].at >= at - Window /\ rows[p].at < at}) + amount[o]
       <= WindowCap

\* The two sums of the transaction.  The window is closed at its start.
FitsTable(o, at) ==
  /\ Total(Counted) + amount[o] <= Cap
  /\ Total({p \in Counted : rows[p].at >= at - Window}) + amount[o] <= WindowCap

\* Mutant of ReserveAutonomySpend: a request over a cap is answered like a repeated one.
ReserveAutonomySpendMut(o, at) ==
  /\ granted' = granted \cup {o}
  /\ rows' = IF rows[o] = NoReservation /\ FitsTable(o, at) THEN Reserved(o, at) ELSE rows
  /\ UNCHANGED retried

\* Any row of the occurrence, a released one too, answers "reserved".
ReserveAutonomySpend(o, at) ==
  \/ /\ rows[o] # NoReservation
     /\ granted' = granted \cup {o} /\ UNCHANGED rows
     /\ retried' = IF rows[o].state = "RELEASED" THEN retried \cup {o} ELSE retried
  \/ /\ rows[o] = NoReservation /\ ~FitsTable(o, at)
     /\ granted' = granted \ {o} /\ UNCHANGED <<rows, retried>>
  \/ /\ rows[o] = NoReservation /\ FitsTable(o, at)
     /\ granted' \in {granted, granted \cup {o}}
     /\ rows' = Reserved(o, at) /\ UNCHANGED retried

ReleaseAutonomySpend(o) ==
  /\ rows' = IF rows[o].state = "RESERVED"
             THEN [rows EXCEPT ![o].state = "RELEASED"] ELSE rows
  /\ granted' = granted \ {o} /\ retried' = retried \ {o}

-----------------------------------------------------------------------------
Memory(o) == /\ ledger = "memory"
             /\ (\E at \in Times : Reserve(o, at)) \/ Commit(o) \/ Release(o)

Table(o) == /\ ledger = "table"
            /\ (\E at \in Times : ReserveAutonomySpend(o, at)) \/ ReleaseAutonomySpend(o)

SpendNext == (\E o \in GrantOccurrences : Memory(o) \/ Table(o)) /\ UNCHANGED <<ledger, amount>>

SpendSpec == SpendInit /\ [][SpendNext]_spendVars

-----------------------------------------------------------------------------
(* Properties.                                                             *)

Budget == INSTANCE SpendBudget
            WITH Occurrences <- GrantOccurrences,
                 held <- [o \in GrantOccurrences |-> IF o \in Counted THEN rows[o].at ELSE Never],
                 granted <- granted \ retried

\* Both ledgers keep the promise of SpendBudget, whatever the order of the callers'
\* clocks and with answers lost and requests repeated: every step reserves within
\* both caps, answers, or releases, and whoever was told "reserved" finds the amount
\* held until it is released.  The exception is an occurrence whose row in the table
\* was released: asking for it again is answered "reserved" and holds nothing.
KeepsBudget == Budget!Spec

\* No rolling window of the grant, wherever it starts, holds more than its cap in
\* the table, and all of them together no more than the aggregate cap, also when
\* workers' clocks disagree and reservations arrive out of order.
CapsHold ==
  /\ Total(Counted) <= Cap
  /\ ledger = "table" =>
       \A start \in Times :
         Total({o \in Counted : rows[o].at \in start..(start + Window)}) <= WindowCap
=============================================================================
