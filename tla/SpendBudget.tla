---------------------------- MODULE SpendBudget ----------------------------
(***************************************************************************)
(* What a spend ledger promises for one grant version (the caps of         *)
(* autonomy.Grant): a reservation is made only within the aggregate cap    *)
(* and the rolling-window cap, and whoever was told "reserved" finds the   *)
(* amount held until it is released.  A refusal is always allowed.         *)
(***************************************************************************)
EXTENDS Integers, FiniteSetsExt

CONSTANTS Occurrences, Amounts, Times, Window, Cap, WindowCap

VARIABLES amount,   \* what each occurrence spends: fixed by its template
          held,     \* when the amount of an occurrence was reserved, or Never
          granted   \* occurrences last answered "reserved" and not released

budgetVars == <<amount, held, granted>>

Never == -1
Held == {o \in Occurrences : held[o] # Never}
Total(S) == MapThenSumSet(LAMBDA o : amount[o], S)

Init ==
  /\ amount \in [Occurrences -> Amounts]
  /\ held = [o \in Occurrences |-> Never] /\ granted = {}

Hold(o, at) ==
  /\ held[o] = Never
  /\ Total(Held) + amount[o] <= Cap
  /\ Total({p \in Held : at - held[p] < Window}) + amount[o] <= WindowCap
  /\ held' = [held EXCEPT ![o] = at]

Reserve(o, at) ==
  /\ \/ Hold(o, at) /\ granted' = granted \cup {o}
     \/ held[o] # Never /\ UNCHANGED held /\ granted' = granted \cup {o}
     \/ UNCHANGED held /\ granted' = granted \ {o}
     \/ Hold(o, at) /\ UNCHANGED granted         \* the answer is lost
  /\ UNCHANGED amount

Release(o) ==
  /\ \/ held' = [held EXCEPT ![o] = Never]
     \/ UNCHANGED held                           \* committed
  /\ granted' = granted \ {o} /\ UNCHANGED amount

Next == \E o \in Occurrences : Release(o) \/ \E at \in Times : Reserve(o, at)

Spec == Init /\ [][Next]_budgetVars
=============================================================================
