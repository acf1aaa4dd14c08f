----------------------------- MODULE Recurrence -----------------------------
(***************************************************************************)
(* The instants of a schedule (Recurrence.Next in internal/autonomy/       *)
(* model.go) and the catch-up after a pause of the scheduler               *)
(* (MissedInstants in scheduler.go).  An instant is a day of the local     *)
(* calendar: all instants of a schedule have its start's time of day.      *)
(* Day 1 is 1 January, a Friday, and the second February has 29 days.      *)
(* Clock changes of a timezone are left out.                               *)
(***************************************************************************)
EXTENDS Integers, SequencesExt

CONSTANTS Starts,       \* start days of the schedules
          DaysOfMonth,  \* the days MONTHLY schedules name
          LastRuns,     \* days the scheduler may have run last
          Horizon,      \* named bound: the last day of the clock
          MaxMissed     \* the scheduler's bound on missed instants

ASSUME RecurrenceAssumption == MaxMissed \in 1..100

Never == 0
Months == 1..36
Length(m) == IF m % 24 = 14 THEN 29
             ELSE <<31, 28, 31, 30, 31, 30, 31, 31, 30, 31, 30, 31>>[((m - 1) % 12) + 1]
MonthStart[m \in 1..37] == IF m = 1 THEN 1 ELSE MonthStart[m - 1] + Length(m - 1)

\* time.Date: a day past the end of the month falls into the next one.
Date(m, day) == MonthStart[m] + day - 1
MonthOf(d) == CHOOSE m \in Months : MonthStart[m] <= d /\ d < MonthStart[m + 1]
DayOf(d) == d - MonthStart[MonthOf(d)] + 1
Weekday(d) == (d + 4) % 7
AddMonth(d) == Date(MonthOf(d) + 1, DayOf(d))

Recurrences ==
  [frequency : {"ONCE", "DAILY"}, start : Starts, day : {0}, end : {Never, 40}]
    \cup [frequency : {"WEEKLY"}, start : Starts, day : 0..6, end : {Never, 40}]
    \cup [frequency : {"MONTHLY"}, start : Starts, day : DaysOfMonth, end : {Never}]

\* Mutant of Candidates: the day of the month is not restored after a short month.
CandidatesMut(r) ==
  Range(FoldLeft(LAMBDA seen, k : Append(seen, AddMonth(Last(seen))),
                 <<r.start>>, [k \in 1..18 |-> k]))

\* The values the MONTHLY loop runs through: the start, then the named day of
\* the month that one month later falls into.
Candidates(r) ==
  Range(FoldLeft(LAMBDA seen, k : Append(seen, Date(MonthOf(AddMonth(Last(seen))), r.day)),
                 <<r.start>>, [k \in 1..18 |-> k]))

\* The days the loop of a frequency accepts.
Loop(r) ==
  CASE r.frequency = "ONCE" -> {r.start}
    [] r.frequency = "DAILY" -> r.start..(Horizon + 8)
    [] r.frequency = "WEEKLY" -> {d \in r.start..(Horizon + 8) : Weekday(d) = r.day}
    [] r.frequency = "MONTHLY" -> {d \in Candidates(r) : DayOf(d) = r.day}

\* Recurrence.Next: the first instant after a time and before the end.
NextInstant(r, after) ==
  LET open == {d \in Loop(r) : d > after}
  IN IF open = {} \/ (r.end # Never /\ Min(open) >= r.end) THEN Never ELSE Min(open)

\* Mutant of MissedInstants: the instant at the start of the gap is lost.
MissedInstantsMut(r, from, now) ==
  LET next == NextInstant(r, from)
  IN IF next = Never \/ next > now THEN Never ELSE next

\* RUN_LATEST: at most MaxMissed instants are walked, and the last one is run.
MissedInstants(r, from, now) ==
  LET step(at, k) == LET next == NextInstant(r, at)
                     IN IF next = Never \/ next > now THEN at ELSE next
      last == FoldLeft(step, from - 1, [k \in 1..MaxMissed |-> k])
  IN IF last < from THEN Never ELSE last

-----------------------------------------------------------------------------

VARIABLES recurrence, lastRun, now
vars == <<recurrence, lastRun, now>>

\* The scheduler ran on some day and is down since.
Init == recurrence \in Recurrences /\ lastRun \in LastRuns /\ now = lastRun

Tick == now < Horizon /\ now' = now + 1 /\ UNCHANGED <<recurrence, lastRun>>

Spec == Init /\ [][Tick]_vars

-----------------------------------------------------------------------------
(* Properties.                                                             *)

\* The days a reader of the schedule expects: every day, every such weekday,
\* or that day in every month that has it.
Expected(d) ==
  LET r == recurrence
  IN /\ d >= r.start /\ (r.end # Never => d < r.end)
     /\ CASE r.frequency = "ONCE" -> d = r.start
          [] r.frequency = "DAILY" -> TRUE
          [] r.frequency = "WEEKLY" -> Weekday(d) = r.day
          [] r.frequency = "MONTHLY" -> DayOf(d) = r.day

Due == {d \in lastRun..now : Expected(d)}

\* Next finds the first expected day after any time, over short months and a
\* leap year.  A MONTHLY schedule must start on its day of the month: otherwise
\* the first month and the month after a short one are passed over.
NextIsExpected ==
  (recurrence.frequency = "MONTHLY" => DayOf(recurrence.start) = recurrence.day) =>
    LET next == NextInstant(recurrence, now)
    IN /\ next # Never => next > now /\ Expected(next)
       /\ \A d \in (now + 1)..(IF next = Never THEN Horizon ELSE next - 1) : ~Expected(d)

\* Up to MaxMissed missed instants, catching up runs the latest of them; no
\* instant is run before it is due, and none that was passed over before.
CatchUpRunsLatest ==
  (recurrence.frequency = "MONTHLY" => DayOf(recurrence.start) = recurrence.day) =>
    LET run == MissedInstants(recurrence, lastRun, now)
    IN /\ run = Never <=> Due = {}
       /\ run # Never => /\ run \in Due
                         /\ Cardinality(Due) <= MaxMissed => run = Max(Due)

\* Not kept by the code when more than MaxMissed instants were missed:
\* "RUN_LATEST yields only the latest occurrence not later than now."
RunLatestIsLatest ==
  LET run == MissedInstants(recurrence, lastRun, now)
      next == NextInstant(recurrence, run)
  IN run # Never => next = Never \/ next > now
=============================================================================
