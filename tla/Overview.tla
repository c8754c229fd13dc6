------------------------------ MODULE Overview ------------------------------
(***************************************************************************)
(* What is computed about a home from its rows: PropertiesService.overview *)
(* with listVisible, the date of a recurring task's next occurrence        *)
(* (MaintenanceService.complete), and HealthController's answer.           *)
(*                                                                         *)
(* Dates of rows are numbers of days; the calendar is needed for months    *)
(* only.  A definition whose name ends in _ and a capitalised word is a    *)
(* mutant of the one that follows it.                                      *)
(***************************************************************************)
EXTENDS Integers, Sequences, SequencesExt, FiniteSets

CONSTANTS
    Absent,     \* no date
    MaxItems    \* rows in a list of the overview at most (6 tasks)

-----------------------------------------------------------------------------
(* The overview *)

AtMost(k, n) == IF n < k THEN n ELSE k

DueBefore(a, b) == a.due # Absent /\ (b.due = Absent \/ a.due < b.due)

Overdue(home) ==
    {i \in DOMAIN home.tasks : /\ home.tasks[i].status = "open" /\ home.tasks[i].due # Absent
                               /\ home.tasks[i].due < home.now}

\* Open tasks by date, those without one last.
Upcoming(home) ==
    LET open == SelectSeq(home.tasks, LAMBDA t : t.status = "open")
        sorted == SortSeq(open, DueBefore)
    IN  SubSeq(sorted, 1, AtMost(MaxItems, Len(open)))

Active(home) ==
    {i \in DOMAIN home.warranties : home.warranties[i] = Absent \/ home.warranties[i] > home.now}

\* The caller's open period decides whether the home is verified.
Verified(home) ==
    \E i \in DOMAIN home.owners :
        home.owners[i].mine /\ home.owners[i].open /\ home.owners[i].verified

Score_Unclamped(home) ==
    20 + (IF Verified(home) THEN 25 ELSE 0) + AtMost(35, 5 * home.processed)
       + AtMost(20, 7 * Cardinality(Active(home))) - 8 * Cardinality(Overdue(home))

Score(home) ==
    LET sum == 20 + (IF Verified(home) THEN 25 ELSE 0) + AtMost(35, 5 * home.processed)
                  + AtMost(20, 7 * Cardinality(Active(home))) - 8 * Cardinality(Overdue(home))
    IN  IF sum < 0 THEN 0 ELSE AtMost(100, sum)

\* Math.round of the share of processed documents, in percent.
Grade(home) ==
    IF home.total = 0 THEN 0
    ELSE (200 * home.processed + home.total) \div (2 * home.total)

overview(home) ==
    [verified |-> Verified(home), score |-> Score(home), grade |-> Grade(home),
     pending  |-> home.total - home.processed,
     open     |-> Len(SelectSeq(home.tasks, LAMBDA t : t.status = "open")),
     overdue  |-> Cardinality(Overdue(home)),
     upcoming |-> Upcoming(home),
     active   |-> Cardinality(Active(home))]

-----------------------------------------------------------------------------
(* Months *)

Leap(y) == y % 4 = 0 /\ (y % 100 # 0 \/ y % 400 = 0)

DaysIn(y, m) ==
    CASE m \in {4, 6, 9, 11} -> 30
      [] m = 2 -> IF Leap(y) THEN 29 ELSE 28
      [] OTHER -> 31

\* setMonth(getMonth() + interval): the day of the month is kept, and what the month
\* does not have of it runs over into the next (December has all days).
NextDue_NoCarry(date, interval) ==
    LET y == date.y + (date.m + interval - 1) \div 12
        m == ((date.m + interval - 1) % 12) + 1
    IN  [y |-> y, m |-> m, d |-> date.d]

NextDue(date, interval) ==
    LET y == date.y + (date.m + interval - 1) \div 12
        m == ((date.m + interval - 1) % 12) + 1
        over == date.d - DaysIn(y, m)
    IN  IF over <= 0 THEN [y |-> y, m |-> m, d |-> date.d]
        ELSE [y |-> y, m |-> m + 1, d |-> over]

-----------------------------------------------------------------------------
(* Health *)

\* check: a ping waits for a connection however long it takes (maxRetriesPerRequest is
\* null), so that an unreachable Redis makes the answer wait, and only one that
\* refuses is reported.
check(db, redis) ==
    [status |-> IF db = "up" /\ redis # "refuses" THEN "ok" ELSE "degraded",
     answers |-> redis # "unreachable"]
=============================================================================
