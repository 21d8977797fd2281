-------------------------- MODULE GanttRecurrence ---------------------------
(***************************************************************************)
(* Recurring events on the Gantt chart: which occurrences of a rule a      *)
(* visible range shows, and the number each carries                        *)
(* (components/reui/gantt/gantt-recurrence.tsx).  The range moves as the   *)
(* chart is scrolled, and expandRecurrence starts afresh from a point near *)
(* it, so the same occurrence is reached along different paths.            *)
(*                                                                         *)
(* Time is counted in RcDay units to the day, RcWeek days to the week,     *)
(* months of RcMonths days, over and over, and RcYear months to the year.  *)
(* The series starts at a day's first unit.  There is no daylight saving   *)
(* here, and UNTIL has no fraction of a unit (the text has whole seconds). *)
(***************************************************************************)
EXTENDS Integers, Sequences, FiniteSets, FiniteSetsExt, SequencesExt

CONSTANTS
    RcDay, RcWeek, RcMonths, RcYear,
    RcCap,       \* MAX_OCCURRENCES
    RcSeries,    \* events: first day, length, the rule's parts, its exDates and rDates
    RcRanges     \* the ranges looked at

VARIABLES
    rcEvent,     \* the event, its rule, and the rule as it was first given
    rcRange,     \* the visible range
    rcShown      \* its occurrences there: start and recurrenceIndex; or "error"

rcVars == <<rcEvent, rcRange, rcShown>>

-----------------------------------------------------------------------------
(* Rules and their text *)

NoRule == [freq |-> "", interval |-> 1, count |-> -1, until |-> -1, days |-> {}, other |-> FALSE,
           exDates |-> {}, rDates |-> <<>>]
ParsePair(rule, pair) ==
    CASE pair[1] = "FREQ" -> [rule EXCEPT !.freq = pair[2]]
      [] pair[1] = "INTERVAL" -> [rule EXCEPT !.interval = Max({1, pair[2]})]
      [] pair[1] = "COUNT" -> [rule EXCEPT !.count = Max({1, pair[2]})]
      [] pair[1] = "UNTIL" -> [rule EXCEPT !.until = pair[2]]
      [] pair[1] = "BYDAY" -> [rule EXCEPT !.days = pair[2]]
      [] pair[1] = "BYMONTH" -> [rule EXCEPT !.other = TRUE]
\* parseRRuleString.
ParseRule(pairs) == FoldLeft(ParsePair, NoRule, pairs)
\* formatRRuleString: an interval of 1 is left out, and so are exDates and rDates.
FormatRule(rule) ==
    <<<<"FREQ", rule.freq>>>>
    \o (IF rule.interval > 1 THEN <<<<"INTERVAL", rule.interval>>>> ELSE <<>>)
    \o (IF rule.count > 0 THEN <<<<"COUNT", rule.count>>>> ELSE <<>>)
    \o (IF rule.until >= 0 THEN <<<<"UNTIL", rule.until>>>> ELSE <<>>)
    \o (IF rule.days # {} THEN <<<<"BYDAY", rule.days>>>> ELSE <<>>)
    \o (IF rule.other THEN <<<<"BYMONTH", 1>>>> ELSE <<>>)

-----------------------------------------------------------------------------
(* Steps *)

DayOf(t) == t \div RcDay
Weekday(t) == DayOf(t) % RcWeek
MonthLength(m) == RcMonths[(m % Len(RcMonths)) + 1]
MonthStart[m \in Nat] == IF m = 0 THEN 0 ELSE MonthStart[m - 1] + MonthLength(m - 1)
\* addMonths: the day of the month is clamped, and stays clamped.
AddMonths(day, k) ==
    LET m == CHOOSE i \in 0..(day + 1) : MonthStart[i] <= day /\ day < MonthStart[i + 1]
    IN  MonthStart[m + k] + Min({day - MonthStart[m], MonthLength(m + k) - 1})
Months(rule) == rule.interval * IF rule.freq = "yearly" THEN RcYear ELSE 1
Advance(rule, t, steps) ==
    CASE rule.freq = "daily" -> t + steps * rule.interval * RcDay
      [] rule.freq = "weekly" -> t + steps * rule.interval * RcWeek * RcDay
      [] rule.freq \in {"monthly", "yearly"} -> AddMonths(DayOf(t), steps * Months(rule)) * RcDay

\* occurrenceIntersects, inlined.
Visible(t, long, range) == IF long = 0 THEN range[1] <= t /\ t < range[2]
                           ELSE t < range[2] /\ t + long > range[1]
ByDays(rule) == rule.freq = "weekly" /\ rule.days # {}
PerStep(rule) == IF ByDays(rule) THEN Cardinality(rule.days) ELSE 1
Slack(rule) == IF ByDays(rule) THEN (RcWeek - 1) * RcDay ELSE 0
Past(rule, t) == rule.until >= 0 /\ t > rule.until

-----------------------------------------------------------------------------
(* expandRecurrence *)

\* The jump: twice, by whole steps of the longest length, credited to the index.
Jump(e, range, at) ==
    LET gap == range[1] - e.long - Slack(e.rule) - at.cursor
        step == (IF e.rule.freq = "daily" THEN 1 ELSE RcWeek) * RcDay * e.rule.interval + 1
        skip == gap \div step
    IN  IF e.rule.freq \notin {"daily", "weekly"} \/ skip <= 0 THEN at
        ELSE [cursor |-> Advance(e.rule, at.cursor, skip), index |-> at.index + skip * PerStep(e.rule)]
\* The rest, step by step; and the days of the first week before the anchor, which
\* the credit counted and the series does not have.
\* Mutant of FastForward: the days before the anchor stay credited.
FastForwardUncorrected(e, range) ==
    LET jumped == Jump(e, range, Jump(e, range, [cursor |-> e.start, index |-> 0]))
        walk[i \in 0..(RcCap + 2)] ==
          IF i = 0 THEN jumped
          ELSE LET at == walk[i - 1]
               IN  IF Past(e.rule, at.cursor) \/ at.cursor + e.long + Slack(e.rule) >= range[1] THEN at
                   ELSE [cursor |-> Advance(e.rule, at.cursor, 1), index |-> at.index + PerStep(e.rule)]
    IN  walk[RcCap + 2]
FastForward(e, range) ==
    LET jumped == Jump(e, range, Jump(e, range, [cursor |-> e.start, index |-> 0]))
        walk[i \in 0..(RcCap + 2)] ==
          IF i = 0 THEN jumped
          ELSE LET at == walk[i - 1]
               IN  IF Past(e.rule, at.cursor) \/ at.cursor + e.long + Slack(e.rule) >= range[1] THEN at
                   ELSE [cursor |-> Advance(e.rule, at.cursor, 1), index |-> at.index + PerStep(e.rule)]
        at == walk[RcCap + 2]
    IN  IF ByDays(e.rule) /\ at.index > 0
        THEN [at EXCEPT !.index = @ - Cardinality({d \in e.rule.days : d < Weekday(e.start)})]
        ELSE at

\* What one step of the main loop emits: the instant, or the selected days of its week.
Candidates(e, cursor) ==
    IF ~ByDays(e.rule) THEN <<cursor>>
    ELSE LET week == [i \in 1..RcWeek |-> cursor + (i - 1 - Weekday(cursor)) * RcDay]
         IN  SelectSeq(week, LAMBDA t : Weekday(t) \in e.rule.days /\ t >= e.start /\ ~Past(e.rule, t))
Ended(e, range, at) ==
    LET horizon == IF ByDays(e.rule) THEN at.cursor - Weekday(at.cursor) * RcDay ELSE at.cursor
    IN  \/ at.produced >= RcCap \/ Past(e.rule, at.cursor)
        \/ e.rule.count > 0 /\ at.index >= e.rule.count
        \/ e.rule.count < 0 /\ horizon >= range[2]
EmitOne(e, range, at, t) ==
    IF at.produced >= RcCap \/ (e.rule.count > 0 /\ at.index >= e.rule.count) THEN at
    ELSE [at EXCEPT !.produced = @ + 1, !.index = @ + 1,
                    !.out = IF t \in e.rule.exDates \/ ~Visible(t, e.long, range) THEN @
                            ELSE @ \cup {<<t, at.index>>}]
Generate(e, range) ==
    LET from == FastForward(e, range)
        loop[i \in 0..(RcCap + 2)] ==
          IF i = 0 THEN [cursor |-> from.cursor, index |-> from.index, produced |-> 0, out |-> {}]
          ELSE LET at == loop[i - 1]
               IN  IF Ended(e, range, at) THEN at
                   ELSE LET done == FoldLeft(LAMBDA a, t : EmitOne(e, range, a, t), at,
                                             Candidates(e, at.cursor))
                        IN  [done EXCEPT !.cursor = Advance(e.rule, at.cursor, 1)]
    IN  loop[RcCap + 2]
\* rDates: numbered after what was generated.
AddDates(e, range, at) ==
    FoldLeft(LAMBDA a, t : IF t \in e.rule.exDates \/ t \in {o[1] : o \in a.out} \/ ~Visible(t, e.long, range)
                           THEN a ELSE [a EXCEPT !.out = @ \cup {<<t, a.index>>}, !.index = @ + 1],
             at, e.rule.rDates).out
Expand(e, range) ==
    IF e.rule.freq = "" THEN {<<t, 0>> : t \in {x \in {e.start} : Visible(x, e.long, range)}}
    ELSE IF e.rule.other \/ (e.rule.days # {} /\ e.rule.freq # "weekly") THEN {"error"}
    ELSE AddDates(e, range, Generate(e, range))

-----------------------------------------------------------------------------

EventOf(s) ==
    LET rule == [ParseRule(s.pairs) EXCEPT !.exDates = s.except, !.rDates = s.added]
    IN  [start |-> s.first * RcDay, long |-> s.long, rule |-> rule, given |-> rule]

RcInit ==
    /\ \E s \in RcSeries : rcEvent = EventOf(s)
    /\ rcRange \in RcRanges
    /\ rcShown = Expand(rcEvent, rcRange)

\* The range moves: the index is built again.
Look(range) == rcRange' = range /\ rcShown' = Expand(rcEvent, range) /\ UNCHANGED rcEvent
\* The rule is written out, and read again by the next chart: a text has no exDates
\* and no rDates, so they are gone.
Store ==
    /\ rcEvent' = [rcEvent EXCEPT !.rule = ParseRule(FormatRule(@))]
    /\ rcShown' = Expand(rcEvent', rcRange) /\ UNCHANGED rcRange
RcNext == Store \/ \E range \in RcRanges : Look(range)

-----------------------------------------------------------------------------

\* The series as RFC 5545 counts it: days of the rule at or after the anchor, in order.
SeriesDays(e) ==
    LET last == Max({r[2] : r \in RcRanges}) \div RcDay
        day == DayOf(e.start)
        month[k \in 0..last] == IF k = 0 THEN day
                                ELSE IF month[k - 1] > last THEN month[k - 1]
                                ELSE AddMonths(month[k - 1], Months(e.rule))
    IN  CASE e.rule.freq = "daily" -> {d \in day..last : (d - day) % e.rule.interval = 0}
          [] e.rule.freq = "weekly" ->
               {d \in day..last : /\ (d \div RcWeek - day \div RcWeek) % e.rule.interval = 0
                                  /\ d % RcWeek \in IF ByDays(e.rule) THEN e.rule.days ELSE {day % RcWeek}}
          [] e.rule.freq \in {"monthly", "yearly"} -> {month[k] : k \in 0..last} \cap 0..last
\* The week UNTIL falls in is left early: the loop tests the anchor's weekday.
CutShort(e, t) == ByDays(e.rule) /\ e.rule.until >= 0
                  /\ Past(e.rule, t + (Weekday(e.start) - Weekday(t)) * RcDay)
\* Its occurrences, each under its number.
Series(e) ==
    LET days == SeriesDays(e) IN {<<d * RcDay, Cardinality({x \in days : x < d})>> : d \in days}

\* Whatever range is looked at, and however the rule was stored: it shows exactly the
\* occurrences of the rule as first given that meet it, each under its number in the
\* whole series ("so both paths number the same instant identically"); COUNT and UNTIL
\* end the series, exceptions use up a number, and the additions that meet the range
\* are shown as well, under numbers no other occurrence of the range has.  What the
\* text of a rule cannot hold is lost by storing it: then the exceptions are shown
\* again and the additions are not.  (The number of an addition is the next one when
\* the range was generated, so it does depend on the range.)
WindowIndependent ==
    LET e == [rcEvent EXCEPT !.rule = rcEvent.given]
        gone == rcEvent.rule.exDates
        generated == {o \in Series(e) : /\ Visible(o[1], e.long, rcRange) /\ o[1] \notin gone
                                        /\ ~Past(e.rule, o[1]) /\ ~CutShort(e, o[1])
                                        /\ e.rule.count > 0 => o[2] < e.rule.count}
        added == {t \in ToSet(rcEvent.rule.rDates) : Visible(t, e.long, rcRange) /\ t \notin gone}
    IN  /\ rcEvent.rule = e.rule \/ (gone = {} /\ rcEvent.rule.rDates = <<>>)
        /\ rcShown # {"error"} /\ e.rule.freq # "" =>
             \E regular \in {generated} :
               /\ regular \subseteq rcShown
               /\ {o[1] : o \in rcShown \ regular} = added \ {o[1] : o \in regular}
               /\ \A o, o2 \in rcShown : o[2] = o2[2] => o = o2

=============================================================================
