------------------------------ MODULE Calendar ------------------------------
(***************************************************************************)
(* Calendar schedules (src/src/timer/calendar/): the fields of an          *)
(* expression, the expression itself, and the search for its next          *)
(* occurrence.  An expression is a sequence of tokens that have been told  *)
(* apart by their characters; a field is a sequence of parts.  Dates,      *)
(* zones and what a local time means in a zone are jiff's, modelled from   *)
(* their use.  The day has few hours, minutes and seconds, by constants;   *)
(* months, leap years and weekdays are the real ones.                      *)
(***************************************************************************)
EXTENDS Integers, Sequences, FiniteSets, FiniteSetsExt, SequencesExt

CONSTANTS
  Hours, Minutes, Seconds,   \* how many there are: 24, 60 and 60
  MaxYear,                   \* the last year of a year field: 9999
  SearchHorizonDays,         \* 3653 in the code
  SystemZone,                \* the zone of an expression that names none
  Epoch                      \* the day number of 1970-01-01

VARIABLES
  expression,   \* the tokens of a Timer trigger's schedule
  after,        \* the instant to search from
  next          \* the outcome, or NotYet

calendarVars == <<expression, after, next>>

\* The outcomes that are not instants.
NotYet == -1
Invalid == -2               \* CalendarParseError
NoFutureOccurrence == -3
CivilTimeOutOfRange == -4

(***************************************************************************)
(* jiff: days are numbered from 0000-03-01, a Wednesday; a zone changes    *)
(* its offset at most once in the instants a search meets.                 *)
(***************************************************************************)
SecondsPerDay == Hours * Minutes * Seconds

Date(n) ==
  LET era  == n \div 146097
      doe  == n % 146097
      yoe  == (doe - doe \div 1460 + doe \div 36524 - doe \div 146096) \div 365
      doy  == doe - (365 * yoe + yoe \div 4 - yoe \div 100)
      mp   == (5 * doy + 2) \div 153
      m    == IF mp < 10 THEN mp + 3 ELSE mp - 9
  IN [year |-> yoe + era * 400 + (IF m <= 2 THEN 1 ELSE 0), month |-> m,
      day |-> doy - (153 * mp + 2) \div 5 + 1, weekday |-> ((n + 2) % 7) + 1]

IsLeap(y) == y % 4 = 0 /\ (y % 100 # 0 \/ y % 400 = 0)

DaysInMonth(d) ==
  CASE d.month = 2 -> IF IsLeap(d.year) THEN 29 ELSE 28
    [] d.month \in {4, 6, 9, 11} -> 30
    [] OTHER -> 31

LocalTime(zone, i) == i + (IF i < zone.at THEN zone.before ELSE zone.since)

\* to_ambiguous_zoned: the instants at which the zone's clocks show `local':
\* none in a gap, two in a fold.
Instants(zone, local) ==
  {i \in {local - zone.before, local - zone.since} : LocalTime(zone, i) = local}

(***************************************************************************)
(* Fields.  A part is a wildcard, a range or a single number, with a       *)
(* repetition or without (step 0 stands for a repetition of zero, which is *)
(* an error).  A single number that is repeated goes on to the end of the  *)
(* field or, counted from the end of the month, down to its beginning.     *)
(***************************************************************************)
NoStep == -1
Wildcard == [kind |-> "any", step |-> NoStep]
One(a) == [kind |-> "one", a |-> a, step |-> NoStep]
Between(a, b) == [kind |-> "range", a |-> a, b |-> b, step |-> NoStep]
Every(part, n) == [part EXCEPT !.step = n]

PartIsValid(part, min, max) ==
  /\ part.step # 0
  /\ part.kind = "one" => part.a \in min .. max
  /\ part.kind = "range" => {part.a, part.b} \subseteq min .. max /\ part.a <= part.b

Ascending(a, b, step) == {v \in a .. b : (v - a) % step = 0}
Descending(a, b, step) == {v \in b .. a : (a - v) % step = 0}

InsertNumericPart(part, min, max, lastDay) ==
  LET step == IF part.step = NoStep THEN 1 ELSE part.step
  IN CASE part.kind = "any" -> Ascending(min, max, step)
       [] part.kind = "range" -> Ascending(part.a, part.b, step)
       [] part.step = NoStep -> {part.a}
       [] lastDay -> Descending(part.a, min, step)
       [] OTHER -> Ascending(part.a, max, step)

\* The values of a field: none when it does not parse.
ParseValues(parts, min, max, lastDay) ==
  IF \A i \in DOMAIN parts : PartIsValid(parts[i], min, max)
  THEN UNION {InsertNumericPart(parts[i], min, max, lastDay) : i \in DOMAIN parts}
  ELSE {}

WeekdayField(parts) == ParseValues(parts, 1, 7, FALSE)

DayField(day) ==
  [last |-> day.last, values |-> ParseValues(day.parts, 1, 31, day.last)]

DayMatches(field, d) ==
  (IF field.last THEN DaysInMonth(d) - d.day + 1 ELSE d.day) \in field.values

(***************************************************************************)
(* parse_calendar_schedule: a shortcut stands for an expression; then a    *)
(* weekday, a date, a time and a zone are looked for in this order.        *)
(***************************************************************************)
Weekday(parts) == [kind |-> "weekday", parts |-> parts]
DateToken(y, m, d) == [kind |-> "date", year |-> y, month |-> m, day |-> d]
MonthDay(parts) == [last |-> FALSE, parts |-> parts]
Time(h, m, s) == [kind |-> "time", hour |-> h, minute |-> m, second |-> s]
Shortcut(name) == [kind |-> "shortcut", name |-> name]
Zone(zone) == [kind |-> "zone", zone |-> zone, known |-> TRUE, dash |-> FALSE]
Unknown == [kind |-> "zone", zone |-> SystemZone, known |-> FALSE, dash |-> FALSE]

Midnight == Time(<<One(0)>>, <<One(0)>>, <<One(0)>>)
EveryDay == DateToken(<<Wildcard>>, <<Wildcard>>, MonthDay(<<Wildcard>>))
FirstOf(months) == DateToken(<<Wildcard>>, months, MonthDay(<<One(1)>>))

ShortcutExpression(name) ==
  CASE name = "minutely" -> <<EveryDay, Time(<<Wildcard>>, <<Wildcard>>, <<One(0)>>)>>
    [] name = "hourly" -> <<EveryDay, Time(<<Wildcard>>, <<One(0)>>, <<One(0)>>)>>
    [] name = "daily" -> <<EveryDay, Midnight>>
    [] name = "weekly" -> <<Weekday(<<One(1)>>), EveryDay, Midnight>>
    [] name = "monthly" -> <<FirstOf(<<Wildcard>>), Midnight>>
    [] name = "quarterly" -> <<FirstOf(<<One(1), One(4), One(7), One(10)>>), Midnight>>
    [] name = "semiannually" -> <<FirstOf(<<One(1), One(7)>>), Midnight>>
    [] name = "annually" -> <<FirstOf(<<One(1)>>), Midnight>>

ExpandShortcut(tokens) ==
  IF tokens[1].kind = "shortcut" /\ Len(tokens) <= 2
  THEN ShortcutExpression(tokens[1].name) \o Tail(tokens) ELSE tokens

LooksLikeWeekday(t) == t.kind = "weekday" /\ WeekdayField(t.parts) # {}
LooksLikeDate(t) == t.kind = "date" \/ (t.kind = "zone" /\ t.dash)
LooksLikeTime(t) == t.kind = "time"

\* The schedule with these fields, or nothing when one of them does not parse.
Fields(weekday, date, time, zone) ==
  LET s == [weekdays |-> IF weekday.kind = "none" THEN 1 .. 7
                         ELSE WeekdayField(weekday.parts),
            years |-> ParseValues(date.year, 0, MaxYear, FALSE),
            months |-> ParseValues(date.month, 1, 12, FALSE),
            days |-> DayField(date.day),
            hours |-> ParseValues(time.hour, 0, Hours - 1, FALSE),
            minutes |-> ParseValues(time.minute, 0, Minutes - 1, FALSE),
            seconds |-> ParseValues(time.second, 0, Seconds - 1, FALSE),
            zone |-> zone]
  IN IF {} \in {s.years, s.months, s.days.values, s.hours, s.minutes, s.seconds}
     THEN {} ELSE {s}

\* The fields are taken in order, each only if the token at the cursor looks
\* like it.
ParseCalendarSchedule(given) ==
  IF given = <<>> THEN {}
  ELSE LET tokens  == ExpandShortcut(given)
           take(cursor, Looks(_), default) ==
             IF cursor <= Len(tokens) /\ Looks(tokens[cursor])
             THEN <<tokens[cursor], cursor + 1>> ELSE <<default, cursor>>
           weekday == take(1, LooksLikeWeekday, [kind |-> "none"])
           date    == take(weekday[2], LooksLikeDate, EveryDay)
           time    == take(date[2], LooksLikeTime, Midnight)
           zone    == take(time[2], LAMBDA t : TRUE, Zone(SystemZone))
       IN IF \/ date[1].kind # "date"
             \/ zone[1].kind # "zone" \/ ~zone[1].known
             \/ zone[2] <= Len(tokens)
             \/ time[2] = 1
          THEN {}
          ELSE Fields(weekday[1], date[1], time[1], zone[1].zone)

(***************************************************************************)
(* next_after_ns: walk the days from the local date of `after', and take   *)
(* the first scheduled time of a matching day that is later.  A local time *)
(* in a gap is passed over, and of a repeated one the earlier counts.      *)
(***************************************************************************)
ScheduledSecondsOfDay(s) ==
  {(h * Minutes + m) * Seconds + x : h \in s.hours, m \in s.minutes, x \in s.seconds}

DateMatches(s, n) ==
  LET d == Date(n)
  IN /\ d.year \in s.years /\ d.month \in s.months
     /\ DayMatches(s.days, d) /\ d.weekday \in s.weekdays

\* Mutation: of a repeated local time the later counts.
LaterCandidate(n, second, zone) ==
  LET found == Instants(zone, n * SecondsPerDay + second)
  IN IF found = {} THEN {} ELSE {Max(found)}

Candidate(n, second, zone) ==
  LET found == Instants(zone, n * SecondsPerDay + second)
  IN IF found = {} THEN {} ELSE {Min(found)}

BeforeEpoch(i) == i < Epoch * SecondsPerDay

NextAfterNs(s, t) ==
  LET first == LocalTime(s.zone, t) \div SecondsPerDay
      times == ScheduledSecondsOfDay(s)
      \* The search ends here, with an occurrence or with an error.
      Ends(n, x) == \E c \in Candidate(n, x, s.zone) : BeforeEpoch(c) \/ c > t
      DayEnds(n) == DateMatches(s, n) /\ \E x \in times : Ends(n, x)
  IN IF \A k \in 0 .. SearchHorizonDays - 1 : ~DayEnds(first + k)
     THEN NoFutureOccurrence
     ELSE LET n == first + (CHOOSE k \in 0 .. SearchHorizonDays - 1 :
                     DayEnds(first + k) /\ \A j \in 0 .. k - 1 : ~DayEnds(first + j))
              x == Min({y \in times : Ends(n, y)})
              c == CHOOSE c \in Candidate(n, x, s.zone) : TRUE
          IN IF BeforeEpoch(c) THEN CivilTimeOutOfRange ELSE c

CalendarInit(tokens, t) == expression = tokens /\ after = t /\ next = NotYet

\* CalendarSchedule::parse, then next_after_ns
Evaluate ==
  LET s == ParseCalendarSchedule(expression)
  IN /\ next = NotYet
     /\ next' \in IF s = {} THEN {Invalid} ELSE {NextAfterNs(x, after) : x \in s}
     /\ UNCHANGED <<expression, after>>

(***************************************************************************)
(* What an expression means, said of an instant and not of a search.       *)
(***************************************************************************)
PartHas(part, v, min, lastDay) ==
  LET step == IF part.step = NoStep THEN 1 ELSE part.step
  IN CASE part.kind = "any" -> (v - min) % step = 0
       [] part.kind = "range" -> part.a <= v /\ v <= part.b /\ (v - part.a) % step = 0
       [] part.step = NoStep -> v = part.a
       [] lastDay -> v <= part.a /\ (part.a - v) % step = 0
       [] OTHER -> part.a <= v /\ (v - part.a) % step = 0

Has(parts, v, min) == \E i \in DOMAIN parts : PartHas(parts[i], v, min, FALSE)

InOrder(kinds) ==
  \E some \in SUBSET {"weekday", "date", "time", "zone"} :
    kinds = SelectSeq(<<"weekday", "date", "time", "zone">>, LAMBDA k : k \in some)

TokenIsValid(t) ==
  CASE t.kind = "weekday" -> \A i \in DOMAIN t.parts : PartIsValid(t.parts[i], 1, 7)
    [] t.kind = "date" ->
         /\ <<>> \notin {t.year, t.month, t.day.parts}
         /\ \A i \in DOMAIN t.year : PartIsValid(t.year[i], 0, MaxYear)
         /\ \A i \in DOMAIN t.month : PartIsValid(t.month[i], 1, 12)
         /\ \A i \in DOMAIN t.day.parts : PartIsValid(t.day.parts[i], 1, 31)
    [] t.kind = "time" ->
         /\ \A i \in DOMAIN t.hour : PartIsValid(t.hour[i], 0, Hours - 1)
         /\ \A i \in DOMAIN t.minute : PartIsValid(t.minute[i], 0, Minutes - 1)
         /\ \A i \in DOMAIN t.second : PartIsValid(t.second[i], 0, Seconds - 1)
    [] t.kind = "zone" -> t.known
    [] OTHER -> FALSE

\* A weekday, a date, a time and a zone, each or not, in this order, and not a
\* zone alone.  A zone with a dash in its name needs a date before it.
IsExpression(tokens) ==
  LET kinds == [i \in DOMAIN tokens |-> tokens[i].kind]
  IN /\ InOrder(kinds)
     /\ ToSet(kinds) \ {"zone"} # {}
     /\ \A i \in DOMAIN tokens : TokenIsValid(tokens[i])
     /\ \A i \in DOMAIN tokens :
          (kinds[i] = "zone" /\ tokens[i].dash) => \E j \in 1 .. i - 1 : kinds[j] \in {"date", "time"}

ZoneOf(tokens) ==
  IF Last(tokens).kind = "zone" THEN Last(tokens).zone ELSE SystemZone

TimeHas(t, second) ==
  /\ Has(t.second, second % Seconds, 0)
  /\ Has(t.minute, (second \div Seconds) % Minutes, 0)
  /\ Has(t.hour, second \div (Minutes * Seconds), 0)

DateHas(t, d) ==
  /\ Has(t.month, d.month, 1) /\ Has(t.year, d.year, 0)
  /\ IF t.day.last
     THEN \E i \in DOMAIN t.day.parts :
            PartHas(t.day.parts[i], DaysInMonth(d) - d.day + 1, 1, TRUE)
     ELSE Has(t.day.parts, d.day, 1)

\* Expression `tokens' names the instant i.
Names(tokens, i) ==
  LET local  == LocalTime(ZoneOf(tokens), i)
      given(kind) == {tokens[j] : j \in {k \in DOMAIN tokens : tokens[k].kind = kind}}
      times  == IF given("time") = {} THEN {Midnight} ELSE given("time")
  IN /\ \A t \in times : TimeHas(t, local % SecondsPerDay)
     /\ \A j \in Instants(ZoneOf(tokens), local) : i <= j
     /\ LET d == Date(local \div SecondsPerDay)
        IN /\ \A t \in given("date") : DateHas(t, d)
           /\ \A t \in given("weekday") : Has(t.parts, d.weekday, 1)

Horizon(tokens, t) ==
  LET local == LocalTime(ZoneOf(tokens), t)
  IN t - (local % SecondsPerDay) + SearchHorizonDays * SecondsPerDay - 1

\* The schedule of an expression is what the expression says: it is refused
\* exactly when it is none, and its next occurrence is the first instant after
\* the given one that it names, at month ends, in leap years, where the clocks
\* go forward (that time is skipped) or back (the first of the two counts).
\* None is found only when there is none for ten years; the search fails only
\* in the first local day of the epoch (parse_calendar_schedule,
\* next_after_ns).
ScheduleMeansItsExpression ==
  next # NotYet =>
    LET tokens == ExpandShortcut(expression)
        none(last) == \A i \in after + 1 .. last : ~Names(tokens, i)
    IN IF expression = <<>> \/ ~IsExpression(tokens) THEN next = Invalid
       ELSE \/ /\ next = CivilTimeOutOfRange
               /\ after < (Epoch + 1) * SecondsPerDay
            \/ /\ next = NoFutureOccurrence
               /\ none(Horizon(tokens, after))
            \/ /\ next > after /\ Names(tokens, next) /\ none(next - 1)
=============================================================================
