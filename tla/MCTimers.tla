------------------------------ MODULE MCTimers ------------------------------
(***************************************************************************)
(* Calendar timers for TLC.  A behaviour is about what one expression      *)
(* means, from families that each vary what the others fix, or about the   *)
(* timers of one service, whose schedules are given by their occurrences.  *)
(***************************************************************************)
EXTENDS Calendar, Timers

VARIABLES
  about,   \* "calendar", or which timers
  upsets   \* how often the clock was set, a reload or a shutdown came, or the
           \* machine went off

(***************************************************************************)
(* Calendar: three hours of two minutes of two seconds.                    *)
(***************************************************************************)
Utc == [at |-> 0, before |-> 0, since |-> 0]
East == [at |-> 0, before |-> 4, since |-> 4]

\* 2024-02-27, 2024-12-30 and 2096-03-01.
LeapDay == 739248
YearEnd == 739555
Sparse == 765549

\* Clocks that go an hour forward or back in the second hour of a day, or at
\* midnight.
Forward(day, second) == [at |-> day * SecondsPerDay + second, before |-> 0, since |-> 4]
Back(day, second) == [at |-> day * SecondsPerDay + second, before |-> 4, since |-> 0]

Instant(days, seconds) == {d * SecondsPerDay + x : d \in days, x \in seconds}

Number(a) == <<One(a)>>
Star == <<Wildcard>>
At(h, m) == Time(Number(h), Number(m), Number(0))

Parts == {Wildcard, One(1), One(2), Between(1, 2), Between(2, 1), One(40),
          Every(Wildcard, 2), Every(One(1), 2), Every(One(3), 2), Every(Between(1, 3), 2),
          Every(One(2), 0)}

Ask(tokens, instants) == \E t \in instants : CalendarInit(tokens, t)

\* Days of the month, from either end, around a leap day and an end of year.
DayFamily ==
  \E p \in Parts, last \in BOOLEAN, y \in {<<Wildcard>>, <<Every(One(2025), 1)>>} :
    Ask(<<DateToken(y, Star, [last |-> last, parts |-> <<p, One(31)>>])>>,
        Instant({LeapDay, LeapDay + 1, LeapDay + 2, YearEnd}, {0, 5}))

WeekdayFamily ==
  \E p \in Parts, q \in {<<>>, <<One(7)>>}, t \in {<<>>, <<At(1, 1)>>} :
    Ask(<<Weekday(<<p>> \o q)>> \o t, Instant({LeapDay, LeapDay + 3}, {0, 6}))

TimeFamily ==
  \E h \in Parts, m \in {Wildcard, One(0), One(1)}, x \in {Wildcard, Every(One(0), 1), One(2)} :
    Ask(<<Time(<<h>>, <<m>>, <<x>>)>>, Instant({LeapDay}, 0 .. SecondsPerDay - 1))

\* Local times that are skipped or come twice.
ZoneFamily ==
  \E z \in {Forward(LeapDay, 4), Back(LeapDay, 4), Forward(LeapDay, 0), Back(LeapDay, 0)},
     h \in {Wildcard, One(0), One(1), One(2)}, m \in {Wildcard, One(1)} :
    Ask(<<EveryDay, Time(<<h>>, <<m>>, Number(0)), Zone(z)>>,
        Instant({LeapDay - 1, LeapDay}, 0 .. SecondsPerDay - 1))

ShortcutNames == {"minutely", "hourly", "daily", "weekly", "monthly", "quarterly",
           "semiannually", "annually"}

ShortcutFamily ==
  \E n \in ShortcutNames, z \in {<<>>, <<Zone(East)>>, <<Unknown>>, <<Zone(Utc), Zone(Utc)>>} :
    Ask(<<Shortcut(n)>> \o z, Instant({LeapDay, YearEnd}, {0, 11}))

\* Tokens in every order.
TokenFamily ==
  \E tokens \in UNION {[1 .. n -> {Weekday(Number(1)), Weekday(Number(9)), EveryDay, At(1, 0),
                                   Zone(Utc), Unknown, [Zone(Utc) EXCEPT !.dash = TRUE],
                                   DateToken(Star, <<>>, MonthDay(Star))}] : n \in 0 .. 3} :
    Ask(tokens, Instant({LeapDay}, {3}))

\* Eight years without a leap day, no such day, and the first day of all.
EdgeFamily ==
  \/ Ask(<<DateToken(Star, Number(2), MonthDay(Number(29)))>>, Instant({Sparse}, {0, 11}))
  \/ Ask(<<DateToken(Star, Number(2), MonthDay(Number(30)))>>, Instant({LeapDay}, {0}))
  \/ Ask(<<DateToken(Number(2020), Star, MonthDay(Star))>>, Instant({LeapDay}, {0}))
  \/ \E z \in {Utc, East} :
       Ask(<<EveryDay, Midnight, Zone(z)>>, Instant({Epoch, Epoch + 1}, {0, 5}))

SomeQuestion ==
  DayFamily \/ WeekdayFamily \/ TimeFamily \/ ZoneFamily \/ ShortcutFamily
  \/ TokenFamily \/ EdgeFamily

(***************************************************************************)
(* Timers: one schedule every second instant, and one that names a single  *)
(* instant.  A behaviour is about last runs, about jitter or about a       *)
(* service that is no Oneshot.                                             *)
(***************************************************************************)
MCOccurs ==
  [s \in Schedules |-> IF s = "once" THEN {2} ELSE {o \in 0 .. 2 * MaxTime : o % 2 = 1}]

Nightly == [triggers |-> {"second"}, type |-> "Oneshot", persistent |-> TRUE,
            jitter |-> 0, disabled |-> FALSE]

About ==
  [persistence |-> {Nightly},
   storage |-> {Nightly, [Nightly EXCEPT !.triggers = {"second", "once"}]},
   jitter |-> {[Nightly EXCEPT !.persistent = FALSE, !.jitter = 2],
               [Nightly EXCEPT !.persistent = FALSE, !.disabled = TRUE]},
   daemon |-> {[Nightly EXCEPT !.type = "Simple", !.triggers = {"once"}, !.jitter = 1]}]

\* How often the clock is set or runs on, and how many children write a last
\* run at a time.
Limits ==
  [persistence |-> [upsets |-> 2, now |-> MaxTime, writes |-> 2],
   storage |-> [upsets |-> 1, now |-> MaxTime - 1, writes |-> 2],
   jitter |-> [upsets |-> 2, now |-> MaxTime, writes |-> 0],
   daemon |-> [upsets |-> 2, now |-> MaxTime, writes |-> 1]]

Limited ==
  /\ upsets' <= Limits[about].upsets
  /\ now' <= Limits[about].now
  /\ Cardinality(writes') <= Limits[about].writes

MCDefinitions == UNION {About[a] : a \in DOMAIN About}

MCMoves ==
  {<<"Inactive", "Starting">>, <<"Starting", "Completed">>, <<"Starting", "Failed">>}

Upset ==
  \/ machine' # machine /\ machine # "off"
  \/ reloaded' /\ ~reloaded
  \/ now' \notin {now, now + 1}

MCInit ==
  /\ upsets = 0
  /\ \/ about = "calendar" /\ SomeQuestion /\ TimersInit
     \/ about \in DOMAIN About /\ CalendarInit(<<>>, 0) /\ TimersInit

MCNext ==
  /\ UNCHANGED about
  /\ \/ about = "calendar" /\ Evaluate /\ UNCHANGED <<upsets, vars>>
     \/ /\ about \in DOMAIN About /\ TimersNext
        /\ IsPresent(svc') => {svc'.def, svc'.pending} \subseteq About[about] \cup {NoDefinition}
        /\ upsets' = upsets + (IF Upset THEN 1 ELSE 0)
        /\ Limited
        /\ UNCHANGED calendarVars

MCSpec == MCInit /\ [][MCNext]_<<about, upsets, calendarVars, vars>>
=============================================================================
