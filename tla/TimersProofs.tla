---------------------------- MODULE TimersProofs ----------------------------
(***************************************************************************)
(* OccurrencesAreKept holds of Timers for all schedules, definitions and   *)
(* jitter windows.  It is not inductive: what a boot plans rests on the    *)
(* last runs in the registry and on the writes that may still land, none   *)
(* of which is later than the trigger's last firing; and what a late or    *)
(* cancelled timer does rests on its deadline and on what it has fired.    *)
(***************************************************************************)
EXTENDS Timers, TLAPS

(***************************************************************************)
(* Shapes.                                                                 *)
(***************************************************************************)
TimerType ==
  [storage : {"SingleTimer", "PerTrigger"}, persistent : BOOLEAN, jitter : Nat,
   next : Nat, deadline : Int, event : {"none", "expired", "canceled"},
   at : Nat, boot : BOOLEAN, done : SUBSET Nat]

ServiceType ==
  [def : DefinitionType, pending : DefinitionType \cup {NoDefinition},
   removed : BOOLEAN, state : States, run : BOOLEAN]

ServiceInv == svc \in ServiceType \cup {Gone}

TableInv ==
  /\ now \in Nat
  /\ timers = [s \in DOMAIN timers |-> timers[s]]
  /\ DOMAIN timers \subseteq Schedules
  /\ \A s \in DOMAIN timers : timers[s] \in TimerType

(***************************************************************************)
(* Nothing in the registry, or on its way there, is later than the last    *)
(* firing of the trigger it is about.                                      *)
(***************************************************************************)
HistoryInv ==
  /\ ran \in [Locations -> Int]
  /\ lastRun \in [Locations -> Int]
  /\ \A l \in Locations : lastRun[l] <= ran[l]
  /\ \A w \in writes : w.location \in Locations /\ w.at \in Int /\ w.at <= ran[w.location]

(***************************************************************************)
(* What holds of one timer, at time t, when its trigger last fired at r.   *)
(***************************************************************************)
Kept(s, e, t, r) ==
  /\ \A o \in Owed(s, e) : o > r => e.next <= o
  /\ e.event # "canceled" =>
       \A o \in Occurs[s] :
         \/ e.next <= o
         \/ o <= t /\ (o <= e.at \/ o + e.jitter <= t \/ o \in e.done)
  /\ \A o \in e.done : o < e.next
  /\ e.event = "expired" => e.next <= t
  /\ e.deadline # Never => e.deadline \in e.next .. (e.next + e.jitter)

KeptInv ==
  Running => \A s \in DOMAIN timers :
               Kept(s, timers[s], now, ran[Location(timers[s].storage, s)])

TimersInv == ServiceInv /\ TableInv /\ HistoryInv /\ KeptInv

(***************************************************************************)
(* Lemmas.                                                                 *)
(***************************************************************************)
\* A location is a location.
LEMMA LocationType ==
  ASSUME NEW storage, NEW s \in Schedules
  PROVE  Location(storage, s) \in Locations
BY Zenon DEF Location, Locations

\* What next_after_ns answers is a later instant of the schedule, and the first.
LEMMA NextIsFirst ==
  ASSUME NEW s \in Schedules, NEW t \in Int, NEW n \in NextAfter(s, t)
  PROVE  /\ n \in Nat /\ n \in Occurs[s] /\ n > t
         /\ \A o \in Occurs[s] : o \in Nat /\ (o > t => n <= o)
BY TimersAssumption, Zenon DEF NextAfter

\* Arming keeps a timer's shape, and gives it an expiry only when it is due.
LEMMA ArmShape ==
  ASSUME NEW e \in TimerType, NEW n \in Nat, NEW delay \in 0 .. e.jitter, now \in Nat
  PROVE  /\ Arm(e, n, delay) \in TimerType
         /\ Arm(e, n, delay).next = n
         /\ Arm(e, n, delay).at = e.at
         /\ Arm(e, n, delay).boot = e.boot
         /\ Arm(e, n, delay).done = e.done
         /\ Arm(e, n, delay).jitter = e.jitter
         /\ Arm(e, n, delay).storage = e.storage
         /\ Arm(e, n, delay).event # "canceled"
         /\ Arm(e, n, delay).event = "expired" => n <= now
         /\ Arm(e, n, delay).deadline \in n .. (n + e.jitter)
<1>0. e.jitter \in Nat /\ n + delay \in Nat /\ n <= n + delay /\ n + delay <= n + e.jitter
  BY DEF TimerType
<1>1. PICK m \in Int : m = n + delay
  BY <1>0
<1>2. PICK v \in {"none", "expired"} : v = IF m <= now THEN "expired" ELSE "none"
  BY Zenon
<1>3. v = "expired" => m <= now
  BY <1>2, Zenon
<1>4. Arm(e, n, delay) = [e EXCEPT !.next = n, !.deadline = m, !.event = v]
  BY <1>1, <1>2, Zenon DEF Arm
<1>5. m \in n .. (n + e.jitter)
  BY <1>0, <1>1
<1>6. n \in Nat /\ (v = "expired" => n <= now)
  BY <1>0, <1>1, <1>3
<1> HIDE <1>1, <1>2
<1>7. [e EXCEPT !.next = n, !.deadline = m, !.event = v] \in TimerType
  BY <1>6, ZenonT(30) DEF TimerType
<1> QED
  BY <1>4, <1>5, <1>6, <1>7 DEF TimerType

\* A timer armed from the clock keeps what is owed: it answers for what comes
\* after `from', which is now or the last run a boot goes on from.
LEMMA ArmedIsKept ==
  ASSUME NEW s \in Schedules, NEW e \in TimerType, NEW from \in Int, from <= now,
         now \in Nat, NEW r \in Int,
         NEW n \in NextAfter(s, from), NEW delay \in 0 .. e.jitter,
         e.at = now, e.done = {},
         \A o \in Occurs[s] : (e.boot \/ o > now) /\ o > r => o > from
  PROVE  Kept(s, Arm(e, n, delay), now, r)
<1> DEFINE f == Arm(e, n, delay)
<1>1. /\ n \in Nat /\ n \in Occurs[s] /\ n > from
      /\ \A o \in Occurs[s] : o \in Nat /\ (o > from => n <= o)
  BY NextIsFirst, Zenon
<1>b. n \in Nat
  BY <1>1, Zenon
<1>a. /\ f \in TimerType /\ f.next = n /\ f.at = e.at /\ f.boot = e.boot
      /\ f.done = e.done /\ f.jitter = e.jitter
      /\ f.event # "canceled" /\ (f.event = "expired" => n <= now)
      /\ f.deadline \in n .. (n + e.jitter)
  BY <1>b, ArmShape, ZenonT(90)
<1>2. /\ f \in TimerType /\ f.next = n /\ f.at = now /\ f.boot = e.boot
      /\ f.done = {} /\ f.jitter = e.jitter
      /\ f.event # "canceled" /\ (f.event = "expired" => n <= now) /\ f.deadline \in n .. (n + f.jitter)
  BY <1>a, Zenon
<1> HIDE DEF f
<1>3. \A o \in Owed(s, f) : o > r => f.next <= o
  BY <1>1, <1>2, Zenon DEF Owed
<1>4. \A o \in Occurs[s] : f.next <= o \/ (o <= now /\ o <= f.at)
  BY <1>1, <1>2
<1> QED
  BY <1>2, <1>3, <1>4, Zenon DEF Kept, f

\* So does a timer armed after a firing: the anchor is not before the
\* occurrence that fired, nor after now, nor inside the jitter window.
LEMMA FiredIsKept ==
  ASSUME NEW s \in Schedules, NEW e \in TimerType, NEW r \in Int, NEW q \in Int,
         now \in Nat, Kept(s, e, now, r), now <= q, e.next <= now,
         NEW g \in TimerType,
         g.jitter = e.jitter, g.boot = e.boot, g.done = e.done \cup {e.next},
         g.at = IF e.event = "canceled" THEN now ELSE e.at,
         NEW n \in NextAfter(s, RearmAnchor(e)), NEW f \in TimerType,
         f.next = n, f.at = g.at, f.boot = g.boot, f.done = g.done, f.jitter = g.jitter,
         f.event # "canceled", f.event = "expired" => n <= now,
         f.deadline \in n .. (n + g.jitter)
  PROVE  Kept(s, f, now, q)
<1> DEFINE a == RearmAnchor(e)
<1>0. /\ e.next \in Nat /\ e.jitter \in Nat /\ e.at \in Nat /\ e.done \subseteq Nat
      /\ e.event \in {"none", "expired", "canceled"}
  BY Zenon DEF TimerType
<1>1. a \in Int /\ e.next <= a /\ a <= now /\ now - e.jitter <= a /\ (a = e.next \/ a = now - e.jitter)
  BY <1>0 DEF RearmAnchor, Latest
<1> HIDE DEF a
<1>2. /\ n \in Nat /\ n \in Occurs[s] /\ n > a
      /\ \A o \in Occurs[s] : o \in Nat /\ (o > a => n <= o)
  BY <1>1, NextIsFirst, Zenon DEF a
<1>3. /\ f.next = n /\ f.boot = e.boot /\ f.jitter = e.jitter
      /\ f.done = e.done \cup {e.next}
      /\ f.at = IF e.event = "canceled" THEN now ELSE e.at
  BY Zenon
<1>4. \A o \in Owed(s, f) : o > q => f.next <= o
  BY <1>1, <1>2, <1>3 DEF Owed
<1>5. \A o \in Occurs[s] :
        \/ f.next <= o
        \/ o <= now /\ (o <= f.at \/ o + f.jitter <= now \/ o \in f.done)
  <2> SUFFICES ASSUME NEW o \in Occurs[s], o <= a
               PROVE  o <= now /\ (o <= f.at \/ o + f.jitter <= now \/ o \in f.done)
    BY <1>1, <1>2, <1>3
  <2>1. CASE e.event = "canceled"
    BY <2>1, <1>1, <1>2, <1>3
  <2>2. CASE e.event # "canceled" /\ o + e.jitter <= now
    BY <2>2, <1>0, <1>1, <1>2, <1>3
  <2>3. CASE e.event # "canceled" /\ o = e.next
    BY <2>3, <1>0, <1>1, <1>2, <1>3, Zenon
  <2>4. CASE e.event # "canceled" /\ o < e.next
    <3>1. o <= now /\ (o <= e.at \/ o + e.jitter <= now \/ o \in e.done)
      BY <2>4, <1>0, <1>2 DEF Kept
    <3> QED
      BY <3>1, <2>4, <1>3, Zenon
  <2> QED
    BY <2>1, <2>2, <2>3, <2>4, <1>0, <1>1, <1>2
<1>6. \A o \in f.done : o < f.next
  BY <1>0, <1>1, <1>2, <1>3 DEF Kept
<1> QED
  BY <1>3, <1>4, <1>5, <1>6, Zenon DEF Kept

\* A read leaves the timer's shape, and its place in the schedule.
LEMMA ReadShape ==
  ASSUME NEW e \in TimerType, now \in Nat
  PROVE  /\ Read(e) \in TimerType
         /\ Read(e).next = e.next /\ Read(e).jitter = e.jitter
         /\ Read(e).boot = e.boot /\ Read(e).done = e.done
         /\ Read(e).storage = e.storage /\ Read(e).event = "none"
         /\ Read(e).at = IF e.event = "canceled" THEN now ELSE e.at
         /\ Read(e).deadline \in {Never, e.deadline}
<1>1. PICK l \in {Never, e.deadline} :
        l = IF e.deadline <= now THEN Never ELSE e.deadline
  BY Zenon
<1>2. PICK t \in Nat : t = IF e.event = "canceled" THEN now ELSE e.at
  BY Zenon DEF TimerType
<1>3. Read(e) = [e EXCEPT !.event = "none", !.deadline = l, !.at = t]
  BY <1>1, <1>2, Zenon DEF Read
<1>4. l \in Int
  BY <1>1 DEF Never, TimerType
<1>5. [e EXCEPT !.event = "none", !.deadline = l, !.at = t] \in TimerType
  BY <1>4, ZenonT(30) DEF TimerType
<1> QED
  BY <1>1, <1>2, <1>3, <1>5 DEF TimerType

\* A firing leaves the service's entry in shape.
LEMMA FiringShape ==
  ASSUME NEW v \in ServiceType \cup {Gone}, NEW w \in HandleTimerFiring(v)
  PROVE  w \in ServiceType \cup {Gone}
<1>1. CASE w = v
  BY <1>1, Zenon
<1>2. CASE w # v
  <2>1. v \in ServiceType
    BY <1>2 DEF HandleTimerFiring, IsPresent, Gone
  <2>2. \/ w = [v EXCEPT !.state = "Starting", !.run = FALSE]
        \/ w = [v EXCEPT !.run = TRUE]
    BY <1>2, Zenon DEF HandleTimerFiring, Started
  <2> QED
    BY <2>1, <2>2, ZenonT(30) DEF ServiceType, States
<1> QED
  BY <1>1, <1>2, Zenon

\* A later firing of a trigger takes nothing from what a timer keeps.
LEMMA KeptLater ==
  ASSUME NEW s \in Schedules, NEW e \in TimerType, NEW t \in Nat,
         NEW r \in Int, NEW q \in Int, r <= q, Kept(s, e, t, r)
  PROVE  Kept(s, e, t, q)
<1>1. \A o \in Owed(s, e) : o \in Nat
  BY TimersAssumption, Zenon DEF Owed
<1> QED
  BY <1>1 DEF Kept

(***************************************************************************)
(* A firing (fire_and_rearm), from an expiry or from a clock that was set. *)
(***************************************************************************)
\* A firing of a timer that is due keeps the invariant: other timers and the
\* registry see a later last firing, and the timer itself is armed after its
\* anchor, left as it was when its service has gone, or ends the loop.
LEMMA FiringKeeps ==
  ASSUME TimersInv, Running, NEW s \in DOMAIN timers, timers[s].next <= now,
         FireAndRearm(s), UNCHANGED <<now, reloaded, lastRun>>
  PROVE  TimersInv'
<1> DEFINE e == timers[s]
<1> DEFINE l == Location(e.storage, s)
<1>1. /\ s \in Schedules /\ e \in TimerType /\ l \in Locations
      /\ now \in Nat /\ ran \in [Locations -> Int]
      /\ Kept(s, e, now, ran[l])
  BY LocationType, Zenon DEF TimersInv, TableInv, HistoryInv, KeptInv
<1>2. CASE machine # "shutdown" /\ ~IsPresent(svc)
  <2>1. timers' = [timers EXCEPT ![s] = Read(e)] /\ UNCHANGED <<machine, svc, writes, ran>>
    BY <1>2, Zenon DEF FireAndRearm
  <2>2. Kept(s, Read(e), now, ran[l])
    <3>1. /\ Read(e).next = e.next /\ Read(e).jitter = e.jitter
          /\ Read(e).boot = e.boot /\ Read(e).done = e.done /\ Read(e).event = "none"
          /\ Read(e).at = IF e.event = "canceled" THEN now ELSE e.at
          /\ Read(e).deadline \in {Never, e.deadline}
      BY <1>1, ReadShape, Zenon
    <3>2. /\ e.next \in Nat /\ e.at \in Nat /\ \A o \in Occurs[s] : o \in Nat
      BY <1>1, TimersAssumption, Zenon DEF TimerType
    <3>3. \A o \in Owed(s, Read(e)) : o > ran[l] => e.next <= o
      BY <3>1, <3>2, <1>1 DEF Owed, Kept
    <3>4. \A o \in Occurs[s] :
            \/ e.next <= o
            \/ o <= now /\ (o <= Read(e).at \/ o + e.jitter <= now \/ o \in e.done)
      BY <3>1, <3>2, <1>1 DEF Kept
    <3> QED
      BY <3>1, <3>3, <3>4, <1>1, Zenon DEF Kept
  <2>3. Read(e) \in TimerType /\ Read(e).storage = e.storage
    BY <1>1, ReadShape, Zenon
  <2>4. TableInv'
    BY <2>1, <2>3, ZenonT(30) DEF TimersInv, TableInv
  <2>5. KeptInv'
    <3> SUFFICES ASSUME NEW x \in DOMAIN timers
                 PROVE  Kept(x, timers'[x], now, ran[Location(timers'[x].storage, x)])
      BY <2>1, Zenon DEF KeptInv
    <3>1. CASE x = s
      BY <3>1, <2>1, <2>2, <2>3, Zenon
    <3>2. CASE x # s
      BY <3>2, <2>1, Zenon DEF TimersInv, KeptInv
    <3> QED
      BY <3>1, <3>2, Zenon
  <2> QED
    BY <2>1, <2>4, <2>5, Zenon DEF TimersInv, ServiceInv, HistoryInv
<1>3. CASE ~(machine # "shutdown" /\ ~IsPresent(svc))
  <2> DEFINE g == [Read(e) EXCEPT !.done = @ \cup {e.next}]
  <2>1. /\ svc' \in HandleTimerFiring(svc)
        /\ writes' \subseteq writes \cup {[location |-> l, at |-> now]}
        /\ ran' = [ran EXCEPT ![l] = Latest(@, now)]
        /\ Rearm(s, RearmAnchor(e), g)
    BY <1>3, Zenon DEF FireAndRearm
  <2>2. /\ g \in TimerType /\ g.jitter = e.jitter /\ g.boot = e.boot
        /\ g.done = e.done \cup {e.next} /\ g.storage = e.storage
        /\ g.at = IF e.event = "canceled" THEN now ELSE e.at
    <3>1. /\ Read(e) \in TimerType /\ Read(e).jitter = e.jitter /\ Read(e).boot = e.boot
          /\ Read(e).done = e.done /\ Read(e).storage = e.storage
          /\ Read(e).at = IF e.event = "canceled" THEN now ELSE e.at
      BY <1>1, ReadShape, Zenon
    <3>2. e.next \in Nat
      BY <1>1, Zenon DEF TimerType
    <3> QED
      BY <3>1, <3>2, Zenon DEF TimerType
  <2> HIDE DEF g
  <2>3. /\ ran' \in [Locations -> Int]
        /\ \A x \in Locations : ran[x] <= ran'[x]
        /\ now <= ran'[l]
    BY <2>1, <1>1 DEF Latest
  <2>4. ServiceInv'
    BY <2>1, FiringShape, Zenon DEF TimersInv, ServiceInv
  <2>5. HistoryInv'
    <3>1. \A x \in Locations : lastRun[x] \in Int /\ lastRun[x] <= ran'[x]
      BY <2>3, <1>1 DEF TimersInv, HistoryInv
    <3>2. ASSUME NEW w \in writes'
          PROVE  w.location \in Locations /\ w.at \in Int /\ w.at <= ran'[w.location]
      <4>1. CASE w \in writes
        BY <4>1, <2>3, <1>1 DEF TimersInv, HistoryInv
      <4>2. CASE w = [location |-> l, at |-> now]
        BY <4>2, <2>3, <1>1
      <4> QED
        BY <4>1, <4>2, <2>1, Zenon
    <3> QED
      BY <3>1, <3>2, <2>3, Zenon DEF TimersInv, HistoryInv
  <2>6. CASE NextAfter(s, RearmAnchor(e)) = {}
    <3>1. timers' = [timers EXCEPT ![s] = g] /\ machine' = "ended"
      BY <2>1, <2>6, Zenon DEF Rearm
    <3> QED
      BY <3>1, <2>2, <2>4, <2>5, ZenonT(30) DEF TimersInv, TableInv, KeptInv, Running
  <2>7. CASE NextAfter(s, RearmAnchor(e)) # {}
    <3>1. PICK n \in NextAfter(s, RearmAnchor(e)), delay \in 0 .. g.jitter :
            timers' = [timers EXCEPT ![s] = Arm(g, n, delay)]
      BY <2>1, <2>7, Zenon DEF Rearm
    <3>2. UNCHANGED machine
      BY <2>1, <2>7, Zenon DEF Rearm
    <3>3. n \in Nat
      BY <1>1, TimersAssumption, Zenon DEF NextAfter
    <3> DEFINE f == Arm(g, n, delay)
    <3>4. /\ f \in TimerType /\ f.storage = g.storage /\ f.next = n
          /\ f.at = g.at /\ f.boot = g.boot /\ f.done = g.done /\ f.jitter = g.jitter
          /\ f.event # "canceled" /\ (f.event = "expired" => n <= now)
          /\ f.deadline \in n .. (n + g.jitter)
      <4>1. g \in TimerType /\ now \in Nat
        BY <2>2, <1>1, Zenon
      <4> QED
        BY <3>3, <4>1, ArmShape, ZenonT(30)
    <3> HIDE DEF f
    <3>5. Kept(s, f, now, ran'[l])
      BY <1>1, <2>2, <2>3, <3>4, FiredIsKept
    <3>51. timers' = [timers EXCEPT ![s] = f] /\ f.storage = e.storage
      BY <3>1, <3>4, <2>2, Zenon DEF f
    <3>6. TableInv'
      BY <3>51, <3>4, ZenonT(30) DEF TimersInv, TableInv
    <3>7. KeptInv'
      <4> SUFFICES ASSUME NEW x \in DOMAIN timers
                   PROVE  Kept(x, timers'[x], now, ran'[Location(timers'[x].storage, x)])
        BY <3>51, Zenon DEF KeptInv
      <4>1. CASE x = s
        BY <4>1, <3>51, <3>5, Zenon
      <4>2. CASE x # s
        <5>1. timers'[x] = timers[x]
          BY <4>2, <3>51, Zenon
        <5>2. /\ x \in Schedules /\ timers[x] \in TimerType
              /\ Kept(x, timers[x], now, ran[Location(timers[x].storage, x)])
          BY Zenon DEF TimersInv, TableInv, KeptInv
        <5>3. Location(timers[x].storage, x) \in Locations
          BY <5>2, LocationType, Zenon
        <5> QED
          BY <5>1, <5>2, <5>3, <2>3, <1>1, KeptLater
      <4> QED
        BY <4>1, <4>2, Zenon
    <3> QED
      BY <3>6, <3>7, <2>4, <2>5, Zenon DEF TimersInv
  <2> QED
    BY <2>6, <2>7, Zenon
<1> QED
  BY <1>2, <1>3, Zenon

\* process_timer_event, for a timer that the setting of the clock cancelled: a
\* timer that is due fires, any other is armed from now.
LEMMA CancelKeeps ==
  ASSUME TimersInv, NEW s \in Schedules, ReadCanceled(s)
  PROVE  TimersInv'
<1> DEFINE e == timers[s]
<1> DEFINE l == Location(e.storage, s)
<1>0. Running /\ s \in DOMAIN timers /\ UNCHANGED <<now, reloaded, lastRun>>
  BY Zenon DEF ReadCanceled
<1>1. /\ e \in TimerType /\ e.next \in Nat /\ l \in Locations /\ now \in Nat
      /\ ran[l] \in Int /\ e.event = "canceled" /\ Kept(s, e, now, ran[l])
  BY <1>0, LocationType, Zenon DEF TimersInv, TableInv, HistoryInv, KeptInv, ReadCanceled, TimerType
<1>2. CASE e.next <= now
  BY <1>0, <1>2, FiringKeeps, Zenon DEF ReadCanceled
<1>3. CASE ~(e.next <= now)
  <2> DEFINE g == [Read(e) EXCEPT !.done = {}]
  <2>1. Rearm(s, now, g) /\ UNCHANGED <<svc, writes, ran>>
    BY <1>3, Zenon DEF ReadCanceled
  <2>2. /\ g \in TimerType /\ g.boot = e.boot /\ g.done = {} /\ g.at = now
        /\ g.storage = e.storage
    <3>1. /\ Read(e) \in TimerType /\ Read(e).boot = e.boot /\ Read(e).at = now
          /\ Read(e).storage = e.storage
      BY <1>1, ReadShape, Zenon
    <3> QED
      BY <3>1, Zenon DEF TimerType
  <2> HIDE DEF g
  <2>3. CASE NextAfter(s, now) = {}
    <3>1. timers' = [timers EXCEPT ![s] = g] /\ machine' = "ended"
      BY <2>1, <2>3, Zenon DEF Rearm
    <3> QED
      BY <3>1, <2>1, <2>2, <1>0, ZenonT(30) DEF TimersInv, ServiceInv, TableInv, HistoryInv, KeptInv, Running
  <2>4. CASE NextAfter(s, now) # {}
    <3>1. PICK n \in NextAfter(s, now), delay \in 0 .. g.jitter :
            timers' = [timers EXCEPT ![s] = Arm(g, n, delay)]
      BY <2>1, <2>4, Zenon DEF Rearm
    <3>2. UNCHANGED machine
      BY <2>1, <2>4, Zenon DEF Rearm
    <3>3. n \in Nat /\ \A o \in Occurs[s] : o \in Nat
      BY <1>1, NextIsFirst
    <3>4. Arm(g, n, delay) \in TimerType /\ Arm(g, n, delay).storage = e.storage
      BY <3>3, <2>2, <1>1, ArmShape
    <3>5. \A o \in Occurs[s] : (g.boot \/ o > now) /\ o > ran[l] => o > now
      BY <3>3, <2>2, <1>1, <1>3 DEF Kept, Owed
    <3>6. Kept(s, Arm(g, n, delay), now, ran[l])
      BY <3>5, <2>2, <1>1, ArmedIsKept
    <3>7. TableInv'
      BY <3>1, <3>4, <1>0, ZenonT(30) DEF TimersInv, TableInv
    <3>8. KeptInv'
      <4> SUFFICES ASSUME NEW x \in DOMAIN timers
                   PROVE  Kept(x, timers'[x], now, ran[Location(timers'[x].storage, x)])
        BY <3>1, <2>1, <1>0, Zenon DEF KeptInv
      <4>1. CASE x = s
        BY <4>1, <3>1, <3>4, <3>6, Zenon
      <4>2. CASE x # s
        BY <4>2, <3>1, <1>0, Zenon DEF TimersInv, KeptInv
      <4> QED
        BY <4>1, <4>2, Zenon
    <3> QED
      BY <3>7, <3>8, <2>1, <1>0, Zenon DEF TimersInv, ServiceInv, HistoryInv
  <2> QED
    BY <2>3, <2>4, Zenon
<1> QED
  BY <1>2, <1>3, Zenon

(***************************************************************************)
(* Boot.                                                                   *)
(***************************************************************************)
\* A choice from a set that is not empty is one of its elements.
LEMMA Chosen ==
  ASSUME NEW P, P # {}
  PROVE  (CHOOSE o \in P : TRUE) \in P
<1>1. PICK o : o \in P
  BY Zenon
<1> QED
  BY <1>1, Zenon

\* A new timer keeps what is owed, when it is armed for the first occurrence
\* after a time that no occurrence owed since the last firing precedes.
LEMMA NewTimerIsKept ==
  ASSUME NEW d \in DefinitionType, NEW s \in Schedules, NEW from \in Int, from <= now,
         now \in Nat, NEW r \in Int, NEW boot \in BOOLEAN,
         NEW n \in NextAfter(s, from), NEW delay \in 0 .. d.jitter,
         \A o \in Occurs[s] : (boot \/ o > now) /\ o > r => o > from
  PROVE  /\ NewTimer(d, n, delay, boot) \in TimerType
         /\ NewTimer(d, n, delay, boot).storage = TimerLastRunStorage(d.triggers)
         /\ Kept(s, NewTimer(d, n, delay, boot), now, r)
<1> DEFINE e == [storage |-> TimerLastRunStorage(d.triggers), persistent |-> d.persistent,
                 jitter |-> d.jitter, next |-> n, deadline |-> Never, event |-> "none",
                 at |-> now, boot |-> boot, done |-> {}]
<1>1. n \in Nat
  BY NextIsFirst, Zenon
<1>2. /\ e \in TimerType /\ e.at = now /\ e.done = {} /\ e.boot = boot
      /\ e.jitter = d.jitter /\ e.storage = TimerLastRunStorage(d.triggers)
  BY <1>1 DEF TimerType, DefinitionType, TimerLastRunStorage, Never
<1>3. NewTimer(d, n, delay, boot) = Arm(e, n, delay)
  BY Zenon DEF NewTimer
<1> HIDE DEF e
<1>4. Arm(e, n, delay) \in TimerType /\ Arm(e, n, delay).storage = e.storage
  BY <1>1, <1>2, ArmShape
<1>5. Kept(s, Arm(e, n, delay), now, r)
  BY <1>2, ArmedIsKept, Zenon
<1> QED
  BY <1>2, <1>3, <1>4, <1>5, Zenon

\* plan_timer_boot and register_boot_timers: what an occurrence has followed
\* fires at once, and any other persistent trigger goes on from its last run.
LEMMA RegisterKeeps ==
  ASSUME TimersInv, NEW v \in ServiceType, RegisterBootTimers(v),
         machine' = "up", UNCHANGED <<now, reloaded, lastRun>>
  PROVE  TimersInv'
<1> DEFINE d == v.def
<1> DEFINE planned == {s \in Enabled(v) : PlanTimerTrigger(d, s) # {}}
<1> DEFINE missed == {s \in planned : PersistentBootDecision(d, s)}
<1> DEFINE at(s) == Location(TimerLastRunStorage(d.triggers), s)
<1>1. d \in DefinitionType /\ d.triggers \subseteq Schedules
  BY Zenon DEF ServiceType, DefinitionType
<1>2. /\ \E delay \in [planned -> 0 .. d.jitter] :
           timers' = [s \in planned |->
                        NewTimer(d, CHOOSE o \in PlanTimerTrigger(d, s) : TRUE,
                                 delay[s], d.persistent)]
      /\ svc' \in IF missed = {} THEN {v}
                  ELSE IF \E s \in missed : missed = {s} THEN HandleTimerFiring(v)
                  ELSE UNION {HandleTimerFiring(w) : w \in HandleTimerFiring(v)}
      /\ writes' = {[location |-> at(s), at |-> now] : s \in missed}
      /\ ran' = [l \in Locations |->
                   IF \E s \in missed : at(s) = l THEN Latest(ran[l], now) ELSE ran[l]]
  BY Zenon DEF RegisterBootTimers
<1>3. planned \subseteq Schedules /\ missed \subseteq planned
  BY <1>1, Zenon DEF Enabled
<1>4. \A s \in planned : at(s) \in Locations
  BY <1>3, LocationType, Zenon
<1>5. /\ now \in Nat /\ ran \in [Locations -> Int] /\ lastRun \in [Locations -> Int]
      /\ \A l \in Locations : lastRun[l] <= ran[l]
  BY Zenon DEF TimersInv, TableInv, HistoryInv
<1>6. /\ ran' \in [Locations -> Int]
      /\ \A l \in Locations : ran[l] <= ran'[l]
      /\ \A s \in missed : now <= ran'[at(s)]
  <2> HIDE DEF missed, at
  <2>1. \A l \in Locations : /\ Latest(ran[l], now) \in Int
                             /\ ran[l] <= Latest(ran[l], now) /\ now <= Latest(ran[l], now)
    BY <1>5 DEF Latest
  <2>2. ran' = [l \in Locations |->
                  IF \E s \in missed : at(s) = l THEN Latest(ran[l], now) ELSE ran[l]]
    BY <1>2, Zenon DEF missed, at
  <2>3. \A s \in missed : at(s) \in Locations
    BY <1>3, <1>4, Zenon
  <2> QED
    BY <1>5, <2>1, <2>2, <2>3
<1>7. ServiceInv'
  <2>1. \A w \in HandleTimerFiring(v) : w \in ServiceType \cup {Gone}
    BY <1>1, FiringShape, Zenon
  <2>2. \A w \in HandleTimerFiring(v) : \A x \in HandleTimerFiring(w) :
          x \in ServiceType \cup {Gone}
    BY <2>1, FiringShape, Zenon
  <2> QED
    BY <1>1, <1>2, <2>1, <2>2 DEF ServiceInv
<1>8. HistoryInv'
  <2>1. \A l \in Locations : lastRun[l] <= ran'[l]
    BY <1>5, <1>6
  <2>2. \A w \in writes' : w.location \in Locations /\ w.at \in Int /\ w.at <= ran'[w.location]
    <3> SUFFICES ASSUME NEW w \in writes'
                 PROVE  w.location \in Locations /\ w.at \in Int /\ w.at <= ran'[w.location]
      BY Zenon
    <3>1. PICK s \in missed : w = [location |-> at(s), at |-> now]
      BY <1>2, Zenon
    <3>2. at(s) \in Locations /\ now <= ran'[at(s)]
      BY <1>3, <1>4, <1>6, Zenon
    <3> QED
      BY <3>1, <3>2, <1>5
  <2> QED
    BY <1>5, <1>6, <2>1, <2>2, Zenon DEF HistoryInv
<1> HIDE DEF planned, missed
<1>9. PICK delay \in [planned -> 0 .. d.jitter] :
        timers' = [s \in planned |->
                     NewTimer(d, CHOOSE o \in PlanTimerTrigger(d, s) : TRUE,
                              delay[s], d.persistent)]
  BY <1>2, Zenon
<1>10. ASSUME NEW s \in planned
       PROVE  /\ timers'[s] \in TimerType
              /\ timers'[s].storage = TimerLastRunStorage(d.triggers)
              /\ Kept(s, timers'[s], now, ran'[at(s)])
  <2> DEFINE from == IF d.persistent /\ ~PersistentBootDecision(d, s)
                     THEN lastRun[at(s)] ELSE now
  <2>1. NextAfter(s, from) = PlanTimerTrigger(d, s) /\ PlanTimerTrigger(d, s) # {}
    BY Zenon DEF PlanTimerTrigger, LastRun, planned
  <2>2. PICK n : n = CHOOSE o \in PlanTimerTrigger(d, s) : TRUE
    BY Zenon
  <2>3. n \in NextAfter(s, from)
    BY <2>1, <2>2, Chosen, Zenon
  <2>4. at(s) \in Locations /\ s \in Schedules /\ delay[s] \in 0 .. d.jitter
    BY <1>3, <1>4, Zenon
  <2>5. /\ lastRun[at(s)] \in Int /\ lastRun[at(s)] <= ran'[at(s)]
        /\ ran'[at(s)] \in Int
    BY <1>5, <1>6, <2>4
  <2>6. from \in Int /\ from <= now
    BY <1>5, <2>5 DEF PersistentBootDecision, LastRun
  <2>7. \A o \in Occurs[s] : o \in Nat
    BY <2>4, TimersAssumption, Zenon
  <2>8. \A o \in Occurs[s] : (d.persistent \/ o > now) /\ o > ran'[at(s)] => o > from
    <3>1. CASE ~d.persistent
      BY <3>1, Zenon
    <3>2. CASE d.persistent /\ PersistentBootDecision(d, s)
      <4>1. now <= ran'[at(s)]
        BY <3>2, <1>6, Zenon DEF missed
      <4> QED
        BY <3>2, <4>1, <2>5, <2>7, <1>5
    <3>3. CASE d.persistent /\ ~PersistentBootDecision(d, s)
      BY <3>3, <2>5, <2>7
    <3> QED
      BY <3>1, <3>2, <3>3, Zenon
  <2>9. timers'[s] = NewTimer(d, n, delay[s], d.persistent)
    BY <1>9, <2>2, Zenon
  <2>10. d.persistent \in BOOLEAN
    BY <1>1, Zenon DEF DefinitionType
  <2> HIDE DEF from
  <2> QED
    BY <1>1, <1>5, <2>3, <2>4, <2>5, <2>6, <2>8, <2>9, <2>10, NewTimerIsKept
<1>11. TableInv'
  BY <1>3, <1>5, <1>9, <1>10 DEF TableInv
<1>12. KeptInv'
  BY <1>9, <1>10, Zenon DEF KeptInv
<1> QED
  BY <1>7, <1>8, <1>11, <1>12, Zenon DEF TimersInv

\* A boot keeps the invariant, whether Phase 2 has started the service or not.
LEMMA BootKeeps ==
  ASSUME TimersInv, NEW d \in Definitions, NEW state \in States, Boot(d, state)
  PROVE  TimersInv'
<1> DEFINE v == [def |-> d, pending |-> NoDefinition, removed |-> FALSE,
                 state |-> state, run |-> FALSE]
<1>1. machine' = "up" /\ UNCHANGED <<now, reloaded, lastRun>> /\ RegisterBootTimers(v)
  BY Zenon DEF Boot
<1>2. v \in ServiceType
  BY TimersAssumption, Zenon DEF ServiceType
<1> HIDE DEF v
<1> QED
  BY <1>1, <1>2, RegisterKeeps, Zenon

(***************************************************************************)
(* A reload, and the rest of the supervisor.                               *)
(***************************************************************************)
\* What a reload and a state change leave in the table is an entry or none.
LEMMA ServiceShape ==
  ASSUME NEW v \in ServiceType \cup {Gone}
  PROVE  /\ \A d \in DefinitionType :
              ApplyReloadedDefinition(v, d) \in ServiceType \cup {Gone}
         /\ RemoveDefinition(v) \in ServiceType \cup {Gone}
         /\ IsPresent(v) => Drained(v) \in ServiceType \cup {Gone}
         /\ \A w \in StartPendingTimerRun(v) : w \in ServiceType \cup {Gone}
<1>1. CASE v = Gone
  <2>1. ~IsPresent(v) /\ v.state = "Absent" /\ "Absent" \notin RetainsDefinition
    BY <1>1, Zenon DEF IsPresent, Gone, RetainsDefinition
  <2>2. \A d \in DefinitionType : ApplyReloadedDefinition(v, d) \in ServiceType
    BY <2>1, Zenon DEF ApplyReloadedDefinition, ServiceType, States
  <2> QED
    BY <2>1, <2>2, <1>1, Zenon DEF RemoveDefinition, StartPendingTimerRun
<1>2. CASE v \in ServiceType
  <2>1. \A c \in DefinitionType, d \in DefinitionType : Effective(c, d) \in DefinitionType
    BY ZenonT(30) DEF Effective, DefinitionType
  <2>2. v.def \in DefinitionType
    BY <1>2, Zenon DEF ServiceType
  <2>3. \A d \in DefinitionType : ApplyReloadedDefinition(v, d) \in ServiceType
    BY <1>2, <2>1, <2>2, ZenonT(30) DEF ApplyReloadedDefinition, ServiceType, States
  <2>4. RemoveDefinition(v) \in ServiceType \cup {Gone}
    BY <1>2, ZenonT(30) DEF RemoveDefinition, ServiceType
  <2>5. Drained(v) \in ServiceType \cup {Gone}
    BY <1>2, ZenonT(30) DEF Drained, ServiceType
  <2>6. \A w \in StartPendingTimerRun(v) : w \in ServiceType
    BY <1>2, ZenonT(30) DEF StartPendingTimerRun, Started, ServiceType, States
  <2> QED
    BY <2>3, <2>4, <2>5, <2>6, Zenon
<1> QED
  BY <1>1, <1>2, Zenon

\* reconfigure_timers: a timer that still matches stays, and a new one is armed
\* from now.
LEMMA ReconfigureKeeps ==
  ASSUME TimersInv, ReconfigureTimers
  PROVE  TimersInv'
<1> DEFINE fresh == {s \in Enabled(svc) \ Retained : NextAfter(s, now) # {}}
<1>1. Running /\ UNCHANGED <<now, machine, svc, lastRun, writes, ran>>
  BY Zenon DEF ReconfigureTimers
<1> DEFINE armed(s, x) ==
             IF s \in Retained THEN timers[s]
             ELSE NewTimer(svc.def, CHOOSE o \in NextAfter(s, now) : TRUE, x, FALSE)
<1>2. PICK delay \in [fresh -> 0 .. (IF fresh = {} THEN 0 ELSE svc.def.jitter)] :
        timers' = [s \in Retained \cup fresh |-> armed(s, delay[s])]
  BY ZenonT(30) DEF ReconfigureTimers
<1>3. Retained \subseteq DOMAIN timers
  BY Zenon DEF Retained
<1>4. now \in Nat /\ ran \in [Locations -> Int]
  BY Zenon DEF TimersInv, TableInv, HistoryInv
<1>5. ASSUME NEW s \in Retained
      PROVE  /\ s \in Schedules /\ timers'[s] \in TimerType
             /\ Kept(s, timers'[s], now, ran[Location(timers'[s].storage, s)])
  BY <1>1, <1>2, <1>3, Zenon DEF TimersInv, TableInv, KeptInv
<1>6. ASSUME NEW s \in fresh, s \notin Retained
      PROVE  /\ s \in Schedules /\ timers'[s] \in TimerType
             /\ Kept(s, timers'[s], now, ran[Location(timers'[s].storage, s)])
  <2>1. IsPresent(svc) /\ s \in svc.def.triggers
    BY Zenon DEF Enabled
  <2>2. svc \in ServiceType
    BY <2>1 DEF TimersInv, ServiceInv, IsPresent, Gone
  <2>3. svc.def \in DefinitionType /\ s \in Schedules
    BY <2>1, <2>2, Zenon DEF ServiceType, DefinitionType
  <2>4. delay[s] \in 0 .. svc.def.jitter
    BY <1>2, Zenon
  <2>5. PICK n : n = CHOOSE o \in NextAfter(s, now) : TRUE
    BY Zenon
  <2>6. n \in NextAfter(s, now)
    BY <2>5, Chosen, Zenon
  <2>7. PICK b \in BOOLEAN : b = FALSE
    BY ZenonT(30)
  <2>8. timers'[s] = NewTimer(svc.def, n, delay[s], b)
    BY <1>2, <1>6, <2>5, <2>7, ZenonT(30)
  <2> DEFINE l == Location(TimerLastRunStorage(svc.def.triggers), s)
  <2>9. l \in Locations
    BY <2>3, LocationType, Zenon
  <2>10. ran[l] \in Int
    BY <2>9, <1>4, Zenon
  <2>11. \A o \in Occurs[s] : (b \/ o > now) /\ o > ran[l] => o > now
    BY <2>7, Zenon
  <2>12. now \in Int /\ now <= now
    BY <1>4
  <2> HIDE DEF fresh
  <2>13. /\ NewTimer(svc.def, n, delay[s], b) \in TimerType
         /\ NewTimer(svc.def, n, delay[s], b).storage = TimerLastRunStorage(svc.def.triggers)
         /\ Kept(s, NewTimer(svc.def, n, delay[s], b), now, ran[l])
    BY <1>4, <2>3, <2>4, <2>6, <2>10, <2>11, <2>12, NewTimerIsKept
  <2> QED
    BY <2>3, <2>8, <2>13, Zenon
<1> HIDE DEF fresh, armed
<1>7. TableInv'
  <2>1. /\ DOMAIN timers' = Retained \cup fresh
        /\ timers' = [s \in Retained \cup fresh |-> timers'[s]]
    BY <1>2, Zenon
  <2> QED
    BY <1>1, <1>4, <1>5, <1>6, <2>1, Zenon DEF TableInv
<1>8. KeptInv'
  BY <1>1, <1>2, <1>5, <1>6, Zenon DEF KeptInv
<1> QED
  BY <1>1, <1>7, <1>8, Zenon DEF TimersInv, ServiceInv, HistoryInv

(***************************************************************************)
(* The clock.                                                              *)
(***************************************************************************)
\* The clock runs on: a timer whose deadline has come is due, and a window
\* that has gone by stays so.
LEMMA TickKeeps ==
  ASSUME TimersInv, Tick
  PROVE  TimersInv'
<1>1. /\ now \in Nat /\ now' = now + 1
      /\ UNCHANGED <<machine, svc, reloaded, lastRun, writes, ran>>
      /\ timers' = [s \in DOMAIN timers |->
                      IF /\ timers[s].event = "none"
                         /\ timers[s].deadline # Never /\ timers[s].deadline <= now'
                      THEN [timers[s] EXCEPT !.event = "expired"] ELSE timers[s]]
  BY Zenon DEF Tick, TimersInv, TableInv
<1>2. ASSUME NEW s \in DOMAIN timers
      PROVE  /\ s \in Schedules /\ timers[s] \in TimerType /\ timers'[s] \in TimerType
             /\ timers'[s] = timers[s]
                \/ /\ timers'[s] = [timers[s] EXCEPT !.event = "expired"]
                   /\ timers[s].event = "none"
                   /\ timers[s].deadline # Never /\ timers[s].deadline <= now'
  <2>1. s \in Schedules /\ timers[s] \in TimerType
    BY Zenon DEF TimersInv, TableInv
  <2>2. timers'[s] = IF /\ timers[s].event = "none"
                        /\ timers[s].deadline # Never /\ timers[s].deadline <= now'
                     THEN [timers[s] EXCEPT !.event = "expired"] ELSE timers[s]
    BY <1>1, Zenon
  <2>3. [timers[s] EXCEPT !.event = "expired"] \in TimerType
    BY <2>1, ZenonT(30) DEF TimerType
  <2> QED
    BY <2>1, <2>2, <2>3, Zenon
<1>3. ASSUME NEW s \in Schedules, NEW e \in TimerType, NEW f \in TimerType, NEW r \in Int,
             Kept(s, e, now, r),
             f = e \/ /\ f = [e EXCEPT !.event = "expired"] /\ e.event = "none"
                      /\ e.deadline # Never /\ e.deadline <= now'
      PROVE  Kept(s, f, now', r)
  <2>1. /\ f.next = e.next /\ f.jitter = e.jitter /\ f.at = e.at /\ f.boot = e.boot
        /\ f.done = e.done /\ f.deadline = e.deadline
        /\ e.next \in Nat /\ e.jitter \in Nat /\ e.at \in Nat /\ e.deadline \in Int
        /\ f.event # "canceled" => e.event # "canceled"
        /\ f.event = "expired" => e.event = "expired" \/ (e.deadline # Never /\ e.deadline <= now')
    BY <1>3, Zenon DEF TimerType
  <2>2. \A o \in Occurs[s] : o \in Nat
    BY TimersAssumption, Zenon
  <2>3. \A o \in Owed(s, f) : o > r => f.next <= o
    BY <1>3, <2>1, Zenon DEF Kept, Owed
  <2>4. f.event # "canceled" =>
          \A o \in Occurs[s] :
            \/ f.next <= o
            \/ o <= now' /\ (o <= f.at \/ o + f.jitter <= now' \/ o \in f.done)
    BY <1>1, <1>3, <2>1, <2>2 DEF Kept
  <2>5. f.event = "expired" => f.next <= now'
    BY <1>1, <1>3, <2>1 DEF Kept
  <2> QED
    BY <1>3, <2>1, <2>3, <2>4, <2>5, Zenon DEF Kept
<1>4. TableInv'
  BY <1>1, <1>2 DEF TimersInv, TableInv
<1>5. KeptInv'
  <2> SUFFICES ASSUME Running, NEW s \in DOMAIN timers
               PROVE  Kept(s, timers'[s], now', ran[Location(timers'[s].storage, s)])
    BY <1>1, Zenon DEF KeptInv, Running
  <2>1. timers'[s].storage = timers[s].storage
    BY <1>2, ZenonT(30) DEF TimerType
  <2>2. ran[Location(timers[s].storage, s)] \in Int
    BY <1>2, LocationType, ZenonT(30) DEF TimersInv, HistoryInv
  <2>3. Kept(s, timers[s], now, ran[Location(timers[s].storage, s)])
    BY Zenon DEF TimersInv, KeptInv
  <2> QED
    BY <1>2, <1>3, <2>1, <2>2, <2>3, ZenonT(30)
<1> QED
  BY <1>1, <1>4, <1>5, Zenon DEF TimersInv, ServiceInv, HistoryInv

\* The clock is set: every timer is cancelled, and nothing that it keeps until
\* the cancellation is read speaks of the time.
LEMMA SetClockKeeps ==
  ASSUME TimersInv, NEW t \in 0 .. MaxTime, SetClock(t)
  PROVE  TimersInv'
<1>1. /\ now' = t /\ t \in Nat
      /\ UNCHANGED <<machine, svc, reloaded, lastRun, writes, ran>>
      /\ timers' = [s \in DOMAIN timers |-> [timers[s] EXCEPT !.event = "canceled"]]
  BY TimersAssumption DEF SetClock
<1>2. ASSUME NEW s \in DOMAIN timers
      PROVE  /\ timers[s] \in TimerType
             /\ timers'[s] = [timers[s] EXCEPT !.event = "canceled"]
  BY <1>1, Zenon DEF TimersInv, TableInv
<1>3. TableInv'
  BY <1>1, <1>2 DEF TimersInv, TableInv, TimerType
<1>4. KeptInv'
  <2> SUFFICES ASSUME Running, NEW s \in DOMAIN timers
               PROVE  Kept(s, timers'[s], t, ran[Location(timers'[s].storage, s)])
    BY <1>1, Zenon DEF KeptInv, Running
  <2>1. Kept(s, timers[s], now, ran[Location(timers[s].storage, s)])
    BY Zenon DEF TimersInv, KeptInv
  <2>2. /\ timers'[s].next = timers[s].next /\ timers'[s].jitter = timers[s].jitter
        /\ timers'[s].at = timers[s].at /\ timers'[s].boot = timers[s].boot
        /\ timers'[s].done = timers[s].done /\ timers'[s].deadline = timers[s].deadline
        /\ timers'[s].storage = timers[s].storage /\ timers'[s].event = "canceled"
    BY <1>2, ZenonT(30) DEF TimerType
  <2> QED
    BY <2>1, <2>2, Zenon DEF Kept, Owed
<1> QED
  BY <1>1, <1>3, <1>4, Zenon DEF TimersInv, ServiceInv, HistoryInv

(***************************************************************************)
(* The theorems.                                                           *)
(***************************************************************************)
\* The shapes, that no last run is later than the trigger's last firing, and
\* what every timer keeps, hold in every reachable state.
THEOREM TimersInvariant == TimersSpec => []TimersInv
<1>1. TimersInit => TimersInv
  BY DEF TimersInit, TimersInv, ServiceInv, TableInv, HistoryInv, KeptInv, Running, Never
<1>2. ASSUME TimersInv, [TimersNext]_vars
      PROVE  TimersInv'
  <2>1. CASE UNCHANGED vars
    BY <1>2, <2>1, Zenon DEF vars, TimersInv, ServiceInv, TableInv, HistoryInv, KeptInv, Running
  <2>2. ASSUME NEW s \in Schedules, ReadExpired(s)
        PROVE  TimersInv'
    <3>1. Running /\ s \in DOMAIN timers /\ timers[s].event = "expired"
      BY <2>2, Zenon DEF ReadExpired
    <3>2. timers[s].next <= now
      BY <1>2, <3>1, Zenon DEF TimersInv, KeptInv, Kept
    <3> QED
      BY <1>2, <2>2, <3>1, <3>2, FiringKeeps, Zenon DEF ReadExpired
  <2>3. ASSUME NEW s \in Schedules, ReadCanceled(s)
        PROVE  TimersInv'
    BY <1>2, <2>3, CancelKeeps, Zenon
  <2>4. ASSUME NEW d \in Definitions, NEW state \in States, Boot(d, state)
        PROVE  TimersInv'
    BY <1>2, <2>4, BootKeeps, Zenon
  <2>5. CASE ReloadConfig
    <3>1. ServiceInv'
      BY <1>2, <2>5, ServiceShape, TimersAssumption, Zenon DEF ReloadConfig, TimersInv, ServiceInv
    <3> QED
      BY <1>2, <2>5, <3>1
        , Zenon DEF ReloadConfig, TimersInv, TableInv, HistoryInv, KeptInv, Running
  <2>6. CASE ReconfigureTimers
    BY <1>2, <2>6, ReconfigureKeeps, Zenon
  <2>7. ASSUME NEW to \in States, NEW exit \in BOOLEAN, ServiceMoves(to, exit)
        PROVE  TimersInv'
    <3> DEFINE u == [svc EXCEPT !.state = to, !.run = @ /\ to # "Starting"]
    <3>1. /\ svc' \in IF exit THEN StartPendingTimerRun(Drained(u)) ELSE {Drained(u)}
          /\ IsPresent(svc)
          /\ UNCHANGED <<now, machine, reloaded, timers, lastRun, writes, ran>>
      BY <2>7, Zenon DEF ServiceMoves
    <3>2. svc \in ServiceType
      BY <1>2, <3>1 DEF TimersInv, ServiceInv, IsPresent, Gone
    <3>3. u \in ServiceType
      BY <3>2, ZenonT(30) DEF ServiceType
    <3> HIDE DEF u
    <3>4. Drained(u) \in ServiceType \cup {Gone}
      <4>1. IsPresent(u)
        BY <3>3, Zenon DEF IsPresent, ServiceType, States
      <4> QED
        BY <3>3, <4>1, ServiceShape, Zenon
    <3>5. \A w \in StartPendingTimerRun(Drained(u)) : w \in ServiceType \cup {Gone}
      BY <3>4, ServiceShape, Zenon
    <3>6. ServiceInv'
      BY <3>1, <3>4, <3>5, Zenon DEF ServiceInv
    <3> QED
      BY <1>2, <3>1, <3>6, Zenon DEF TimersInv, TableInv, HistoryInv, KeptInv, Running
  <2>8. CASE BeginShutdown
    BY <1>2, <2>8
      , Zenon DEF BeginShutdown, TimersInv, ServiceInv, TableInv, HistoryInv, KeptInv, Running
  <2>9. ASSUME NEW w \in writes, WriteLands(w)
        PROVE  TimersInv'
    <3>1. HistoryInv'
      BY <1>2, <2>9, Zenon DEF WriteLands, TimersInv, HistoryInv
    <3> QED
      BY <1>2, <2>9, <3>1, Zenon DEF WriteLands, TimersInv, ServiceInv, TableInv, KeptInv, Running
  <2>10. ASSUME NEW w \in writes, WriteFails(w)
         PROVE  TimersInv'
    BY <1>2, <2>10
      , Zenon DEF WriteFails, TimersInv, ServiceInv, TableInv, HistoryInv, KeptInv, Running
  <2>11. CASE Tick
    BY <1>2, <2>11, TickKeeps, Zenon
  <2>12. ASSUME NEW t \in 0 .. MaxTime, SetClock(t)
         PROVE  TimersInv'
    BY <1>2, <2>12, SetClockKeeps, Zenon
  <2>13. CASE PowerOff
    BY <1>2, <2>13
      , Zenon DEF PowerOff, TimersInv, ServiceInv, TableInv, HistoryInv, KeptInv, Running
  <2> QED
    BY <1>2, <2>1, <2>2, <2>3, <2>4, <2>5, <2>6, <2>7, <2>8, <2>9, <2>10, <2>11, <2>12,
       <2>13, Zenon DEF TimersNext
<1> QED
  BY <1>1, <1>2, PTL DEF TimersSpec

\* No occurrence of a schedule is passed over, fired early or fired twice:
\* fire_and_rearm, the boot plan and reconfigure_timers keep every occurrence,
\* for all schedules, jitter windows, settings of the clock and crashes.
THEOREM OccurrencesKept == TimersSpec => []OccurrencesAreKept
<1>1. TimersInv => OccurrencesAreKept
  <2> SUFFICES ASSUME TimersInv, Running, NEW s \in DOMAIN timers, timers[s].deadline # Never
               PROVE  LET e == timers[s] IN
                      /\ \A o \in Owed(s, e) : o > ran[Location(e.storage, s)] => e.next <= o
                      /\ e.event # "canceled" =>
                           \A o \in Occurs[s] :
                             \/ e.next <= o
                             \/ o <= now /\ (o <= e.at \/ o + e.jitter <= now \/ o \in e.done)
                      /\ e.deadline \in e.next .. (e.next + e.jitter)
                      /\ e.event = "expired" => e.next <= now /\ e.next \notin e.done
    BY Zenon DEF OccurrencesAreKept
  <2>1. Kept(s, timers[s], now, ran[Location(timers[s].storage, s)]) /\ timers[s] \in TimerType
    BY Zenon DEF TimersInv, TableInv, KeptInv
  <2>2. timers[s].next \in Nat /\ timers[s].done \subseteq Nat
    BY <2>1, Zenon DEF TimerType
  <2>3. timers[s].next \notin timers[s].done
    BY <2>1, <2>2 DEF Kept
  <2> QED
    BY <2>1, <2>3, Zenon DEF Kept
<1> QED
  BY <1>1, TimersInvariant, PTL
=============================================================================
