--------------------------- MODULE ShutdownProofs ---------------------------
(***************************************************************************)
(* The shutdown, for any services, any dependencies between them and any   *)
(* states they begin in: no wave is waited for without a deadline, and no  *)
(* service is stopped before everything that depends on it has stopped.    *)
(*                                                                         *)
(* Both are about `m' alone.  Of the submitted jobs it matters only        *)
(* whether any is live, and the proofs hold for either answer.             *)
(***************************************************************************)
EXTENDS Shutdown, FiniteSetTheorems, WellFoundedInduction, TLAPS

(***************************************************************************)
(* The invariant.                                                          *)
(***************************************************************************)
DoneStates == {"Inactive", "Failed", "Abandoned"}

\* d has to stop before s.
DependsOn(d, s) == s \in Requires[d] \/ (s \in CompiledIn /\ d \notin CompiledIn)

\* The fields of a service and of the state.
SvcShape(x) ==
    /\ DOMAIN x = {"state", "cause", "main", "life", "exit", "helper", "killed", "acked",
                   "evidence", "stop", "terms"}
    /\ x.terms \in Nat

Shape(v) ==
    /\ DOMAIN v = {"svc", "sd", "presses", "loop", "mounts", "busy"}
    /\ DOMAIN v.svc = Services
    /\ \A s \in Services : SvcShape(v.svc[s])
    /\ DOMAIN v.sd = {"waves", "already", "at", "stops", "posts", "fired", "final", "forced",
                      "cleaned"}
    /\ v.sd.waves \in Seq(SUBSET Services) /\ v.sd.already \subseteq Services
    /\ v.sd.at \in Nat /\ DOMAIN v.sd.stops = Services /\ v.sd.posts \subseteq Services

\* Before a shutdown there is nothing of one.
Before(v) == v.sd.final = "None" => v.sd = NoShutdown

\* The waves in reverse dependency order, each of them planned from services
\* that were up, which since then have stopped or are about to.
Ordered(v) ==
    \A i, k \in DOMAIN v.sd.waves : \A s \in v.sd.waves[i], d \in v.sd.waves[k] :
        DependsOn(d, s) => k < i

Planned(v) ==
    \A k \in DOMAIN v.sd.waves : \A s \in v.sd.waves[k] :
        v.svc[s].state \in {"Active", "Reloading", "Stopping"} \cup DoneStates

\* A service that was stopping before, or that has a deadline, has been asked
\* to stop.
AskedToStop(v) ==
    \A s \in Services :
        s \in v.sd.already \/ v.sd.stops[s] # "none" \/ s \in v.sd.posts =>
            v.svc[s].state \in {"Stopping"} \cup DoneStates

\* The waves before the current one have stopped.
EarlierDone(v) == \A k \in 0..(v.sd.at - 1) : Outstanding(v, k) = {}

\* What the current wave waits for has a deadline.
Watched(v) == \A s \in Outstanding(v, v.sd.at) : v.sd.stops[s] # "none" \/ s \in v.sd.posts

Good(v) ==
    /\ Shape(v) /\ Before(v) /\ Ordered(v) /\ Planned(v)
    /\ AskedToStop(v) /\ EarlierDone(v) /\ Watched(v)

ShutdownInv == Good(m)

\* Nothing is told to stop between v and u.
Calm(v, u) ==
    \A s \in Services :
        /\ u.svc[s].terms = v.svc[s].terms
        /\ u.sd.stops[s] # "none" => v.sd.stops[s] # "none"

\* What is told to stop between v and u has no dependents left in u.
Orderly(v, u) ==
    \A s \in Services :
        u.svc[s].terms > v.svc[s].terms \/ (v.sd.stops[s] = "none" /\ u.sd.stops[s] # "none") =>
            \A k \in DOMAIN u.sd.waves : \A d \in u.sd.waves[k] :
                DependsOn(d, s) => DoneForShutdown(u.svc[d])

\* The services move towards their stop, the plan stays as it is, and what the
\* current wave waits for keeps a deadline until it is done.
Evolves(v, u) ==
    /\ Shape(u)
    /\ u.sd.waves = v.sd.waves /\ u.sd.at = v.sd.at /\ u.sd.already = v.sd.already
    /\ u.sd.final # "None"
    /\ Calm(v, u)
    /\ \A s \in Services :
         /\ \/ u.svc[s].state = v.svc[s].state
            \/ u.svc[s].state \in DoneStates
            \/ v.svc[s].state \in {"Active", "Reloading"} /\ u.svc[s].state = "Stopping"
         /\ v.svc[s].state \in DoneStates => u.svc[s].state \in DoneStates
         /\ u.sd.stops[s] # "none" \/ s \in u.sd.posts =>
                u.svc[s].state \in {"Stopping"} \cup DoneStates
    /\ \A s \in Outstanding(v, v.sd.at) :
         \/ u.svc[s].state \in DoneStates
         \/ u.sd.stops[s] # "none" \/ s \in u.sd.posts

(***************************************************************************)
(* Numbers of waves.                                                       *)
(***************************************************************************)
\* The wave with position i, when it comes before the one with index k.
LEMMA WaveBefore ==
    ASSUME NEW n \in Nat, NEW i \in 1..n, NEW k \in Nat, i < k + 1
    PROVE  i - 1 \in 0..(k - 1) /\ i - 1 < n /\ (i - 1) + 1 = i
OBVIOUS

\* The waves before a later one: up to the current one, or after it.
LEMMA WavesBefore ==
    ASSUME NEW n \in Nat, NEW a \in Nat, NEW c \in (a + 1)..(n - 1)
    PROVE  /\ c \in Nat
           /\ \A k \in 0..(c - 1) : /\ k \in 0..a \/ k \in (a + 1)..(n - 1)
                                    /\ ~(c <= k)
OBVIOUS

(***************************************************************************)
(* The plan.                                                               *)
(***************************************************************************)
\* A set of natural numbers that is not empty has a least element.
LEMMA LeastNatural ==
    ASSUME NEW S \in SUBSET Nat, S # {}
    PROVE  \E x \in S : \A y \in S : x <= y
<1>1. IsWellFoundedOn(OpToRel(<,Nat), Nat)
  BY NatLessThanWellFounded, Zenon
<1> DEFINE R == {p \in Nat \X Nat : p[1] < p[2]}
<1>2. OpToRel(<,Nat) = R
  BY Zenon DEF OpToRel
<1>3. IsWellFoundedOn(R, Nat)
  BY <1>1, <1>2, Zenon
<1> HIDE DEF R
<1>4. PICK x \in S : \A y \in S : ~(<<y, x>> \in R)
  BY <1>3, WFMin, Zenon
<1>5. \A y \in S : y < x => <<y, x>> \in R
  BY Zenon DEF R
<1>6. \A y \in S : ~(y < x)
  BY <1>4, <1>5, Zenon
<1>7. x \in Nat /\ \A y \in S : y \in Nat
  BY Zenon
<1> QED
  BY <1>6, <1>7

\* f follows the rounds of reverse_dependency_waves up to round n.
Rounds(f, among, n) ==
    f = [k \in 0..n |-> IF k = 0 THEN among ELSE StillNeeded(among, f[k - 1])]

\* The rounds can be followed one round further.
LEMMA OneMoreRound ==
    ASSUME NEW among, NEW n \in Nat, NEW f, Rounds(f, among, n)
    PROVE  \E g : Rounds(g, among, n + 1)
<1> DEFINE g == [k \in 0..(n + 1) |->
                   IF k = n + 1 THEN StillNeeded(among, f[n]) ELSE f[k]]
<1>1. \A k \in 0..n : f[k] = IF k = 0 THEN among ELSE StillNeeded(among, f[k - 1])
  BY Zenon DEF Rounds
<1>2. \A k \in 0..n : g[k] = f[k] /\ k \in 0..(n + 1) /\ k # n + 1
  OBVIOUS
<1>3. g[n + 1] = StillNeeded(among, g[n])
  OBVIOUS
<1>4. ASSUME NEW k \in 0..(n + 1)
      PROVE  g[k] = IF k = 0 THEN among ELSE StillNeeded(among, g[k - 1])
  <2> HIDE DEF g
  <2>1. CASE k = n + 1
    <3>1. k # 0 /\ k - 1 = n
      BY <2>1
    <3> QED
      BY <2>1, <3>1, <1>3, Zenon
  <2>2. CASE k # n + 1
    <3>1. k \in 0..n /\ (k # 0 => k - 1 \in 0..n)
      BY <2>2
    <3> QED
      BY <3>1, <1>1, <1>2, Zenon
  <2> QED
    BY <2>1, <2>2, Zenon
<1>5. g = [k \in 0..(n + 1) |-> g[k]]
  OBVIOUS
<1> HIDE DEF g
<1>6. g = [k \in 0..(n + 1) |-> IF k = 0 THEN among ELSE StillNeeded(among, g[k - 1])]
  BY <1>4, <1>5, Zenon
<1> QED
  BY <1>6, Zenon DEF Rounds

\* The rounds can be followed to any number of them.
LEMMA RoundsExist ==
    ASSUME NEW among, NEW n \in Nat
    PROVE  \E f : Rounds(f, among, n)
<1> DEFINE T == {k \in Nat : ~\E f : Rounds(f, among, k)}
<1>1. 0 \notin T
  <2> DEFINE f == [k \in 0..0 |-> among]
  <2>1. f = [k \in 0..0 |-> IF k = 0 THEN among ELSE StillNeeded(among, f[k - 1])]
    OBVIOUS
  <2> HIDE DEF f
  <2>2. Rounds(f, among, 0)
    BY <2>1, Zenon DEF Rounds
  <2> QED
    BY <2>2, Zenon
<1>2. T \in SUBSET Nat
  BY Zenon
<1> SUFFICES ASSUME T # {} PROVE FALSE
  BY Zenon
<1>3. PICK x \in T : \A y \in T : x <= y
  BY <1>2, LeastNatural, Zenon
<1>4. x \in Nat /\ x # 0
  BY <1>1, <1>2, Zenon
<1>5. x - 1 \in Nat /\ ~(x <= x - 1) /\ (x - 1) + 1 = x
  BY <1>4
<1>6. x - 1 \notin T
  BY <1>3, <1>5, Zenon
<1>7. PICK f : Rounds(f, among, x - 1)
  BY <1>5, <1>6, Zenon
<1>8. \E g : Rounds(g, among, (x - 1) + 1)
  BY <1>5, <1>7, OneMoreRound, Zenon
<1> QED
  BY <1>3, <1>5, <1>8, Zenon

\* The number of rounds is a natural number.
LEMMA RoundsAreFinite == Cardinality(Services) \in Nat
  BY ShutdownAssumption, FS_CardinalityType, Zenon

\* Remaining is what the rounds of reverse_dependency_waves leave.
LEMMA RemainingIs ==
    ASSUME NEW among
    PROVE  /\ Remaining(among)[0] = among
           /\ \A k \in 1..Cardinality(Services) :
                Remaining(among)[k] = StillNeeded(among, Remaining(among)[k - 1])
<1> DEFINE r == Remaining(among)
           N == Cardinality(Services)
<1>1. \E f : Rounds(f, among, N)
  BY RoundsExist, RoundsAreFinite, Zenon
<1>2. r = CHOOSE f : f = [k \in 0..N |-> IF k = 0 THEN among ELSE StillNeeded(among, f[k - 1])]
  BY DEF Remaining
<1> HIDE DEF r
<1>3. r = [k \in 0..N |-> IF k = 0 THEN among ELSE StillNeeded(among, r[k - 1])]
  BY <1>1, <1>2, Zenon DEF Rounds
<1>4. \A k \in 0..N : r[k] = IF k = 0 THEN among ELSE StillNeeded(among, r[k - 1])
  BY <1>3, Zenon
<1>5. 0 \in 0..N /\ \A k \in 1..N : k \in 0..N /\ k # 0
  BY RoundsAreFinite
<1>6. r[0] = among /\ \A k \in 1..N : r[k] = StillNeeded(among, r[k - 1])
  BY <1>4, <1>5, Zenon
<1> QED
  BY <1>6, Zenon DEF r

\* What remains after a round remained before it.
LEMMA RemainingShrinks ==
    ASSUME NEW among, NEW i \in 0..Cardinality(Services),
           NEW k \in 0..Cardinality(Services), i <= k
    PROVE  Remaining(among)[k] \subseteq Remaining(among)[i]
<1> DEFINE r == Remaining(among)
           N == Cardinality(Services)
           T == {n \in Nat : n <= N /\ i <= n /\ ~(r[n] \subseteq r[i])}
<1>0. \A n \in 1..N : r[n] = StillNeeded(among, r[n - 1])
  BY RemainingIs, Zenon
<1> HIDE DEF r
<1>1. \A n \in 1..N : r[n] \subseteq r[n - 1]
  BY <1>0, Zenon DEF StillNeeded
<1>2. T = {}
  <2> SUFFICES ASSUME T # {} PROVE FALSE
    BY Zenon
  <2>1. PICK x \in T : \A y \in T : x <= y
    BY LeastNatural, Zenon
  <2>2. x \in Nat /\ x <= N /\ i <= x /\ ~(r[x] \subseteq r[i])
    BY <2>1, Zenon
  <2>3. x # i
    BY <2>2, Zenon
  <2>4. /\ x \in 1..N /\ x - 1 \in Nat /\ x - 1 <= N /\ i <= x - 1
        /\ ~(x <= x - 1)
    BY <2>2, <2>3, RoundsAreFinite
  <2>5. x - 1 \notin T
    BY <2>1, <2>4, Zenon
  <2>6. r[x - 1] \subseteq r[i]
    BY <2>4, <2>5, Zenon
  <2> QED
    BY <1>1, <2>2, <2>4, <2>6, Zenon
<1>3. k \in Nat /\ k <= N
  BY RoundsAreFinite
<1>4. r[k] \subseteq r[i]
  BY <1>2, <1>3, Zenon
<1> QED
  BY <1>4, Zenon DEF r

\* The plan is a sequence of sets of participants, and a participant comes in
\* an earlier wave than what it depends on (reverse_dependency_waves).
LEMMA WavesAreOrdered ==
    ASSUME NEW among \in SUBSET Services, NEW ws, ws = Waves(among).waves
    PROVE  /\ ws \in Seq(SUBSET Services)
           /\ \A k \in DOMAIN ws : ws[k] \subseteq among
           /\ \A i, k \in DOMAIN ws : \A s \in ws[i], d \in ws[k] :
                DependsOn(d, s) => k < i
<1> DEFINE r == Remaining(among)
           N == Cardinality(Services)
           taken == {k \in 1..N : r[k] # r[k - 1]}
           n == Cardinality(taken)
<1>1. ws = [k \in 1..n |-> r[k - 1] \ r[k]]
  BY Zenon DEF Waves
<1>2. N \in Nat
  BY RoundsAreFinite, Zenon
<1>3. n \in Nat /\ n <= N
  <2>1. IsFiniteSet(1..N) /\ Cardinality(1..N) = N
    <3>1. 0 \in Int /\ 1 \in Int /\ N \in Int
      BY <1>2
    <3>2. IsFiniteSet(1..N) /\ Cardinality(1..N) = IF 1 > N THEN 0 ELSE N - 1 + 1
      BY <3>1, FS_Interval, Zenon
    <3> QED
      BY <3>2, <1>2
  <2>2. taken \subseteq 1..N
    BY Zenon
  <2>3. IsFiniteSet(taken) /\ Cardinality(taken) <= Cardinality(1..N)
    BY <2>1, <2>2, FS_Subset, Zenon
  <2>4. Cardinality(taken) \in Nat
    BY <2>3, FS_CardinalityType, Zenon
  <2> QED
    BY <2>1, <2>3, <2>4, Zenon
<1> HIDE DEF taken, n
<1>4. \A k \in 1..n : k \in 1..N /\ k \in 0..N /\ k - 1 \in 0..N /\ 0 <= k - 1
  BY <1>2, <1>3
<1>5. r[0] = among /\ \A k \in 1..N : r[k] = StillNeeded(among, r[k - 1])
  BY RemainingIs, Zenon
<1>6. \A i, k \in 0..N : i <= k => r[k] \subseteq r[i]
  BY RemainingShrinks, Zenon
<1> HIDE DEF r
<1>7. \A k \in 1..n : r[k - 1] \subseteq among
  <2>1. 0 \in 0..N
    BY <1>2
  <2> QED
    BY <2>1, <1>4, <1>5, <1>6, Zenon
<1>8. DOMAIN ws = 1..n /\ \A k \in 1..n : ws[k] = r[k - 1] \ r[k]
  BY <1>1, Zenon
<1>9. \A k \in 1..n : ws[k] \subseteq among
  BY <1>7, <1>8, Zenon
<1>10. ws \in Seq(SUBSET Services)
  <2>1. ws \in [1..n -> SUBSET Services]
    BY <1>1, <1>8, <1>9, Zenon
  <2> QED
    BY <2>1, <1>3
<1>11. ASSUME NEW i \in 1..n, NEW k \in 1..n, NEW s \in ws[i], NEW d \in ws[k],
              DependsOn(d, s), ~(k < i)
       PROVE  FALSE
  <2>0. s \in r[i - 1] \ r[i] /\ i \in 1..N
    BY <1>4, <1>8, Zenon
  <2>1. s \in r[i - 1] /\ s \notin StillNeeded(among, r[i - 1])
    BY <2>0, <1>5, Zenon
  <2>2. DependentsByTarget(among, s) \cap r[i - 1] = {}
    BY <2>1, Zenon DEF StillNeeded
  <2>3. i - 1 <= k - 1
    BY <1>11, <1>3
  <2>4. d \in r[i - 1] /\ d \in among
    BY <2>3, <1>4, <1>6, <1>8, <1>9, Zenon
  <2>5. d \in DependentsByTarget(among, s)
    BY <2>4, <1>11, Zenon DEF DependentsByTarget, DependsOn
  <2> QED
    BY <2>2, <2>4, <2>5, Zenon
<1> QED
  BY <1>8, <1>9, <1>10, <1>11, Zenon

(***************************************************************************)
(* What follows from the relations.                                        *)
(***************************************************************************)
\* The plan is a sequence.
LEMMA ShapeIs ==
    ASSUME NEW v, Shape(v)
    PROVE  /\ v.sd.waves \in Seq(SUBSET Services) /\ Len(v.sd.waves) \in Nat
           /\ DOMAIN v.sd.waves = 1..Len(v.sd.waves)
           /\ v.sd.at \in Nat
           /\ \A k \in DOMAIN v.sd.waves : \A s \in v.sd.waves[k] : s \in Services
<1>1. v.sd.waves \in Seq(SUBSET Services) /\ v.sd.at \in Nat
  BY Zenon DEF Shape
<1>2. /\ Len(v.sd.waves) \in Nat /\ DOMAIN v.sd.waves = 1..Len(v.sd.waves)
      /\ \A k \in DOMAIN v.sd.waves : \A s \in v.sd.waves[k] : s \in Services
  BY <1>1
<1> QED
  BY <1>1, <1>2, Zenon

\* A service is outstanding when it is in the wave and not done.
LEMMA OutstandingIs ==
    ASSUME NEW v, NEW k
    PROVE  Outstanding(v, k) = {s \in Services : /\ k < Len(v.sd.waves)
                                                 /\ s \in v.sd.waves[k + 1]
                                                 /\ v.svc[s].state \notin DoneStates}
  BY Zenon DEF Outstanding, WaveMembers, DoneForShutdown, DoneStates

\* The invariant is kept while the services move towards their stop.
LEMMA EvolvesGood ==
    ASSUME NEW v, Good(v), NEW u, Evolves(v, u)
    PROVE  Good(u)
<1>1. Shape(v) /\ Ordered(v) /\ Planned(v) /\ AskedToStop(v) /\ EarlierDone(v)
  BY Zenon DEF Good
<1>2. Shape(u) /\ Before(u)
  BY Zenon DEF Evolves, Before
<1>3. u.sd.waves = v.sd.waves /\ u.sd.at = v.sd.at /\ u.sd.already = v.sd.already
  BY Zenon DEF Evolves
<1>4. \A k : \A s \in Outstanding(u, k) : s \in Outstanding(v, k)
  <2>1. \A s \in Services : v.svc[s].state \in DoneStates => u.svc[s].state \in DoneStates
    BY Zenon DEF Evolves
  <2> QED
    BY <1>3, <2>1, OutstandingIs, Zenon
<1>5. Ordered(u)
  BY <1>1, <1>3, Zenon DEF Ordered
<1>6. Planned(u)
  <2> SUFFICES ASSUME NEW k \in DOMAIN u.sd.waves, NEW s \in u.sd.waves[k]
               PROVE  u.svc[s].state \in {"Active", "Reloading", "Stopping"} \cup DoneStates
    BY Zenon DEF Planned
  <2>1. v.svc[s].state \in {"Active", "Reloading", "Stopping"} \cup DoneStates
    BY <1>1, <1>3, Zenon DEF Planned
  <2>2. s \in Services
    BY <1>1, <1>3, ShapeIs, Zenon
  <2> QED
    BY <2>1, <2>2, Zenon DEF Evolves
<1>7. AskedToStop(u)
  <2> SUFFICES ASSUME NEW s \in Services, s \in u.sd.already
               PROVE  u.svc[s].state \in {"Stopping"} \cup DoneStates
    BY Zenon DEF AskedToStop, Evolves
  <2>1. v.svc[s].state \in {"Stopping"} \cup DoneStates
    BY <1>1, <1>3, Zenon DEF AskedToStop
  <2>2. ~(v.svc[s].state \in {"Active", "Reloading"})
    BY <2>1 DEF DoneStates
  <2> QED
    BY <2>1, <2>2, Zenon DEF Evolves
<1>8. EarlierDone(u)
  BY <1>1, <1>3, <1>4, Zenon DEF EarlierDone
<1>9. Watched(u)
  <2> SUFFICES ASSUME NEW s \in Outstanding(u, u.sd.at)
               PROVE  u.sd.stops[s] # "none" \/ s \in u.sd.posts
    BY Zenon DEF Watched
  <2>1. s \in Outstanding(v, v.sd.at)
    BY <1>3, <1>4, Zenon
  <2>2. u.svc[s].state \notin DoneStates
    BY OutstandingIs, Zenon
  <2> QED
    BY <2>1, <2>2, Zenon DEF Evolves
<1> QED
  BY <1>2, <1>5, <1>6, <1>7, <1>8, <1>9, Zenon DEF Good

\* A calm step, and then an orderly one, are an orderly one.
LEMMA CalmThenOrderly ==
    ASSUME NEW v, NEW u, Calm(v, u), NEW x, Orderly(u, x)
    PROVE  Orderly(v, x)
  BY Zenon DEF Calm, Orderly

\* Two calm steps are a calm one.
LEMMA CalmTwice ==
    ASSUME NEW v, NEW u, Calm(v, u), NEW x, Calm(u, x)
    PROVE  Calm(v, x)
  BY Zenon DEF Calm

\* A calm step is orderly.
LEMMA CalmIsOrderly ==
    ASSUME NEW v, Shape(v), NEW u, Calm(v, u)
    PROVE  Orderly(v, u)
<1>1. \A s \in Services : v.svc[s].terms \in Nat
  BY Zenon DEF Shape, SvcShape
<1>2. \A s \in Services : ~(u.svc[s].terms > v.svc[s].terms)
  BY <1>1 DEF Calm
<1> QED
  BY <1>2, Zenon DEF Calm, Orderly

(***************************************************************************)
(* The waves.                                                              *)
(***************************************************************************)
\* Min of natural numbers is the least of them.
LEMMA MinIs ==
    ASSUME NEW S \in SUBSET Nat, S # {}
    PROVE  Min(S) \in S /\ \A y \in S : Min(S) <= y
  BY LeastNatural, Zenon DEF Min

\* start_stop, settle_stopped and fail_stop leave everything but the operation
\* alone.
LEMMA StopRecordIs ==
    ASSUME NEW x, SvcShape(x)
    PROVE  /\ SvcShape(StartStop(x)) /\ StartStop(x).state = x.state
           /\ StartStop(x).terms = x.terms
           /\ SvcShape(SettleStopped(x)) /\ SettleStopped(x).state = x.state
           /\ SettleStopped(x).terms = x.terms
           /\ SvcShape(FailStop(x)) /\ FailStop(x).state = x.state
           /\ FailStop(x).terms = x.terms
<1>1. SvcShape(StartStop(x)) /\ StartStop(x).state = x.state /\ StartStop(x).terms = x.terms
  BY DEF StartStop, SvcShape
<1>2. /\ SvcShape(SettleStopped(x)) /\ SettleStopped(x).state = x.state
      /\ SettleStopped(x).terms = x.terms
  BY DEF SettleStopped, SvcShape
<1>3. SvcShape(FailStop(x)) /\ FailStop(x).state = x.state /\ FailStop(x).terms = x.terms
  BY DEF FailStop, SvcShape
<1> QED
  BY <1>1, <1>2, <1>3, Zenon

\* A service that is told to stop.
LEMMA ToldToStop ==
    ASSUME NEW x, SvcShape(x), NEW y,
           y = [x EXCEPT !.state = "Stopping", !.cause = "ShutdownWave",
                         !.terms = IF x.acked THEN @ ELSE @ + 1]
    PROVE  SvcShape(y) /\ y.state = "Stopping"
  BY DEF SvcShape

\* begin_stop_wave: the services of the wave that are not done are stopping,
\* with a deadline each, and the others are as they were.
LEMMA BeginStopWaveIs ==
    ASSUME NEW v, Shape(v), AskedToStop(v), NEW k \in Nat, NEW u, u = BeginStopWave(v, k)
    PROVE  /\ Shape(u)
           /\ u.sd.waves = v.sd.waves /\ u.sd.at = k /\ u.sd.already = v.sd.already
           /\ u.sd.posts = v.sd.posts /\ u.sd.final = v.sd.final
           /\ \A s \in Services \ Outstanding(v, k) :
                u.svc[s] = v.svc[s] /\ u.sd.stops[s] = v.sd.stops[s]
           /\ \A s \in Outstanding(v, k) :
                u.svc[s].state = "Stopping" /\ u.sd.stops[s] # "none"
<1> DEFINE out == Outstanding(v, k)
           begun(s) ==
             IF s \in v.sd.already THEN StartStop(v.svc[s])
             ELSE StartStop([v.svc[s] EXCEPT !.state = "Stopping", !.cause = "ShutdownWave",
                                        !.terms = IF v.svc[s].acked THEN @ ELSE @ + 1])
           due(s) == IF s \in v.sd.already THEN RetainedStopDeadline(v.svc[s]) ELSE "later"
           svc == [s \in Services |-> IF s \in out THEN begun(s) ELSE v.svc[s]]
           stops == [s \in Services |-> IF s \in out THEN due(s) ELSE v.sd.stops[s]]
<1>1. u = [v EXCEPT !.sd.at = k, !.svc = svc, !.sd.stops = stops]
  BY DEF BeginStopWave
<1>2. \A s \in Services : SvcShape(v.svc[s])
  BY Zenon DEF Shape
<1>3. ASSUME NEW s \in Services
      PROVE  /\ SvcShape(begun(s))
             /\ s \notin v.sd.already => begun(s).state = "Stopping"
             /\ s \in v.sd.already => begun(s).state = v.svc[s].state
  <2> DEFINE x == [v.svc[s] EXCEPT !.state = "Stopping", !.cause = "ShutdownWave",
                                   !.terms = IF v.svc[s].acked THEN @ ELSE @ + 1]
  <2>1. SvcShape(x) /\ x.state = "Stopping"
    BY <1>2, ToldToStop, Zenon
  <2> HIDE DEF x
  <2>2. SvcShape(StartStop(x)) /\ StartStop(x).state = "Stopping"
    BY <2>1, StopRecordIs, Zenon
  <2>3. SvcShape(StartStop(v.svc[s])) /\ StartStop(v.svc[s]).state = v.svc[s].state
    BY <1>2, StopRecordIs, Zenon
  <2> QED
    BY <2>2, <2>3, Zenon DEF x
<1>4. \A s \in Services : due(s) # "none"
  BY DEF RetainedStopDeadline
<1> HIDE DEF begun, due
<1>5. /\ DOMAIN svc = Services /\ DOMAIN stops = Services
      /\ \A s \in Services : svc[s] = IF s \in out THEN begun(s) ELSE v.svc[s]
      /\ \A s \in Services : stops[s] = IF s \in out THEN due(s) ELSE v.sd.stops[s]
  BY Zenon
<1> HIDE DEF svc, stops, out
<1>6. \A s \in Services : SvcShape(svc[s])
  BY <1>2, <1>3, <1>5, Zenon
<1>7. /\ DOMAIN u = DOMAIN v /\ u.svc = svc /\ DOMAIN u.sd = DOMAIN v.sd
      /\ u.sd.waves = v.sd.waves /\ u.sd.at = k
      /\ u.sd.already = v.sd.already /\ u.sd.posts = v.sd.posts /\ u.sd.final = v.sd.final
      /\ u.sd.stops = stops
  <2>1. {"svc", "sd"} \subseteq DOMAIN v /\ {"at", "stops"} \subseteq DOMAIN v.sd
    BY DEF Shape
  <2>2. /\ DOMAIN u = DOMAIN v /\ u.svc = svc
        /\ u.sd = [v.sd EXCEPT !.at = k, !.stops = stops]
    BY <1>1, <2>1, Zenon
  <2> QED
    BY <2>1, <2>2
<1>8. Shape(u)
  BY <1>5, <1>6, <1>7, Zenon DEF Shape
<1>9. ASSUME NEW s \in out
      PROVE  u.svc[s].state = "Stopping" /\ u.sd.stops[s] # "none"
  <2>1. s \in Services /\ v.svc[s].state \notin DoneStates
    BY OutstandingIs, Zenon DEF out
  <2>2. s \in v.sd.already => v.svc[s].state = "Stopping"
    BY <2>1, Zenon DEF AskedToStop
  <2>3. u.svc[s] = begun(s) /\ u.sd.stops[s] = due(s)
    BY <2>1, <1>5, <1>7, Zenon
  <2> QED
    BY <2>1, <2>2, <2>3, <1>3, <1>4, Zenon
<1> QED
  BY <1>5, <1>7, <1>8, <1>9, Zenon DEF out

\* A wave that begins once the earlier ones have stopped keeps the invariant,
\* and nobody in it has a dependent left.
LEMMA BeginStopWaveGood ==
    ASSUME NEW v, Shape(v), Ordered(v), Planned(v), AskedToStop(v), NEW k \in Nat,
           \A j \in 0..(k - 1) : Outstanding(v, j) = {},
           NEW u, u = BeginStopWave(v, k)
    PROVE  /\ Shape(u) /\ Ordered(u) /\ Planned(u) /\ AskedToStop(u) /\ EarlierDone(u)
           /\ Watched(u) /\ Orderly(v, u) /\ u.sd.final = v.sd.final
<1>1. /\ Shape(u)
      /\ u.sd.waves = v.sd.waves /\ u.sd.at = k /\ u.sd.already = v.sd.already
      /\ u.sd.posts = v.sd.posts /\ u.sd.final = v.sd.final
  BY BeginStopWaveIs
<1>2. \A s \in Services \ Outstanding(v, k) :
         u.svc[s] = v.svc[s] /\ u.sd.stops[s] = v.sd.stops[s]
  BY BeginStopWaveIs
<1>3. \A s \in Outstanding(v, k) : u.svc[s].state = "Stopping" /\ u.sd.stops[s] # "none"
  BY BeginStopWaveIs
<1>4. \A s \in Outstanding(v, k) : s \in Services /\ v.svc[s].state \notin DoneStates
  BY OutstandingIs, Zenon
<1>5. \A s \in Services : v.svc[s].state \in DoneStates => u.svc[s].state \in DoneStates
  BY <1>2, <1>4, Zenon
<1>6. \A j : \A s \in Outstanding(u, j) : s \in Outstanding(v, j)
  BY <1>1, <1>5, OutstandingIs, Zenon
<1>7. Ordered(u)
  BY <1>1, Zenon DEF Ordered
<1>8. Planned(u)
  <2> SUFFICES ASSUME NEW i \in DOMAIN u.sd.waves, NEW s \in u.sd.waves[i]
               PROVE  u.svc[s].state \in {"Active", "Reloading", "Stopping"} \cup DoneStates
    BY Zenon DEF Planned
  <2>1. v.svc[s].state \in {"Active", "Reloading", "Stopping"} \cup DoneStates
    BY <1>1, Zenon DEF Planned
  <2>2. s \in Services
    BY <1>1, ShapeIs, Zenon
  <2> QED
    BY <2>1, <2>2, <1>2, <1>3, Zenon
<1>9. AskedToStop(u)
  BY <1>1, <1>2, <1>3, Zenon DEF AskedToStop
<1>10. EarlierDone(u)
  BY <1>1, <1>6, Zenon DEF EarlierDone
<1>11. Watched(u)
  BY <1>1, <1>3, <1>6, Zenon DEF Watched
<1>12. Orderly(v, u)
  <2> SUFFICES ASSUME NEW s \in Services,
                      \/ u.svc[s].terms > v.svc[s].terms
                      \/ v.sd.stops[s] = "none" /\ u.sd.stops[s] # "none",
                      NEW i \in DOMAIN u.sd.waves, NEW d \in u.sd.waves[i], DependsOn(d, s)
               PROVE  u.svc[d].state \in DoneStates
    BY Zenon DEF Orderly, DoneForShutdown, DoneStates
  <2>1. s \in Outstanding(v, k)
    <3> SUFFICES ASSUME s \notin Outstanding(v, k) PROVE FALSE
      BY Zenon
    <3>1. u.svc[s] = v.svc[s] /\ u.sd.stops[s] = v.sd.stops[s]
      BY <1>2, Zenon
    <3>2. v.svc[s].terms \in Nat
      BY Zenon DEF Shape, SvcShape
    <3>3. ~(u.svc[s].terms > v.svc[s].terms)
      BY <3>1, <3>2
    <3> QED
      BY <3>1, <3>3, Zenon
  <2>2. k < Len(v.sd.waves) /\ s \in v.sd.waves[k + 1]
    BY <2>1, OutstandingIs, Zenon
  <2>3. Len(v.sd.waves) \in Nat /\ DOMAIN v.sd.waves = 1..Len(v.sd.waves)
    BY ShapeIs, Zenon
  <2>4. k + 1 \in DOMAIN v.sd.waves
    BY <2>2, <2>3
  <2>5. i < k + 1
    BY <2>2, <2>4, <1>1, Zenon DEF Ordered
  <2>6. i - 1 \in 0..(k - 1) /\ i - 1 < Len(v.sd.waves) /\ (i - 1) + 1 = i
    <3>1. i \in 1..Len(v.sd.waves)
      BY <1>1, <2>3, Zenon
    <3> QED
      BY <2>3, <2>5, <3>1, WaveBefore, Zenon
  <2>7. Outstanding(v, i - 1) = {}
    BY <2>6, Zenon
  <2>8. d \in Services
    BY <1>1, ShapeIs, Zenon
  <2>9. v.svc[d].state \in DoneStates
    BY <2>6, <2>7, <2>8, <1>1, OutstandingIs, Zenon
  <2> QED
    BY <2>8, <2>9, <1>5, Zenon
<1> QED
  BY <1>1, <1>7, <1>8, <1>9, <1>10, <1>11, <1>12, Zenon

\* Once the current wave is complete, so are all the waves before the next one.
LEMMA NextWaveIs ==
    ASSUME NEW v, Shape(v), EarlierDone(v), NEW live, WaveComplete(v, live)
    PROVE  /\ NextWave(v) \in Nat
           /\ \A k \in 0..(NextWave(v) - 1) : Outstanding(v, k) = {}
<1> DEFINE n == Len(v.sd.waves)
           later == {k \in (v.sd.at + 1)..(n - 1) : Outstanding(v, k) # {}}
<1>1. n \in Nat /\ v.sd.at \in Nat
  BY ShapeIs, Zenon
<1>2. Outstanding(v, v.sd.at) = {}
  BY OutstandingIs, Zenon DEF WaveComplete
<1>3. \A k \in 0..v.sd.at : Outstanding(v, k) = {}
  <2>1. \A k \in 0..v.sd.at : k = v.sd.at \/ k \in 0..(v.sd.at - 1)
    BY <1>1
  <2> QED
    BY <2>1, <1>2, Zenon DEF EarlierDone
<1>4. CASE later = {}
  <2>1. NextWave(v) = n
    BY <1>4, Zenon DEF NextWave
  <2>2. \A k \in 0..(n - 1) : k \in 0..v.sd.at \/ k \in (v.sd.at + 1)..(n - 1)
    BY <1>1
  <2> QED
    BY <1>1, <1>3, <1>4, <2>1, <2>2, Zenon
<1>5. CASE later # {}
  <2>1. NextWave(v) = Min(later)
    BY <1>5, Zenon DEF NextWave
  <2>2. later \in SUBSET Nat
    BY <1>1
  <2>3. Min(later) \in later /\ \A y \in later : Min(later) <= y
    BY <1>5, <2>2, MinIs, Zenon
  <2>4. NextWave(v) \in Nat /\ NextWave(v) \in (v.sd.at + 1)..(n - 1)
    BY <2>1, <2>2, <2>3, Zenon
  <2>5. \A k \in 0..(NextWave(v) - 1) :
           /\ k \in 0..v.sd.at \/ k \in (v.sd.at + 1)..(n - 1)
           /\ ~(NextWave(v) <= k)
    <3>1. PICK c \in (v.sd.at + 1)..(n - 1) : c = NextWave(v)
      BY <2>4, Zenon
    <3>2. \A k \in 0..(c - 1) : /\ k \in 0..v.sd.at \/ k \in (v.sd.at + 1)..(n - 1)
                                /\ ~(c <= k)
      BY <1>1, WavesBefore, Zenon
    <3> QED
      BY <3>1, <3>2, Zenon
  <2> QED
    BY <1>3, <2>1, <2>3, <2>4, <2>5, Zenon
<1> QED
  BY <1>4, <1>5, Zenon

\* The larger of a natural number and one that is at least -1.
LEMMA LargerIsNatural ==
    ASSUME NEW a \in Nat, NEW b \in Nat
    PROVE  Max({a, b - 1}) \in Nat
<1>1. \E x \in {a, b - 1} : \A y \in {a, b - 1} : x >= y
  OBVIOUS
<1>2. Max({a, b - 1}) \in {a, b - 1} /\ \A y \in {a, b - 1} : Max({a, b - 1}) >= y
  BY <1>1, Zenon DEF Max
<1>3. Max({a, b - 1}) >= a
  BY <1>2, Zenon
<1> QED
  BY <1>2, <1>3

\* settle_stopped moves the Stop operations only.
LEMMA SettledEvolves ==
    ASSUME NEW v, Good(v), v.sd.final # "None", NEW u, u = Settled(v)
    PROVE  Evolves(v, u)
<1>1. Shape(v) /\ AskedToStop(v) /\ Watched(v)
  BY Zenon DEF Good
<1>2. /\ DOMAIN u = DOMAIN v /\ u.sd = v.sd
      /\ u.svc = [s \in Services |-> SettleStopped(v.svc[s])]
  BY <1>1 DEF Settled, Shape
<1>3. \A s \in Services : u.svc[s] = SettleStopped(v.svc[s]) /\ SvcShape(v.svc[s])
  BY <1>1, <1>2, Zenon DEF Shape
<1>4. \A s \in Services : /\ SvcShape(u.svc[s]) /\ u.svc[s].terms = v.svc[s].terms
                          /\ u.svc[s].state = v.svc[s].state
  BY <1>3, StopRecordIs, Zenon
<1>5. Shape(u) /\ Calm(v, u)
  BY <1>1, <1>2, <1>4, Zenon DEF Shape, Calm
<1> QED
  BY <1>1, <1>2, <1>4, <1>5, Zenon DEF Evolves, AskedToStop, Watched

\* The wait goes on: advance_shutdown_progress keeps the invariant, and what it
\* tells to stop has no dependents left.
LEMMA AdvanceGood ==
    ASSUME NEW v, Good(v), v.sd.final # "None", NEW live, NEW u, u = Advance(v, live)
    PROVE  Good(u) /\ Orderly(v, u) /\ u.sd.final # "None"
<1>0. PICK t : t = Settled(v)
  BY Zenon
<1>1. Shape(v)
  BY Zenon DEF Good
<1>2. Evolves(v, t)
  BY <1>0, SettledEvolves, Zenon
<1>3. Good(t) /\ Calm(v, t) /\ t.sd.final # "None"
  BY <1>2, EvolvesGood, Zenon DEF Evolves
<1>4. u = IF ~WaveComplete(t, live) THEN t
          ELSE IF NextWave(t) < Len(t.sd.waves) THEN BeginStopWave(t, NextWave(t))
          ELSE BecomeReady([t EXCEPT !.sd.at = Max({@, Len(t.sd.waves) - 1})], live)
  BY <1>0, Zenon DEF Advance
<1>5. Shape(t) /\ Ordered(t) /\ Planned(t) /\ AskedToStop(t) /\ EarlierDone(t) /\ Before(t)
  BY <1>3, Zenon DEF Good
<1>6. CASE ~WaveComplete(t, live)
  BY <1>1, <1>3, <1>4, <1>6, CalmIsOrderly, Zenon
<1>7. CASE WaveComplete(t, live) /\ NextWave(t) < Len(t.sd.waves)
  <2>1. u = BeginStopWave(t, NextWave(t))
    BY <1>4, <1>7, Zenon
  <2>2. NextWave(t) \in Nat /\ \A k \in 0..(NextWave(t) - 1) : Outstanding(t, k) = {}
    BY <1>5, <1>7, NextWaveIs, Zenon
  <2>3. /\ Shape(u) /\ Ordered(u) /\ Planned(u) /\ AskedToStop(u) /\ EarlierDone(u)
        /\ Watched(u) /\ Orderly(t, u) /\ u.sd.final = t.sd.final
    BY <1>5, <2>1, <2>2, BeginStopWaveGood, Zenon
  <2> QED
    BY <1>3, <2>3, CalmThenOrderly, Zenon DEF Good, Before
<1>8. CASE WaveComplete(t, live) /\ ~(NextWave(t) < Len(t.sd.waves))
  <2>1. PICK n : n = Max({t.sd.at, Len(t.sd.waves) - 1})
    BY Zenon
  <2>2. u = BecomeReady([t EXCEPT !.sd.at = n], live)
    BY <1>4, <1>5, <1>8, <2>1 DEF Shape
  <2>3. Len(t.sd.waves) \in Nat /\ t.sd.at \in Nat
    BY <1>5, ShapeIs, Zenon
  <2>4. n \in Nat
    BY <2>1, <2>3, LargerIsNatural, Zenon
  <2>5. NextWave(t) \in Nat /\ \A k \in 0..(NextWave(t) - 1) : Outstanding(t, k) = {}
    BY <1>5, <1>8, NextWaveIs, Zenon
  <2>6. \A k \in Nat : Outstanding(t, k) = {}
    <3>1. \A k \in Nat : k \in 0..(NextWave(t) - 1) \/ ~(k < Len(t.sd.waves))
      BY <1>8, <2>3, <2>5
    <3> QED
      BY <2>5, <3>1, OutstandingIs, Zenon
  <2>7. /\ DOMAIN u = DOMAIN t /\ u.svc = t.svc /\ DOMAIN u.sd = DOMAIN t.sd
        /\ u.sd.waves = t.sd.waves /\ u.sd.at = n
        /\ u.sd.already = t.sd.already /\ u.sd.posts = t.sd.posts /\ u.sd.stops = t.sd.stops
        /\ u.sd.final \in {t.sd.final, "Ready"}
    BY <1>5, <2>2 DEF Shape, BecomeReady
  <2>8. u.sd.final # "None"
    BY <1>3, <2>7
  <2>9. Shape(u) /\ Before(u)
    BY <1>5, <2>4, <2>7, <2>8, Zenon DEF Shape, Before
  <2>10. Ordered(u) /\ Planned(u) /\ AskedToStop(u)
    BY <1>5, <2>7, Zenon DEF Ordered, Planned, AskedToStop
  <2>11. \A k \in Nat : Outstanding(u, k) = {}
    BY <2>6, <2>7, OutstandingIs, Zenon
  <2>12. \A k \in 0..(u.sd.at - 1) : k \in Nat
    BY <2>4, <2>7
  <2>13. EarlierDone(u) /\ Watched(u)
    BY <2>4, <2>7, <2>11, <2>12, Zenon DEF EarlierDone, Watched
  <2>14. Calm(t, u)
    BY <2>7, Zenon DEF Calm
  <2>15. Orderly(v, u)
    BY <1>1, <1>3, <2>14, CalmTwice, CalmIsOrderly, Zenon
  <2> QED
    BY <2>8, <2>9, <2>10, <2>13, <2>15, Zenon DEF Good
<1> QED
  BY <1>6, <1>7, <1>8, Zenon

(***************************************************************************)
(* What happens to one service.                                            *)
(***************************************************************************)
\* Killing the tree, and ending the records, leaves the state alone.
LEMMA KillTreeIs ==
    ASSUME NEW x, SvcShape(x)
    PROVE  /\ SvcShape(KillTree(x)) /\ KillTree(x).state = x.state
           /\ KillTree(x).terms = x.terms
           /\ SvcShape(EndRunningJobs(x)) /\ EndRunningJobs(x).state = x.state
           /\ EndRunningJobs(x).terms = x.terms
  BY DEF KillTree, EndRunningJobs, SvcShape

\* A service that is killed, its Stop operation failed.
LEMMA KilledIs ==
    ASSUME NEW x, SvcShape(x)
    PROVE  /\ SvcShape(FailStop(KillTree(x))) /\ FailStop(KillTree(x)).state = x.state
           /\ FailStop(KillTree(x)).terms = x.terms
<1>1. PICK y : y = KillTree(x)
  BY Zenon
<1>2. SvcShape(y) /\ y.state = x.state /\ y.terms = x.terms
  BY <1>1, KillTreeIs, Zenon
<1>3. SvcShape(FailStop(y)) /\ FailStop(y).state = y.state /\ FailStop(y).terms = y.terms
  BY <1>2, StopRecordIs, Zenon
<1> QED
  BY <1>1, <1>2, <1>3, Zenon

\* stopped_state: what was stopping has stopped.
LEMMA StoppedStateIs ==
    ASSUME NEW x, SvcShape(x)
    PROVE  /\ SvcShape(StoppedState(x)) /\ StoppedState(x).state \in DoneStates
           /\ StoppedState(x).terms = x.terms
  BY DEF StoppedState, SvcShape, DoneStates

\* The exit of a job, whichever it is: what was up is done.
LEMMA ServiceExitIs ==
    ASSUME NEW x, SvcShape(x), NEW exit, NEW y, y = ServiceExit(x, exit)
    PROVE  /\ SvcShape(y) /\ y.terms = x.terms
           /\ y.state \in DoneStates \/ y.state = x.state
           /\ x.state \in {"Active", "Reloading", "Starting", "Stopping"} =>
                y.state \in DoneStates
<1>1. CASE x.state \in {"Active", "Reloading", "Starting"}
  BY <1>1 DEF ServiceExit, ActiveExit, SvcShape, DoneStates
<1>2. CASE x.state = "Stopping"
  <2>1. y = StoppedState(x)
    BY <1>2 DEF ServiceExit
  <2> QED
    BY <2>1, StoppedStateIs, Zenon
<1>3. CASE x.state \notin {"Active", "Reloading", "Starting", "Stopping"}
  <2>1. y = x
    BY <1>3 DEF ServiceExit
  <2> QED
    BY <1>3, <2>1, Zenon
<1> QED
  BY <1>1, <1>2, <1>3, Zenon

\* A service after its post-kill deadline: done, or as it was.
LEMMA PostKillCheckedIs ==
    ASSUME NEW x, SvcShape(x), NEW y, y = PostKillChecked(x)
    PROVE  /\ SvcShape(y) /\ y.terms = x.terms
           /\ y.state \in DoneStates \/ y.state = x.state
           /\ x.state = "Stopping" => y.state \in DoneStates
<1> DEFINE e == EndRunningJobs(x)
<1>1. SvcShape(e) /\ e.state = x.state /\ e.terms = x.terms
  BY KillTreeIs, Zenon
<1>2. CASE TreePopulated(x)
  <2>1. y = [e EXCEPT !.state = "Abandoned", !.cause = "ProcessUnkillable"]
    BY <1>2, Zenon DEF PostKillChecked
  <2> HIDE DEF e
  <2> QED
    BY <1>1, <2>1 DEF SvcShape, DoneStates
<1>3. CASE ~TreePopulated(x) /\ x.state = "Stopping"
  <2>1. y = StoppedState(e)
    BY <1>3, Zenon DEF PostKillChecked
  <2> HIDE DEF e
  <2> QED
    BY <1>1, <2>1, StoppedStateIs, Zenon
<1>4. CASE ~TreePopulated(x) /\ x.state # "Stopping"
  <2>1. y = e
    BY <1>4, Zenon DEF PostKillChecked
  <2> HIDE DEF e
  <2> QED
    BY <1>1, <1>4, <2>1, Zenon
<1> QED
  BY <1>2, <1>3, <1>4, Zenon

\* fail_after_internal_error: what was up has failed.
LEMMA ServiceContainedIs ==
    ASSUME NEW x, SvcShape(x), NEW y, y = ServiceContained(x)
    PROVE  /\ SvcShape(y) /\ y.terms = x.terms
           /\ y.state \in DoneStates \/ y.state = x.state
  BY DEF ServiceContained, KillTree, SvcShape, DoneStates

(***************************************************************************)
(* The handlers: the shutdown timer.                                       *)
(***************************************************************************)
\* kill_all_remaining_services: everything that is not done is asked to stop,
\* killed, and has its post-kill deadline.
LEMMA SweepEvolves ==
    ASSUME NEW v, Good(v), v.sd.final # "None",
           NEW u, u = SweepServices(v, RemainingServices(v))
    PROVE  Evolves(v, u) /\ v.sd.posts \subseteq u.sd.posts
<1>0. PICK rem : rem = RemainingServices(v)
  BY Zenon
<1>1. Shape(v) /\ AskedToStop(v) /\ Planned(v)
  BY Zenon DEF Good
<1> DEFINE told(x) == IF x.state \in {"Active", "Reloading"}
                      THEN [x EXCEPT !.state = "Stopping", !.cause = "ShutdownWave"] ELSE x
<1> DEFINE svc == [s \in Services |-> IF s \notin rem THEN v.svc[s]
                                      ELSE FailStop(KillTree(told(v.svc[s])))]
           stops == [s \in Services |-> "none"]
<1>2. u = [v EXCEPT !.sd.fired = TRUE, !.sd.stops = stops, !.sd.posts = @ \cup rem,
                    !.svc = svc]
  BY <1>0, <1>1 DEF SweepServices, Shape
<1>3. {"svc", "sd"} \subseteq DOMAIN v /\ {"fired", "stops", "posts"} \subseteq DOMAIN v.sd
  BY <1>1 DEF Shape
<1>4. \A x : SvcShape(x) => /\ SvcShape(told(x)) /\ told(x).terms = x.terms
                            /\ x.state \in {"Active", "Reloading"} => told(x).state = "Stopping"
                            /\ x.state \notin {"Active", "Reloading"} => told(x).state = x.state
  BY DEF SvcShape
<1> HIDE DEF told
<1>5. /\ DOMAIN u = DOMAIN v /\ DOMAIN u.sd = DOMAIN v.sd
      /\ u.svc = [s \in Services |-> IF s \notin rem THEN v.svc[s]
                                     ELSE FailStop(KillTree(told(v.svc[s])))]
      /\ u.sd.waves = v.sd.waves /\ u.sd.at = v.sd.at /\ u.sd.already = v.sd.already
      /\ u.sd.final = v.sd.final /\ u.sd.posts = v.sd.posts \cup rem
      /\ u.sd.stops = [s \in Services |-> "none"]
  <2> HIDE DEF svc, stops
  <2>1. /\ DOMAIN u = DOMAIN v /\ u.svc = svc
        /\ u.sd = [v.sd EXCEPT !.fired = TRUE, !.stops = stops, !.posts = v.sd.posts \cup rem]
    BY <1>2, <1>3
  <2>2. /\ DOMAIN u.sd = DOMAIN v.sd /\ u.sd.stops = stops
        /\ u.sd.waves = v.sd.waves /\ u.sd.at = v.sd.at /\ u.sd.already = v.sd.already
        /\ u.sd.final = v.sd.final /\ u.sd.posts = v.sd.posts \cup rem
    BY <1>3, <2>1
  <2> QED
    BY <2>1, <2>2, Zenon DEF svc, stops
<1> HIDE DEF svc, stops
<1>6. ASSUME NEW s \in rem
      PROVE  /\ s \in Services
             /\ v.svc[s].state \in {"Active", "Reloading", "Stopping"} \cup DoneStates
  <2>1. PICK k \in 0..(Len(v.sd.waves) - 1) : s \in Outstanding(v, k)
    BY <1>0, Zenon DEF RemainingServices
  <2>2. k + 1 \in DOMAIN v.sd.waves
    <3>1. Len(v.sd.waves) \in Nat /\ DOMAIN v.sd.waves = 1..Len(v.sd.waves)
      BY <1>1, ShapeIs, Zenon
    <3> QED
      BY <3>1
  <2>3. s \in Services /\ s \in v.sd.waves[k + 1]
    BY <2>1, OutstandingIs, Zenon
  <2> QED
    BY <1>1, <2>2, <2>3, Zenon DEF Planned
<1>7. ASSUME NEW s \in Services, s \in rem
      PROVE  /\ SvcShape(u.svc[s]) /\ u.svc[s].terms = v.svc[s].terms
             /\ v.svc[s].state \in {"Active", "Reloading"} => u.svc[s].state = "Stopping"
             /\ v.svc[s].state \notin {"Active", "Reloading"} => u.svc[s].state = v.svc[s].state
  <2>1. SvcShape(v.svc[s])
    BY <1>1, Zenon DEF Shape
  <2>2. PICK x : x = told(v.svc[s])
    BY Zenon
  <2>3. SvcShape(x) /\ u.svc[s] = FailStop(KillTree(x))
    BY <1>4, <1>5, <1>7, <2>1, <2>2, Zenon
  <2>4. SvcShape(u.svc[s]) /\ u.svc[s].state = x.state /\ u.svc[s].terms = x.terms
    BY <2>3, KilledIs, Zenon
  <2> QED
    BY <1>4, <2>1, <2>2, <2>4, Zenon
<1>8. \A s \in Services : s \notin rem => u.svc[s] = v.svc[s]
  BY <1>5, Zenon
<1>9. rem \subseteq Services
  BY <1>6, Zenon
<1>10. Shape(u)
  <2>1. \A s \in Services : SvcShape(u.svc[s])
    BY <1>1, <1>7, <1>8, Zenon DEF Shape
  <2>2. DOMAIN u.svc = Services /\ DOMAIN u.sd.stops = Services /\ u.sd.posts \subseteq Services
    BY <1>1, <1>5, <1>9, Zenon DEF Shape
  <2> QED
    BY <1>1, <1>5, <2>1, <2>2, Zenon DEF Shape
<1>11. Calm(v, u)
  BY <1>5, <1>7, <1>8, Zenon DEF Calm
<1>12. ASSUME NEW s \in Services
       PROVE  /\ \/ u.svc[s].state = v.svc[s].state
                 \/ v.svc[s].state \in {"Active", "Reloading"} /\ u.svc[s].state = "Stopping"
              /\ v.svc[s].state \in DoneStates => u.svc[s].state \in DoneStates
  <2>1. v.svc[s].state \in DoneStates => v.svc[s].state \notin {"Active", "Reloading"}
    BY DEF DoneStates
  <2> QED
    BY <2>1, <1>7, <1>8, Zenon
<1>13. ASSUME NEW s \in Services, u.sd.stops[s] # "none" \/ s \in u.sd.posts
       PROVE  u.svc[s].state \in {"Stopping"} \cup DoneStates
  <2>1. s \in v.sd.posts \/ s \in rem
    BY <1>5, <1>13, Zenon
  <2>2. CASE s \in rem
    BY <2>2, <1>6, <1>7, Zenon
  <2>3. CASE s \notin rem
    BY <2>1, <2>3, <1>1, <1>8, Zenon DEF AskedToStop
  <2> QED
    BY <2>2, <2>3, Zenon
<1>14. ASSUME NEW s \in Outstanding(v, v.sd.at) PROVE s \in u.sd.posts
  <2>1. v.sd.at < Len(v.sd.waves)
    BY OutstandingIs, Zenon
  <2>2. v.sd.at \in Nat /\ Len(v.sd.waves) \in Nat
    BY <1>1, ShapeIs, Zenon
  <2>3. v.sd.at \in 0..(Len(v.sd.waves) - 1)
    BY <2>1, <2>2
  <2>4. s \in rem
    BY <1>0, <2>3, Zenon DEF RemainingServices
  <2> QED
    BY <1>5, <2>4, Zenon
<1> QED
  BY <1>5, <1>10, <1>11, <1>12, <1>13, <1>14, Zenon DEF Evolves

\* process_due_stop_deadlines: what is overdue is killed, and its post-kill
\* deadline takes the place of its stop deadline.
LEMMA KillOverdueEvolves ==
    ASSUME NEW v, Good(v), v.sd.final # "None", NEW late \in SUBSET Services,
           \A s \in late : v.sd.stops[s] # "none", NEW u, u = KillOverdue(v, late)
    PROVE  Evolves(v, u) /\ v.sd.posts \subseteq u.sd.posts
<1>1. Shape(v) /\ AskedToStop(v) /\ Watched(v)
  BY Zenon DEF Good
<1> DEFINE stops == [s \in Services |-> IF s \in late THEN "none" ELSE v.sd.stops[s]]
           svc == [s \in Services |-> IF s \in late THEN FailStop(KillTree(v.svc[s]))
                                      ELSE v.svc[s]]
<1>2. u = [v EXCEPT !.sd.stops = stops, !.sd.posts = @ \cup late, !.svc = svc]
  BY <1>1 DEF KillOverdue, Shape
<1>3. {"svc", "sd"} \subseteq DOMAIN v /\ {"stops", "posts"} \subseteq DOMAIN v.sd
  BY <1>1 DEF Shape
<1>4. /\ DOMAIN u = DOMAIN v /\ DOMAIN u.sd = DOMAIN v.sd
      /\ u.svc = [s \in Services |-> IF s \in late THEN FailStop(KillTree(v.svc[s]))
                                     ELSE v.svc[s]]
      /\ u.sd.waves = v.sd.waves /\ u.sd.at = v.sd.at /\ u.sd.already = v.sd.already
      /\ u.sd.final = v.sd.final /\ u.sd.posts = v.sd.posts \cup late
      /\ u.sd.stops = [s \in Services |-> IF s \in late THEN "none" ELSE v.sd.stops[s]]
  <2> HIDE DEF svc, stops
  <2>1. /\ DOMAIN u = DOMAIN v /\ u.svc = svc
        /\ u.sd = [v.sd EXCEPT !.stops = stops, !.posts = v.sd.posts \cup late]
    BY <1>2, <1>3
  <2>2. /\ DOMAIN u.sd = DOMAIN v.sd /\ u.sd.stops = stops
        /\ u.sd.waves = v.sd.waves /\ u.sd.at = v.sd.at /\ u.sd.already = v.sd.already
        /\ u.sd.final = v.sd.final /\ u.sd.posts = v.sd.posts \cup late
    BY <1>3, <2>1
  <2> QED
    BY <2>1, <2>2, Zenon DEF svc, stops
<1> HIDE DEF svc, stops
<1>5. ASSUME NEW s \in Services
      PROVE  /\ SvcShape(u.svc[s]) /\ u.svc[s].terms = v.svc[s].terms
             /\ u.svc[s].state = v.svc[s].state
  <2>1. SvcShape(v.svc[s])
    BY <1>1, Zenon DEF Shape
  <2>2. u.svc[s] = IF s \in late THEN FailStop(KillTree(v.svc[s])) ELSE v.svc[s]
    BY <1>4, Zenon
  <2> QED
    BY <2>1, <2>2, KilledIs, Zenon
<1>6. Shape(u)
  BY <1>1, <1>4, <1>5, Zenon DEF Shape
<1>7. \A s \in Services : u.sd.stops[s] = IF s \in late THEN "none" ELSE v.sd.stops[s]
  BY <1>4, Zenon
<1>8. Calm(v, u)
  BY <1>5, <1>7, Zenon DEF Calm
<1>9. \A s \in Services : u.sd.stops[s] # "none" \/ s \in u.sd.posts =>
                            u.svc[s].state \in {"Stopping"} \cup DoneStates
  BY <1>1, <1>4, <1>5, <1>7, Zenon DEF AskedToStop
<1>10. \A s \in Outstanding(v, v.sd.at) : u.sd.stops[s] # "none" \/ s \in u.sd.posts
  <2>1. \A s \in Outstanding(v, v.sd.at) : s \in Services
    BY OutstandingIs, Zenon
  <2> QED
    BY <2>1, <1>1, <1>4, <1>7, Zenon DEF Watched
<1> QED
  BY <1>4, <1>5, <1>6, <1>8, <1>9, <1>10, Zenon DEF Evolves

\* process_due_post_kill_deadlines: what has a post-kill deadline is stopping
\* or done, and done when the deadline has passed.
LEMMA PostKillEvolves ==
    ASSUME NEW v, Good(v), v.sd.final # "None", NEW past \in SUBSET v.sd.posts,
           NEW u, u = PostKillDue(v, past)
    PROVE  Evolves(v, u)
<1>1. Shape(v) /\ AskedToStop(v) /\ Watched(v)
  BY Zenon DEF Good
<1> DEFINE svc == [s \in Services |-> IF s \in past THEN PostKillChecked(v.svc[s])
                                      ELSE v.svc[s]]
<1>2. u = [v EXCEPT !.sd.posts = @ \ past, !.svc = svc]
  BY <1>1 DEF PostKillDue, Shape
<1>3. {"svc", "sd"} \subseteq DOMAIN v /\ {"stops", "posts"} \subseteq DOMAIN v.sd
  BY <1>1 DEF Shape
<1>4. /\ DOMAIN u = DOMAIN v /\ DOMAIN u.sd = DOMAIN v.sd
      /\ u.svc = [s \in Services |-> IF s \in past THEN PostKillChecked(v.svc[s])
                                     ELSE v.svc[s]]
      /\ u.sd.waves = v.sd.waves /\ u.sd.at = v.sd.at /\ u.sd.already = v.sd.already
      /\ u.sd.final = v.sd.final /\ u.sd.posts = v.sd.posts \ past
      /\ u.sd.stops = v.sd.stops
  <2> HIDE DEF svc
  <2>1. DOMAIN u = DOMAIN v /\ u.svc = svc /\ u.sd = [v.sd EXCEPT !.posts = v.sd.posts \ past]
    BY <1>2, <1>3
  <2>2. /\ DOMAIN u.sd = DOMAIN v.sd /\ u.sd.stops = v.sd.stops
        /\ u.sd.waves = v.sd.waves /\ u.sd.at = v.sd.at /\ u.sd.already = v.sd.already
        /\ u.sd.final = v.sd.final /\ u.sd.posts = v.sd.posts \ past
    BY <1>3, <2>1
  <2> QED
    BY <2>1, <2>2, Zenon DEF svc
<1> HIDE DEF svc
<1>5. ASSUME NEW s \in Services
      PROVE  /\ SvcShape(u.svc[s]) /\ u.svc[s].terms = v.svc[s].terms
             /\ u.svc[s].state \in DoneStates \/ u.svc[s].state = v.svc[s].state
             /\ s \in past => u.svc[s].state \in DoneStates
  <2>1. SvcShape(v.svc[s])
    BY <1>1, Zenon DEF Shape
  <2>2. CASE s \notin past
    <3>1. u.svc[s] = v.svc[s]
      BY <1>4, <2>2, Zenon
    <3> QED
      BY <2>1, <2>2, <3>1, Zenon
  <2>3. CASE s \in past
    <3>1. u.svc[s] = PostKillChecked(v.svc[s])
      BY <1>4, <2>3, Zenon
    <3>2. v.svc[s].state \in {"Stopping"} \cup DoneStates
      BY <1>1, <2>3, Zenon DEF AskedToStop
    <3>3. /\ SvcShape(u.svc[s]) /\ u.svc[s].terms = v.svc[s].terms
          /\ u.svc[s].state \in DoneStates \/ u.svc[s].state = v.svc[s].state
          /\ v.svc[s].state = "Stopping" => u.svc[s].state \in DoneStates
      BY <2>1, <3>1, PostKillCheckedIs, Zenon
    <3> QED
      BY <3>2, <3>3, Zenon
  <2> QED
    BY <2>2, <2>3, Zenon
<1>6. Shape(u)
  <2>1. DOMAIN u.svc = Services /\ u.sd.posts \subseteq Services
    BY <1>1, <1>4, Zenon DEF Shape
  <2> QED
    BY <1>1, <1>4, <1>5, <2>1, Zenon DEF Shape
<1>7. Calm(v, u)
  BY <1>4, <1>5, Zenon DEF Calm
<1>8. \A s \in Services : u.sd.stops[s] # "none" \/ s \in u.sd.posts =>
                            u.svc[s].state \in {"Stopping"} \cup DoneStates
  BY <1>1, <1>4, <1>5, Zenon DEF AskedToStop
<1>9. \A s \in Outstanding(v, v.sd.at) :
        \/ u.svc[s].state \in DoneStates
        \/ u.sd.stops[s] # "none" \/ s \in u.sd.posts
  <2>1. \A s \in Outstanding(v, v.sd.at) : s \in Services
    BY OutstandingIs, Zenon
  <2> QED
    BY <2>1, <1>1, <1>4, <1>5, Zenon DEF Watched
<1> QED
  BY <1>4, <1>5, <1>6, <1>7, <1>8, <1>9, Zenon DEF Evolves

\* The invariant and the order look at the services and the runtime only.
LEMMA UnmovedGood ==
    ASSUME NEW v, Good(v), NEW u, DOMAIN u = DOMAIN v, u.svc = v.svc, u.sd = v.sd
    PROVE  Good(u) /\ Orderly(v, u)
<1>1. \A k : Outstanding(u, k) = Outstanding(v, k)
  BY OutstandingIs, Zenon
<1>2. Shape(v) /\ Shape(u)
  BY Zenon DEF Good, Shape
<1>3. Good(u)
  BY <1>1, <1>2, Zenon DEF Good, Before, Ordered, Planned, AskedToStop, EarlierDone, Watched
<1>4. Calm(v, u)
  BY Zenon DEF Calm
<1> QED
  BY <1>2, <1>3, <1>4, CalmIsOrderly, Zenon

\* process_due_shutdown_timeouts: whichever deadlines it finds due at once.
LEMMA ShutdownTimerGood ==
    ASSUME ShutdownInv, NEW global, NEW overdue \in SUBSET Armed,
           NEW checked \in SUBSET m.sd.posts, NEW jobs,
           ShutdownTimer(global, overdue, checked, jobs)
    PROVE  Good(m') /\ Orderly(m, m')
<1>1. Good(m) /\ m.sd.final # "None"
  BY Zenon DEF ShutdownInv, ShutdownTimer, InProgress
<1>2. PICK x, live :
        /\ x = PostKillDue(IF global THEN SweepServices(m, RemainingServices(m))
                           ELSE KillOverdue(m, overdue), checked)
        /\ m' = Advance(x, live) \/ m' = [m EXCEPT !.loop = FALSE]
  BY Zenon DEF ShutdownTimer
<1>3. PICK y : y = IF global THEN SweepServices(m, RemainingServices(m))
                   ELSE KillOverdue(m, overdue)
  BY Zenon
<1>4. Evolves(m, y) /\ m.sd.posts \subseteq y.sd.posts
  <2>1. CASE global
    BY <1>1, <1>3, <2>1, SweepEvolves, Zenon
  <2>2. CASE ~global
    <3>1. overdue \in SUBSET Services /\ \A s \in overdue : m.sd.stops[s] # "none"
      BY Zenon DEF Armed
    <3>2. y = KillOverdue(m, overdue)
      BY <1>3, <2>2, Zenon
    <3> QED
      BY <1>1, <3>1, <3>2, KillOverdueEvolves, Zenon
  <2> QED
    BY <2>1, <2>2, Zenon
<1>5. Good(y) /\ Calm(m, y) /\ y.sd.final # "None"
  BY <1>1, <1>4, EvolvesGood, Zenon DEF Evolves
<1>6. Evolves(y, x)
  <2>1. checked \in SUBSET y.sd.posts /\ x = PostKillDue(y, checked)
    BY <1>2, <1>3, <1>4, Zenon
  <2> QED
    BY <1>5, <2>1, PostKillEvolves, Zenon
<1>7. Good(x) /\ Calm(m, x) /\ x.sd.final # "None"
  BY <1>5, <1>6, EvolvesGood, CalmTwice, Zenon DEF Evolves
<1>8. CASE m' = Advance(x, live)
  BY <1>7, <1>8, AdvanceGood, CalmThenOrderly, Zenon
<1>9. CASE m' = [m EXCEPT !.loop = FALSE]
  <2>1. DOMAIN m' = DOMAIN m /\ m'.svc = m.svc /\ m'.sd = m.sd
    BY <1>9
  <2> QED
    BY <1>1, <2>1, UnmovedGood, Zenon
<1> QED
  BY <1>2, <1>8, <1>9, Zenon

(***************************************************************************)
(* The handlers: the ends of the processes.                                *)
(***************************************************************************)
\* One service moves, towards its stop if its state does.
LEMMA OneServiceGood ==
    ASSUME NEW v, Good(v), v.sd.final # "None", NEW s \in Services, NEW y, SvcShape(y),
           y.terms = v.svc[s].terms, y.state \in DoneStates \/ y.state = v.svc[s].state,
           NEW u, DOMAIN u = DOMAIN v, u.sd = v.sd, u.svc = [v.svc EXCEPT ![s] = y]
    PROVE  Good(u) /\ Orderly(v, u)
<1>1. Shape(v) /\ AskedToStop(v) /\ Watched(v) /\ DOMAIN v.svc = Services
  BY Zenon DEF Good, Shape
<1>2. /\ u.svc[s] = y /\ DOMAIN u.svc = Services
      /\ \A r \in Services : r # s => u.svc[r] = v.svc[r]
  BY <1>1, Zenon
<1>3. \A r \in Services : /\ SvcShape(u.svc[r]) /\ u.svc[r].terms = v.svc[r].terms
                          /\ \/ u.svc[r].state \in DoneStates
                             \/ u.svc[r].state = v.svc[r].state
  BY <1>1, <1>2, Zenon DEF Shape
<1>4. Shape(u) /\ Calm(v, u)
  BY <1>1, <1>2, <1>3, Zenon DEF Shape, Calm
<1>5. Evolves(v, u)
  BY <1>1, <1>3, <1>4, Zenon DEF Evolves, AskedToStop, Watched
<1> QED
  BY <1>1, <1>4, <1>5, EvolvesGood, CalmIsOrderly, Zenon

\* finish_shutdown_terminal_job: the service is done, its deadlines go, and the
\* shutdown moves on; or the error is contained.
LEMMA ShutdownExitGood ==
    ASSUME ShutdownInv, InProgress, NEW s \in Services, NEW x, SvcShape(x),
           x.state = m.svc[s].state, x.terms = m.svc[s].terms, NEW exit,
           ShutdownExit(s, x, exit)
    PROVE  Good(m') /\ Orderly(m, m')
<1>1. Good(m) /\ m.sd.final # "None"
  BY Zenon DEF ShutdownInv, InProgress
<1>2. Shape(m) /\ AskedToStop(m) /\ Watched(m) /\ Planned(m)
  BY <1>1, Zenon DEF Good
<1>3. PICK y : y = ServiceExit(x, exit)
  BY Zenon
<1>4. PICK v, live :
        /\ v = [m EXCEPT !.svc[s] = y, !.sd.stops[s] = "none", !.sd.posts = @ \ {s}]
        /\ m' = Advance(v, live) \/ m' = [m EXCEPT !.svc[s] = ServiceContained(x)]
  BY <1>3, Zenon DEF ShutdownExit
<1>5. /\ SvcShape(y) /\ y.terms = m.svc[s].terms
      /\ y.state \in DoneStates \/ y.state = m.svc[s].state
      /\ m.svc[s].state \in {"Active", "Reloading", "Starting", "Stopping"} =>
           y.state \in DoneStates
  <2>1. /\ SvcShape(y) /\ y.terms = x.terms
        /\ y.state \in DoneStates \/ y.state = x.state
        /\ x.state \in {"Active", "Reloading", "Starting", "Stopping"} =>
             y.state \in DoneStates
    BY <1>3, ServiceExitIs, Zenon
  <2> QED
    BY <2>1, Zenon
<1>6. /\ {"svc", "sd"} \subseteq DOMAIN m /\ {"stops", "posts"} \subseteq DOMAIN m.sd
      /\ DOMAIN m.svc = Services /\ DOMAIN m.sd.stops = Services
  BY <1>2 DEF Shape
<1>7. /\ DOMAIN v = DOMAIN m /\ v.svc = [m.svc EXCEPT ![s] = y]
      /\ v.sd = [m.sd EXCEPT !.stops = [m.sd.stops EXCEPT ![s] = "none"],
                             !.posts = m.sd.posts \ {s}]
  BY <1>4, <1>6
<1>8. /\ DOMAIN v.sd = DOMAIN m.sd
      /\ v.sd.waves = m.sd.waves /\ v.sd.at = m.sd.at /\ v.sd.already = m.sd.already
      /\ v.sd.final = m.sd.final /\ v.sd.posts = m.sd.posts \ {s}
      /\ v.sd.stops = [m.sd.stops EXCEPT ![s] = "none"]
  BY <1>6, <1>7
<1>9. /\ v.svc[s] = y /\ DOMAIN v.svc = Services /\ DOMAIN v.sd.stops = Services
      /\ v.sd.stops[s] = "none"
      /\ \A r \in Services : r # s => v.svc[r] = m.svc[r] /\ v.sd.stops[r] = m.sd.stops[r]
  BY <1>6, <1>7, <1>8, Zenon
<1>10. \A r \in Services : /\ SvcShape(v.svc[r]) /\ v.svc[r].terms = m.svc[r].terms
                           /\ \/ v.svc[r].state \in DoneStates
                              \/ v.svc[r].state = m.svc[r].state
  BY <1>2, <1>5, <1>9, Zenon DEF Shape
<1>11. Shape(v)
  <2>1. v.sd.posts \subseteq Services
    BY <1>2, <1>8, Zenon DEF Shape
  <2> QED
    BY <1>2, <1>7, <1>8, <1>9, <1>10, <2>1, Zenon DEF Shape
<1>12. Calm(m, v)
  BY <1>9, <1>10, Zenon DEF Calm
<1>13. \A r \in Services : v.sd.stops[r] # "none" \/ r \in v.sd.posts =>
                             v.svc[r].state \in {"Stopping"} \cup DoneStates
  BY <1>2, <1>8, <1>9, Zenon DEF AskedToStop
<1>14. ASSUME NEW r \in Outstanding(m, m.sd.at)
       PROVE  \/ v.svc[r].state \in DoneStates
              \/ v.sd.stops[r] # "none" \/ r \in v.sd.posts
  <2>1. /\ r \in Services /\ m.sd.at < Len(m.sd.waves) /\ r \in m.sd.waves[m.sd.at + 1]
        /\ m.svc[r].state \notin DoneStates
    BY OutstandingIs, Zenon
  <2>2. CASE r # s
    BY <1>2, <1>8, <1>9, <2>1, <2>2, Zenon DEF Watched
  <2>3. CASE r = s
    <3>1. m.sd.at \in Nat /\ Len(m.sd.waves) \in Nat /\ DOMAIN m.sd.waves = 1..Len(m.sd.waves)
      BY <1>2, ShapeIs, Zenon
    <3>2. m.sd.at + 1 \in DOMAIN m.sd.waves
      BY <2>1, <3>1
    <3>3. m.svc[r].state \in {"Active", "Reloading", "Stopping"}
      BY <1>2, <2>1, <3>2, Zenon DEF Planned
    <3> QED
      BY <1>5, <1>9, <2>3, <3>3, Zenon
  <2> QED
    BY <2>2, <2>3, Zenon
<1>15. Evolves(m, v)
  BY <1>1, <1>8, <1>10, <1>11, <1>12, <1>13, <1>14, Zenon DEF Evolves
<1>16. Good(v) /\ v.sd.final # "None"
  BY <1>1, <1>15, EvolvesGood, Zenon DEF Evolves
<1>17. CASE m' = Advance(v, live)
  BY <1>12, <1>16, <1>17, AdvanceGood, CalmThenOrderly, Zenon
<1>18. CASE m' = [m EXCEPT !.svc[s] = ServiceContained(x)]
  <2>1. PICK z : z = ServiceContained(x)
    BY Zenon
  <2>2. /\ SvcShape(z) /\ z.terms = m.svc[s].terms
        /\ z.state \in DoneStates \/ z.state = m.svc[s].state
    BY <2>1, ServiceContainedIs, Zenon
  <2>3. DOMAIN m' = DOMAIN m /\ m'.sd = m.sd /\ m'.svc = [m.svc EXCEPT ![s] = z]
    BY <1>6, <1>18, <2>1
  <2> QED
    BY <1>1, <2>2, <2>3, OneServiceGood, Zenon
<1> QED
  BY <1>4, <1>17, <1>18, Zenon

\* The exits of the processes, and their reaping.
LEMMA ProcessesGood ==
    ASSUME ShutdownInv, NEW s \in Services,
           ReapMain(s) \/ ReapHelper(s) \/ MainEnds(s) \/ HelperEnds(s)
    PROVE  Good(m') /\ Orderly(m, m')
<1>1. Good(m) /\ m.sd.final # "None" /\ InProgress
  BY Zenon DEF ShutdownInv, InProgress, ReapMain, ReapHelper, MainEnds, HelperEnds
<1>2. /\ SvcShape(m.svc[s]) /\ s \in DOMAIN m.svc /\ {"svc", "sd"} \subseteq DOMAIN m
  BY <1>1 DEF Good, Shape
<1>3. ASSUME NEW y, SvcShape(y), y.terms = m.svc[s].terms, y.state = m.svc[s].state,
             m' = [m EXCEPT !.svc[s] = y]
      PROVE  Good(m') /\ Orderly(m, m')
  <2>1. DOMAIN m' = DOMAIN m /\ m'.sd = m.sd /\ m'.svc = [m.svc EXCEPT ![s] = y]
    BY <1>2, <1>3
  <2> QED
    BY <1>1, <1>3, <2>1, OneServiceGood, Zenon
<1>4. CASE ReapMain(s)
  <2>1. PICK x : x = [m.svc[s] EXCEPT !.life = "none", !.exit = "Failure"]
    BY Zenon
  <2>2. SvcShape(x) /\ x.terms = m.svc[s].terms /\ x.state = m.svc[s].state
    BY <1>2, <2>1 DEF SvcShape
  <2>3. PICK y : y = [x EXCEPT !.main = "none"]
    BY Zenon
  <2>4. SvcShape(y) /\ y.terms = m.svc[s].terms /\ y.state = m.svc[s].state
    BY <2>2, <2>3 DEF SvcShape
  <2>5. \/ \E exit : ShutdownExit(s, y, exit)
        \/ m' = [m EXCEPT !.svc[s] = x]
    BY <1>4, <2>1, <2>3, Zenon DEF ReapMain
  <2> QED
    BY <1>1, <1>3, <2>2, <2>4, <2>5, ShutdownExitGood, Zenon
<1>5. CASE ReapHelper(s)
  <2>1. PICK x : x = [m.svc[s] EXCEPT !.helper = "none"]
    BY Zenon
  <2>2. SvcShape(x) /\ x.terms = m.svc[s].terms /\ x.state = m.svc[s].state
    BY <1>2, <2>1 DEF SvcShape
  <2>3. \E exit : ShutdownExit(s, x, exit)
    BY <1>5, <2>1, Zenon DEF ReapHelper
  <2> QED
    BY <1>1, <2>2, <2>3, ShutdownExitGood, Zenon
<1>6. CASE MainEnds(s)
  <2>1. PICK exit : m' = [m EXCEPT !.svc[s].life = "zombie", !.svc[s].exit = exit,
                                   !.svc[s].killed = @ /\ m.svc[s].helper = "alive"]
    BY <1>6, Zenon DEF MainEnds
  <2>2. PICK y : y = [m.svc[s] EXCEPT !.life = "zombie", !.exit = exit,
                                      !.killed = @ /\ m.svc[s].helper = "alive"]
    BY Zenon
  <2>3. SvcShape(y) /\ y.terms = m.svc[s].terms /\ y.state = m.svc[s].state
    BY <1>2, <2>2 DEF SvcShape
  <2>4. m' = [m EXCEPT !.svc[s] = y]
    BY <1>2, <2>1, <2>2, ZenonT(30) DEF SvcShape
  <2> QED
    BY <1>3, <2>3, <2>4, Zenon
<1>7. CASE HelperEnds(s)
  <2>1. m' = [m EXCEPT !.svc[s].helper = "zombie",
                       !.svc[s].killed = @ /\ m.svc[s].life = "alive"]
    BY <1>7, Zenon DEF HelperEnds
  <2>2. PICK y : y = [m.svc[s] EXCEPT !.helper = "zombie",
                                      !.killed = @ /\ m.svc[s].life = "alive"]
    BY Zenon
  <2>3. SvcShape(y) /\ y.terms = m.svc[s].terms /\ y.state = m.svc[s].state
    BY <1>2, <2>2 DEF SvcShape
  <2>4. m' = [m EXCEPT !.svc[s] = y]
    BY <1>2, <2>1, <2>2, ZenonT(30) DEF SvcShape
  <2> QED
    BY <1>3, <2>3, <2>4, Zenon
<1> QED
  BY <1>4, <1>5, <1>6, <1>7, Zenon

(***************************************************************************)
(* The handlers: the beginning and the end of a shutdown.                  *)
(***************************************************************************)
\* immediate_runtime: there is nothing left to wait for.
LEMMA ImmediateGood ==
    ASSUME NEW v, Shape(v), NEW u, DOMAIN u = DOMAIN v, DOMAIN u.svc = Services,
           \A s \in Services : SvcShape(u.svc[s]) /\ u.svc[s].terms = v.svc[s].terms,
           u.sd = ImmediateRuntime(v.sd)
    PROVE  Good(u) /\ Orderly(v, u)
<1>1. /\ DOMAIN u.sd = {"waves", "already", "at", "stops", "posts", "fired", "final", "forced",
                        "cleaned"}
      /\ u.sd.waves = <<>> /\ u.sd.already = {} /\ u.sd.at = 0 /\ u.sd.posts = {}
      /\ u.sd.stops = [s \in Services |-> "none"] /\ u.sd.final = "Failed"
  BY DEF ImmediateRuntime, NoShutdown
<1>2. u.sd.waves \in Seq(SUBSET Services) /\ Len(u.sd.waves) = 0 /\ DOMAIN u.sd.waves = {}
  BY <1>1
<1>3. DOMAIN u.sd.stops = Services /\ \A s \in Services : u.sd.stops[s] = "none"
  BY <1>1, Zenon
<1>4. 0 \in Nat /\ 0..(u.sd.at - 1) = {} /\ ~(u.sd.at < Len(u.sd.waves))
  BY <1>1, <1>2
<1>5. Shape(u)
  BY <1>1, <1>2, <1>3, <1>4, Zenon DEF Shape
<1>6. Outstanding(u, u.sd.at) = {}
  BY <1>4, OutstandingIs, Zenon
<1>7. u.sd.final # "None"
  BY <1>1
<1>8. Before(u) /\ Ordered(u) /\ Planned(u)
  BY <1>2, <1>7, Zenon DEF Before, Ordered, Planned
<1>9. AskedToStop(u) /\ EarlierDone(u) /\ Watched(u)
  BY <1>1, <1>3, <1>4, <1>6, Zenon DEF AskedToStop, EarlierDone, Watched
<1>10. Calm(v, u)
  BY <1>3, Zenon DEF Calm
<1> QED
  BY <1>5, <1>8, <1>9, <1>10, CalmIsOrderly, Zenon DEF Good

\* The forced reboot of the third SIGINT, and that of a Critical service.
LEMMA RebootGood ==
    ASSUME ShutdownInv, CriticalReboot \/ \E n : ForceReboot(n)
    PROVE  Good(m') /\ Orderly(m, m')
<1>1. Shape(m) /\ {"svc", "sd", "presses"} \subseteq DOMAIN m /\ DOMAIN m.svc = Services
  BY DEF ShutdownInv, Good, Shape
<1>2. CASE CriticalReboot
  <2>1. m' = [m EXCEPT !.sd = ImmediateRuntime(m.sd)]
    BY <1>2, Zenon DEF CriticalReboot
  <2>2. DOMAIN m' = DOMAIN m /\ m'.svc = m.svc /\ m'.sd = ImmediateRuntime(m.sd)
    BY <1>1, <2>1
  <2>3. \A s \in Services : SvcShape(m'.svc[s]) /\ m'.svc[s].terms = m.svc[s].terms
    BY <1>1, <2>2, Zenon DEF Shape
  <2>4. DOMAIN m'.svc = Services
    BY <1>1, <2>2, Zenon
  <2> QED
    BY <1>1, <2>2, <2>3, <2>4, ImmediateGood, Zenon
<1>3. ASSUME NEW n, ForceReboot(n) PROVE Good(m') /\ Orderly(m, m')
  <2>1. PICK f : f = KillAll(m.svc)
    BY Zenon
  <2>2. m' = [m EXCEPT !.presses = n, !.sd = ImmediateRuntime(m.sd), !.svc = f]
    BY <1>1, <1>3, <2>1, ZenonT(30) DEF ForceReboot
  <2>3. DOMAIN m' = DOMAIN m /\ m'.svc = f /\ m'.sd = ImmediateRuntime(m.sd)
    BY <1>1, <2>2
  <2>4. /\ DOMAIN f = Services
        /\ \A s \in Services : f[s] = m.svc[s] \/ f[s] = FailStop(KillTree(m.svc[s]))
    BY <2>1, Zenon DEF KillAll
  <2>5. \A s \in Services : SvcShape(m'.svc[s]) /\ m'.svc[s].terms = m.svc[s].terms
    <3> SUFFICES ASSUME NEW s \in Services
                 PROVE  SvcShape(f[s]) /\ f[s].terms = m.svc[s].terms
      BY <2>3, Zenon
    <3>1. SvcShape(m.svc[s])
      BY <1>1, Zenon DEF Shape
    <3> QED
      BY <2>4, <3>1, KilledIs, Zenon
  <2> QED
    BY <1>1, <2>3, <2>4, <2>5, ImmediateGood, Zenon
<1> QED
  BY <1>2, <1>3, Zenon

\* What begin_shutdown does to a service before the first wave.
LEMMA PreparedIs ==
    ASSUME NEW x, SvcShape(x), NEW y, y = Prepared(x)
    PROVE  /\ SvcShape(y) /\ y.terms = x.terms
           /\ x.state \in {"Active", "Reloading", "Stopping"} => y.state = x.state
           /\ x.state = "Starting" => y.state = "Failed"
<1>1. CASE x.state = "Completed"
  <2>1. y = ClearCompleted(x)
    BY <1>1 DEF Prepared
  <2> QED
    BY <1>1, <2>1 DEF ClearCompleted, SvcShape
<1>2. CASE x.state = "Starting"
  <2>1. y = KillStarting(x)
    BY <1>2 DEF Prepared
  <2>2. PICK z : z = [FailUnforked(x) EXCEPT !.state = "Failed", !.cause = "ShutdownWave"]
    BY Zenon
  <2>3. SvcShape(z) /\ z.terms = x.terms /\ z.state = "Failed"
    BY <2>2 DEF FailUnforked, SvcShape
  <2>4. y = KillTree(z)
    BY <2>1, <2>2, Zenon DEF KillStarting
  <2>5. SvcShape(y) /\ y.terms = z.terms /\ y.state = z.state
    BY <2>3, <2>4, KillTreeIs, Zenon
  <2> QED
    BY <1>2, <2>3, <2>5
<1>3. CASE x.state \in {"Active", "Reloading", "Stopping"}
  <2>1. y = [x EXCEPT !.stop = "Pending"]
    BY <1>3 DEF Prepared, RequestStop
  <2> QED
    BY <1>3, <2>1 DEF SvcShape
<1>4. CASE x.state \notin {"Completed", "Starting", "Active", "Reloading", "Stopping"}
  <2>1. y = x
    BY <1>4 DEF Prepared
  <2> QED
    BY <1>4, <2>1
<1> QED
  BY <1>1, <1>2, <1>3, <1>4, Zenon

\* begin_shutdown: the plan is made, and its first wave begins.
LEMMA BeginShutdownGood ==
    ASSUME ShutdownInv, NEW n, BeginShutdown(n)
    PROVE  Good(m') /\ Orderly(m, m')
<1>1. Good(m) /\ Shape(m) /\ m.sd = NoShutdown
  BY Zenon DEF ShutdownInv, Good, Before, BeginShutdown, InProgress
<1>2. PICK ws : ws = Waves(Candidates(m.svc)).waves
  BY Zenon
<1>3. PICK f : f = [s \in Services |-> Prepared(m.svc[s])]
  BY Zenon
<1>4. PICK already : already = {s \in Services : m.svc[s].state = "Stopping"}
  BY Zenon
<1>5. PICK posts : posts = {s \in Services : m.svc[s].state = "Starting"
                                             /\ m.svc[s].main = "running"}
  BY Zenon
<1>6. PICK v : v = [m EXCEPT !.presses = n, !.svc = f, !.sd.waves = ws,
                             !.sd.already = already, !.sd.posts = posts]
  BY Zenon
<1>7. {"svc", "sd", "presses"} \subseteq DOMAIN m
  BY <1>1 DEF Shape
<1>8. PICK final \in {"Ready", "WaitingForServices"} :
        m' = [BeginStopWave(v, 0) EXCEPT !.sd.final = final]
  <2>1. v = [m EXCEPT !.presses = n, !.svc = [s \in Services |-> Prepared(@[s])],
                      !.sd.waves = ws, !.sd.already = already, !.sd.posts = posts]
    BY <1>3, <1>6, <1>7
  <2> QED
    BY <1>2, <1>4, <1>5, <2>1, Zenon DEF BeginShutdown
<1>9. /\ DOMAIN m.sd = {"waves", "already", "at", "stops", "posts", "fired", "final", "forced",
                        "cleaned"}
      /\ m.sd.at = 0 /\ m.sd.stops = [s \in Services |-> "none"]
  BY <1>1 DEF NoShutdown
<1>10. /\ DOMAIN v = DOMAIN m /\ v.svc = f
       /\ v.sd = [m.sd EXCEPT !.waves = ws, !.already = already, !.posts = posts]
  BY <1>6, <1>7
<1>11. /\ DOMAIN v.sd = DOMAIN m.sd /\ v.sd.waves = ws /\ v.sd.already = already
       /\ v.sd.posts = posts /\ v.sd.at = 0 /\ v.sd.stops = m.sd.stops
       /\ v.sd.final = m.sd.final
  BY <1>9, <1>10
<1>12. ASSUME NEW s \in Services
       PROVE  /\ v.sd.stops[s] = "none" /\ m.sd.stops[s] = "none"
              /\ SvcShape(v.svc[s]) /\ v.svc[s].terms = m.svc[s].terms
              /\ m.svc[s].state \in {"Active", "Reloading", "Stopping"} =>
                   v.svc[s].state = m.svc[s].state
              /\ m.svc[s].state = "Starting" => v.svc[s].state = "Failed"
  <2>1. SvcShape(m.svc[s]) /\ v.svc[s] = Prepared(m.svc[s])
    BY <1>1, <1>3, <1>10, Zenon DEF Shape
  <2>2. v.sd.stops[s] = "none" /\ m.sd.stops[s] = "none"
    BY <1>9, <1>11, Zenon
  <2> QED
    BY <2>1, <2>2, PreparedIs, Zenon
<1>13. Candidates(m.svc) \in SUBSET Services
  BY Zenon DEF Candidates
<1>14. /\ ws \in Seq(SUBSET Services)
       /\ \A k \in DOMAIN ws : ws[k] \subseteq Candidates(m.svc)
       /\ \A i, k \in DOMAIN ws : \A s \in ws[i], d \in ws[k] : DependsOn(d, s) => k < i
  <2>1. PICK among \in SUBSET Services : among = Candidates(m.svc)
    BY <1>13, Zenon
  <2>2. ws = Waves(among).waves
    BY <1>2, <2>1, Zenon
  <2>3. /\ ws \in Seq(SUBSET Services)
        /\ \A k \in DOMAIN ws : ws[k] \subseteq among
        /\ \A i, k \in DOMAIN ws : \A s \in ws[i], d \in ws[k] : DependsOn(d, s) => k < i
    BY <2>2, WavesAreOrdered, Zenon
  <2> QED
    BY <2>1, <2>3, Zenon
<1>15. Shape(v)
  <2>1. DOMAIN v.svc = Services /\ DOMAIN v.sd.stops = Services
    <3>1. DOMAIN f = Services
      BY <1>3, Zenon
    <3>2. DOMAIN m.sd.stops = Services
      BY <1>9, Zenon
    <3> QED
      BY <1>10, <1>11, <3>1, <3>2, Zenon
  <2>2. already \subseteq Services /\ posts \subseteq Services /\ 0 \in Nat
    BY <1>4, <1>5, Zenon
  <2>3. DOMAIN v = {"svc", "sd", "presses", "loop", "mounts", "busy"}
    BY <1>1, <1>10, Zenon DEF Shape
  <2> QED
    BY <1>9, <1>11, <1>12, <1>14, <2>1, <2>2, <2>3, Zenon DEF Shape
<1>16. Ordered(v)
  BY <1>11, <1>14, Zenon DEF Ordered
<1>17. Planned(v)
  <2> SUFFICES ASSUME NEW k \in DOMAIN ws, NEW s \in ws[k]
               PROVE  v.svc[s].state \in {"Active", "Reloading", "Stopping"}
    BY <1>11, Zenon DEF Planned
  <2>1. s \in Services /\ m.svc[s].state \in {"Active", "Reloading", "Stopping"}
    BY <1>14, Zenon DEF Candidates
  <2> QED
    BY <1>12, <2>1, Zenon
<1>18. AskedToStop(v)
  <2> SUFFICES ASSUME NEW s \in Services,
                      s \in v.sd.already \/ v.sd.stops[s] # "none" \/ s \in v.sd.posts
               PROVE  v.svc[s].state \in {"Stopping"} \cup DoneStates
    BY Zenon DEF AskedToStop
  <2>1. m.svc[s].state = "Stopping" \/ m.svc[s].state = "Starting"
    <3>1. s \in already \/ s \in posts
      BY <1>11, <1>12, Zenon
    <3>2. s \in already => m.svc[s].state = "Stopping"
      BY <1>4, Zenon
    <3>3. s \in posts => m.svc[s].state = "Starting"
      BY <1>5, Zenon
    <3> QED
      BY <3>1, <3>2, <3>3, Zenon
  <2>2. v.svc[s].state = "Stopping" \/ v.svc[s].state = "Failed"
    BY <1>12, <2>1, Zenon
  <2> QED
    BY <2>2, Zenon DEF DoneStates
<1>19. PICK u : u = BeginStopWave(v, 0)
  BY Zenon
<1>20. /\ Shape(u) /\ Ordered(u) /\ Planned(u) /\ AskedToStop(u) /\ EarlierDone(u)
       /\ Watched(u) /\ Orderly(v, u)
  <2>1. 0 \in Nat /\ 0..(0 - 1) = {}
    OBVIOUS
  <2>2. \A j \in 0..(0 - 1) : Outstanding(v, j) = {}
    BY <2>1, Zenon
  <2> QED
    BY <1>15, <1>16, <1>17, <1>18, <1>19, <2>1, <2>2, BeginStopWaveGood, Zenon
<1>21. Calm(m, v)
  BY <1>12, Zenon DEF Calm
<1>22. Orderly(m, u)
  BY <1>20, <1>21, CalmThenOrderly, Zenon
<1>23. {"svc", "sd"} \subseteq DOMAIN u /\ {"final"} \subseteq DOMAIN u.sd
  BY <1>20 DEF Shape
<1>24. /\ DOMAIN m' = DOMAIN u /\ m'.svc = u.svc /\ m'.sd = [u.sd EXCEPT !.final = final]
  BY <1>8, <1>19, <1>23
<1>25. /\ DOMAIN m'.sd = DOMAIN u.sd /\ m'.sd.waves = u.sd.waves
       /\ m'.sd.already = u.sd.already /\ m'.sd.posts = u.sd.posts /\ m'.sd.at = u.sd.at
       /\ m'.sd.stops = u.sd.stops /\ m'.sd.final # "None"
  BY <1>23, <1>24
<1>26. Good(m')
  <2>1. \A k : Outstanding(m', k) = Outstanding(u, k)
    BY <1>24, <1>25, OutstandingIs, Zenon
  <2>2. Shape(m')
    BY <1>20, <1>24, <1>25, Zenon DEF Shape
  <2>3. Before(m') /\ Ordered(m') /\ Planned(m') /\ AskedToStop(m')
    BY <1>20, <1>24, <1>25, Zenon DEF Before, Ordered, Planned, AskedToStop
  <2>4. EarlierDone(m') /\ Watched(m')
    BY <1>20, <1>25, <2>1, Zenon DEF EarlierDone, Watched
  <2> QED
    BY <2>2, <2>3, <2>4, Zenon DEF Good
<1>27. Orderly(m, m')
  BY <1>22, <1>24, <1>25, Zenon DEF Orderly
<1> QED
  BY <1>26, <1>27, Zenon

\* finalize_due_shutdown: the plan and the services stay as they are.
LEMMA FinalizeGood ==
    ASSUME ShutdownInv, FinalizeDue
    PROVE  Good(m') /\ Orderly(m, m')
<1>1. Good(m) /\ Shape(m) /\ AskedToStop(m) /\ Watched(m)
  BY Zenon DEF ShutdownInv, Good
<1>2. /\ {"svc", "sd", "busy", "mounts"} \subseteq DOMAIN m
      /\ {"cleaned", "final"} \subseteq DOMAIN m.sd
  BY <1>1 DEF Shape
<1>3. ASSUME NEW v, DOMAIN v = DOMAIN m, v.svc = m.svc, DOMAIN v.sd = DOMAIN m.sd,
             v.sd.waves = m.sd.waves, v.sd.already = m.sd.already, v.sd.posts = m.sd.posts,
             v.sd.at = m.sd.at, v.sd.stops = m.sd.stops, m' \in AfterReboot(v)
      PROVE  Good(m') /\ Orderly(m, m')
  <2>1. PICK final \in {"Completed", "Failed"} : m' = [v EXCEPT !.sd.final = final]
    BY <1>3, Zenon DEF AfterReboot
  <2>2. DOMAIN m' = DOMAIN m /\ m'.svc = m.svc /\ m'.sd = [v.sd EXCEPT !.final = final]
    BY <1>2, <1>3, <2>1
  <2>3. /\ DOMAIN m'.sd = DOMAIN m.sd /\ m'.sd.waves = m.sd.waves
        /\ m'.sd.already = m.sd.already /\ m'.sd.posts = m.sd.posts /\ m'.sd.at = m.sd.at
        /\ m'.sd.stops = m.sd.stops /\ m'.sd.final # "None"
    BY <1>2, <1>3, <2>2
  <2>4. Shape(m') /\ Calm(m, m')
    BY <1>1, <2>2, <2>3, Zenon DEF Shape, Calm
  <2>5. Evolves(m, m')
    BY <1>1, <2>2, <2>3, <2>4, Zenon DEF Evolves, AskedToStop, Watched
  <2> QED
    BY <1>1, <2>4, <2>5, EvolvesGood, CalmIsOrderly, Zenon
<1>4. CASE m.sd.final = "Ready"
  <2>1. PICK busy : m' \in AfterReboot(Finalization(busy))
    BY <1>4, Zenon DEF FinalizeDue
  <2>2. PICK mounts : mounts = CleanedMounts(busy)
    BY Zenon
  <2>3. PICK v : v = [m EXCEPT !.sd.cleaned = TRUE, !.busy = busy, !.mounts = mounts]
    BY Zenon
  <2>4. v = Finalization(busy)
    BY <2>2, <2>3, Zenon DEF Finalization
  <2>5. DOMAIN v = DOMAIN m /\ v.svc = m.svc /\ v.sd = [m.sd EXCEPT !.cleaned = TRUE]
    BY <1>2, <2>3
  <2>6. /\ DOMAIN v.sd = DOMAIN m.sd
        /\ v.sd.waves = m.sd.waves /\ v.sd.already = m.sd.already /\ v.sd.posts = m.sd.posts
        /\ v.sd.at = m.sd.at /\ v.sd.stops = m.sd.stops
    BY <1>2, <2>5
  <2> QED
    BY <1>3, <2>1, <2>4, <2>5, <2>6, Zenon
<1>5. CASE m.sd.final # "Ready"
  BY <1>3, <1>5, Zenon DEF FinalizeDue
<1> QED
  BY <1>4, <1>5, Zenon

\* The end of a job may let the shutdown move on; nothing else of a job does.
LEMMA JobStepGood ==
    ASSUME ShutdownInv, JobStep
    PROVE  Good(m') /\ Orderly(m, m')
<1>1. Good(m) /\ Shape(m)
  BY Zenon DEF ShutdownInv, Good
<1>2. CASE m' = m
  BY <1>1, <1>2, UnmovedGood, Zenon
<1>3. ASSUME NEW exited, AfterJobExit(exited) PROVE Good(m') /\ Orderly(m, m')
  <2>1. m' = m \/ (m.sd.final # "None" /\ m' = Advance(m, LiveJobs(w') # {}))
    BY <1>3, Zenon DEF AfterJobExit, InProgress
  <2> QED
    BY <1>1, <1>2, <2>1, AdvanceGood, Zenon
<1>4. m' = m \/ \E exited : AfterJobExit(exited)
  BY Zenon DEF JobStep, JobCommand, JobLifecycleDeadline, JobReaped, JobReplayed
<1> QED
  BY <1>2, <1>3, <1>4, Zenon

(***************************************************************************)
(* The theorems.                                                           *)
(***************************************************************************)
\* The invariant holds before there is a shutdown.
LEMMA InitGood == InitShutdown => ShutdownInv
<1> SUFFICES ASSUME InitShutdown PROVE Good(m)
  BY Zenon DEF ShutdownInv
<1>1. PICK f \in InitialServices :
        m = [svc |-> f, sd |-> NoShutdown, presses |-> 0, loop |-> TRUE,
             mounts |-> [p \in Mounts |-> "mounted"], busy |-> {}]
  BY Zenon DEF InitShutdown
<1>2. /\ DOMAIN m = {"svc", "sd", "presses", "loop", "mounts", "busy"}
      /\ m.svc = f /\ m.sd = NoShutdown
  BY <1>1
<1>3. /\ DOMAIN m.sd = {"waves", "already", "at", "stops", "posts", "fired", "final", "forced",
                        "cleaned"}
      /\ m.sd.waves = <<>> /\ m.sd.already = {} /\ m.sd.at = 0 /\ m.sd.posts = {}
      /\ m.sd.stops = [s \in Services |-> "none"]
  BY <1>2 DEF NoShutdown
<1>4. m.sd.waves \in Seq(SUBSET Services) /\ Len(m.sd.waves) = 0 /\ DOMAIN m.sd.waves = {}
  BY <1>3
<1>5. DOMAIN m.sd.stops = Services /\ \A s \in Services : m.sd.stops[s] = "none"
  BY <1>3, Zenon
<1>6. 0 \in Nat /\ 0..(m.sd.at - 1) = {} /\ ~(m.sd.at < Len(m.sd.waves))
  BY <1>3, <1>4
<1>7. DOMAIN f = Services /\ \A s \in Services : f[s] \in Service
  BY InitialServicesAssumption, Zenon
<1>8. \A s \in Services : SvcShape(f[s])
  BY <1>7 DEF Service, SvcShape
<1>9. Shape(m)
  BY <1>2, <1>3, <1>4, <1>5, <1>6, <1>7, <1>8, Zenon DEF Shape
<1>10. Outstanding(m, m.sd.at) = {}
  BY <1>6, OutstandingIs, Zenon
<1>11. Before(m) /\ Ordered(m) /\ Planned(m)
  BY <1>2, <1>4, Zenon DEF Before, Ordered, Planned
<1>12. AskedToStop(m) /\ EarlierDone(m) /\ Watched(m)
  BY <1>3, <1>5, <1>6, <1>10, Zenon DEF AskedToStop, EarlierDone, Watched
<1> QED
  BY <1>9, <1>11, <1>12, Zenon DEF Good

\* Every handler keeps the invariant and stops what it stops in order.
LEMMA StepGood ==
    ASSUME ShutdownInv, NextShutdown
    PROVE  Good(m') /\ Orderly(m, m')
<1>1. CASE RequestShutdown
  BY <1>1, BeginShutdownGood, Zenon DEF RequestShutdown
<1>2. CASE Sigint
  <2>1. PICK n : \/ ForceReboot(n)
                 \/ BeginShutdown(n)
                 \/ m' = [m EXCEPT !.presses = n]
    BY <1>2, Zenon DEF Sigint
  <2>2. CASE m' = [m EXCEPT !.presses = n]
    <3>1. DOMAIN m' = DOMAIN m /\ m'.svc = m.svc /\ m'.sd = m.sd
      BY <2>2
    <3> QED
      BY <3>1, UnmovedGood, Zenon DEF ShutdownInv
  <2> QED
    BY <2>1, <2>2, RebootGood, BeginShutdownGood, Zenon
<1>3. CASE CriticalReboot
  BY <1>3, RebootGood, Zenon
<1>4. CASE TimerFires
  BY <1>4, ShutdownTimerGood, Zenon DEF TimerFires
<1>5. CASE FinalizeDue
  BY <1>5, FinalizeGood, Zenon
<1>6. CASE \E s \in Services : ReapMain(s) \/ ReapHelper(s) \/ MainEnds(s) \/ HelperEnds(s)
  BY <1>6, ProcessesGood, Zenon
<1>7. CASE JobStep
  BY <1>7, JobStepGood, Zenon
<1> QED
  BY <1>1, <1>2, <1>3, <1>4, <1>5, <1>6, <1>7, Zenon DEF NextShutdown

\* A step, or none, keeps the invariant and the order.
LEMMA NextGood ==
    ASSUME ShutdownInv, [NextShutdown]_allvars
    PROVE  ShutdownInv' /\ Orderly(m, m')
<1>1. CASE NextShutdown
  BY <1>1, StepGood, Zenon DEF ShutdownInv
<1>2. CASE UNCHANGED allvars
  <2>1. m' = m
    BY <1>2, Zenon DEF allvars
  <2>2. Good(m') /\ Orderly(m, m')
    BY <2>1, UnmovedGood, Zenon DEF ShutdownInv
  <2> QED
    BY <2>2, Zenon DEF ShutdownInv
<1> QED
  BY <1>1, <1>2, Zenon

\* The inductive invariant: the plan is in reverse dependency order, the waves
\* before the current one have stopped, and what the current one waits for has
\* a deadline.
THEOREM ShutdownInvariant == SpecShutdown => []ShutdownInv
<1>1. ShutdownInv /\ [NextShutdown]_allvars => ShutdownInv'
  BY NextGood
<1> QED
  BY <1>1, InitGood, PTL DEF SpecShutdown

\* The shutdown never waits for a service without a deadline that ends the
\* wait, whatever the service was doing when it began: not when the stop began
\* before the shutdown with no usable evidence of when, nor after a kill.
THEOREM EveryWaitHasAnEnd == SpecShutdown => []WaitHasAnEnd
<1>1. ShutdownInv => WaitHasAnEnd
  BY Zenon DEF ShutdownInv, Good, Watched, WaitHasAnEnd
<1> QED
  BY <1>1, ShutdownInvariant, PTL

\* No service is sent SIGTERM, nor given a stop deadline, before every
\* participant that depends on it has stopped, for any dependencies, however
\* exits, deadlines, the global timeout and jobs' ends interleave.
THEOREM DependentsStopFirst == SpecShutdown => StopsInReverseOrder
<1>1. ShutdownInv /\ [NextShutdown]_allvars =>
        [\A s \in Services :
            m'.svc[s].terms > m.svc[s].terms
            \/ (m.sd.stops[s] = "none" /\ m'.sd.stops[s] # "none") =>
              \A k \in DOMAIN m'.sd.waves : \A d \in m'.sd.waves[k] :
                s \in Requires[d] \/ (s \in CompiledIn /\ d \notin CompiledIn) =>
                    DoneForShutdown(m'.svc[d])]_allvars
  <2> SUFFICES ASSUME ShutdownInv, [NextShutdown]_allvars PROVE Orderly(m, m')
    BY Zenon DEF Orderly, DependsOn
  <2> QED
    BY NextGood, Zenon
<1> QED
  BY <1>1, ShutdownInvariant, PTL DEF SpecShutdown, StopsInReverseOrder

=============================================================================
