------------------------- MODULE OperationStoreProofs -------------------------
(***************************************************************************)
(* Theorems about the operation store, for any number of services and of   *)
(* requests.  One lemma per method of the store says that the method keeps *)
(* a well-formed store well formed, from the lemmas about the three maps;  *)
(* the inductive invariant of the specification follows call by call.      *)
(***************************************************************************)
EXTENDS OperationStore, WellFoundedInduction, TLAPS

\* Only the head of a list runs, apart from shutdown's stops.  This is what
\* makes OneRunningPerService inductive.
RunsAtHead(R, A) ==
    \A s \in Services : \A i \in DOMAIN A[s] :
        \/ i = 1
        \/ R[A[s][i]].state = "Pending"
        \/ R[A[s][i]].source = "Shutdown"

\* Shutdown's operations are stops, and stay out of the queue.
ShutdownApart(R, Q) ==
    /\ \A id \in DOMAIN R : R[id].source = "Shutdown" => R[id].type = "Stop"
    /\ \A id \in DOMAIN Q : R[id].source # "Shutdown"

\* The invariant while a new operation is in its list and not yet queued.
PreInv(R, A, Q, n) ==
    /\ StoreType(R, A, Q, n)
    /\ ListsLiveOnce(R, A)
    /\ QueueWaits(R, Q)
    /\ RunsAtHead(R, A)
    /\ InRequestOrder(A)
    /\ ShutdownApart(R, Q)

\* The inductive invariant of the three maps.
Inv(R, A, Q, n) == PreInv(R, A, Q, n) /\ QueuedBehindHead(R, A, Q)

\* All but the heads are queued, and perhaps id is not.
QueuedExcept(R, A, Q, id) ==
    \A s \in Services : \A i \in DOMAIN A[s] :
        \/ i = 1
        \/ A[s][i] = id
        \/ A[s][i] \in DOMAIN Q
        \/ R[A[s][i]].source = "Shutdown"

-----------------------------------------------------------------------------
\* The positions of a list.
LEMMA SeqDomain ==
    ASSUME NEW S, NEW q \in Seq(S)
    PROVE  DOMAIN q = 1..Len(q) /\ Len(q) \in Nat /\ \A i \in DOMAIN q : q[i] \in S
OBVIOUS

\* A list over a set is a list over every larger one.
LEMMA SeqOfSuperset ==
    ASSUME NEW S, NEW T, S \subseteq T, NEW q \in Seq(S)
    PROVE  q \in Seq(T)
OBVIOUS

\* What is in a list stays where it is when another entry is appended.
LEMMA AppendProperties ==
    ASSUME NEW S, NEW q \in Seq(S), NEW y \in S
    PROVE  /\ Append(q, y) \in Seq(S)
           /\ \A i \in DOMAIN q : i \in DOMAIN Append(q, y) /\ Append(q, y)[i] = q[i]
OBVIOUS

\* A set of natural numbers that is not empty has a least element.
LEMMA LeastNatural ==
    ASSUME NEW S \in SUBSET Nat, S # {}
    PROVE  \E x \in S : \A y \in S : x <= y
<1>1. IsWellFoundedOn(OpToRel(<,Nat), Nat)
  BY NatLessThanWellFounded, Zenon
<1> DEFINE R == {p \in Nat \X Nat : p[1] < p[2]}
<1>2. OpToRel(<,Nat) = R
  BY Zenon DEF OpToRel
<1>3. IsWellFoundedOn(R, Nat)
  BY <1>1, <1>2, Zenon
<1> HIDE DEF R
<1>4. PICK x \in S : \A y \in S : ~(<<y, x>> \in R)
  BY <1>3, WFMin, Zenon
<1>5. \A y \in S : y < x => <<y, x>> \in R
  BY Zenon DEF R
<1>6. \A y \in S : ~(y < x)
  BY <1>4, <1>5, Zenon
<1>7. x \in Nat /\ \A y \in S : y \in Nat
  BY Zenon
<1> QED
  BY <1>6, <1>7

\* The list s without its entry at position k: what stood behind it moves up.
Removed(rest, s, k, S) ==
    /\ rest \in Seq(S)
    /\ Len(rest) = Len(s) - 1
    /\ DOMAIN rest = 1..(Len(s) - 1)
    /\ \A j \in 1..(Len(s) - 1) : rest[j] = IF j < k THEN s[j] ELSE s[j + 1]

\* Removing an identifier from a list that holds it once, at position k.
LEMMA WithoutProperties ==
    ASSUME NEW S, NEW s \in Seq(S), NEW k \in DOMAIN s, NEW id, s[k] = id,
           \A i, j \in DOMAIN s : s[i] = s[j] => i = j
    PROVE  Removed(Without(s, id), s, k, S)
<1>1. id \in Members(s)
  BY Zenon DEF Members
<1>2. (CHOOSE i \in DOMAIN s : s[i] = id) = k
  BY Zenon
<1>3. Without(s, id) = [j \in 1..(Len(s) - 1) |-> IF j < k THEN s[j] ELSE s[j + 1]]
  BY <1>1, <1>2, Zenon DEF Without
<1>4. DOMAIN s = 1..Len(s) /\ Len(s) \in Nat /\ k \in 1..Len(s) /\ Len(s) - 1 \in Nat
  OBVIOUS
<1>5. \A j \in 1..(Len(s) - 1) : s[j] \in S /\ s[j + 1] \in S
  BY <1>4
<1> DEFINE n == Len(s) - 1
           f == [j \in 1..n |-> IF j < k THEN s[j] ELSE s[j + 1]]
<1>6. f \in [1..n -> S]
  BY <1>5, Zenon
<1>7. f \in Seq(S) /\ Len(f) = n
  BY <1>4, <1>6
<1> QED
  BY <1>3, <1>7, Zenon DEF Removed

\* Removing the head of a list moves every other entry up.
LEMMA WithoutHead ==
    ASSUME NEW S, NEW s \in Seq(S), 1 \in DOMAIN s,
           \A i, j \in DOMAIN s : s[i] = s[j] => i = j
    PROVE  /\ DOMAIN Without(s, s[1]) = 1..(Len(s) - 1)
           /\ \A j \in 1..(Len(s) - 1) : Without(s, s[1])[j] = s[j + 1]
<1>1. PICK k \in DOMAIN s : k = 1
  BY Zenon
<1>2. PICK id : id = s[k]
  BY Zenon
<1>3. Removed(Without(s, id), s, k, S)
  BY <1>2, WithoutProperties, Zenon
<1>4. \A j \in 1..(Len(s) - 1) : ~(j < k)
  BY <1>1
<1>5. id = s[1]
  BY <1>1, <1>2, Zenon
<1>6. PICK rest : rest = Without(s, id)
  BY Zenon
<1>7. /\ DOMAIN rest = 1..(Len(s) - 1)
      /\ \A j \in 1..(Len(s) - 1) : rest[j] = s[j + 1]
  BY <1>3, <1>4, <1>6, Zenon DEF Removed
<1> QED
  BY <1>5, <1>6, <1>7, Zenon

-----------------------------------------------------------------------------
\* A live operation ends (complete, fail, cancel, abort): it leaves its list
\* and the queue, and nothing else changes.
LEMMA EndCore ==
    ASSUME NEW n \in Nat \ {0}, NEW R, NEW A, NEW Q, Inv(R, A, Q, n),
           NEW id \in DOMAIN R, ~IsTerminal(R[id].state), NEW state \in TerminalStates,
           NEW svc, svc = R[id].service,
           NEW nR, nR = [R EXCEPT ![id] = WithState(@, state)],
           NEW nA, nA = [A EXCEPT ![svc] = Without(@, id)],
           NEW nQ, nQ = Drop(Q, id)
    PROVE  Inv(nR, nA, nQ, n)
<1> USE DEF LiveIn
<1>0. PICK list : list = A[svc]
  BY Zenon
<1>1. svc \in Services /\ R[id] \in OperationRecord
  BY Zenon DEF Inv, PreInv, StoreType, OperationRecord
<1>2. PICK k \in DOMAIN list : list[k] = id
  BY <1>0, <1>1 DEF Inv, PreInv, ListsLiveOnce, Members, LiveIn
<1>3. list \in Seq(1..(n - 1))
  BY <1>0, <1>1, Zenon DEF Inv, PreInv, StoreType
<1>4. \A i, j \in DOMAIN list : list[i] = list[j] => i = j
  BY <1>0, <1>1 DEF Inv, PreInv, ListsLiveOnce
<1>42. PICK rest : rest = Without(list, id)
  BY Zenon
<1>43. Removed(Without(list, id), list, k, 1..(n - 1))
  BY <1>2, <1>3, <1>4, WithoutProperties, Zenon
<1>5. /\ rest \in Seq(1..(n - 1))
      /\ Len(rest) = Len(list) - 1
      /\ DOMAIN rest = 1..(Len(list) - 1)
      /\ \A j \in 1..(Len(list) - 1) : rest[j] = IF j < k THEN list[j] ELSE list[j + 1]
  BY <1>42, <1>43, Zenon DEF Removed
<1>51. /\ k \in 1..Len(list) /\ Len(list) \in Nat
       /\ DOMAIN list = 1..Len(list)
  BY <1>2, <1>3
<1>7. /\ DOMAIN nR = DOMAIN R
      /\ nR[id].state = state /\ IsTerminal(state)
      /\ nR[id] \in OperationRecord
      /\ \A x \in DOMAIN R :
            /\ x # id => nR[x] = R[x]
            /\ nR[x].service = R[x].service
            /\ nR[x].source = R[x].source
            /\ nR[x].type = R[x].type
  BY <1>1, Zenon DEF Inv, PreInv, StoreType, WithState, OperationRecord, OperationStates, IsTerminal
<1>8. /\ DOMAIN nQ = DOMAIN Q \ {id}
      /\ \A x \in DOMAIN nQ : nQ[x] = Q[x]
  BY Zenon DEF Drop
<1>9. DOMAIN A = Services /\ \A s \in Services : A[s] \in Seq(1..(n - 1))
  BY Zenon DEF Inv, PreInv, StoreType
<1>10. \A s \in Services : s # svc => nA[s] = A[s]
  BY <1>9, Zenon
<1>11. nA[svc] = rest /\ DOMAIN nA = Services
  BY <1>0, <1>1, <1>42, <1>9, Zenon
\* Position i of a new list is position Old(s, i) of the old one.
<1> DEFINE Old(s, i) == IF s = svc /\ i >= k THEN i + 1 ELSE i
<1>12. \A s \in Services : DOMAIN nA[s] = 1..Len(nA[s])
                            /\ DOMAIN A[s] = 1..Len(A[s])
                            /\ Len(nA[s]) \in Nat /\ Len(A[s]) \in Nat
                            /\ nA[s] \in Seq(1..(n - 1))
  <2>1. \A s \in Services : nA[s] \in Seq(1..(n - 1))
    BY <1>5, <1>9, <1>10, <1>11, Zenon
  <2> SUFFICES ASSUME NEW s \in Services
               PROVE  /\ DOMAIN nA[s] = 1..Len(nA[s]) /\ Len(nA[s]) \in Nat
                      /\ DOMAIN A[s] = 1..Len(A[s]) /\ Len(A[s]) \in Nat
    BY <2>1, Zenon
  <2>2. A[s] \in Seq(1..(n - 1)) /\ nA[s] \in Seq(1..(n - 1))
    BY <2>1, <1>9, Zenon
  <2> QED
    BY <2>2, SeqDomain
<1>13. \A s \in Services : \A i \in DOMAIN nA[s] :
          /\ Old(s, i) \in DOMAIN A[s]
          /\ nA[s][i] = A[s][Old(s, i)]
          /\ nA[s][i] # id
  <2> SUFFICES ASSUME NEW s \in Services, NEW i \in DOMAIN nA[s]
               PROVE  /\ Old(s, i) \in DOMAIN A[s]
                      /\ nA[s][i] = A[s][Old(s, i)]
                      /\ nA[s][i] # id
    BY Zenon
  <2>1. CASE s = svc
    <3>1. i \in 1..(Len(list) - 1) /\ k \in 1..Len(list) /\ Len(list) \in Nat
      BY <2>1, <1>51, <1>5, <1>11, Zenon
    <3>2. Old(s, i) \in 1..Len(list) /\ Old(s, i) # k
      BY <2>1, <3>1
    <3>3. nA[s][i] = list[Old(s, i)]
      BY <2>1, <3>1, <1>5, <1>11
    <3> QED
      BY <2>1, <3>2, <3>3, <1>0, <1>2, <1>4, <1>51
  <2>2. CASE s # svc
    <3>1. Old(s, i) = i /\ nA[s] = A[s]
      BY <2>2, <1>10, Zenon
    <3>2. R[A[s][i]].service = s
      BY <3>1, Zenon DEF Inv, PreInv, ListsLiveOnce
    <3> QED
      BY <2>2, <3>1, <3>2, Zenon
  <2> QED
    BY <2>1, <2>2, Zenon
<1>14. \A s \in Services : \A i, j \in DOMAIN nA[s] :
          /\ Old(s, i) = Old(s, j) => i = j
          /\ i < j => Old(s, i) < Old(s, j)
          /\ Old(s, i) >= i /\ (1 < i => 1 < Old(s, i))
  <2> SUFFICES ASSUME NEW s \in Services, NEW i \in DOMAIN nA[s],
                      NEW j \in DOMAIN nA[s]
               PROVE  /\ Old(s, i) = Old(s, j) => i = j
                      /\ i < j => Old(s, i) < Old(s, j)
                      /\ Old(s, i) >= i /\ (1 < i => 1 < Old(s, i))
    BY Zenon
  <2>1. i \in Nat /\ j \in Nat /\ k \in Nat
    BY <1>51, <1>12, SMTT(40)
  <2> QED
    BY <2>1
\* Every other live operation keeps its place on some list.
<1>15. \A x \in DOMAIN R : x # id /\ LiveIn(R, x) =>
          x \in Members(nA[R[x].service])
  <2> SUFFICES ASSUME NEW x \in DOMAIN R, x # id, LiveIn(R, x)
               PROVE  x \in Members(nA[R[x].service])
    BY Zenon
  <2> DEFINE s == R[x].service
  <2>1. s \in Services
    BY Zenon DEF Inv, PreInv, StoreType, OperationRecord
  <2>2. PICK o \in DOMAIN A[s] : A[s][o] = x
    BY DEF Inv, PreInv, ListsLiveOnce, Members
  <2>3. CASE s = svc
    <3>1. o # k /\ o \in 1..Len(list) /\ k \in 1..Len(list)
      BY <2>2, <2>3, <1>0, <1>2, <1>51, Zenon
    <3> DEFINE i == IF o < k THEN o ELSE o - 1
    <3>2. i \in 1..(Len(list) - 1) /\ rest[i] = x
      <4>1. i \in 1..(Len(list) - 1) /\ (i < k <=> o < k) /\ (o >= k => i + 1 = o)
        BY <3>1, <1>51
      <4>2. list[o] = x
        BY <2>2, <2>3, <1>0, Zenon
      <4>3. rest[i] = IF i < k THEN list[i] ELSE list[i + 1]
        BY <4>1, <1>5, Zenon
      <4>4. CASE o < k
        BY <4>1, <4>2, <4>3, <4>4, Zenon
      <4>5. CASE ~(o < k)
        <5>1. o >= k
          BY <4>5, <3>1, <1>51
        <5> QED
          BY <4>1, <4>2, <4>3, <4>5, <5>1, Zenon
      <4> QED
        BY <4>1, <4>4, <4>5, Zenon
    <3> QED
      BY <3>2, <2>3, <1>5, <1>11, Zenon DEF Members
  <2>4. CASE s # svc
    BY <2>1, <2>2, <2>4, <1>10, Zenon DEF Members
  <2> QED
    BY <2>3, <2>4, Zenon
<1> HIDE DEF Old
<1>20. StoreType(nR, nA, nQ, n)
  <2>1. nR \in [DOMAIN nR -> OperationRecord]
    BY <1>7, Zenon DEF StoreType, Inv, PreInv
  <2>2. DOMAIN nR \subseteq 1..(n - 1)
    BY <1>7, Zenon DEF StoreType, Inv, PreInv
  <2>4. nA \in [Services -> Seq(1..(n - 1))]
    BY <1>9, <1>11, <1>12, Zenon
  <2>3. /\ nQ \in [DOMAIN nQ -> 1..(n - 1)]
        /\ DOMAIN nQ \subseteq 1..(n - 1)
    BY <1>8, Zenon DEF StoreType, Inv, PreInv, Drop
  <2> QED
    BY <2>1, <2>2, <2>3, <2>4, Zenon DEF StoreType
<1>21. ListsLiveOnce(nR, nA)
  <2>1. \A s \in Services : \A i, j \in DOMAIN nA[s] :
            nA[s][i] = nA[s][j] => i = j
    BY <1>13, <1>14 DEF Inv, PreInv, ListsLiveOnce
  <2>2. ASSUME NEW s \in Services, NEW i \in DOMAIN nA[s]
        PROVE  /\ LiveIn(nR, nA[s][i])
               /\ nR[nA[s][i]].service = s
    <3>1. nA[s][i] # id /\ LiveIn(R, nA[s][i]) /\ R[nA[s][i]].service = s
      BY <1>13 DEF Inv, PreInv, ListsLiveOnce
    <3> QED
      BY <3>1, <1>7, Zenon
  <2>3. \A x \in DOMAIN nR :
            LiveIn(nR, x) => x \in Members(nA[nR[x].service])
    BY <1>7, <1>15
  <2> QED
    BY <2>1, <2>2, <2>3, Zenon DEF ListsLiveOnce
<1>22. QueuedBehindHead(nR, nA, nQ)
  <2> SUFFICES ASSUME NEW s \in Services, NEW i \in DOMAIN nA[s], i # 1
               PROVE  \/ nA[s][i] \in DOMAIN nQ
                      \/ nR[nA[s][i]].source = "Shutdown"
    BY Zenon DEF QueuedBehindHead
  <2>1. 1 < Old(s, i) /\ Old(s, i) \in DOMAIN A[s]
    BY <1>12, <1>13, <1>14
  <2>2. \/ A[s][Old(s, i)] \in DOMAIN Q
        \/ R[A[s][Old(s, i)]].source = "Shutdown"
    BY <2>1 DEF Inv, PreInv, QueuedBehindHead
  <2>3. A[s][Old(s, i)] \in DOMAIN R
    BY <2>1, Zenon DEF Inv, PreInv, ListsLiveOnce
  <2> QED
    BY <2>2, <2>3, <1>7, <1>8, <1>13
<1>23. QueueWaits(nR, nQ)
  BY <1>7, <1>8 DEF Inv, PreInv, QueueWaits
<1>24. RunsAtHead(nR, nA)
  <2> SUFFICES ASSUME NEW s \in Services, NEW i \in DOMAIN nA[s], i # 1
               PROVE  \/ nR[nA[s][i]].state = "Pending"
                      \/ nR[nA[s][i]].source = "Shutdown"
    BY Zenon DEF RunsAtHead
  <2>1. 1 < Old(s, i) /\ Old(s, i) \in DOMAIN A[s]
    BY <1>12, <1>13, <1>14
  <2>2. \/ R[A[s][Old(s, i)]].state = "Pending"
        \/ R[A[s][Old(s, i)]].source = "Shutdown"
    BY <2>1 DEF Inv, PreInv, RunsAtHead
  <2>3. A[s][Old(s, i)] \in DOMAIN R
    BY <2>1, Zenon DEF Inv, PreInv, ListsLiveOnce
  <2> QED
    BY <2>2, <2>3, <1>7, <1>13
<1>25. InRequestOrder(nA)
  <2> SUFFICES ASSUME NEW s \in Services, NEW i \in DOMAIN nA[s],
                      NEW j \in DOMAIN nA[s], 1 < i, i < j
               PROVE  nA[s][i] < nA[s][j]
    BY Zenon DEF InRequestOrder
  <2>1. 1 < Old(s, i) /\ Old(s, i) < Old(s, j)
    BY <1>14, Zenon
  <2> QED
    BY <2>1, <1>13 DEF Inv, PreInv, InRequestOrder
<1>26. ShutdownApart(nR, nQ)
  BY <1>7, <1>8 DEF Inv, PreInv, ShutdownApart, QueueWaits
<1> QED
  BY <1>20, <1>21, <1>22, <1>23, <1>24, <1>25, <1>26, Zenon DEF Inv, PreInv

\* Identifiers that have not been handed out yet are not in the store.
LEMMA GrowCore ==
    ASSUME NEW n \in Nat \ {0}, NEW m \in Nat, n <= m,
           NEW R, NEW A, NEW Q, StoreType(R, A, Q, n)
    PROVE  StoreType(R, A, Q, m)
<1>1. PICK S, T : S = 1..(n - 1) /\ T = 1..(m - 1)
  BY Zenon
<1>2. S \subseteq T
  BY <1>1
<1>3. ASSUME NEW s \in Services PROVE A[s] \in Seq(T)
  <2>1. A[s] \in Seq(S)
    BY <1>1, Zenon DEF StoreType
  <2> QED
    BY <1>2, <2>1, SeqOfSuperset, Zenon
<1>4. A \in [Services -> Seq(T)]
  BY <1>3, Zenon DEF StoreType
<1>5. DOMAIN R \subseteq T /\ DOMAIN Q \subseteq T /\ Q \in [DOMAIN Q -> T]
  BY <1>1, <1>2, Zenon DEF StoreType
<1> QED
  BY <1>1, <1>4, <1>5, Zenon DEF StoreType

\* Beginning an operation that is at the head of its list and not queued, or
\* one of shutdown's stops.
LEMMA StartCore ==
    ASSUME NEW n \in Nat \ {0}, NEW R, NEW A, NEW Q, Inv(R, A, Q, n),
           NEW id \in DOMAIN R, R[id].state = "Pending", id \notin DOMAIN Q,
           NEW svc, svc = R[id].service,
           R[id].source = "Shutdown" \/ (A[svc] # <<>> /\ A[svc][1] = id),
           NEW nR, nR = [R EXCEPT ![id] = WithState(@, "Running")]
    PROVE  Inv(nR, A, Q, n)
<1>1. svc \in Services /\ R[id] \in OperationRecord
  BY Zenon DEF Inv, PreInv, StoreType, OperationRecord
<1>2. /\ DOMAIN nR = DOMAIN R
      /\ nR[id].state = "Running"
      /\ nR[id] \in OperationRecord
      /\ \A x \in DOMAIN R : x # id => nR[x] = R[x]
      /\ nR[id].service = R[id].service
      /\ nR[id].source = R[id].source
      /\ nR[id].type = R[id].type
  BY <1>1, Zenon DEF WithState, OperationRecord, OperationStates, LiveStates
<1>3. \A x \in DOMAIN R :
            /\ nR[x].service = R[x].service
            /\ nR[x].source = R[x].source
            /\ nR[x].type = R[x].type
            /\ LiveIn(nR, x) <=> LiveIn(R, x)
  BY <1>2, Zenon DEF LiveIn, IsTerminal, TerminalStates
<1>4. StoreType(nR, A, Q, n)
  <2>1. nR \in [DOMAIN nR -> OperationRecord]
    BY <1>2, Zenon DEF Inv, PreInv, StoreType
  <2> QED
    BY <1>2, <2>1, Zenon DEF Inv, PreInv, StoreType
<1>5. ASSUME NEW s \in Services, NEW i \in DOMAIN A[s]
      PROVE  A[s][i] \in DOMAIN R /\ LiveIn(R, A[s][i]) /\ R[A[s][i]].service = s
  BY Zenon DEF Inv, PreInv, ListsLiveOnce, LiveIn
<1>6. ListsLiveOnce(nR, A)
  <2>1. \A s \in Services : \A i \in DOMAIN A[s] :
            LiveIn(nR, A[s][i]) /\ nR[A[s][i]].service = s
    <3> SUFFICES ASSUME NEW s \in Services, NEW i \in DOMAIN A[s]
                 PROVE  LiveIn(nR, A[s][i]) /\ nR[A[s][i]].service = s
      BY Zenon
    <3>1. PICK x : x = A[s][i]
      BY Zenon
    <3>2. x \in DOMAIN R /\ LiveIn(R, x) /\ R[x].service = s
      BY <3>1, <1>5, Zenon
    <3>3. LiveIn(nR, x) /\ nR[x].service = s
      BY <3>2, <1>3, Zenon
    <3> QED
      BY <3>1, <3>3, Zenon
  <2>2. \A x \in DOMAIN nR : LiveIn(nR, x) => x \in Members(A[nR[x].service])
    BY <1>2, <1>3, Zenon DEF Inv, PreInv, ListsLiveOnce
  <2> QED
    BY <2>1, <2>2, Zenon DEF Inv, PreInv, ListsLiveOnce
<1>7. QueuedBehindHead(nR, A, Q)
  BY <1>3, <1>5 DEF Inv, QueuedBehindHead
<1>8. QueueWaits(nR, Q)
  BY <1>2, <1>3 DEF Inv, PreInv, QueueWaits
<1>9. InRequestOrder(A) /\ ShutdownApart(nR, Q)
  BY <1>2, <1>3 DEF Inv, PreInv, ShutdownApart, QueueWaits
<1>10. RunsAtHead(nR, A)
  <2> SUFFICES ASSUME NEW s \in Services, NEW i \in DOMAIN A[s], i # 1
               PROVE  nR[A[s][i]].state = "Pending" \/ nR[A[s][i]].source = "Shutdown"
    BY Zenon DEF RunsAtHead
  <2>1. CASE A[s][i] = id
    <3>1. svc = s /\ A[s] # <<>>
      BY <2>1, <1>5
    <3>2. 1 \in DOMAIN A[s]
      BY <3>1 DEF Inv, PreInv, StoreType
    <3>3. R[id].source # "Shutdown" => A[s][1] = id
      BY <3>1, Zenon
    <3>4. R[id].source = "Shutdown"
      BY <2>1, <3>2, <3>3, Zenon DEF Inv, PreInv, ListsLiveOnce
    <3> QED
      BY <2>1, <3>4, <1>2, Zenon
  <2>2. CASE A[s][i] # id
    BY <2>2, <1>2, <1>5 DEF Inv, PreInv, RunsAtHead
  <2> QED
    BY <2>1, <2>2, Zenon
<1> QED
  BY <1>4, <1>6, <1>7, <1>8, <1>9, <1>10, Zenon DEF Inv, PreInv

\* A new operation at the end of its service's list.
LEMMA InsertBackCore ==
    ASSUME NEW n \in Nat \ {0}, NEW R, NEW A, NEW Q, Inv(R, A, Q, n),
           NEW svc \in Services, NEW rec \in OperationRecord, rec.service = svc,
           rec.state = "Pending", rec.source # "Shutdown",
           NEW nR, nR = Put(R, n, rec),
           NEW nA, nA = [A EXCEPT ![svc] = Append(@, n)]
    PROVE  PreInv(nR, nA, Q, n + 1) /\ QueuedExcept(nR, nA, Q, n)
<1> USE DEF LiveIn
<1>1. PICK list : list = A[svc]
  BY Zenon
<1>2. ~IsTerminal(rec.state)
  BY Zenon DEF IsTerminal, TerminalStates
<1>3. n \notin 1..(n - 1) /\ 1..(n - 1) \subseteq 1..n /\ n \in 1..n /\ (n + 1) - 1 = n
  OBVIOUS
<1>4. /\ DOMAIN nR = DOMAIN R \union {n}
      /\ nR[n] = rec
      /\ \A x \in DOMAIN R : nR[x] = R[x] /\ x # n
  BY <1>3, Zenon DEF Put, Inv, PreInv, StoreType
<1>5. /\ DOMAIN A = Services /\ DOMAIN nA = Services
      /\ \A s \in Services : A[s] \in Seq(1..(n - 1))
  BY Zenon DEF Inv, PreInv, StoreType
<1>6. \A s \in Services : s # svc => nA[s] = A[s]
  BY <1>5, Zenon
<1>7. list \in Seq(1..(n - 1)) /\ nA[svc] = Append(list, n)
  BY <1>1, <1>5, Zenon
<1>8. /\ Append(list, n) \in Seq(1..n)
      /\ DOMAIN Append(list, n) = 1..(Len(list) + 1)
      /\ DOMAIN list = 1..Len(list) /\ Len(list) \in Nat
      /\ Append(list, n)[Len(list) + 1] = n
      /\ \A i \in 1..Len(list) : Append(list, n)[i] = list[i] /\ list[i] \in 1..(n - 1)
  <2>1. list \in Seq(1..n)
    BY <1>3, <1>7
  <2> QED
    BY <2>1, <1>3, <1>7
\* An entry of a new list is the new operation, at the end of its list, or it
\* stands where it stood.
<1>9. \A s \in Services : \A i \in DOMAIN nA[s] :
        \/ s = svc /\ i = Len(list) + 1 /\ nA[s][i] = n
        \/ i \in DOMAIN A[s] /\ nA[s][i] = A[s][i]
           /\ nA[s][i] \in DOMAIN R
           /\ nA[s][i] \in 1..(n - 1)
           /\ (s = svc => i <= Len(list))
  <2> SUFFICES ASSUME NEW s \in Services, NEW i \in DOMAIN nA[s]
               PROVE  \/ s = svc /\ i = Len(list) + 1 /\ nA[s][i] = n
                      \/ i \in DOMAIN A[s] /\ nA[s][i] = A[s][i]
                         /\ nA[s][i] \in DOMAIN R
                         /\ nA[s][i] \in 1..(n - 1)
                         /\ (s = svc => i <= Len(list))
    BY Zenon
  <2>1. CASE s = svc
    <3>1. i \in 1..(Len(list) + 1)
      BY <2>1, <1>7, <1>8, Zenon
    <3>2. CASE i = Len(list) + 1
      BY <2>1, <3>2, <1>7, <1>8, Zenon
    <3>3. CASE i # Len(list) + 1
      <4>1. i \in 1..Len(list)
        BY <3>1, <3>3, <1>8
      <4>2. /\ i \in DOMAIN A[s] /\ nA[s][i] = A[s][i] /\ nA[s][i] \in DOMAIN R
            /\ nA[s][i] \in 1..(n - 1) /\ i <= Len(list)
        <5>1. i \in DOMAIN A[s] /\ nA[s][i] = A[s][i] /\ nA[s][i] \in 1..(n - 1)
          BY <4>1, <2>1, <1>1, <1>7, <1>8
        <5>2. A[s][i] \in DOMAIN R
          BY <5>1, Zenon DEF Inv, PreInv, ListsLiveOnce
        <5> QED
          BY <5>1, <5>2, <4>1, <1>8
      <4> QED
        BY <4>2, Zenon
    <3> QED
      BY <3>2, <3>3, Zenon
  <2>2. CASE s # svc
    <3>1. nA[s] = A[s] /\ A[s] \in Seq(1..(n - 1))
      BY <2>2, <1>5, <1>6, Zenon
    <3>2. A[s][i] \in DOMAIN R
      BY <3>1, Zenon DEF Inv, PreInv, ListsLiveOnce
    <3> QED
      BY <2>2, <3>1, <3>2
  <2> QED
    BY <2>1, <2>2, Zenon
<1>11. \A s \in Services : nA[s] \in Seq(1..n)
  <2> SUFFICES ASSUME NEW s \in Services
               PROVE  nA[s] \in Seq(1..n)
    BY Zenon
  <2>1. CASE s = svc
    BY <2>1, <1>7, <1>8, Zenon
  <2>2. CASE s # svc
    BY <2>2, <1>3, <1>5, <1>6
  <2> QED
    BY <2>1, <2>2, Zenon
<1>10. \A s \in Services : \A i \in DOMAIN nA[s] : i \in Nat /\ i >= 1
  BY <1>11
<1>20. StoreType(nR, nA, Q, n + 1)
  <2>1. nR \in [DOMAIN nR -> OperationRecord]
    BY <1>4, Zenon DEF Put, Inv, PreInv, StoreType
  <2>2. DOMAIN nR \subseteq 1..n
    BY <1>3, <1>4, Zenon DEF Inv, PreInv, StoreType
  <2>3. nA \in [Services -> Seq(1..n)]
    BY <1>5, <1>11, Zenon
  <2>4. /\ Q \in [DOMAIN Q -> 1..n]
        /\ DOMAIN Q \subseteq 1..n
    BY <1>3, Zenon DEF Inv, PreInv, StoreType
  <2> QED
    BY <1>3, <2>1, <2>2, <2>3, <2>4, Zenon DEF StoreType
<1>21. ListsLiveOnce(nR, nA)
  <2>1. ASSUME NEW s \in Services, NEW i \in DOMAIN nA[s], NEW j \in DOMAIN nA[s],
               nA[s][i] = nA[s][j]
        PROVE  i = j
    <3>1. CASE nA[s][i] = n
      BY <2>1, <3>1, <1>3, <1>9
    <3>2. CASE nA[s][i] # n
      <4>1. /\ i \in DOMAIN A[s] /\ nA[s][i] = A[s][i]
            /\ j \in DOMAIN A[s] /\ nA[s][j] = A[s][j]
        BY <2>1, <3>2, <1>9, Zenon
      <4> QED
        BY <2>1, <4>1 DEF Inv, PreInv, ListsLiveOnce
    <3> QED
      BY <3>1, <3>2, Zenon
  <2>2. ASSUME NEW s \in Services, NEW i \in DOMAIN nA[s]
        PROVE  LiveIn(nR, nA[s][i]) /\ nR[nA[s][i]].service = s
    <3>1. CASE nA[s][i] = n
      BY <3>1, <1>2, <1>3, <1>4, <1>9
    <3>2. CASE nA[s][i] # n
      <4>1. i \in DOMAIN A[s] /\ nA[s][i] = A[s][i] /\ A[s][i] \in DOMAIN R
        BY <3>2, <1>9
      <4>2. LiveIn(R, A[s][i]) /\ R[A[s][i]].service = s
        BY <4>1, Zenon DEF Inv, PreInv, ListsLiveOnce
      <4> QED
        BY <4>1, <4>2, <1>4, Zenon
    <3> QED
      BY <3>1, <3>2, Zenon
  <2>3. ASSUME NEW x \in DOMAIN nR, LiveIn(nR, x)
        PROVE  x \in Members(nA[nR[x].service])
    <3>1. CASE x = n
      <4>1. nR[x].service = svc
        BY <3>1, <1>4, Zenon
      <4>2. Len(list) + 1 \in DOMAIN nA[svc] /\ nA[svc][Len(list) + 1] = n
        BY <1>7, <1>8
      <4> QED
        BY <3>1, <4>1, <4>2, Zenon DEF Members
    <3>2. CASE x # n
      <4>0. PICK s : s = R[x].service
        BY Zenon
      <4>1. x \in DOMAIN R /\ LiveIn(R, x) /\ s \in Services
            /\ nR[x].service = s
        BY <4>0, <2>3, <3>2, <1>4, Zenon DEF Inv, PreInv, StoreType, OperationRecord
      <4>2. PICK i \in DOMAIN A[s] : A[s][i] = x
        BY <4>0, <4>1 DEF Inv, PreInv, ListsLiveOnce, Members
      <4>3. CASE s = svc
        <5>1. i \in 1..Len(list) /\ list[i] = x
          BY <4>2, <4>3, <1>1, <1>8, Zenon
        <5>2. i \in DOMAIN nA[svc] /\ nA[svc][i] = x
          BY <5>1, <1>7, <1>8
        <5> QED
          BY <4>1, <4>3, <5>2, Zenon DEF Members
      <4>4. CASE s # svc
        BY <4>1, <4>2, <4>4, <1>6 DEF Members
      <4> QED
        BY <4>3, <4>4, Zenon
    <3> QED
      BY <3>1, <3>2, Zenon
  <2> QED
    BY <2>1, <2>2, <2>3, Zenon DEF ListsLiveOnce
<1>22. QueueWaits(nR, Q) /\ ShutdownApart(nR, Q)
  <2>1. \A x \in DOMAIN Q :
            x \in DOMAIN R /\ Q[x] # n
    BY <1>3 DEF Inv, PreInv, StoreType, QueueWaits
  <2>2. QueueWaits(nR, Q)
    BY <2>1, <1>4, Zenon DEF Inv, PreInv, QueueWaits
  <2>3. ShutdownApart(nR, Q)
    BY <2>1, <1>4, Zenon DEF Inv, PreInv, ShutdownApart
  <2> QED
    BY <2>2, <2>3, Zenon
<1>23. RunsAtHead(nR, nA)
  <2> SUFFICES ASSUME NEW s \in Services, NEW i \in DOMAIN nA[s], i # 1
               PROVE  \/ nR[nA[s][i]].state = "Pending"
                      \/ nR[nA[s][i]].source = "Shutdown"
    BY Zenon DEF RunsAtHead
  <2>1. CASE nA[s][i] = n
    BY <2>1, <1>4, Zenon
  <2>2. CASE nA[s][i] # n
    <3>1. /\ i \in DOMAIN A[s] /\ nA[s][i] = A[s][i]
          /\ A[s][i] \in DOMAIN R
      BY <2>2, <1>9
    <3> QED
      BY <3>1, <1>4 DEF Inv, PreInv, RunsAtHead
  <2> QED
    BY <2>1, <2>2, Zenon
<1>24. InRequestOrder(nA)
  <2> SUFFICES ASSUME NEW s \in Services, NEW i \in DOMAIN nA[s],
                      NEW j \in DOMAIN nA[s], 1 < i, i < j
               PROVE  nA[s][i] < nA[s][j]
    BY Zenon DEF InRequestOrder
  <2>1. CASE s = svc /\ j = Len(list) + 1 /\ nA[s][j] = n
    <3>1. i \in Nat /\ i # Len(list) + 1
      BY <2>1, <1>8, <1>10
    <3>2. nA[s][i] \in 1..(n - 1)
      BY <3>1, <1>9, Zenon
    <3> QED
      BY <2>1, <3>2
  <2>2. CASE ~(s = svc /\ j = Len(list) + 1 /\ nA[s][j] = n)
    <3>1. /\ j \in DOMAIN A[s] /\ nA[s][j] = A[s][j]
          /\ (s = svc => j <= Len(list))
      BY <2>2, <1>9, Zenon
    <3>0. s = svc => i # Len(list) + 1
      BY <3>1, <1>8, <1>10
    <3>2. i \in DOMAIN A[s] /\ nA[s][i] = A[s][i]
      BY <3>0, <1>9
    <3> QED
      BY <3>1, <3>2, Zenon DEF Inv, PreInv, InRequestOrder
  <2> QED
    BY <2>1, <2>2, Zenon
<1>25. QueuedExcept(nR, nA, Q, n)
  <2> SUFFICES ASSUME NEW s \in Services, NEW i \in DOMAIN nA[s], i # 1, nA[s][i] # n
               PROVE  nA[s][i] \in DOMAIN Q \/ nR[nA[s][i]].source = "Shutdown"
    BY Zenon DEF QueuedExcept
  <2>1. i \in DOMAIN A[s] /\ nA[s][i] = A[s][i] /\ A[s][i] \in DOMAIN R
    BY <1>9
  <2> QED
    BY <2>1, <1>4 DEF Inv, QueuedBehindHead
<1>26. PreInv(nR, nA, Q, n + 1)
  BY <1>20, <1>21, <1>22, <1>23, <1>24, Zenon DEF PreInv
<1> QED
  BY <1>25, <1>26, Zenon

\* With nothing ahead of it, it needs no queue entry.
LEMMA InsertAloneCore ==
    ASSUME NEW n \in Nat \ {0}, NEW R, NEW A, NEW Q, Inv(R, A, Q, n),
           NEW svc \in Services, NEW rec \in OperationRecord, rec.service = svc,
           rec.state = "Pending", rec.source # "Shutdown",
           NEW nR, nR = Put(R, n, rec),
           NEW nA, nA = [A EXCEPT ![svc] = Append(@, n)],
           A[svc] = <<>>
    PROVE  Inv(nR, nA, Q, n + 1)
<1>1. PreInv(nR, nA, Q, n + 1) /\ QueuedExcept(nR, nA, Q, n)
  BY InsertBackCore, Zenon
<1>2. nA[svc] = <<n>>
  BY DEF Inv, PreInv, StoreType
<1>3. nR[n].service = svc
  BY Zenon DEF Put
<1>4. ASSUME NEW s \in Services, NEW i \in DOMAIN nA[s], i # 1
      PROVE  nA[s][i] \in DOMAIN Q \/ nR[nA[s][i]].source = "Shutdown"
  <2>1. s = svc => i = 1
    BY <1>2
  <2>2. nR[nA[s][i]].service = s
    BY <1>1, Zenon DEF PreInv, ListsLiveOnce
  <2>3. nA[s][i] # n
    BY <1>4, <2>1, <2>2, <1>3, Zenon
  <2> QED
    BY <1>1, <1>4, <2>3, Zenon DEF QueuedExcept
<1> QED
  BY <1>1, <1>4 DEF Inv, QueuedBehindHead

\* Recording what a pending operation waits for.
LEMMA SetQueuedBehindCore ==
    ASSUME NEW n \in Nat \ {0}, NEW R, NEW A, NEW Q, PreInv(R, A, Q, n),
           NEW id \in DOMAIN R, QueuedExcept(R, A, Q, id),
           R[id].state = "Pending", R[id].source # "Shutdown",
           NEW behind \in 1..(n - 1),
           behind \in DOMAIN R => R[behind].service = R[id].service,
           NEW nQ, nQ = Put(Q, id, behind)
    PROVE  Inv(R, A, nQ, n)
<1>1. /\ DOMAIN nQ = DOMAIN Q \union {id}
      /\ nQ[id] = behind
      /\ \A x \in DOMAIN Q : x # id => nQ[x] = Q[x]
  BY Zenon DEF Put
<1>2. StoreType(R, A, nQ, n)
  <2>1. id \in 1..(n - 1)
    BY Zenon DEF PreInv, StoreType
  <2>2. DOMAIN nQ \subseteq 1..(n - 1)
    BY <2>1, <1>1, Zenon DEF PreInv, StoreType
  <2>3. \A x \in DOMAIN nQ : nQ[x] \in 1..(n - 1)
    BY <1>1, Zenon DEF PreInv, StoreType
  <2>4. nQ \in [DOMAIN nQ -> 1..(n - 1)]
    BY <2>3, Zenon DEF Put
  <2> QED
    BY <2>2, <2>4, Zenon DEF PreInv, StoreType
<1>3. QueuedBehindHead(R, A, nQ)
  BY <1>1, Zenon DEF QueuedExcept, QueuedBehindHead
<1>4. QueueWaits(R, nQ)
  BY <1>1 DEF PreInv, QueueWaits
<1>5. ShutdownApart(R, nQ)
  BY <1>1, Zenon DEF PreInv, ShutdownApart
<1> QED
  BY <1>2, <1>3, <1>4, <1>5, Zenon DEF Inv, PreInv

\* A new operation at the end of a list, queued behind one of that list.
LEMMA InsertQueuedCore ==
    ASSUME NEW n \in Nat \ {0}, NEW R, NEW A, NEW Q, Inv(R, A, Q, n),
           NEW svc \in Services, NEW rec \in OperationRecord, rec.service = svc,
           rec.state = "Pending", rec.source # "Shutdown",
           NEW nR, nR = Put(R, n, rec),
           NEW nA, nA = [A EXCEPT ![svc] = Append(@, n)],
           NEW behind, behind \in Members(A[svc]),
           NEW nQ, nQ = Put(Q, n, behind)
    PROVE  Inv(nR, nA, nQ, n + 1)
<1>1. PreInv(nR, nA, Q, n + 1) /\ QueuedExcept(nR, nA, Q, n)
  BY InsertBackCore, Zenon
<1>2. behind \in DOMAIN R /\ R[behind].service = svc
  BY DEF Inv, PreInv, ListsLiveOnce, LiveIn, Members
<1>3. behind \in 1..(n - 1)
  BY <1>2, Zenon DEF Inv, PreInv, StoreType
<1>4. n \in DOMAIN nR /\ nR[n] = rec /\ nR[behind] = R[behind]
  BY <1>2, <1>3 DEF Put
<1>5. n + 1 \in Nat \ {0} /\ (n + 1) - 1 = n /\ behind \in 1..n
  BY <1>3
<1> QED
  BY <1>1, <1>2, <1>4, <1>5, SetQueuedBehindCore, Zenon

\* A merged request leaves a terminal record and touches nothing else.
LEMMA MergeCore ==
    ASSUME NEW n \in Nat \ {0}, NEW R, NEW A, NEW Q, Inv(R, A, Q, n),
           NEW rec \in OperationRecord, IsTerminal(rec.state), rec.source # "Shutdown",
           NEW nR, nR = Put(R, n, rec)
    PROVE  Inv(nR, A, Q, n + 1)
<1> USE DEF LiveIn
<1>1. n \notin 1..(n - 1) /\ n \in 1..n /\ (n + 1) - 1 = n /\ n <= n + 1 /\ n + 1 \in Nat
  OBVIOUS
<1>2. /\ DOMAIN nR = DOMAIN R \union {n}
      /\ nR[n] = rec
      /\ \A x \in DOMAIN R : nR[x] = R[x] /\ x # n
  BY <1>1, Zenon DEF Put, Inv, PreInv, StoreType
<1>3. StoreType(R, A, Q, n + 1)
  BY <1>1, GrowCore, Zenon DEF Inv, PreInv
<1>4. StoreType(nR, A, Q, n + 1)
  <2>1. nR \in [DOMAIN nR -> OperationRecord]
    BY <1>2, Zenon DEF Put, Inv, PreInv, StoreType
  <2>2. DOMAIN nR \subseteq 1..n
    BY <1>1, <1>2, <1>3, Zenon DEF StoreType
  <2> QED
    BY <2>1, <2>2, <1>1, <1>3, Zenon DEF StoreType
<1>5. \A s \in Services : \A i \in DOMAIN A[s] : A[s][i] \in DOMAIN R
  BY Zenon DEF Inv, PreInv, ListsLiveOnce
<1>6. ListsLiveOnce(nR, A)
  BY <1>2, <1>5 DEF Inv, PreInv, ListsLiveOnce
<1>7. QueuedBehindHead(nR, A, Q)
  BY <1>2, <1>5 DEF Inv, QueuedBehindHead
<1>8. RunsAtHead(nR, A)
  BY <1>2, <1>5 DEF Inv, PreInv, RunsAtHead
<1>9. \A x \in DOMAIN Q : x \in DOMAIN R /\ Q[x] # n
  BY <1>1 DEF Inv, PreInv, StoreType, QueueWaits
<1>10. QueueWaits(nR, Q)
  BY <1>2, <1>9, Zenon DEF Inv, PreInv, QueueWaits
<1>11. ShutdownApart(nR, Q)
  BY <1>2, <1>9 DEF Inv, PreInv, ShutdownApart
<1> QED
  BY <1>4, <1>6, <1>7, <1>8, <1>10, <1>11, Zenon DEF Inv, PreInv

\* A record is purged only when it is on no list and in no queue entry of its
\* own; an entry that names it as predecessor stays.
LEMMA PurgeCore ==
    ASSUME NEW n \in Nat \ {0}, NEW R, NEW A, NEW Q, Inv(R, A, Q, n),
           NEW id \in DOMAIN R, IsTerminal(R[id].state), NEW nR, nR = Drop(R, id)
    PROVE  Inv(nR, A, Q, n)
<1> USE DEF LiveIn
<1>1. /\ DOMAIN nR = DOMAIN R \ {id}
      /\ \A x \in DOMAIN nR : nR[x] = R[x]
  BY Zenon DEF Drop
<1>2. StoreType(nR, A, Q, n)
  <2>1. nR \in [DOMAIN nR -> OperationRecord]
    BY <1>1, Zenon DEF Drop, Inv, PreInv, StoreType
  <2> QED
    BY <2>1, <1>1, Zenon DEF Inv, PreInv, StoreType
<1>3. \A s \in Services : \A i \in DOMAIN A[s] :
        A[s][i] \in DOMAIN nR /\ nR[A[s][i]] = R[A[s][i]]
  <2>1. \A s \in Services : \A i \in DOMAIN A[s] :
            A[s][i] \in DOMAIN R /\ ~IsTerminal(R[A[s][i]].state)
    BY Zenon DEF Inv, PreInv, ListsLiveOnce
  <2> QED
    BY <2>1, <1>1, Zenon
<1>4. \A x \in DOMAIN Q : x \in DOMAIN nR /\ nR[x] = R[x]
  <2>1. ~IsTerminal("Pending")
    BY Zenon DEF IsTerminal, TerminalStates
  <2> QED
    BY <2>1, <1>1, Zenon DEF Inv, PreInv, QueueWaits
<1>5. ListsLiveOnce(nR, A)
  BY <1>1, <1>3 DEF Inv, PreInv, ListsLiveOnce
<1>6. QueuedBehindHead(nR, A, Q)
  BY <1>3 DEF Inv, QueuedBehindHead
<1>7. RunsAtHead(nR, A)
  BY <1>3 DEF Inv, PreInv, RunsAtHead
<1>8. QueueWaits(nR, Q)
  BY <1>1, <1>4, Zenon DEF Inv, PreInv, QueueWaits
<1>9. ShutdownApart(nR, Q)
  BY <1>1, <1>4 DEF Inv, PreInv, ShutdownApart
<1> QED
  BY <1>2, <1>5, <1>6, <1>7, <1>8, <1>9, Zenon DEF Inv, PreInv

\* The head of a list may leave the queue.
LEMMA ClearCore ==
    ASSUME NEW n \in Nat \ {0}, NEW R, NEW A, NEW Q, Inv(R, A, Q, n),
           NEW svc \in Services, A[svc] # <<>>, NEW id, A[svc][1] = id,
           NEW nQ, nQ = Drop(Q, id)
    PROVE  Inv(R, A, nQ, n)
<1>1. /\ DOMAIN nQ = DOMAIN Q \ {id}
      /\ \A x \in DOMAIN nQ : nQ[x] = Q[x]
  BY Zenon DEF Drop
<1>2. StoreType(R, A, nQ, n)
  <2>1. nQ \in [DOMAIN nQ -> 1..(n - 1)] /\ DOMAIN nQ \subseteq 1..(n - 1)
    BY <1>1, Zenon DEF Drop, Inv, PreInv, StoreType
  <2> QED
    BY <2>1, Zenon DEF Inv, PreInv, StoreType
<1>3. 1 \in DOMAIN A[svc]
  BY DEF Inv, PreInv, StoreType
<1>4. QueueWaits(R, nQ)
  BY <1>1 DEF Inv, PreInv, QueueWaits
<1>5. ShutdownApart(R, nQ)
  BY <1>1, Zenon DEF Inv, PreInv, ShutdownApart
<1>6. ASSUME NEW s \in Services, NEW i \in DOMAIN A[s], i # 1
      PROVE  A[s][i] \in DOMAIN nQ \/ R[A[s][i]].source = "Shutdown"
  <2>1. s = svc => A[s][i] # id
    BY <1>3, <1>6, Zenon DEF Inv, PreInv, ListsLiveOnce
  <2>2. R[A[s][i]].service = s /\ R[id].service = svc
    BY <1>3, Zenon DEF Inv, PreInv, ListsLiveOnce
  <2>3. A[s][i] # id
    BY <2>1, <2>2, Zenon
  <2> QED
    BY <1>1, <1>6, <2>3, Zenon DEF Inv, QueuedBehindHead
<1> QED
  BY <1>2, <1>4, <1>5, <1>6, Zenon DEF Inv, PreInv, QueuedBehindHead

(***************************************************************************)
(* The two ways an operation passes the queue of its service: a request    *)
(* that replaces the head is put in the head's place, and shutdown's stops *)
(* are added at the end without a queue entry.                             *)
(***************************************************************************)
\* Nothing of the service runs, and everything on its list is in the queue, in
\* order: the state of a list whose head has just been removed.
AllWaiting(R, A, Q, svc) ==
    /\ \A i \in DOMAIN A[svc] :
        /\ A[svc][i] \in DOMAIN Q \/ R[A[svc][i]].source = "Shutdown"
        /\ R[A[svc][i]].state = "Pending" \/ R[A[svc][i]].source = "Shutdown"
    /\ \A i, j \in DOMAIN A[svc] : i < j => A[svc][i] < A[svc][j]

\* When the head ends, everything left on the list waits.
LEMMA EndHeadCore ==
    ASSUME NEW n \in Nat \ {0}, NEW R, NEW A, NEW Q, Inv(R, A, Q, n),
           NEW svc \in Services, 1 \in DOMAIN A[svc], NEW id, id = A[svc][1],
           NEW state \in TerminalStates,
           NEW nR, nR = [R EXCEPT ![id] = WithState(@, state)],
           NEW nA, nA = [A EXCEPT ![svc] = Without(@, id)],
           NEW nQ, nQ = Drop(Q, id)
    PROVE  AllWaiting(nR, nA, nQ, svc)
<1> USE DEF LiveIn
<1>0. PICK list : list = A[svc]
  BY Zenon
<1>01. id = list[1] /\ 1 \in DOMAIN list
  BY <1>0, Zenon
<1>1. /\ id \in DOMAIN R /\ R[id].service = svc
      /\ R[id] \in OperationRecord
  BY Zenon DEF Inv, PreInv, ListsLiveOnce, StoreType
<1>2. list \in Seq(1..(n - 1)) /\ \A i, j \in DOMAIN list : list[i] = list[j] => i = j
  BY <1>0, Zenon DEF Inv, PreInv, StoreType, ListsLiveOnce
<1>3. PICK rest : rest = Without(list, id)
  BY Zenon
<1>4. /\ DOMAIN rest = 1..(Len(list) - 1)
      /\ \A j \in 1..(Len(list) - 1) : rest[j] = list[j + 1]
  BY <1>01, <1>2, <1>3, WithoutHead
<1>5. nA[svc] = rest
  BY <1>0, <1>3, Zenon DEF Inv, PreInv, StoreType
<1>6. DOMAIN list = 1..Len(list) /\ Len(list) \in Nat
  BY <1>2, SeqDomain, Zenon
<1>7. \A j \in DOMAIN rest : /\ j \in Nat /\ j + 1 \in DOMAIN list /\ 1 < j + 1
                             /\ rest[j] = list[j + 1] /\ rest[j] # id
  <2> SUFFICES ASSUME NEW j \in DOMAIN rest
               PROVE  /\ j \in Nat /\ j + 1 \in DOMAIN list /\ 1 < j + 1
                      /\ rest[j] = list[j + 1] /\ rest[j] # id
    BY Zenon
  <2>1. j \in Nat /\ j + 1 \in DOMAIN list /\ 1 < j + 1 /\ ~(j < 1)
    BY <1>4, <1>6
  <2>2. rest[j] = list[j + 1]
    BY <2>1, <1>4, Zenon
  <2> QED
    BY <2>1, <2>2, <1>01, <1>2
<1>8. \A x \in DOMAIN R : x # id => nR[x] = R[x]
  BY Zenon DEF Inv, PreInv, StoreType
<1>9. \A x \in DOMAIN Q : x # id => x \in DOMAIN nQ
  BY Zenon DEF Drop
<1>10. \A j \in DOMAIN rest :
        /\ rest[j] \in DOMAIN nQ \/ nR[rest[j]].source = "Shutdown"
        /\ \/ nR[rest[j]].state = "Pending"
           \/ nR[rest[j]].source = "Shutdown"
  <2> SUFFICES ASSUME NEW j \in DOMAIN rest
               PROVE  /\ \/ rest[j] \in DOMAIN nQ
                         \/ nR[rest[j]].source = "Shutdown"
                      /\ \/ nR[rest[j]].state = "Pending"
                         \/ nR[rest[j]].source = "Shutdown"
    BY Zenon
  <2>1. /\ j + 1 \in DOMAIN list /\ j + 1 # 1 /\ rest[j] = list[j + 1] /\ rest[j] # id
    BY <1>7
  <2>2. rest[j] \in DOMAIN R
    BY <2>1, <1>0 DEF Inv, PreInv, ListsLiveOnce
  <2>3. rest[j] \in DOMAIN Q \/ R[rest[j]].source = "Shutdown"
    BY <2>1, <1>0, Zenon DEF Inv, PreInv, QueuedBehindHead
  <2>4. \/ R[rest[j]].state = "Pending"
        \/ R[rest[j]].source = "Shutdown"
    BY <2>1, <1>0, Zenon DEF Inv, PreInv, RunsAtHead
  <2> QED
    BY <2>1, <2>2, <2>3, <2>4, <1>8, <1>9, Zenon
<1>11. \A i, j \in DOMAIN rest : i < j => rest[i] < rest[j]
  <2> SUFFICES ASSUME NEW i \in DOMAIN rest, NEW j \in DOMAIN rest, i < j
               PROVE  rest[i] < rest[j]
    BY Zenon
  <2>1. 1 < i + 1 /\ i + 1 < j + 1
    BY <1>7
  <2> QED
    BY <2>1, <1>0, <1>7 DEF Inv, PreInv, InRequestOrder
<1> QED
  BY <1>5, <1>10, <1>11, Zenon DEF AllWaiting

\* A record is added; one list is replaced.
Added(R, nR, n, rec) ==
    /\ nR = [x \in DOMAIN nR |-> nR[x]]
    /\ DOMAIN nR = DOMAIN R \union {n}
    /\ nR[n] = rec
    /\ \A x \in DOMAIN R : x # n => nR[x] = R[x]

\* nA is A with the list of svc replaced by new.
Replaced(A, nA, svc, new) ==
    /\ nA = [s \in Services |-> nA[s]]
    /\ nA[svc] = new
    /\ \A s \in Services : s # svc => nA[s] = A[s]

\* The list new is n, then list, whose identifiers are below n.
Prepended(new, list, n) ==
    /\ new \in Seq(1..n)
    /\ DOMAIN new = 1..(Len(list) + 1)
    /\ DOMAIN list = 1..Len(list) /\ Len(list) \in Nat
    /\ new[1] = n
    /\ \A i \in 1..Len(list) : new[i + 1] = list[i] /\ list[i] \in 1..(n - 1)

\* `insert(0, id)`.
LEMMA PrependProperties ==
    ASSUME NEW n \in Nat \ {0}, NEW list \in Seq(1..(n - 1))
    PROVE  Prepended(<<n>> \o list, list, n)
<1>1. 1..(n - 1) \subseteq 1..n /\ n \in 1..n
  OBVIOUS
<1>2. list \in Seq(1..n) /\ <<n>> \in Seq(1..n) /\ Len(<<n>>) = 1 /\ <<n>>[1] = n
  BY <1>1
<1> QED
  BY <1>2 DEF Prepended

\* A new operation at the front of a list of waiting ones.
LEMMA InsertFrontCore ==
    ASSUME NEW n \in Nat \ {0}, NEW R, NEW A, NEW Q, Inv(R, A, Q, n),
           NEW svc \in Services, NEW rec \in OperationRecord, rec.service = svc,
           rec.state = "Pending", rec.source # "Shutdown",
           NEW nR, Added(R, nR, n, rec),
           AllWaiting(R, A, Q, svc),
           NEW list, list = A[svc], NEW new, Prepended(new, list, n),
           NEW nA, Replaced(A, nA, svc, new)
    PROVE  Inv(nR, nA, Q, n + 1)
<1> USE DEF LiveIn
<1>1. rec \in OperationRecord /\ rec.service = svc /\ rec.state = "Pending"
      /\ rec.source # "Shutdown" /\ ~IsTerminal(rec.state)
  BY Zenon DEF IsTerminal, TerminalStates
<1>3. n \notin 1..(n - 1) /\ 1..(n - 1) \subseteq 1..n /\ n \in 1..n /\ (n + 1) - 1 = n
  OBVIOUS
<1>4. /\ DOMAIN nR = DOMAIN R \union {n}
      /\ nR[n] = rec
      /\ \A x \in DOMAIN R : nR[x] = R[x] /\ x # n
  BY <1>3, Zenon DEF Added, Inv, PreInv, StoreType
<1>5. /\ DOMAIN A = Services /\ DOMAIN nA = Services
      /\ \A s \in Services : A[s] \in Seq(1..(n - 1))
  BY Zenon DEF Inv, PreInv, StoreType, Replaced
<1>6. \A s \in Services : s # svc => nA[s] = A[s]
  BY Zenon DEF Replaced
<1>7. nA[svc] = new
  BY Zenon DEF Replaced
<1>8. /\ new \in Seq(1..n)
      /\ DOMAIN new = 1..(Len(list) + 1)
      /\ DOMAIN list = 1..Len(list) /\ Len(list) \in Nat
      /\ new[1] = n
      /\ \A i \in 1..Len(list) : new[i + 1] = list[i] /\ list[i] \in 1..(n - 1)
  BY Zenon DEF Prepended
\* An entry of the service's list is the new one, or stood one place ahead.
<1>9. \A i \in DOMAIN nA[svc] :
        \/ i = 1 /\ nA[svc][i] = n
        \/ /\ i \in Nat /\ i > 1 /\ i - 1 \in DOMAIN list
           /\ nA[svc][i] = list[i - 1]
           /\ list[i - 1] \in DOMAIN R
           /\ list[i - 1] \in 1..(n - 1)
  <2> SUFFICES ASSUME NEW i \in DOMAIN nA[svc], i # 1
               PROVE  /\ i \in Nat /\ i > 1 /\ i - 1 \in DOMAIN list
                      /\ nA[svc][i] = list[i - 1]
                      /\ list[i - 1] \in DOMAIN R
                      /\ list[i - 1] \in 1..(n - 1)
    BY <1>7, <1>8, Zenon
  <2>1. i \in 1..(Len(list) + 1)
    BY <1>7, <1>8, Zenon
  <2>2. i \in Nat /\ i > 1 /\ i - 1 \in 1..Len(list) /\ (i - 1) + 1 = i
    BY <2>1, <1>8, SMTT(40)
  <2>3. nA[svc][i] = list[i - 1] /\ list[i - 1] \in 1..(n - 1)
    BY <2>2, <1>7, <1>8, Zenon
  <2>4. list[i - 1] \in DOMAIN R
    BY <2>2, <1>8, Zenon DEF Inv, PreInv, ListsLiveOnce
  <2> QED
    BY <2>2, <2>3, <2>4, <1>8, Zenon
<1>11. \A s \in Services : nA[s] \in Seq(1..n)
  <2> SUFFICES ASSUME NEW s \in Services
               PROVE  nA[s] \in Seq(1..n)
    BY Zenon
  <2>1. CASE s = svc
    BY <2>1, <1>7, <1>8, Zenon
  <2>2. CASE s # svc
    <3>1. A[s] \in Seq(1..n)
      BY <1>3, <1>5, SeqOfSuperset
    <3> QED
      BY <2>2, <3>1, <1>6, Zenon
  <2> QED
    BY <2>1, <2>2, Zenon
<1>20. StoreType(nR, nA, Q, n + 1)
  <2>1. nR \in [DOMAIN nR -> OperationRecord]
    BY <1>1, <1>4 DEF Added, Inv, PreInv, StoreType
  <2>2. DOMAIN nR \subseteq 1..n
    BY <1>3, <1>4, Zenon DEF Inv, PreInv, StoreType
  <2>3. nA \in [Services -> Seq(1..n)]
    BY <1>11, Zenon DEF Replaced
  <2>4. /\ Q \in [DOMAIN Q -> 1..n]
        /\ DOMAIN Q \subseteq 1..n
    BY <1>3, Zenon DEF Inv, PreInv, StoreType
  <2> QED
    BY <1>3, <2>1, <2>2, <2>3, <2>4, Zenon DEF StoreType
\* The lists of the other services are what they were; for this one, each
\* fact has a case for the new head and one for what moved back.
<1>21. ASSUME NEW s \in Services, NEW i \in DOMAIN nA[s]
       PROVE  /\ LiveIn(nR, nA[s][i])
              /\ nR[nA[s][i]].service = s
  <2>1. CASE s = svc /\ i = 1
    BY <2>1, <1>1, <1>4, <1>7, <1>8, Zenon
  <2>2. CASE s = svc /\ i # 1
    BY <1>21, <2>2, <1>4, <1>9 DEF Inv, PreInv, ListsLiveOnce
  <2>3. CASE s # svc
    BY <1>21, <2>3, <1>4, <1>6 DEF Inv, PreInv, ListsLiveOnce
  <2> QED
    BY <2>1, <2>2, <2>3, Zenon
<1>22. ASSUME NEW s \in Services, NEW i \in DOMAIN nA[s],
              NEW j \in DOMAIN nA[s], nA[s][i] = nA[s][j]
       PROVE  i = j
  <2>1. CASE s = svc
    <3>1. list[i - 1] = list[j - 1] /\ i # 1 /\ j # 1 => i - 1 = j - 1
      <4>1. ASSUME i # 1, j # 1, list[i - 1] = list[j - 1]
            PROVE  i - 1 = j - 1
        <5>1. i - 1 \in DOMAIN list /\ j - 1 \in DOMAIN list
          BY <4>1, <2>1, <1>9, Zenon
        <5> QED
          BY <4>1, <5>1, <2>1, Zenon DEF Inv, PreInv, ListsLiveOnce
      <4> QED
        BY <4>1, Zenon
    <3> QED
      BY <1>22, <2>1, <3>1, <1>9
  <2>2. CASE s # svc
    BY <1>22, <2>2, <1>6, Zenon DEF Inv, PreInv, ListsLiveOnce
  <2> QED
    BY <2>1, <2>2, Zenon
<1>23. ASSUME NEW x \in DOMAIN nR, LiveIn(nR, x)
       PROVE  x \in Members(nA[nR[x].service])
  <2>1. CASE x = n
    <3>1. nR[x].service = svc
      BY <2>1, <1>1, <1>4, Zenon
    <3>2. 1 \in DOMAIN nA[svc] /\ nA[svc][1] = n
      BY <1>7, <1>8
    <3> QED
      BY <2>1, <3>1, <3>2, Zenon DEF Members
  <2>2. CASE x # n
    <3> DEFINE s == R[x].service
    <3>1. x \in DOMAIN R /\ LiveIn(R, x) /\ s \in Services
          /\ nR[x].service = s
      BY <1>23, <2>2, <1>4, Zenon DEF Inv, PreInv, StoreType, OperationRecord
    <3>2. PICK i \in DOMAIN A[s] : A[s][i] = x
      BY <3>1 DEF Inv, PreInv, ListsLiveOnce, Members
    <3>3. CASE s = svc
      <4>1. i \in 1..Len(list) /\ list[i] = x
        BY <3>2, <3>3, <1>8, Zenon
      <4>2. new[i + 1] = x
        BY <4>1, <1>8, Zenon
      <4>3. i + 1 \in 1..(Len(list) + 1)
        BY <4>1
      <4> QED
        BY <3>1, <3>3, <4>2, <4>3, <1>7, <1>8, Zenon DEF Members
    <3>4. CASE s # svc
      BY <3>1, <3>2, <3>4, <1>6 DEF Members
    <3> QED
      BY <3>3, <3>4, Zenon
  <2> QED
    BY <2>1, <2>2, Zenon
<1>24. ListsLiveOnce(nR, nA)
  BY <1>21, <1>22, <1>23, Zenon DEF ListsLiveOnce
<1>25. QueueWaits(nR, Q) /\ ShutdownApart(nR, Q)
  <2>1. \A x \in DOMAIN Q :
            x \in DOMAIN R /\ Q[x] # n
    BY <1>3 DEF Inv, PreInv, StoreType, QueueWaits
  <2>2. QueueWaits(nR, Q)
    BY <2>1, <1>4, Zenon DEF Inv, PreInv, QueueWaits
  <2>3. ShutdownApart(nR, Q)
    BY <2>1, <1>1, <1>4, Zenon DEF Inv, PreInv, ShutdownApart
  <2> QED
    BY <2>2, <2>3, Zenon
<1>26. ASSUME NEW s \in Services, NEW i \in DOMAIN nA[s], i # 1
       PROVE  /\ \/ nA[s][i] \in DOMAIN Q
                 \/ nR[nA[s][i]].source = "Shutdown"
              /\ \/ nR[nA[s][i]].state = "Pending"
                 \/ nR[nA[s][i]].source = "Shutdown"
  <2>1. CASE s = svc
    <3>1. /\ i - 1 \in DOMAIN list /\ nA[s][i] = list[i - 1]
          /\ list[i - 1] \in DOMAIN R
      BY <1>26, <2>1, <1>9, Zenon
    <3> QED
      BY <2>1, <3>1, <1>4 DEF AllWaiting
  <2>2. CASE s # svc
    <3>1. /\ i \in DOMAIN A[s] /\ nA[s][i] = A[s][i]
          /\ A[s][i] \in DOMAIN R
      BY <1>26, <2>2, <1>6, Zenon DEF Inv, PreInv, ListsLiveOnce
    <3> QED
      BY <1>26, <3>1, <1>4 DEF Inv, PreInv, QueuedBehindHead, RunsAtHead
  <2> QED
    BY <2>1, <2>2, Zenon
<1>27. QueuedBehindHead(nR, nA, Q) /\ RunsAtHead(nR, nA)
  BY <1>26, Zenon DEF QueuedBehindHead, RunsAtHead
<1>28. ASSUME NEW s \in Services, NEW i \in DOMAIN nA[s],
              NEW j \in DOMAIN nA[s], 1 < i, i < j
       PROVE  nA[s][i] < nA[s][j]
  <2>1. CASE s = svc
    <3>1. /\ i - 1 \in DOMAIN list /\ j - 1 \in DOMAIN list /\ i - 1 < j - 1
          /\ nA[s][i] = list[i - 1] /\ nA[s][j] = list[j - 1]
      BY <1>28, <2>1, <1>9
    <3> QED
      BY <3>1, Zenon DEF AllWaiting
  <2>2. CASE s # svc
    BY <1>28, <2>2, <1>6, Zenon DEF Inv, PreInv, InRequestOrder
  <2> QED
    BY <2>1, <2>2, Zenon
<1> QED
  BY <1>20, <1>24, <1>25, <1>27, <1>28 DEF Inv, PreInv, InRequestOrder

-----------------------------------------------------------------------------
\* Every service of W gets a stop of shutdown's, with an identifier of its own
\* among n..top, at the end of its list.
StopsObserved(R, nR, A, nA, W, stop, n, top) ==
    /\ W \subseteq Services
    /\ nR = [x \in DOMAIN nR |-> nR[x]]
    /\ DOMAIN nR = DOMAIN R \union n..top
    /\ \A x \in DOMAIN R : nR[x] = R[x]
    /\ \A x \in n..top :
        /\ nR[x] \in OperationRecord
        /\ nR[x].state = "Pending" /\ nR[x].source = "Shutdown" /\ nR[x].type = "Stop"
        /\ nR[x].service \in W /\ stop[nR[x].service] = x
    /\ \A s \in W : stop[s] \in n..top /\ nR[stop[s]].service = s
    /\ nA = [s \in Services |-> nA[s]]
    /\ \A s \in W : nA[s] = Append(A[s], stop[s])
    /\ \A s \in Services : s \notin W => nA[s] = A[s]

\* Shutdown's stops go to the end of their services' lists, one for each.
LEMMA ObserveShutdownStopsCore ==
    ASSUME NEW n \in Nat \ {0}, NEW R, NEW A, NEW Q, Inv(R, A, Q, n),
           NEW top \in Nat, n - 1 <= top, NEW W, NEW stop, NEW nR, NEW nA,
           StopsObserved(R, nR, A, nA, W, stop, n, top)
    PROVE  Inv(nR, nA, Q, top + 1)
<1> USE DEF LiveIn
<1>1. /\ (top + 1) - 1 = top /\ 1..(n - 1) \subseteq 1..top /\ n..top \subseteq 1..top
      /\ \A x \in 1..(n - 1) : x \notin n..top /\ \A y \in n..top : x < y
  OBVIOUS
<1>2. \A x \in DOMAIN R : x \in 1..(n - 1) /\ nR[x] = R[x]
  BY Zenon DEF StopsObserved, Inv, PreInv, StoreType
<1>3. \A s \in Services : A[s] \in Seq(1..(n - 1))
  BY Zenon DEF Inv, PreInv, StoreType
<1>4. \A s \in Services : DOMAIN A[s] = 1..Len(A[s]) /\ Len(A[s]) \in Nat
  BY <1>3, SeqDomain, Zenon
<1>5. \A s \in W : s \in Services /\ stop[s] \in n..top /\ nA[s] = Append(A[s], stop[s])
  BY Zenon DEF StopsObserved
\* An entry of a new list is the service's stop, or it stands where it stood.
<1>6. ASSUME NEW s \in Services, NEW i \in DOMAIN nA[s]
      PROVE  \/ s \in W /\ i = Len(A[s]) + 1 /\ nA[s][i] = stop[s]
             \/ /\ i \in DOMAIN A[s] /\ nA[s][i] = A[s][i]
                /\ A[s][i] \in DOMAIN R /\ A[s][i] \in 1..(n - 1)
  <2>1. PICK list : list = A[s]
    BY Zenon
  <2>2. /\ list \in Seq(1..(n - 1)) /\ DOMAIN list = 1..Len(list) /\ Len(list) \in Nat
        /\ \A k \in DOMAIN list : list[k] \in DOMAIN R
    BY <2>1, <1>3, <1>4, Zenon DEF Inv, PreInv, ListsLiveOnce
  <2>3. CASE s \in W
    <3>1. nA[s] = Append(list, stop[s])
      BY <2>1, <2>3, <1>5, Zenon
    <3> QED
      BY <2>1, <2>2, <2>3, <3>1, <1>2
  <2>4. CASE s \notin W
    BY <2>1, <2>2, <2>4, <1>2 DEF StopsObserved
  <2> QED
    BY <2>3, <2>4, Zenon
<1>7. ASSUME NEW s \in Services
      PROVE  nA[s] \in Seq(1..top)
  <2>1. PICK S, T : S = 1..(n - 1) /\ T = 1..top
    BY Zenon
  <2>2. A[s] \in Seq(T)
    BY <2>1, <1>1, <1>3, SeqOfSuperset, Zenon
  <2>3. CASE s \in W
    <3>1. stop[s] \in T
      BY <2>1, <2>3, <1>1, <1>5, Zenon
    <3>2. Append(A[s], stop[s]) \in Seq(T)
      BY <2>2, <3>1, AppendProperties, Zenon
    <3> QED
      BY <2>1, <2>3, <3>2, <1>5, Zenon
  <2>4. CASE s \notin W
    BY <2>1, <2>2, <2>4, Zenon DEF StopsObserved
  <2> QED
    BY <2>3, <2>4, Zenon
<1>8. StoreType(nR, nA, Q, top + 1)
  <2>1. nR \in [DOMAIN nR -> OperationRecord]
    <3>1. ASSUME NEW x \in DOMAIN nR PROVE nR[x] \in OperationRecord
      <4>1. CASE x \in DOMAIN R
        BY <4>1, <1>2, Zenon DEF Inv, PreInv, StoreType
      <4>2. CASE x \in n..top
        BY <4>2, Zenon DEF StopsObserved
      <4> QED
        BY <4>1, <4>2, Zenon DEF StopsObserved
    <3> QED
      BY <3>1, Zenon DEF StopsObserved
  <2>2. DOMAIN nR \subseteq 1..top
    BY <1>1, <1>2, Zenon DEF StopsObserved
  <2>3. nA \in [Services -> Seq(1..top)]
    BY <1>7, Zenon DEF StopsObserved
  <2>4. /\ Q \in [DOMAIN Q -> 1..top]
        /\ DOMAIN Q \subseteq 1..top
    BY <1>1, Zenon DEF Inv, PreInv, StoreType
  <2> QED
    BY <1>1, <2>1, <2>2, <2>3, <2>4, Zenon DEF StoreType
<1>9. ASSUME NEW s \in W
      PROVE  /\ stop[s] \in DOMAIN nR /\ stop[s] \notin 1..(n - 1)
             /\ nR[stop[s]].service = s /\ nR[stop[s]].state = "Pending"
             /\ nR[stop[s]].source = "Shutdown"
  BY <1>1, Zenon DEF StopsObserved
<1>10. ~IsTerminal("Pending")
  BY Zenon DEF IsTerminal, TerminalStates
<1>11. \A x \in DOMAIN R : x \in DOMAIN nR /\ nR[x] = R[x]
  BY Zenon DEF StopsObserved
<1>21. ASSUME NEW s \in Services, NEW i \in DOMAIN nA[s],
              NEW j \in DOMAIN nA[s], nA[s][i] = nA[s][j]
       PROVE  i = j
  <2>1. CASE s \in W /\ nA[s][i] = stop[s]
    <3>1. nA[s][i] \notin 1..(n - 1)
      BY <2>1, <1>9, Zenon
    <3> QED
      BY <1>21, <3>1, <1>6, Zenon
  <2>2. CASE ~(s \in W /\ nA[s][i] = stop[s])
    <3>1. /\ i \in DOMAIN A[s] /\ nA[s][i] = A[s][i]
          /\ j \in DOMAIN A[s] /\ nA[s][j] = A[s][j]
      BY <1>21, <2>2, <1>6, Zenon
    <3> QED
      BY <1>21, <3>1, Zenon DEF Inv, PreInv, ListsLiveOnce
  <2> QED
    BY <2>1, <2>2, Zenon
<1>22. ASSUME NEW s \in Services, NEW i \in DOMAIN nA[s]
       PROVE  /\ LiveIn(nR, nA[s][i])
              /\ nR[nA[s][i]].service = s
  <2>1. CASE s \in W /\ nA[s][i] = stop[s]
    BY <2>1, <1>9, <1>10
  <2>2. CASE i \in DOMAIN A[s] /\ nA[s][i] = A[s][i] /\ A[s][i] \in DOMAIN R
    <3>1. LiveIn(R, A[s][i]) /\ R[A[s][i]].service = s
      BY <2>2, Zenon DEF Inv, PreInv, ListsLiveOnce
    <3>2. nA[s][i] \in DOMAIN nR /\ nR[nA[s][i]] = R[A[s][i]]
      BY <2>2, <1>11
    <3> QED
      BY <2>2, <3>1, <3>2, Zenon
  <2> QED
    BY <2>1, <2>2, <1>6, Zenon
<1>23. ASSUME NEW x \in DOMAIN nR, LiveIn(nR, x)
       PROVE  x \in Members(nA[nR[x].service])
  <2>1. CASE x \in n..top
    <3>1. PICK s \in W : nR[x].service = s /\ stop[s] = x
      BY <2>1, Zenon DEF StopsObserved
    <3>2. PICK list : list = A[s]
      BY Zenon
    <3>3. list \in Seq(1..(n - 1)) /\ nA[s] = Append(list, x)
      BY <3>1, <3>2, <1>3, <1>5, Zenon
    <3>4. Len(list) + 1 \in DOMAIN nA[s] /\ nA[s][Len(list) + 1] = x
      BY <3>3
    <3> QED
      BY <3>1, <3>4, Zenon DEF Members
  <2>2. CASE x \in DOMAIN R
    <3>1. PICK s : s = R[x].service
      BY Zenon
    <3>2. s \in Services /\ nR[x].service = s /\ LiveIn(R, x)
      BY <1>23, <2>2, <3>1, <1>2, Zenon DEF Inv, PreInv, StoreType, OperationRecord
    <3>3. PICK list : list = A[s]
      BY Zenon
    <3>4. PICK i \in DOMAIN list : list[i] = x
      BY <2>2, <3>1, <3>2, <3>3 DEF Inv, PreInv, ListsLiveOnce, Members
    <3>5. list \in Seq(1..(n - 1))
      BY <3>2, <3>3, <1>3, Zenon
    <3>7. i \in DOMAIN nA[s] /\ nA[s][i] = x
      <4>1. CASE s \in W
        <5>1. PICK T : T = 1..top
          BY Zenon
        <5>2. list \in Seq(T) /\ stop[s] \in T
          BY <4>1, <5>1, <3>5, <1>1, <1>5, SeqOfSuperset
        <5>3. i \in DOMAIN Append(list, stop[s]) /\ Append(list, stop[s])[i] = x
          BY <5>2, <3>4, AppendProperties
        <5> QED
          BY <4>1, <5>3, <3>3, <1>5, Zenon
      <4>2. CASE s \notin W
        BY <4>2, <3>2, <3>3, <3>4, Zenon DEF StopsObserved
      <4> QED
        BY <4>1, <4>2, Zenon
    <3> QED
      BY <3>2, <3>7, Zenon DEF Members
  <2> QED
    BY <2>1, <2>2, Zenon DEF StopsObserved
<1>24. ListsLiveOnce(nR, nA)
  BY <1>21, <1>22, <1>23, Zenon DEF ListsLiveOnce
<1>25. QueueWaits(nR, Q)
  <2>1. ASSUME NEW x \in DOMAIN Q
        PROVE  /\ x \in DOMAIN nR /\ nR[x].state = "Pending"
               /\ Q[x] \in DOMAIN nR => nR[Q[x]].service = nR[x].service
    <3>1. x \in DOMAIN R /\ nR[x] = R[x] /\ Q[x] \in 1..(n - 1)
      BY <1>2, Zenon DEF Inv, PreInv, StoreType, QueueWaits
    <3>2. Q[x] \in DOMAIN nR => Q[x] \in DOMAIN R /\ nR[Q[x]] = R[Q[x]]
      BY <3>1, <1>1, Zenon DEF StopsObserved
    <3>3. x \in DOMAIN nR
      BY <3>1, Zenon DEF StopsObserved
    <3> QED
      BY <3>1, <3>2, <3>3, Zenon DEF Inv, PreInv, QueueWaits
  <2> QED
    BY <2>1, Zenon DEF QueueWaits
<1>26. ShutdownApart(nR, Q)
  <2>1. ASSUME NEW x \in DOMAIN nR, nR[x].source = "Shutdown"
        PROVE  nR[x].type = "Stop"
    <3>1. CASE x \in DOMAIN R
      BY <2>1, <3>1, <1>2, Zenon DEF Inv, PreInv, ShutdownApart
    <3>2. CASE x \in n..top
      BY <3>2, Zenon DEF StopsObserved
    <3> QED
      BY <3>1, <3>2, Zenon DEF StopsObserved
  <2>2. ASSUME NEW x \in DOMAIN Q PROVE nR[x].source # "Shutdown"
    BY <1>2, Zenon DEF Inv, PreInv, QueueWaits, ShutdownApart
  <2> QED
    BY <2>1, <2>2, Zenon DEF ShutdownApart
<1>27. ASSUME NEW s \in Services, NEW i \in DOMAIN nA[s], i # 1
       PROVE  /\ \/ nA[s][i] \in DOMAIN Q
                 \/ nR[nA[s][i]].source = "Shutdown"
              /\ \/ nR[nA[s][i]].state = "Pending"
                 \/ nR[nA[s][i]].source = "Shutdown"
  <2>1. CASE s \in W /\ nA[s][i] = stop[s]
    BY <2>1, <1>9
  <2>2. CASE i \in DOMAIN A[s] /\ nA[s][i] = A[s][i] /\ A[s][i] \in DOMAIN R
    BY <1>27, <2>2, <1>2 DEF Inv, PreInv, QueuedBehindHead, RunsAtHead
  <2> QED
    BY <2>1, <2>2, <1>6, Zenon
<1>28. QueuedBehindHead(nR, nA, Q) /\ RunsAtHead(nR, nA)
  BY <1>27, Zenon DEF QueuedBehindHead, RunsAtHead
<1>29. ASSUME NEW s \in Services, NEW i \in DOMAIN nA[s],
              NEW j \in DOMAIN nA[s], 1 < i, i < j
       PROVE  nA[s][i] < nA[s][j]
  <2>0. i \in Nat /\ j \in Nat
    BY <1>7, SeqDomain
  <2>1. i \in DOMAIN A[s] /\ nA[s][i] = A[s][i] /\ A[s][i] \in 1..(n - 1)
    <3>1. i # Len(A[s]) + 1
      BY <1>29, <2>0, <1>4, <1>6
    <3> QED
      BY <3>1, <1>6, Zenon
  <2>2. CASE s \in W /\ nA[s][j] = stop[s]
    BY <2>1, <2>2, <1>1, <1>5, Zenon
  <2>3. CASE j \in DOMAIN A[s] /\ nA[s][j] = A[s][j]
    BY <1>29, <2>1, <2>3, Zenon DEF Inv, PreInv, InRequestOrder
  <2> QED
    BY <2>2, <2>3, <1>6, Zenon
<1>30. InRequestOrder(nA)
  BY <1>29, Zenon DEF InRequestOrder
<1> QED
  BY <1>8, <1>24, <1>25, <1>26, <1>28, <1>30, Zenon DEF Inv, PreInv


\* A store whose three maps satisfy the invariant of the lemmas.
StoreInv(st, n) ==
    /\ IsStore(st)
    /\ Inv(st.records, st.active, st.queuedBehind, n)

\* The inductive invariant of the store and its counter of identifiers.
IInv ==
    /\ nextId \in Nat \ {0}
    /\ shuttingDown \in BOOLEAN
    /\ StoreInv(store, nextId)

-----------------------------------------------------------------------------
\* A store made of its three maps.
LEMMA StoreFields ==
    ASSUME NEW R, NEW A, NEW Q, NEW n, NEW st, st = Store(R, A, Q)
    PROVE  /\ st.records = R /\ st.active = A /\ st.queuedBehind = Q /\ IsStore(st)
           /\ Inv(R, A, Q, n) => StoreInv(st, n)
<1>1. st.records = R /\ st.active = A /\ st.queuedBehind = Q
  BY Zenon DEF Store
<1> QED
  BY <1>1, Zenon DEF IsStore, StoreInv

\* A new record is pending and an operation like any other.
LEMMA NewRecordType ==
    ASSUME NEW svc \in Services, NEW type \in OperationTypes, NEW source \in OperationSources,
           NEW rec, rec = NewRecord(type, svc, source)
    PROVE  /\ rec \in OperationRecord /\ rec.service = svc /\ rec.state = "Pending"
           /\ rec.source = source /\ rec.type = type
BY Zenon DEF NewRecord, OperationRecord, OperationStates, LiveStates, NoOperation

\* complete, fail, cancel and abort.
LEMMA EndOperationInv ==
    ASSUME NEW n \in Nat \ {0}, NEW st, StoreInv(st, n), NEW id, IsLive(st, id),
           NEW state \in TerminalStates
    PROVE  StoreInv(EndOperation(st, id, state), n)
<1>1. PICK R, A, Q : R = st.records /\ A = st.active /\ Q = st.queuedBehind
  BY Zenon
<1>2. Inv(R, A, Q, n) /\ id \in DOMAIN R /\ ~IsTerminal(R[id].state)
  BY <1>1, Zenon DEF StoreInv, IsLive, LiveIn
<1>3. PICK svc, nR, nA, nQ :
        /\ svc = R[id].service
        /\ nR = [R EXCEPT ![id] = WithState(@, state)]
        /\ nA = [A EXCEPT ![svc] = Without(@, id)]
        /\ nQ = Drop(Q, id)
  BY Zenon
<1>4. EndOperation(st, id, state) = Store(nR, nA, nQ)
  <2>1. PICK mid : mid = SetState(st, id, state)
    BY Zenon
  <2>2. mid.records = nR /\ mid.active = A /\ mid.queuedBehind = Q
    BY <2>1, <1>1, <1>3, Zenon DEF SetState, Store
  <2>3. nR[id].service = svc
    BY <1>2, <1>3, Zenon DEF WithState
  <2> QED
    BY <2>1, <2>2, <2>3, <1>3, Zenon DEF EndOperation, RemoveActive
<1>5. Inv(nR, nA, nQ, n)
  BY <1>2, <1>3, EndCore, Zenon
<1> QED
  BY <1>4, <1>5, StoreFields

\* When the head ends, everything left on its list waits.
LEMMA EndHeadLeavesWaiting ==
    ASSUME NEW n \in Nat \ {0}, NEW st, StoreInv(st, n), NEW svc \in Services,
           1 \in DOMAIN st.active[svc], NEW state \in TerminalStates,
           NEW nst, nst = EndOperation(st, st.active[svc][1], state)
    PROVE  AllWaiting(nst.records, nst.active, nst.queuedBehind, svc)
<1>1. PICK R, A, Q : R = st.records /\ A = st.active /\ Q = st.queuedBehind
  BY Zenon
<1>2. PICK id : id = A[svc][1]
  BY Zenon
<1>3. Inv(R, A, Q, n) /\ 1 \in DOMAIN A[svc]
  BY <1>1, Zenon DEF StoreInv
<1>4. id \in DOMAIN R /\ R[id].service = svc
  BY <1>2, <1>3, Zenon DEF Inv, PreInv, ListsLiveOnce, LiveIn
<1>5. PICK nR, nA, nQ :
        /\ nR = [R EXCEPT ![id] = WithState(@, state)]
        /\ nA = [A EXCEPT ![svc] = Without(@, id)]
        /\ nQ = Drop(Q, id)
  BY Zenon
<1>6. nst.records = nR /\ nst.active = nA /\ nst.queuedBehind = nQ
  <2>1. PICK mid : mid = SetState(st, id, state)
    BY Zenon
  <2>2. mid.records = nR /\ mid.active = A /\ mid.queuedBehind = Q
    BY <2>1, <1>1, <1>5, Zenon DEF SetState, Store
  <2>3. nR[id].service = svc
    BY <1>4, <1>5, Zenon DEF WithState
  <2>4. nst = RemoveActive(mid, id)
    BY <2>1, <1>1, <1>2, Zenon DEF EndOperation
  <2>5. nst = Store(nR, nA, nQ)
    BY <2>2, <2>3, <2>4, <1>5, Zenon DEF RemoveActive
  <2> QED
    BY <2>5, StoreFields
<1>7. AllWaiting(nR, nA, nQ, svc)
  BY <1>2, <1>3, <1>5, EndHeadCore, Zenon
<1> QED
  BY <1>6, <1>7, Zenon

\* start, for the head of a list or for shutdown's stop.
LEMMA StartOperationInv ==
    ASSUME NEW n \in Nat \ {0}, NEW st, StoreInv(st, n), NEW id,
           InState(st, id, "Pending"), id \notin DOMAIN st.queuedBehind,
           \/ st.records[id].source = "Shutdown"
           \/ CurrentForService(st, st.records[id].service) = id
    PROVE  StoreInv(StartOperation(st, id), n)
<1>1. PICK R, A, Q : R = st.records /\ A = st.active /\ Q = st.queuedBehind
  BY Zenon
<1>2. PICK svc, nR : /\ svc = R[id].service
                     /\ nR = [R EXCEPT ![id] = WithState(@, "Running")]
  BY Zenon
<1>3. Inv(R, A, Q, n) /\ id \in DOMAIN R /\ R[id].state = "Pending" /\ id \notin DOMAIN Q
  BY <1>1, Zenon DEF StoreInv, InState, Has
<1>4. svc \in Services /\ id \in Nat \ {0}
  BY <1>2, <1>3 DEF Inv, PreInv, StoreType, OperationRecord
<1>5. R[id].source = "Shutdown" \/ (A[svc] # <<>> /\ A[svc][1] = id)
  BY <1>1, <1>2, <1>4, Zenon DEF CurrentForService, NoOperation
<1>6. Inv(nR, A, Q, n)
  BY <1>2, <1>3, <1>5, StartCore, Zenon
<1> QED
  BY <1>1, <1>2, <1>6, StoreFields DEF StartOperation, SetState

\* A new operation on an empty list.
LEMMA InsertBackAlone ==
    ASSUME NEW n \in Nat \ {0}, NEW st, StoreInv(st, n), NEW svc \in Services,
           NEW type \in OperationTypes, NEW source \in OperationSources,
           source # "Shutdown", st.active[svc] = <<>>
    PROVE  StoreInv(InsertBack(st, n, NewRecord(type, svc, source)), n + 1)
<1>1. PICK R, A, Q, rec : /\ R = st.records /\ A = st.active /\ Q = st.queuedBehind
                          /\ rec = NewRecord(type, svc, source)
  BY Zenon
<1>2. PICK nR, nA : nR = Put(R, n, rec) /\ nA = [A EXCEPT ![svc] = Append(@, n)]
  BY Zenon
<1>3. /\ rec \in OperationRecord /\ rec.service = svc /\ rec.state = "Pending"
      /\ rec.source # "Shutdown"
  BY <1>1, NewRecordType
<1>4. InsertBack(st, n, rec) = Store(nR, nA, Q)
  BY <1>1, <1>2, <1>3, Zenon DEF InsertBack
<1>5. Inv(nR, nA, Q, n + 1)
  BY <1>1, <1>2, <1>3, InsertAloneCore, Zenon DEF StoreInv
<1> QED
  BY <1>1, <1>4, <1>5, StoreFields, Zenon

\* A new operation queued behind one of its list.
LEMMA InsertQueuedInv ==
    ASSUME NEW n \in Nat \ {0}, NEW st, StoreInv(st, n), NEW svc \in Services,
           NEW type \in OperationTypes, NEW source \in OperationSources,
           source # "Shutdown", NEW behind \in Members(st.active[svc])
    PROVE  StoreInv(SetQueuedBehind(InsertBack(st, n, NewRecord(type, svc, source)), n,
                                    behind), n + 1)
<1>1. PICK R, A, Q, rec : /\ R = st.records /\ A = st.active /\ Q = st.queuedBehind
                          /\ rec = NewRecord(type, svc, source)
  BY Zenon
<1>2. PICK nR, nA, nQ : /\ nR = Put(R, n, rec)
                        /\ nA = [A EXCEPT ![svc] = Append(@, n)]
                        /\ nQ = Put(Q, n, behind)
  BY Zenon
<1>3. /\ rec \in OperationRecord /\ rec.service = svc /\ rec.state = "Pending"
      /\ rec.source # "Shutdown"
  BY <1>1, NewRecordType
<1>4. InsertBack(st, n, rec) = Store(nR, nA, Q)
  BY <1>1, <1>2, <1>3, Zenon DEF InsertBack
<1>5. SetQueuedBehind(InsertBack(st, n, rec), n, behind) = Store(nR, nA, nQ)
  BY <1>2, <1>4 DEF SetQueuedBehind, Store
<1>6. Inv(nR, nA, nQ, n + 1)
  BY <1>1, <1>2, <1>3, InsertQueuedCore, Zenon DEF StoreInv
<1> QED
  BY <1>1, <1>5, <1>6, StoreFields

\* A new operation in the place of a head that has ended.
LEMMA InsertFrontInv ==
    ASSUME NEW n \in Nat \ {0}, NEW st, StoreInv(st, n), NEW svc \in Services,
           AllWaiting(st.records, st.active, st.queuedBehind, svc),
           NEW type \in OperationTypes, NEW source \in OperationSources,
           source # "Shutdown"
    PROVE  StoreInv(InsertFront(st, n, NewRecord(type, svc, source)), n + 1)
<1>1. PICK R, A, Q, rec : /\ R = st.records /\ A = st.active /\ Q = st.queuedBehind
                          /\ rec = NewRecord(type, svc, source)
  BY Zenon
<1>2. PICK list, new : list = A[svc] /\ new = <<n>> \o list
  BY Zenon
<1>3. PICK nR, nA : nR = Put(R, n, rec) /\ nA = [A EXCEPT ![svc] = new]
  BY Zenon
<1>4. /\ rec \in OperationRecord /\ rec.service = svc /\ rec.state = "Pending"
      /\ rec.source # "Shutdown"
  BY <1>1, NewRecordType
<1>5. InsertFront(st, n, rec) = Store(nR, nA, Q)
  BY <1>1, <1>2, <1>3, <1>4, Zenon DEF InsertFront
<1>6. Inv(R, A, Q, n) /\ AllWaiting(R, A, Q, svc)
  BY <1>1, Zenon DEF StoreInv
<1>7. list \in Seq(1..(n - 1)) /\ DOMAIN A = Services
  BY <1>2, <1>6, Zenon DEF Inv, PreInv, StoreType
<1>8. Prepended(new, list, n)
  BY <1>2, <1>7, PrependProperties, Zenon
<1>9. Replaced(A, nA, svc, new)
  BY <1>3, <1>7, Zenon DEF Replaced
<1>10. Added(R, nR, n, rec)
  BY <1>3, Zenon DEF Put, Added
<1>11. Inv(nR, nA, Q, n + 1)
  BY <1>2, <1>4, <1>6, <1>8, <1>9, <1>10, InsertFrontCore, Zenon
<1> QED
  BY <1>1, <1>5, <1>11, StoreFields, Zenon

\* A merged request.
LEMMA MergeRequestInv ==
    ASSUME NEW n \in Nat \ {0}, NEW st, StoreInv(st, n), NEW svc \in Services,
           NEW type \in OperationTypes, NEW source \in OperationSources,
           source # "Shutdown", NEW existing \in 1..(n - 1)
    PROVE  StoreInv(MergeRequest(st, n, type, svc, source, existing), n + 1)
<1>1. PICK R, A, Q, rec : /\ R = st.records /\ A = st.active /\ Q = st.queuedBehind
                          /\ rec = MergedRecord(type, svc, source, existing)
  BY Zenon
<1>2. PICK nR : nR = Put(R, n, rec)
  BY Zenon
<1>3. rec \in OperationRecord /\ IsTerminal(rec.state) /\ rec.source # "Shutdown"
  BY <1>1 DEF MergedRecord, OperationRecord, OperationStates, TerminalStates, IsTerminal,
              OperationIds
<1>4. MergeRequest(st, n, type, svc, source, existing) = Store(nR, A, Q)
  BY <1>1, <1>2, Zenon DEF MergeRequest
<1>5. Inv(nR, A, Q, n + 1)
  BY <1>1, <1>2, <1>3, MergeCore, Zenon DEF StoreInv
<1> QED
  BY <1>4, <1>5, StoreFields

\* A terminal record is purged.
LEMMA PurgeRecordInv ==
    ASSUME NEW n \in Nat \ {0}, NEW st, StoreInv(st, n), NEW id \in DOMAIN st.records,
           IsTerminal(st.records[id].state)
    PROVE  StoreInv(PurgeRecord(st, id), n)
<1>1. PICK R, A, Q : R = st.records /\ A = st.active /\ Q = st.queuedBehind
  BY Zenon
<1>2. PICK nR : nR = Drop(R, id)
  BY Zenon
<1>3. Inv(nR, A, Q, n)
  BY <1>1, <1>2, PurgeCore, Zenon DEF StoreInv
<1> QED
  BY <1>1, <1>2, <1>3, StoreFields DEF PurgeRecord

\* The head leaves the queue.
LEMMA ClearQueuedBehindInv ==
    ASSUME NEW n \in Nat \ {0}, NEW st, StoreInv(st, n), NEW id,
           InState(st, id, "Pending"), CurrentForService(st, st.records[id].service) = id
    PROVE  StoreInv(ClearQueuedBehind(st, id), n)
<1>1. PICK R, A, Q : R = st.records /\ A = st.active /\ Q = st.queuedBehind
  BY Zenon
<1>2. PICK svc, nQ : svc = R[id].service /\ nQ = Drop(Q, id)
  BY Zenon
<1>3. Inv(R, A, Q, n) /\ id \in DOMAIN R
  BY <1>1, Zenon DEF StoreInv, InState, Has
<1>4. svc \in Services /\ id \in Nat \ {0}
  BY <1>2, <1>3 DEF Inv, PreInv, StoreType, OperationRecord
<1>5. A[svc] # <<>> /\ A[svc][1] = id
  BY <1>1, <1>2, <1>4, Zenon DEF CurrentForService, NoOperation
<1>6. Inv(R, A, nQ, n)
  BY <1>2, <1>3, <1>4, <1>5, ClearCore, Zenon
<1> QED
  BY <1>1, <1>2, <1>6, StoreFields DEF ClearQueuedBehind

\* It may also wait once more, behind another operation of its list.
LEMMA RequeueBehindHeadInv ==
    ASSUME NEW n \in Nat \ {0}, NEW st, StoreInv(st, n), NEW id,
           InState(st, id, "Pending"), st.records[id].source # "Shutdown"
    PROVE  StoreInv(RequeueBehindHead(st, id), n)
<1> DEFINE list == st.active[st.records[id].service]
           others == {i \in DOMAIN list : list[i] # id}
           first == CHOOSE i \in others : \A j \in others : i <= j
<1>1. PICK R, A, Q : R = st.records /\ A = st.active /\ Q = st.queuedBehind
  BY Zenon
<1>2. /\ Inv(R, A, Q, n) /\ id \in DOMAIN R /\ R[id].state = "Pending"
      /\ R[id].source # "Shutdown"
  BY <1>1, Zenon DEF StoreInv, InState, Has
<1>3. R[id].service \in Services /\ list = A[R[id].service] /\ list \in Seq(1..(n - 1))
  BY <1>1, <1>2, Zenon DEF Inv, PreInv, StoreType, OperationRecord
<1>4. CASE others = {}
  BY <1>4, Zenon DEF RequeueBehindHead
<1>5. CASE others # {}
  <2>1. RequeueBehindHead(st, id) = SetQueuedBehind(st, id, list[first])
    BY <1>5, Zenon DEF RequeueBehindHead
  <2>2. others \subseteq Nat
    BY <1>3
  <2>3. \E i \in others : \A j \in others : i <= j
    BY <2>2, <1>5, LeastNatural, Zenon
  <2>4. first \in others
    BY <2>3, Zenon
  <2> HIDE DEF first
  <2>5. PICK behind, nQ : behind = list[first] /\ nQ = Put(Q, id, behind)
    BY Zenon
  <2>5a. first \in DOMAIN list
    BY <2>4, Zenon
  <2>5b. behind \in 1..(n - 1)
    BY <2>5, <2>5a, <1>3
  <2>5c. ListsLiveOnce(R, A)
    BY <1>2, Zenon DEF Inv, PreInv
  <2>5d. R[A[R[id].service][first]].service = R[id].service
    BY <2>5a, <2>5c, <1>3, Zenon DEF ListsLiveOnce
  <2>6. behind \in 1..(n - 1) /\ R[behind].service = R[id].service
    BY <2>5, <2>5b, <2>5d, <1>3, Zenon
  <2>7. PreInv(R, A, Q, n) /\ QueuedExcept(R, A, Q, id)
    BY <1>2, Zenon DEF Inv, QueuedExcept, QueuedBehindHead
  <2>8. Inv(R, A, nQ, n)
    BY <2>5, <2>6, <2>7, <1>2, SetQueuedBehindCore, Zenon
  <2>9. RequeueBehindHead(st, id) = Store(R, A, nQ)
    BY <2>1, <2>5, <1>1, Zenon DEF SetQueuedBehind
  <2> HIDE DEF list, others
  <2> QED
    BY <2>8, <2>9, StoreFields
<1> QED
  BY <1>4, <1>5, Zenon

\* Shutdown's own stops.
LEMMA ObserveShutdownStopsInv ==
    ASSUME NEW n \in Nat \ {0}, NEW st, StoreInv(st, n), NEW m \in Nat,
           NEW waves \in [1..m -> Services],
           \A i, j \in 1..m : waves[i] = waves[j] => i = j
    PROVE  StoreInv(ObserveShutdownStops(st, n, waves), n + m)
<1>0. Len(waves) = m /\ DOMAIN waves = 1..m
  <2>1. waves \in Seq(Services)
    OBVIOUS
  <2> QED
    BY <2>1
<1>1. PICK R, A, Q : R = st.records /\ A = st.active /\ Q = st.queuedBehind
  BY Zenon
<1>2. PICK top : top = n + m - 1
  BY Zenon
<1>3. top \in Nat /\ n - 1 <= top /\ top + 1 = n + m
  BY <1>2
<1>4. PICK W, stop :
        /\ W = Members(waves)
        /\ stop = [s \in W |-> n - 1 + (CHOOSE i \in DOMAIN waves : waves[i] = s)]
  BY Zenon
<1>5. PICK nR, nA :
        /\ nR = [x \in DOMAIN R \union n..top |->
                    IF x < n THEN R[x] ELSE NewRecord("Stop", waves[x - n + 1], "Shutdown")]
        /\ nA = [s \in Services |-> IF s \in W THEN Append(A[s], stop[s]) ELSE A[s]]
  BY Zenon
<1>6. ObserveShutdownStops(st, n, waves) = Store(nR, nA, Q)
  <2>1. ObserveShutdownStops(st, n, waves).records = nR
    BY <1>0, <1>1, <1>2, <1>5, Zenon DEF ObserveShutdownStops, Store
  <2>2. ASSUME NEW s \in Services
        PROVE  nA[s] = IF s \in Members(waves)
                       THEN Append(A[s], n - 1 + (CHOOSE i \in DOMAIN waves : waves[i] = s))
                       ELSE A[s]
    BY <1>4, <1>5
  <2>3. nA = [s \in Services |->
                IF s \in Members(waves)
                THEN Append(A[s], n - 1 + (CHOOSE i \in DOMAIN waves : waves[i] = s))
                ELSE A[s]]
    BY <2>2, <1>5, Zenon
  <2>4. ObserveShutdownStops(st, n, waves).active = nA
    BY <2>3, <1>1 DEF ObserveShutdownStops, Store
  <2> QED
    BY <2>1, <2>4, <1>1, Zenon DEF ObserveShutdownStops, Store
<1>7. ASSUME NEW i \in 1..m
      PROVE  /\ waves[i] \in Services /\ waves[i] \in W
             /\ stop[waves[i]] = n - 1 + i
  <2>1. waves[i] \in W /\ waves[i] \in Services
    BY <1>0, <1>4, Zenon DEF Members
  <2>2. (CHOOSE k \in DOMAIN waves : waves[k] = waves[i]) = i
    BY <1>0, Zenon
  <2> QED
    BY <2>1, <2>2, <1>4, Zenon
<1>8. ASSUME NEW s \in W
      PROVE  \E i \in 1..m : waves[i] = s
  BY <1>0, <1>4, Zenon DEF Members
<1>9. ASSUME NEW x \in n..top
      PROVE  x - n + 1 \in 1..m /\ n - 1 + (x - n + 1) = x /\ ~(x < n)
  BY <1>2
<1>10. ASSUME NEW i \in 1..m
       PROVE  n - 1 + i \in n..top /\ (n - 1 + i) - n + 1 = i
  BY <1>2
<1>11. ASSUME NEW s \in Services, NEW rec, rec = NewRecord("Stop", s, "Shutdown")
       PROVE  /\ rec \in OperationRecord /\ rec.service = s /\ rec.state = "Pending"
              /\ rec.source = "Shutdown" /\ rec.type = "Stop"
  <2>1. "Stop" \in OperationTypes /\ "Shutdown" \in OperationSources
    BY Zenon DEF OperationTypes, OperationSources
  <2> QED
    BY <1>11, <2>1, NewRecordType
<1>12. ASSUME NEW x \in n..top
       PROVE  /\ nR[x] \in OperationRecord
              /\ nR[x].state = "Pending" /\ nR[x].source = "Shutdown" /\ nR[x].type = "Stop"
              /\ nR[x].service \in W /\ stop[nR[x].service] = x
  <2>1. PICK i \in 1..m : i = x - n + 1 /\ n - 1 + i = x
    BY <1>9, Zenon
  <2>2. nR[x] = NewRecord("Stop", waves[i], "Shutdown")
    BY <2>1, <1>5, <1>9, Zenon
  <2>3. waves[i] \in Services /\ waves[i] \in W /\ stop[waves[i]] = x
    BY <2>1, <1>7, Zenon
  <2> QED
    BY <2>2, <2>3, <1>11
<1>13. ASSUME NEW s \in W
       PROVE  stop[s] \in n..top /\ nR[stop[s]].service = s
  <2>1. PICK i \in 1..m : waves[i] = s
    BY <1>8, Zenon
  <2>2. PICK x : x = n - 1 + i
    BY Zenon
  <2>3. stop[s] = x /\ x \in n..top /\ x - n + 1 = i /\ s \in Services
    BY <2>1, <2>2, <1>7, <1>10, Zenon
  <2>4. nR[x] = NewRecord("Stop", s, "Shutdown")
    BY <2>1, <2>3, <1>5, <1>9, Zenon
  <2> QED
    BY <2>3, <2>4, <1>11, Zenon
<1>14. \A x \in DOMAIN R : x \in Nat /\ x < n
  BY <1>1 DEF StoreInv, Inv, PreInv, StoreType
<1>15. W \subseteq Services
  BY <1>7, <1>8
<1>16. StopsObserved(R, nR, A, nA, W, stop, n, top)
  <2>1. /\ nR = [x \in DOMAIN nR |-> nR[x]] /\ DOMAIN nR = DOMAIN R \union n..top
        /\ \A x \in DOMAIN R : nR[x] = R[x]
    BY <1>5, <1>14, Zenon
  <2>2. /\ nA = [s \in Services |-> nA[s]]
        /\ \A s \in W : nA[s] = Append(A[s], stop[s])
        /\ \A s \in Services : s \notin W => nA[s] = A[s]
    BY <1>5, <1>15, Zenon
  <2> QED
    BY <2>1, <2>2, <1>12, <1>13, <1>15, Zenon DEF StopsObserved
<1>17. Inv(nR, nA, Q, top + 1)
  <2>1. Inv(R, A, Q, n)
    BY <1>1, Zenon DEF StoreInv
  <2> QED
    BY <2>1, <1>3, <1>16, ObserveShutdownStopsCore, Zenon
<1> QED
  BY <1>3, <1>6, <1>17, StoreFields, Zenon

-----------------------------------------------------------------------------
\* `request_operation` keeps the store well formed, whatever it decides.
LEMMA RequestOperationInv ==
    ASSUME NEW n \in Nat \ {0}, NEW st, StoreInv(st, n), NEW svc \in Services,
           NEW type \in OperationTypes, NEW source \in OperationSources,
           source # "Shutdown"
    PROVE  StoreInv(RequestOperation(st, n, type, svc, source), n + 1)
<1> DEFINE decision == ResolveRequest(st, svc, type)
           mergeable == Mergeable(st, svc, type)
           list == st.active[svc]
           head == list[1]
           record == NewRecord(type, svc, source)
<1>1. /\ list \in Seq(1..(n - 1)) /\ DOMAIN list = 1..Len(list) /\ Len(list) \in Nat
      /\ \A i \in DOMAIN list : list[i] \in 1..(n - 1) /\ IsLive(st, list[i])
  <2>1. list \in Seq(1..(n - 1))
    BY Zenon DEF StoreInv, Inv, PreInv, StoreType
  <2>2. \A i \in DOMAIN list : IsLive(st, list[i])
    BY Zenon DEF StoreInv, Inv, PreInv, ListsLiveOnce, IsLive
  <2> QED
    BY <2>1, <2>2, SeqDomain, Zenon
<1>2. CASE mergeable # {}
  <2> DEFINE first == CHOOSE i \in mergeable : \A j \in mergeable : i <= j
  <2>1. mergeable \subseteq DOMAIN list /\ mergeable \subseteq Nat
    BY <1>1 DEF Mergeable
  <2>2. first \in mergeable
    BY <1>2, <2>1, LeastNatural, Zenon
  <2>3. list[first] \in 1..(n - 1)
    BY <1>1, <2>1, <2>2, Zenon
  <2>4. decision = [kind |-> "MergeIntoExisting", existing |-> list[first]]
    BY <1>2, Zenon DEF ResolveRequest
  <2>5. decision.kind = "MergeIntoExisting" /\ decision.existing = list[first]
    BY <2>4
  <2>6. RequestOperation(st, n, type, svc, source)
            = MergeRequest(st, n, type, svc, source, decision.existing)
    BY <2>5, Zenon DEF RequestOperation
  <2>7. decision.existing \in 1..(n - 1)
    BY <2>3, <2>5, Zenon
  <2> HIDE DEF decision
  <2>8. StoreInv(MergeRequest(st, n, type, svc, source, decision.existing), n + 1)
    BY <2>7, MergeRequestInv, Zenon
  <2> QED
    BY <2>6, <2>8, Zenon
<1>3. CASE mergeable = {} /\ list = <<>>
  <2>1. decision.kind = "CreateNew"
    BY <1>3, Zenon DEF ResolveRequest
  <2>2. RequestOperation(st, n, type, svc, source) = InsertBack(st, n, record)
    BY <2>1, Zenon DEF RequestOperation
  <2>3. StoreInv(InsertBack(st, n, record), n + 1)
    BY <1>3, InsertBackAlone, Zenon
  <2> QED
    BY <2>2, <2>3, Zenon
<1>4. CASE mergeable = {} /\ list # <<>>
  <2>1. 1 \in DOMAIN list
    BY <1>1, <1>4
  <2>2. decision.kind = DecisionOn(st, head, type) /\ decision.existing = head
    BY <1>4, Zenon DEF ResolveRequest
  <2>3. decision.kind # "MergeIntoExisting"
    BY <1>4, <2>1, <2>2, Zenon DEF Mergeable
  <2>4. ~IsTerminal(st.records[head].state) /\ IsLive(st, head)
    BY <1>1, <2>1, Zenon DEF IsLive, LiveIn
  <2>5. decision.kind # "CreateNew"
    BY <2>2, <2>4, Zenon DEF DecisionOn, ResolveOperationConflict
  <2> DEFINE ended(state) == EndOperation(st, head, state)
             Waiting(s) == AllWaiting(s.records, s.active, s.queuedBehind, svc)
  <2>6. \A state \in {"Cancelled", "Aborted"} :
            StoreInv(ended(state), n) /\ Waiting(ended(state))
    <3> SUFFICES ASSUME NEW state \in {"Cancelled", "Aborted"}
                 PROVE  StoreInv(ended(state), n) /\ Waiting(ended(state))
      BY Zenon
    <3>1. state \in TerminalStates
      BY Zenon DEF TerminalStates
    <3>2. Waiting(ended(state))
      BY <2>1, <3>1, EndHeadLeavesWaiting, Zenon
    <3>3. StoreInv(ended(state), n)
      BY <2>4, <3>1, EndOperationInv, Zenon
    <3> QED
      BY <3>2, <3>3, Zenon
  <2>7. CASE decision.kind = "QueueNew"
    <3>1. RequestOperation(st, n, type, svc, source)
            = SetQueuedBehind(InsertBack(st, n, record), n, head)
      BY <2>2, <2>7, Zenon DEF RequestOperation
    <3>2. StoreInv(SetQueuedBehind(InsertBack(st, n, record), n, head), n + 1)
      <4>1. head \in Members(st.active[svc])
        BY <2>1, Zenon DEF Members
      <4> QED
        BY <4>1, InsertQueuedInv, Zenon
    <3> QED
      BY <3>1, <3>2, Zenon
  <2>8. CASE decision.kind = "CancelExistingThenCreate"
    <3>1. RequestOperation(st, n, type, svc, source)
            = InsertFront(ended("Cancelled"), n, record)
      BY <2>2, <2>8, Zenon DEF RequestOperation, CancelOperation
    <3>2. StoreInv(InsertFront(ended("Cancelled"), n, record), n + 1)
      BY <2>6, InsertFrontInv, Zenon
    <3> QED
      BY <3>1, <3>2, Zenon
  <2>9. CASE decision.kind = "AbortExistingThenCreate"
    <3>1. RequestOperation(st, n, type, svc, source)
            = InsertFront(ended("Aborted"), n, record)
      BY <2>2, <2>9, Zenon DEF RequestOperation, AbortOperation
    <3>2. StoreInv(InsertFront(ended("Aborted"), n, record), n + 1)
      BY <2>6, InsertFrontInv, Zenon
    <3> QED
      BY <3>1, <3>2, Zenon
  <2>10. CASE decision.kind = "CancelExistingThenQueue"
    <3>1. PICK rep : rep = ended("Cancelled")
      BY Zenon
    <3>2. StoreInv(rep, n) /\ rep.active[svc] \in Seq(1..(n - 1))
      BY <2>6, <3>1, Zenon DEF StoreInv, Inv, PreInv, StoreType
    <3>3. RequestOperation(st, n, type, svc, source)
            = IF CurrentForService(rep, svc) = NoOperation
              THEN InsertBack(rep, n, record)
              ELSE SetQueuedBehind(InsertBack(rep, n, record), n,
                                   CurrentForService(rep, svc))
      BY <2>2, <2>10, <3>1, Zenon DEF RequestOperation, CancelOperation
    <3>4. CASE rep.active[svc] = <<>>
      <4>1. CurrentForService(rep, svc) = NoOperation
        BY <3>4, Zenon DEF CurrentForService
      <4>2. StoreInv(InsertBack(rep, n, record), n + 1)
        BY <3>2, <3>4, InsertBackAlone, Zenon
      <4> QED
        BY <3>3, <4>1, <4>2, Zenon
    <3>5. CASE rep.active[svc] # <<>>
      <4>1. 1 \in DOMAIN rep.active[svc] /\ rep.active[svc][1] \in 1..(n - 1)
        BY <3>2, <3>5
      <4>2. CurrentForService(rep, svc) = rep.active[svc][1]
            /\ CurrentForService(rep, svc) # NoOperation
        BY <3>5, <4>1 DEF CurrentForService, NoOperation
      <4>3. StoreInv(SetQueuedBehind(InsertBack(rep, n, record), n,
                                     rep.active[svc][1]), n + 1)
        <5>1. rep.active[svc][1] \in Members(rep.active[svc])
          BY <4>1, Zenon DEF Members
        <5> QED
          BY <3>2, <5>1, InsertQueuedInv, Zenon
      <4> QED
        BY <3>3, <4>2, <4>3, Zenon
    <3> QED
      BY <3>4, <3>5, Zenon
  <2>11. CASE decision.kind \notin {"QueueNew", "CancelExistingThenCreate",
                                   "AbortExistingThenCreate", "CancelExistingThenQueue"}
    <3>1. RequestOperation(st, n, type, svc, source) = st
      BY <2>3, <2>5, <2>11, Zenon DEF RequestOperation
    <3>2. n + 1 \in Nat /\ n <= n + 1
      OBVIOUS
    <3>3. PICK R, A, Q : R = st.records /\ A = st.active /\ Q = st.queuedBehind
      BY Zenon
    <3>4. StoreType(R, A, Q, n + 1)
      BY <3>2, <3>3, GrowCore, Zenon DEF StoreInv, Inv, PreInv
    <3> QED
      BY <3>1, <3>3, <3>4, Zenon DEF StoreInv, Inv, PreInv
  <2> QED
    BY <2>7, <2>8, <2>9, <2>10, <2>11, Zenon
<1> QED
  BY <1>2, <1>3, <1>4, Zenon

\* Starting an operation and ending it in one transaction is ending it.
LEMMA StartThenEnd ==
    ASSUME NEW st, NEW id \in DOMAIN st.records, NEW state,
           st.records \in [DOMAIN st.records -> OperationRecord]
    PROVE  EndOperation(StartOperation(st, id), id, state) = EndOperation(st, id, state)
<1> DEFINE mid == StartOperation(st, id)
           r == st.records[id]
<1>1. /\ mid.records = [st.records EXCEPT ![id] = WithState(r, "Running")]
      /\ mid.active = st.active /\ mid.queuedBehind = st.queuedBehind
  BY Zenon DEF StartOperation, SetState, Store
<1> HIDE DEF mid
<1>2. WithState(WithState(r, "Running"), state) = WithState(r, state)
  BY Zenon DEF WithState
<1>3. WithState(mid.records[id], state) = WithState(r, state)
  BY <1>1, <1>2, Zenon
<1>4. [mid.records EXCEPT ![id] = WithState(@, state)]
        = [st.records EXCEPT ![id] = WithState(@, state)]
  BY <1>1, <1>3, Zenon
<1>5. SetState(mid, id, state) = SetState(st, id, state)
  BY <1>1, <1>4, Zenon DEF SetState
<1> QED
  BY <1>5, Zenon DEF EndOperation, mid

-----------------------------------------------------------------------------
(* The specification. *)

\* The head of a list is a live operation of its service, or there is none.
LEMMA HeadIsLive ==
    ASSUME NEW n \in Nat \ {0}, NEW st, StoreInv(st, n), NEW svc \in Services,
           CurrentForService(st, svc) # NoOperation
    PROVE  /\ CurrentForService(st, svc) \in 1..(n - 1)
           /\ CurrentForService(st, svc) \in DOMAIN st.records
           /\ st.records[CurrentForService(st, svc)].service = svc
<1>1. st.active[svc] # <<>> /\ CurrentForService(st, svc) = st.active[svc][1]
  BY Zenon DEF CurrentForService
<1>2. PICK R, A, id : R = st.records /\ A = st.active /\ id = A[svc][1]
  BY Zenon
<1>3. StoreType(R, A, st.queuedBehind, n) /\ ListsLiveOnce(R, A)
  BY <1>2, Zenon DEF StoreInv, Inv, PreInv
<1>4. A[svc] \in Seq(1..(n - 1)) /\ A[svc] # <<>>
  BY <1>1, <1>2, <1>3, Zenon DEF StoreType
<1>5. 1 \in DOMAIN A[svc] /\ id \in 1..(n - 1)
  BY <1>2, <1>4
<1>6. R[id].service = svc
  BY <1>2, <1>3, <1>5, Zenon DEF ListsLiveOnce
<1>7. LiveIn(R, id)
  BY <1>2, <1>3, <1>5, Zenon DEF ListsLiveOnce
<1>8. id \in DOMAIN R
  BY <1>7, Zenon DEF LiveIn
<1> QED
  BY <1>1, <1>2, <1>5, <1>6, <1>8, Zenon

\* A store with nothing in it is well formed.
LEMMA EmptyInv ==
    ASSUME NEW R, NEW A, NEW Q, R = [id \in {} |-> 0], Q = [id \in {} |-> 0],
           A = [s \in Services |-> <<>>]
    PROVE  Inv(R, A, Q, 1)
<1>1. /\ DOMAIN R = {} /\ DOMAIN Q = {}
      /\ \A s \in Services : A[s] = <<>> /\ DOMAIN A[s] = {}
  OBVIOUS
<1>2. StoreType(R, A, Q, 1)
  <2>1. \A T : <<>> \in Seq(T)
    OBVIOUS
  <2>2. A \in [Services -> Seq(1..(1 - 1))]
    BY <2>1, Zenon
  <2>3. R \in [DOMAIN R -> OperationRecord] /\ Q \in [DOMAIN Q -> 1..(1 - 1)]
    BY <1>1, Zenon
  <2> QED
    BY <1>1, <2>2, <2>3, Zenon DEF StoreType
<1>3. ListsLiveOnce(R, A)
  BY <1>1, Zenon DEF ListsLiveOnce
<1>4. QueuedBehindHead(R, A, Q) /\ RunsAtHead(R, A) /\ InRequestOrder(A)
  BY <1>1, Zenon DEF QueuedBehindHead, RunsAtHead, InRequestOrder
<1>5. QueueWaits(R, Q) /\ ShutdownApart(R, Q)
  BY <1>1, Zenon DEF QueueWaits, ShutdownApart
<1> QED
  BY <1>2, <1>3, <1>4, <1>5, Zenon DEF Inv, PreInv

\* The invariant holds when the supervisor is created.
LEMMA InitIInv == Init => IInv
<1> SUFFICES ASSUME Init PROVE IInv
  BY Zenon
<1>1. PICK R, A, Q : /\ R = [id \in {} |-> 0] /\ Q = [id \in {} |-> 0]
                     /\ A = [s \in Services |-> <<>>]
  BY Zenon
<1>2. store = Store(R, A, Q) /\ nextId = 1
  BY <1>1, Zenon DEF Init, EmptyStore
<1>3. Inv(R, A, Q, 1)
  BY <1>1, EmptyInv, Zenon
<1>4. StoreInv(store, nextId) /\ nextId \in Nat \ {0}
  BY <1>2, <1>3, StoreFields
<1>5. shuttingDown \in BOOLEAN
  BY Zenon DEF Init
<1> QED
  BY <1>4, <1>5, Zenon DEF IInv

\* Every step keeps it: one step of the proof for each action.
LEMMA NextIInv == IInv /\ [Next]_vars => IInv'
<1> SUFFICES ASSUME IInv, [Next]_vars PROVE IInv'
  BY Zenon
<1>1. nextId \in Nat \ {0} /\ shuttingDown \in BOOLEAN /\ StoreInv(store, nextId)
  BY Zenon DEF IInv
<1>2. "Admin" \in OperationSources /\ "Admin" # "Shutdown"
  BY Zenon DEF OperationSources
<1>3. {"Completed", "Failed", "Cancelled", "Aborted"} \subseteq TerminalStates
  BY Zenon DEF TerminalStates
<1> USE DEF Has, InState
<1>4. ASSUME NEW s \in Services, NEW type \in OperationTypes, Request(s, type)
      PROVE  IInv'
  <2>1. StoreInv(RequestOperation(store, nextId, type, s, "Admin"), nextId + 1)
    BY <1>1, <1>2, RequestOperationInv, Zenon
  <2> QED
    BY <1>1, <1>4, <2>1 DEF Request, Allocate, IInv
<1>5. ASSUME NEW s \in Services, NEW type \in OperationTypes, SynchronousClear(s, type)
      PROVE  IInv'
  <2>1. PICK req : req = RequestOperation(store, nextId, type, s, "Admin")
    BY Zenon
  <2>2. StoreInv(req, nextId + 1) /\ nextId + 1 \in Nat \ {0}
    BY <1>1, <1>2, <2>1, RequestOperationInv
  <2>3. /\ InState(req, nextId, "Pending") /\ nextId' = nextId + 1
        /\ store' = CompleteOperation(StartOperation(req, nextId), nextId)
        /\ shuttingDown' = shuttingDown
    BY <1>5, <2>1, Zenon DEF SynchronousClear, CanStart, Allocate
  <2>4. store' = EndOperation(req, nextId, "Completed")
    BY <2>2, <2>3, StartThenEnd
      , Zenon DEF CompleteOperation, StoreInv, Inv, PreInv, StoreType
  <2>5. IsLive(req, nextId)
    BY <2>3, Zenon DEF IsLive, LiveIn, IsTerminal, TerminalStates
  <2>6. StoreInv(EndOperation(req, nextId, "Completed"), nextId + 1)
    BY <1>3, <2>2, <2>5, EndOperationInv, Zenon
  <2> QED
    BY <1>1, <2>3, <2>4, <2>6 DEF IInv
<1>6. ASSUME NEW s \in Services, MergeDeferredRestart(s) PROVE IInv'
  <2>1. PICK head : head = CurrentForService(store, s)
    BY Zenon
  <2>2. /\ head # NoOperation /\ nextId' = nextId + 1 /\ shuttingDown' = shuttingDown
        /\ store' = MergeRequest(store, nextId, "Restart", s, "Admin", head)
    BY <1>6, <2>1, Zenon DEF MergeDeferredRestart, Allocate
  <2>3. head \in 1..(nextId - 1) /\ "Restart" \in OperationTypes
    BY <1>1, <2>1, <2>2, HeadIsLive, Zenon DEF OperationTypes
  <2>4. StoreInv(MergeRequest(store, nextId, "Restart", s, "Admin", head), nextId + 1)
    BY <1>1, <1>2, <2>3, MergeRequestInv, Zenon
  <2> QED
    BY <1>1, <2>2, <2>4 DEF IInv
<1>7. ASSUME NEW s \in Services, StartHead(s) PROVE IInv'
  <2>1. PICK head : head = CurrentForService(store, s)
    BY Zenon
  <2>2. /\ head # NoOperation /\ InState(store, head, "Pending")
        /\ head \notin DOMAIN store.queuedBehind
        /\ store' = StartOperation(store, head)
        /\ nextId' = nextId /\ shuttingDown' = shuttingDown
    BY <1>7, <2>1, Zenon DEF StartHead, CanStart
  <2>3. CurrentForService(store, store.records[head].service) = head
    BY <1>1, <2>1, <2>2, HeadIsLive
  <2>4. StoreInv(StartOperation(store, head), nextId)
    BY <1>1, <2>2, <2>3, StartOperationInv, Zenon
  <2> QED
    BY <1>1, <2>2, <2>4, Zenon DEF IInv
<1>8. ASSUME NEW s \in Services, StartShutdownStop(s) PROVE IInv'
  <2>1. PICK id : /\ store.records[id].source = "Shutdown"
                  /\ InState(store, id, "Pending")
                  /\ store' = StartOperation(store, id)
    BY <1>8, Zenon DEF StartShutdownStop, CanStart
  <2>2. id \notin DOMAIN store.queuedBehind
    BY <1>1, <2>1, Zenon DEF StoreInv, Inv, PreInv, ShutdownApart
  <2>3. StoreInv(StartOperation(store, id), nextId)
    BY <1>1, <2>1, <2>2, StartOperationInv, Zenon
  <2> QED
    BY <1>1, <1>8, <2>1, <2>3, Zenon DEF IInv, StartShutdownStop
<1>9. ASSUME NEW id \in DOMAIN store.records, End(id) PROVE IInv'
  <2>1. IsLive(store, id)
    BY <1>9, Zenon DEF End, CanFinish, CanCancel, CanAbort, IsLive, LiveIn, IsTerminal,
                TerminalStates
  <2>2. \A state \in TerminalStates : StoreInv(EndOperation(store, id, state), nextId)
    BY <1>1, <2>1, EndOperationInv, Zenon
  <2>3. StoreInv(store', nextId)
    BY <1>3, <1>9, <2>2, Zenon DEF End, CompleteOperation, FailOperation, CancelOperation,
                            AbortOperation
  <2> QED
    BY <1>1, <1>9, <2>3, Zenon DEF IInv, End
<1>10. ASSUME NEW id \in DOMAIN store.records, Promote(id) PROVE IInv'
  <2>1. PICK cleared : cleared = ClearQueuedBehind(store, id)
    BY Zenon
  <2>2. /\ InState(store, id, "Pending")
        /\ CurrentForService(store, store.records[id].service) = id
        /\ nextId' = nextId /\ shuttingDown' = shuttingDown
    BY <1>10, Zenon DEF Promote, IsReadyQueued
  <2>3. StoreInv(cleared, nextId)
    BY <1>1, <2>1, <2>2, ClearQueuedBehindInv, Zenon
  <2>4. cleared.records = store.records
    BY <2>1, Zenon DEF ClearQueuedBehind, Store
  <2>5. InState(cleared, id, "Pending") /\ IsLive(cleared, id)
    BY <2>2, <2>4, Zenon DEF IsLive, LiveIn, IsTerminal, TerminalStates
  <2>6. \/ store' = cleared
        \/ store' = EndOperation(cleared, id, "Completed")
        \/ store' = EndOperation(cleared, id, "Failed")
        \/ store.records[id].type = "Start" /\ store' = RequeueBehindHead(cleared, id)
    BY <1>10, <2>1, Zenon DEF Promote, CompleteOperation, FailOperation
  <2>7. \A state \in TerminalStates : StoreInv(EndOperation(cleared, id, state), nextId)
    BY <1>1, <2>3, <2>5, EndOperationInv, Zenon
  <2>8. ASSUME store.records[id].type = "Start"
        PROVE  StoreInv(RequeueBehindHead(cleared, id), nextId)
    <3>1. cleared.records[id].source # "Shutdown"
      BY <1>1, <2>2, <2>4, <2>8, Zenon DEF StoreInv, Inv, PreInv, ShutdownApart
    <3> QED
      BY <1>1, <2>3, <2>5, <3>1, RequeueBehindHeadInv, Zenon
  <2>9. StoreInv(store', nextId)
    BY <1>3, <2>3, <2>6, <2>7, <2>8, Zenon
  <2> QED
    BY <1>1, <2>2, <2>9, Zenon DEF IInv
<1>11. ASSUME NEW id \in DOMAIN store.records, Purge(id) PROVE IInv'
  <2>1. StoreInv(PurgeRecord(store, id), nextId)
    BY <1>1, <1>11, PurgeRecordInv, Zenon DEF Purge
  <2> QED
    BY <1>1, <1>11, <2>1, Zenon DEF Purge, IInv
<1>12. ASSUME NEW waves \in StopWaves, BeginShutdown(waves) PROVE IInv'
  <2>1. PICK m \in 0..MaxOperations : waves \in [1..m -> Services]
    BY Zenon DEF StopWaves
  <2>2. m \in Nat /\ Len(waves) = m /\ DOMAIN waves = 1..m
    <3>1. m \in Nat
      BY <2>1, MaxOperationsAssumption
    <3>2. waves \in Seq(Services)
      BY <2>1, <3>1
    <3> QED
      BY <2>1, <3>1, <3>2
  <2>3. \A i, j \in 1..m : waves[i] = waves[j] => i = j
    BY <2>2, Zenon DEF StopWaves
  <2>4. StoreInv(ObserveShutdownStops(store, nextId, waves), nextId + m)
    BY <1>1, <2>1, <2>2, <2>3, ObserveShutdownStopsInv, Zenon
  <2>5. /\ store' = ObserveShutdownStops(store, nextId, waves)
        /\ nextId' = nextId + m /\ shuttingDown' = TRUE
    BY <1>12, <2>2, Zenon DEF BeginShutdown
  <2>6. nextId + m \in Nat \ {0}
    BY <1>1, <2>2
  <2> QED
    BY <2>4, <2>5, <2>6, Zenon DEF IInv
<1>13. CASE UNCHANGED vars
  BY <1>1, <1>13, Zenon DEF vars, IInv
<1>14. OperationTypes \ {"Reset"} \subseteq OperationTypes
       /\ {"Stop", "Reset"} \subseteq OperationTypes
  BY Zenon DEF OperationTypes
<1>15. CASE Next
  BY <1>4, <1>5, <1>6, <1>7, <1>8, <1>9, <1>10, <1>11, <1>12, <1>14, <1>15, Zenon DEF Next
<1> QED
  BY <1>13, <1>15, Zenon

\* The strengthened invariant holds in every reachable state, for any set of
\* services and any number of requests.
THEOREM OperationStoreInvariant == Spec => []IInv
  BY InitIInv, NextIInv, PTL DEF Spec

\* The store keeps its type: in particular no record, list or queue entry
\* names an identifier the allocator has not handed out.
THEOREM TypeCorrect == Spec => []TypeOK
<1>1. IInv => TypeOK
  BY Zenon DEF IInv, StoreInv, Inv, PreInv, TypeOK
<1> QED
  BY <1>1, OperationStoreInvariant, PTL

\* The active lists hold exactly the live operations, each once, under every
\* order of requests, outcomes, promotions, purges and shutdown.
THEOREM ActiveListsMatchRecords == Spec => []ActiveMatchesRecords
<1>1. IInv => ActiveMatchesRecords
  BY Zenon DEF IInv, StoreInv, Inv, PreInv, ActiveMatchesRecords
<1> QED
  BY <1>1, OperationStoreInvariant, PTL

\* No operation behind a head is left without a queue entry.
THEOREM NoOperationIsOrphaned == Spec => []OnlyHeadIsUnqueued
<1>1. IInv => OnlyHeadIsUnqueued
  BY Zenon DEF IInv, StoreInv, Inv, PreInv, OnlyHeadIsUnqueued
<1> QED
  BY <1>1, OperationStoreInvariant, PTL

\* Queue entries belong to pending operations and stay within a service.
THEOREM QueueEntriesWait == Spec => []QueueEntriesAreWaiting
<1>1. IInv => QueueEntriesAreWaiting
  BY Zenon DEF IInv, StoreInv, Inv, PreInv, QueueEntriesAreWaiting
<1> QED
  BY <1>1, OperationStoreInvariant, PTL

\* Behind the head the order of requests is kept.
THEOREM FirstComeFirstServed == Spec => []QueueIsFirstComeFirstServed
<1>1. IInv => QueueIsFirstComeFirstServed
  BY Zenon DEF IInv, StoreInv, Inv, PreInv, QueueIsFirstComeFirstServed
<1> QED
  BY <1>1, OperationStoreInvariant, PTL

\* At most one operation of a service runs, apart from shutdown's stop: two
\* that ran would both be live, hence both on the service's list, and only
\* one of them can be its head.
THEOREM AtMostOneRunning == Spec => []OneRunningPerService
<1>1. IInv => OneRunningPerService
  <2> SUFFICES ASSUME IInv, NEW a \in DOMAIN store.records, NEW b \in DOMAIN store.records,
                      InState(store, a, "Running"), InState(store, b, "Running"),
                      store.records[a].service = store.records[b].service,
                      store.records[a].source # "Shutdown",
                      store.records[b].source # "Shutdown"
               PROVE  a = b
    BY Zenon DEF OneRunningPerService
  <2>1. PICK R, A, s : R = store.records /\ A = store.active /\ s = R[a].service
    BY Zenon
  <2>2. StoreType(R, A, store.queuedBehind, nextId) /\ ListsLiveOnce(R, A) /\ RunsAtHead(R, A)
    BY <2>1, Zenon DEF IInv, StoreInv, Inv, PreInv
  <2>3. /\ a \in DOMAIN R /\ R[a].state = "Running" /\ R[a].source # "Shutdown"
        /\ b \in DOMAIN R /\ R[b].state = "Running" /\ R[b].source # "Shutdown"
        /\ R[b].service = s
    BY <2>1, Zenon DEF InState, Has
  <2>4. s \in Services
    <3>1. R[a] \in OperationRecord
      BY <2>2, <2>3, Zenon DEF StoreType
    <3> QED
      BY <3>1, <2>1, Zenon DEF OperationRecord
  <2>5. a \in Members(A[s]) /\ b \in Members(A[s])
    <3>1. LiveIn(R, a) /\ LiveIn(R, b)
      BY <2>3, Zenon DEF LiveIn, IsTerminal, TerminalStates
    <3>2. R[a].service = s
      BY <2>1, Zenon
    <3>3. \A id \in DOMAIN R : LiveIn(R, id) => id \in Members(A[R[id].service])
      BY <2>2, Zenon DEF ListsLiveOnce
    <3>4. a \in Members(A[R[a].service]) /\ b \in Members(A[R[b].service])
      BY <2>3, <3>1, <3>3, Zenon
    <3> QED
      BY <2>3, <3>2, <3>4, Zenon
  <2>6. PICK i \in DOMAIN A[s] : A[s][i] = a
    BY <2>5, Zenon DEF Members
  <2>7. PICK j \in DOMAIN A[s] : A[s][j] = b
    BY <2>5, Zenon DEF Members
  <2>8. i = 1 /\ j = 1
    BY <2>2, <2>3, <2>4, <2>6, <2>7, Zenon DEF RunsAtHead
  <2> QED
    BY <2>6, <2>7, <2>8, Zenon
<1> QED
  BY <1>1, OperationStoreInvariant, PTL

-----------------------------------------------------------------------------
(* Merged requests. *)

\* What MergeTargetsAreLive says of a step from one store to another.
Answers(st, nst) ==
    \A id \in DOMAIN nst.records \ DOMAIN st.records :
        nst.records[id].state = "Merged" =>
            /\ IsLive(st, nst.records[id].mergedInto)
            /\ st.records[nst.records[id].mergedInto].service = nst.records[id].service
            /\ st.records[nst.records[id].mergedInto].type \in {nst.records[id].type, "Restart"}

\* Ending an operation makes no record.
LEMMA EndKeepsRecords ==
    ASSUME NEW st, NEW id, NEW state
    PROVE  /\ DOMAIN EndOperation(st, id, state).records = DOMAIN st.records
           /\ id \in DOMAIN st.records =>
                EndOperation(st, id, state).records[id].state = state
<1>1. PICK nR : nR = [st.records EXCEPT ![id] = WithState(@, state)]
  BY Zenon
<1>2. SetState(st, id, state).records = nR
  BY <1>1, Zenon DEF SetState, Store
<1>3. EndOperation(st, id, state).records = nR
  <2>1. PICK mid : mid = SetState(st, id, state)
    BY Zenon
  <2>2. RemoveActive(mid, id).records = mid.records
    BY Zenon DEF RemoveActive, Store
  <2> QED
    BY <1>2, <2>1, <2>2, Zenon DEF EndOperation
<1>4. DOMAIN nR = DOMAIN st.records
  BY <1>1, Zenon
<1>5. id \in DOMAIN st.records => nR[id] = WithState(st.records[id], state)
  BY <1>1, Zenon
<1>6. id \in DOMAIN st.records => nR[id].state = state
  <2>1. WithState(st.records[id], state).state = state
    BY Zenon DEF WithState
  <2> QED
    BY <1>5, <2>1, Zenon
<1> QED
  BY <1>3, <1>4, <1>6, Zenon

\* A new pending operation is nobody's answer.
LEMMA PendingAnswers ==
    ASSUME NEW st, NEW nst, NEW mid, NEW n, NEW record, DOMAIN mid = DOMAIN st.records,
           nst.records = Put(mid, n, record), record.state = "Pending"
    PROVE  Answers(st, nst) /\ DOMAIN nst.records \ DOMAIN st.records \subseteq {n}
<1>1. DOMAIN nst.records = DOMAIN st.records \cup {n}
  BY Zenon DEF Put
<1>2. nst.records[n] = record
  BY Zenon DEF Put
<1>3. nst.records[n].state # "Merged"
  BY <1>2
<1> QED
  BY <1>1, <1>3, Zenon DEF Answers

\* A merged request is answered well when the operation it merges into is.
LEMMA MergeAnswers ==
    ASSUME NEW st, NEW n, NEW type, NEW source, NEW existing, IsLive(st, existing),
           st.records[existing].type \in {type, "Restart"}
    PROVE  LET svc == st.records[existing].service IN
           /\ Answers(st, MergeRequest(st, n, type, svc, source, existing))
           /\ DOMAIN MergeRequest(st, n, type, svc, source, existing).records
                \ DOMAIN st.records \subseteq {n}
<1> DEFINE svc == st.records[existing].service
<1>0. PICK nst : nst = MergeRequest(st, n, type, svc, source, existing)
  BY Zenon
<1>1. PICK record : record = MergedRecord(type, svc, source, existing)
  BY Zenon
<1>2. record.mergedInto = existing /\ record.service = svc /\ record.type = type
  BY <1>1, Zenon DEF MergedRecord
<1>3. nst.records = Put(st.records, n, record)
  BY <1>0, <1>1, Zenon DEF MergeRequest, Store
<1>4. DOMAIN nst.records = DOMAIN st.records \cup {n} /\ nst.records[n] = record
  BY <1>3, Zenon DEF Put
<1>5. ASSUME NEW id \in DOMAIN nst.records \ DOMAIN st.records PROVE id = n
  BY <1>4, Zenon
<1>6. nst.records[n].mergedInto = existing /\ nst.records[n].service = svc
      /\ nst.records[n].type = type
  BY <1>2, <1>4, Zenon
<1> QED
  BY <1>0, <1>5, <1>6, Zenon DEF Answers

\* `request_operation` answers a merged request with a live operation of the
\* service that the conflict table lets absorb it; every other decision makes
\* a pending operation of its own, or nothing.
LEMMA RequestAnswers ==
    ASSUME NEW n \in Nat \ {0}, NEW st, StoreInv(st, n), NEW svc \in Services,
           NEW type, NEW source
    PROVE  /\ Answers(st, RequestOperation(st, n, type, svc, source))
           /\ DOMAIN RequestOperation(st, n, type, svc, source).records
                \ DOMAIN st.records \subseteq {n}
<1>0. PICK nst : nst = RequestOperation(st, n, type, svc, source)
  BY Zenon
<1> SUFFICES Answers(st, nst) /\ DOMAIN nst.records \ DOMAIN st.records \subseteq {n}
  BY <1>0, Zenon
<1> DEFINE mergeable == Mergeable(st, svc, type)
           list == st.active[svc]
           first == CHOOSE i \in mergeable : \A j \in mergeable : i <= j
<1>1. PICK decision : decision = ResolveRequest(st, svc, type)
  BY Zenon
<1>2. PICK record : record = NewRecord(type, svc, source)
  BY Zenon
<1>3. record.state = "Pending" /\ record.service = svc
  BY <1>2, Zenon DEF NewRecord
<1>4. ASSUME NEW s, NEW behind
      PROVE  /\ InsertBack(s, n, record).records = Put(s.records, n, record)
             /\ InsertFront(s, n, record).records = Put(s.records, n, record)
             /\ SetQueuedBehind(InsertBack(s, n, record), n, behind).records
                    = Put(s.records, n, record)
  BY Zenon DEF InsertBack, InsertFront, SetQueuedBehind, Store
<1>5. CASE decision.kind = "MergeIntoExisting"
  <2>1. nst = MergeRequest(st, n, type, svc, source, decision.existing)
    BY <1>1, <1>5, <1>0, Zenon DEF RequestOperation
  <2>2. PICK i \in DOMAIN list :
          decision.existing = list[i] /\ DecisionOn(st, list[i], type) = "MergeIntoExisting"
    <3>1. CASE mergeable # {}
      <4>1. list \in Seq(1..(n - 1))
        BY Zenon DEF StoreInv, Inv, PreInv, StoreType
      <4>2. mergeable \subseteq DOMAIN list /\ mergeable \subseteq Nat
        BY <4>1 DEF Mergeable
      <4>3. first \in mergeable
        BY <3>1, <4>2, LeastNatural, Zenon
      <4>4. decision = [kind |-> "MergeIntoExisting", existing |-> list[first]]
        BY <1>1, <3>1, Zenon DEF ResolveRequest
      <4>5. decision.existing = list[first]
        BY <4>4
      <4>6. DecisionOn(st, list[first], type) = "MergeIntoExisting" /\ first \in DOMAIN list
        BY <4>3, Zenon DEF Mergeable
      <4> QED
        BY <4>5, <4>6, Zenon
    <3>2. CASE mergeable = {} /\ list = <<>>
      <4>1. decision = [kind |-> "CreateNew", existing |-> NoOperation]
        BY <1>1, <3>2, Zenon DEF ResolveRequest
      <4> QED
        BY <1>5, <4>1
    <3>3. CASE mergeable = {} /\ list # <<>>
      <4>1. decision = [kind |-> DecisionOn(st, list[1], type), existing |-> list[1]]
        BY <1>1, <3>3, Zenon DEF ResolveRequest
      <4>2. DecisionOn(st, list[1], type) = "MergeIntoExisting"
        BY <1>5, <4>1, Zenon
      <4>3. list \in Seq(1..(n - 1)) /\ list # <<>>
        BY <3>3, Zenon DEF StoreInv, Inv, PreInv, StoreType
      <4>4. 1 \in DOMAIN list
        BY <4>3
      <4> QED
        BY <3>3, <4>2, <4>4, Zenon DEF Mergeable
    <3> QED
      BY <3>1, <3>2, <3>3, Zenon
  <2>3. IsLive(st, list[i]) /\ st.records[list[i]].service = svc
    BY <2>2, Zenon DEF StoreInv, Inv, PreInv, ListsLiveOnce, IsLive
  <2>4. <<st.records[list[i]].type, type>> \in MergePairs
    <3>1. PICK t, state : t = st.records[list[i]].type /\ state = st.records[list[i]].state
      BY Zenon
    <3>2. ~IsTerminal(state)
      BY <2>3, <3>1, Zenon DEF IsLive, LiveIn
    <3>3. ResolveOperationConflict(t, state, type) = "MergeIntoExisting"
      BY <2>2, <3>1, Zenon DEF DecisionOn
    <3>4. <<t, type>> \in MergePairs
      BY <3>2, <3>3 DEF ResolveOperationConflict
    <3> QED
      BY <3>1, <3>4, Zenon
  <2>5. st.records[list[i]].type \in {type, "Restart"}
    BY <2>4 DEF MergePairs
  <2> QED
    <3>1. PICK existing : existing = list[i]
      BY Zenon
    <3>2. /\ IsLive(st, existing) /\ st.records[existing].service = svc
          /\ st.records[existing].type \in {type, "Restart"}
          /\ nst = MergeRequest(st, n, type, svc, source, existing)
      BY <2>1, <2>2, <2>3, <2>5, <3>1, Zenon
    <3> QED
      BY <3>2, MergeAnswers, Zenon
<1>6. CASE decision.kind = "CreateNew"
  <2>1. nst = InsertBack(st, n, record)
    BY <1>1, <1>2, <1>6, <1>0, Zenon DEF RequestOperation
  <2> QED
    BY <1>3, <1>4, <2>1, PendingAnswers, ZenonT(30)
<1>7. CASE decision.kind = "QueueNew"
  <2>1. nst = SetQueuedBehind(InsertBack(st, n, record), n, decision.existing)
    BY <1>1, <1>2, <1>7, <1>0, Zenon DEF RequestOperation
  <2>2. nst.records = Put(st.records, n, record)
    BY <1>4, <2>1, Zenon
  <2> QED
    BY <1>3, <2>2, PendingAnswers, ZenonT(30)
<1>8. CASE decision.kind \in {"CancelExistingThenCreate", "AbortExistingThenCreate"}
  <2>1. PICK state : nst = InsertFront(EndOperation(st, decision.existing, state), n, record)
    BY <1>1, <1>2, <1>8, <1>0, Zenon DEF RequestOperation, CancelOperation, AbortOperation
  <2>2. PICK mid : mid = EndOperation(st, decision.existing, state)
    BY Zenon
  <2>3. DOMAIN mid.records = DOMAIN st.records
    BY <2>2, EndKeepsRecords, Zenon
  <2>4. nst.records = Put(mid.records, n, record)
    BY <1>4, <2>1, <2>2, Zenon
  <2> QED
    BY <1>3, <2>3, <2>4, PendingAnswers
<1>9. CASE decision.kind = "CancelExistingThenQueue"
  <2>1. PICK mid : mid = EndOperation(st, decision.existing, "Cancelled")
    BY Zenon
  <2>2. DOMAIN mid.records = DOMAIN st.records
    BY <2>1, EndKeepsRecords, Zenon
  <2>3. \/ nst = InsertBack(mid, n, record)
        \/ \E head : nst = SetQueuedBehind(InsertBack(mid, n, record), n, head)
    BY <1>1, <1>2, <1>9, <2>1, <1>0, Zenon DEF RequestOperation, CancelOperation
  <2>4. nst.records = Put(mid.records, n, record)
    BY <1>4, <2>3, Zenon
  <2> QED
    BY <1>3, <2>2, <2>4, PendingAnswers
<1>10. CASE decision.kind \notin {"MergeIntoExisting", "CreateNew", "QueueNew",
                                  "CancelExistingThenCreate", "AbortExistingThenCreate",
                                  "CancelExistingThenQueue"}
  <2>1. nst = st
    BY <1>1, <1>10, <1>0, Zenon DEF RequestOperation
  <2> QED
    BY <2>1, Zenon DEF Answers
<1> QED
  BY <1>5, <1>6, <1>7, <1>8, <1>9, <1>10, Zenon

\* Every step answers the requests it merges: one step of the proof for each
\* action.
LEMMA NextAnswers == IInv /\ [Next]_vars => Answers(store, store')
<1> SUFFICES ASSUME IInv, [Next]_vars PROVE Answers(store, store')
  BY Zenon
<1>1. nextId \in Nat \ {0} /\ StoreInv(store, nextId)
  BY Zenon DEF IInv
<1>2. ASSUME NEW s \in Services, NEW type, Request(s, type) PROVE Answers(store, store')
  BY <1>1, <1>2, RequestAnswers, Zenon DEF Request
<1>3. ASSUME NEW s \in Services, NEW type, SynchronousClear(s, type)
      PROVE  Answers(store, store')
  <2>1. PICK req : req = RequestOperation(store, nextId, type, s, "Admin")
    BY Zenon
  <2>2. DOMAIN req.records \ DOMAIN store.records \subseteq {nextId}
    BY <1>1, <2>1, RequestAnswers, Zenon
  <2>3. /\ nextId \in DOMAIN req.records
        /\ store' = EndOperation(StartOperation(req, nextId), nextId, "Completed")
    BY <1>3, <2>1, Zenon DEF SynchronousClear, CanStart, CompleteOperation, InState, Has
  <2>4. PICK mid : mid = StartOperation(req, nextId)
    BY Zenon
  <2>5. DOMAIN mid.records = DOMAIN req.records
    BY <2>4, Zenon DEF StartOperation, SetState, Store
  <2>6. DOMAIN store'.records = DOMAIN req.records /\ store'.records[nextId].state = "Completed"
    BY <2>3, <2>4, <2>5, EndKeepsRecords, Zenon
  <2>7. store'.records[nextId].state # "Merged"
    BY <2>6
  <2> QED
    BY <2>2, <2>6, <2>7, Zenon DEF Answers
<1>4. ASSUME NEW s \in Services, MergeDeferredRestart(s) PROVE Answers(store, store')
  <2>1. PICK head : head = CurrentForService(store, s)
    BY Zenon
  <2>2. /\ head # NoOperation /\ store.records[head].type = "Restart"
        /\ InState(store, head, "Pending")
        /\ store' = MergeRequest(store, nextId, "Restart", s, "Admin", head)
    BY <1>4, <2>1, Zenon DEF MergeDeferredRestart
  <2>3. IsLive(store, head)
    BY <2>2, Zenon DEF InState, Has, IsLive, LiveIn, IsTerminal, TerminalStates
  <2>4. store.records[head].service = s
    BY <1>1, <2>1, <2>2, HeadIsLive, Zenon
  <2> QED
    <3>1. PICK st, type, source : st = store /\ type = "Restart" /\ source = "Admin"
      BY Zenon
    <3>2. /\ IsLive(st, head) /\ st.records[head].service = s
          /\ st.records[head].type \in {type, "Restart"}
      BY <2>2, <2>3, <2>4, <3>1, Zenon
    <3>3. Answers(st, MergeRequest(st, nextId, type, s, source, head))
      BY <3>2, MergeAnswers, ZenonT(30)
    <3> QED
      BY <2>2, <3>1, <3>3, Zenon
<1>5. ASSUME DOMAIN store'.records \subseteq DOMAIN store.records PROVE Answers(store, store')
  BY <1>5, Zenon DEF Answers
<1>6. ASSUME NEW s \in Services, StartHead(s) \/ StartShutdownStop(s)
      PROVE  DOMAIN store'.records \subseteq DOMAIN store.records
  <2>1. PICK id : store' = StartOperation(store, id)
    BY <1>6, Zenon DEF StartHead, StartShutdownStop
  <2>2. store'.records = [store.records EXCEPT ![id] = WithState(@, "Running")]
    BY <2>1, Zenon DEF StartOperation, SetState, Store
  <2> QED
    BY <2>2, Zenon
<1>7. ASSUME NEW id, End(id) PROVE DOMAIN store'.records \subseteq DOMAIN store.records
  <2>1. PICK state : store' = EndOperation(store, id, state)
    BY <1>7, Zenon DEF End, CompleteOperation, FailOperation, CancelOperation, AbortOperation
  <2> QED
    <3>1. DOMAIN EndOperation(store, id, state).records = DOMAIN store.records
      BY EndKeepsRecords, Zenon
    <3> QED
      BY <2>1, <3>1, Zenon
<1>8. ASSUME NEW id, Promote(id) PROVE DOMAIN store'.records \subseteq DOMAIN store.records
  <2>1. PICK cleared : cleared = ClearQueuedBehind(store, id)
    BY Zenon
  <2>2. cleared.records = store.records
    BY <2>1, Zenon DEF ClearQueuedBehind, Store
  <2>3. RequeueBehindHead(cleared, id).records = cleared.records
    BY Zenon DEF RequeueBehindHead, SetQueuedBehind, Store
  <2> QED
    <3>1. \/ store' = cleared \/ store' = RequeueBehindHead(cleared, id)
          \/ \E state : store' = EndOperation(cleared, id, state)
      BY <1>8, <2>1, Zenon DEF Promote, CompleteOperation, FailOperation
    <3>2. ASSUME NEW state, store' = EndOperation(cleared, id, state)
          PROVE  DOMAIN store'.records = DOMAIN cleared.records
      <4>1. DOMAIN EndOperation(cleared, id, state).records = DOMAIN cleared.records
        BY EndKeepsRecords, Zenon
      <4> QED
        BY <3>2, <4>1, Zenon
    <3>3. DOMAIN store'.records = DOMAIN cleared.records
      BY <2>3, <3>1, <3>2, Zenon
    <3> QED
      BY <2>2, <3>3, Zenon
<1>9. ASSUME NEW id, Purge(id) PROVE DOMAIN store'.records \subseteq DOMAIN store.records
  BY <1>9, Zenon DEF Purge, PurgeRecord, Drop, Store
<1>10. ASSUME NEW waves \in StopWaves, BeginShutdown(waves) PROVE Answers(store, store')
  <2>1. store' = ObserveShutdownStops(store, nextId, waves)
    BY <1>10, Zenon DEF BeginShutdown
  <2>2. PICK top : top = nextId..(nextId + Len(waves) - 1)
    BY Zenon
  <2>3. store'.records = [id \in DOMAIN store.records \cup top |->
            IF id < nextId THEN store.records[id]
            ELSE NewRecord("Stop", waves[id - nextId + 1], "Shutdown")]
    BY <2>1, <2>2, Zenon DEF ObserveShutdownStops, Store
  <2>4. \A id \in top : ~(id < nextId)
    BY <1>1, <2>2
  <2>5. \A svc : NewRecord("Stop", svc, "Shutdown").state # "Merged"
    BY DEF NewRecord
  <2>6. \A id \in DOMAIN store'.records \ DOMAIN store.records :
            store'.records[id].state # "Merged"
    BY <2>3, <2>4, <2>5, Zenon
  <2> QED
    BY <2>6, Zenon DEF Answers
<1>11. CASE UNCHANGED vars
  <2>1. store' = store
    BY <1>11, Zenon DEF vars
  <2> QED
    BY <2>1, Zenon DEF Answers
<1>12. CASE Next
  BY <1>2, <1>3, <1>4, <1>5, <1>6, <1>7, <1>8, <1>9, <1>10, <1>12, Zenon DEF Next
<1> QED
  BY <1>11, <1>12, Zenon

\* A request that merges is answered with an operation of its service that is
\* live when it is answered and does what was asked for.
THEOREM MergedRequestsAreServed == Spec => MergeTargetsAreLive
<1>1. IInv /\ [Next]_vars =>
        [\A id \in DOMAIN store'.records \ DOMAIN store.records :
            LET new == store'.records[id]
            IN  new.state = "Merged" =>
                    /\ IsLive(store, new.mergedInto)
                    /\ store.records[new.mergedInto].service = new.service
                    /\ store.records[new.mergedInto].type \in {new.type, "Restart"}]_vars
  BY NextAnswers, Zenon DEF Answers
<1> QED
  BY <1>1, OperationStoreInvariant, PTL DEF Spec, MergeTargetsAreLive

=============================================================================
