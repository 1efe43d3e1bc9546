---------------------------- MODULE OperationStore ----------------------------
(***************************************************************************)
(* The operation store of peinit (src/src/operation): the lifecycle of an  *)
(* operation record, the conflict table, and the per-service list of live  *)
(* operations with the queue the table asks for.                           *)
(*                                                                         *)
(* The store is a value.  Every method of `OperationStore` is an operator  *)
(* that maps a store to the store the method leaves behind, so that a      *)
(* module about a caller that makes several calls in one transaction can   *)
(* compose them.  The methods' error returns are the `Can...` predicates:  *)
(* the code makes a call that would err on a clone and drops the clone.    *)
(*                                                                         *)
(* The specification at the end lets the callers of the store make their   *)
(* calls in any order the dispatch rules of src/src/supervisor allow.      *)
(* Times, callers and result texts are left out; a record is purged some   *)
(* time after it has become terminal.                                      *)
(***************************************************************************)
EXTENDS Naturals, Sequences

CONSTANTS
    Services,       \* the service names
    MaxOperations   \* bound on the number of operations ever requested

ASSUME MaxOperationsAssumption == MaxOperations \in Nat

\* Operation identifiers come from a monotone allocator (src/src/ids) and are
\* never reused; 0 stands for "none".
OperationIds == Nat \ {0}
NoOperation == 0

OperationTypes == {"Start", "Stop", "Restart", "Reload", "Reset"}

OperationSources ==
    {"Admin", "Boot", "Shutdown", "DependencyPropagation", "RestartPolicy",
     "Timer", "BindsToRecovery", "BindsToPropagation", "ConflictResolution",
     "OnFailure", "TtyRelease"}

LiveStates == {"Pending", "Running"}
TerminalStates == {"Completed", "Failed", "Merged", "Cancelled", "Aborted"}
OperationStates == LiveStates \union TerminalStates

IsTerminal(state) == state \in TerminalStates

OperationRecord ==
    [type: OperationTypes, service: Services, source: OperationSources,
     state: OperationStates, mergedInto: OperationIds \union {NoOperation}]

-----------------------------------------------------------------------------
(* Partial functions, for the maps of the code. *)

Put(f, k, v) == [x \in DOMAIN f \union {k} |-> IF x = k THEN v ELSE f[x]]
Drop(f, k) == [x \in DOMAIN f \ {k} |-> f[x]]
Members(s) == {s[i] : i \in DOMAIN s}

\* `retain(|x| x != id)`, for a list that holds id at most once.
Without(s, id) ==
    IF id \in Members(s)
    THEN LET at == CHOOSE i \in DOMAIN s : s[i] = id
         IN  [j \in 1..(Len(s) - 1) |-> IF j < at THEN s[j] ELSE s[j + 1]]
    ELSE s

-----------------------------------------------------------------------------
(* Reading the store. *)

\* records: id -> record; active: service -> the ids of its live operations,
\* in order; queuedBehind: id -> the operation it waits for.
Store(records, active, queuedBehind) ==
    [records |-> records, active |-> active, queuedBehind |-> queuedBehind]

EmptyStore ==
    Store([id \in {} |-> 0], [s \in Services |-> <<>>], [id \in {} |-> 0])

LiveIn(records, id) == id \in DOMAIN records /\ ~IsTerminal(records[id].state)

Has(st, id) == id \in DOMAIN st.records
IsLive(st, id) == LiveIn(st.records, id)
InState(st, id, state) == Has(st, id) /\ st.records[id].state = state

\* The first active operation of the service.  (The code skips an identifier
\* with no record; ActiveMatchesRecords says there is none to skip.)
CurrentForService(st, s) ==
    IF st.active[s] = <<>> THEN NoOperation ELSE st.active[s][1]

IsQueuedBehindLive(st, id) ==
    id \in DOMAIN st.queuedBehind /\ IsLive(st, st.queuedBehind[id])

\* A queued operation whose predecessor has finished, now at the head.
IsReadyQueued(st, id) ==
    /\ id \in DOMAIN st.queuedBehind
    /\ ~IsLive(st, st.queuedBehind[id])
    /\ InState(st, id, "Pending")
    /\ CurrentForService(st, st.records[id].service) = id

-----------------------------------------------------------------------------
(* The conflict table. *)

\* Mutation: a restart merges into a start.
MergePairsRestartIntoStart ==
    {<<"Start", "Start">>, <<"Stop", "Stop">>, <<"Reload", "Reload">>,
     <<"Restart", "Start">>, <<"Start", "Restart">>}

MergePairs ==
    {<<"Start", "Start">>, <<"Stop", "Stop">>, <<"Reload", "Reload">>,
     <<"Restart", "Start">>}

ReplacePairs ==
    {<<"Start", "Stop">>, <<"Restart", "Stop">>, <<"Reload", "Stop">>,
     <<"Reload", "Restart">>}

QueuePairs ==
    {<<"Stop", "Start">>, <<"Stop", "Restart">>, <<"Restart", "Restart">>}

\* What is decided on an existing operation of that type and state.
ResolveOperationConflict(type, state, requested) ==
    CASE IsTerminal(state) -> "CreateNew"
      [] ~IsTerminal(state) /\ <<type, requested>> \in MergePairs ->
            "MergeIntoExisting"
      [] ~IsTerminal(state) /\ <<type, requested>> \in ReplacePairs ->
            IF state = "Pending" THEN "CancelExistingThenCreate"
                                 ELSE "AbortExistingThenCreate"
      [] ~IsTerminal(state) /\ <<type, requested>> \in QueuePairs -> "QueueNew"
      [] ~IsTerminal(state) /\ <<type, requested>> = <<"Start", "Restart">> ->
            IF state = "Pending" THEN "CancelExistingThenQueue" ELSE "QueueNew"
      [] OTHER -> "Reject"

DecisionOn(st, id, requested) ==
    ResolveOperationConflict(st.records[id].type, st.records[id].state, requested)

Mergeable(st, s, requested) ==
    {i \in DOMAIN st.active[s] :
        DecisionOn(st, st.active[s][i], requested) = "MergeIntoExisting"}

\* Any active operation may absorb the request; otherwise the head decides.
ResolveRequest(st, s, requested) ==
    LET mergeable == Mergeable(st, s, requested)
        first == CHOOSE i \in mergeable : \A j \in mergeable : i <= j
    IN  IF mergeable # {}
        THEN [kind |-> "MergeIntoExisting", existing |-> st.active[s][first]]
        ELSE IF st.active[s] = <<>>
        THEN [kind |-> "CreateNew", existing |-> NoOperation]
        ELSE [kind |-> DecisionOn(st, st.active[s][1], requested),
              existing |-> st.active[s][1]]

-----------------------------------------------------------------------------
(* Changing the store. *)

NewRecord(type, s, source) ==
    [type |-> type, service |-> s, source |-> source, state |-> "Pending",
     mergedInto |-> NoOperation]

MergedRecord(type, s, source, existing) ==
    [type |-> type, service |-> s, source |-> source, state |-> "Merged",
     mergedInto |-> existing]

WithState(r, state) ==
    [type |-> r.type, service |-> r.service, source |-> r.source,
     state |-> state, mergedInto |-> r.mergedInto]

\* Mutation: a new operation is put right behind the head.
InsertBackAhead(st, id, record) ==
    Store(Put(st.records, id, record),
          [st.active EXCEPT ![record.service] =
              IF @ = <<>> THEN <<id>> ELSE <<Head(@), id>> \o Tail(@)],
          st.queuedBehind)

InsertBack(st, id, record) ==
    Store(Put(st.records, id, record),
          [st.active EXCEPT ![record.service] = Append(@, id)],
          st.queuedBehind)

InsertFront(st, id, record) ==
    Store(Put(st.records, id, record),
          [st.active EXCEPT ![record.service] = <<id>> \o @],
          st.queuedBehind)

\* Mutation: what the operation waits for is not recorded.
SetQueuedBehindForgotten(st, id, behind) == st

SetQueuedBehind(st, id, behind) ==
    Store(st.records, st.active, Put(st.queuedBehind, id, behind))

ClearQueuedBehind(st, id) ==
    Store(st.records, st.active, Drop(st.queuedBehind, id))

RemoveActive(st, id) ==
    Store(st.records,
          [st.active EXCEPT ![st.records[id].service] = Without(@, id)],
          Drop(st.queuedBehind, id))

SetState(st, id, state) ==
    Store([st.records EXCEPT ![id] = WithState(@, state)],
          st.active, st.queuedBehind)

\* The ways a live operation ends, and what each requires of its state.
CanFinish(st, id) == InState(st, id, "Pending") \/ InState(st, id, "Running")
CanCancel(st, id) == InState(st, id, "Pending")
CanAbort(st, id) == InState(st, id, "Running")
CanStart(st, id) == InState(st, id, "Pending")

StartOperation(st, id) == SetState(st, id, "Running")

EndOperation(st, id, state) == RemoveActive(SetState(st, id, state), id)
CompleteOperation(st, id) == EndOperation(st, id, "Completed")
FailOperation(st, id) == EndOperation(st, id, "Failed")
CancelOperation(st, id) == EndOperation(st, id, "Cancelled")
AbortOperation(st, id) == EndOperation(st, id, "Aborted")

PurgeRecord(st, id) ==
    Store(Drop(st.records, id), st.active, st.queuedBehind)

\* Queue a promoted operation behind the first other active one, if any.
RequeueBehindHead(st, id) ==
    LET list == st.active[st.records[id].service]
        others == {i \in DOMAIN list : list[i] # id}
        first == CHOOSE i \in others : \A j \in others : i <= j
    IN  IF others = {} THEN st ELSE SetQueuedBehind(st, id, list[first])

MergeRequest(st, id, type, s, source, existing) ==
    Store(Put(st.records, id, MergedRecord(type, s, source, existing)),
          st.active, st.queuedBehind)

\* `request_operation`, for a decision other than Reject.
RequestOperation(st, id, type, s, source) ==
    LET decision == ResolveRequest(st, s, type)
        existing == decision.existing
        record == NewRecord(type, s, source)
    IN  CASE decision.kind = "CreateNew" -> InsertBack(st, id, record)
          [] decision.kind = "QueueNew" ->
                SetQueuedBehind(InsertBack(st, id, record), id, existing)
          [] decision.kind = "MergeIntoExisting" ->
                MergeRequest(st, id, type, s, source, existing)
          [] decision.kind = "CancelExistingThenCreate" ->
                InsertFront(CancelOperation(st, existing), id, record)
          [] decision.kind = "AbortExistingThenCreate" ->
                InsertFront(AbortOperation(st, existing), id, record)
          [] decision.kind = "CancelExistingThenQueue" ->
                LET replaced == CancelOperation(st, existing)
                    head == CurrentForService(replaced, s)
                    inserted == InsertBack(replaced, id, record)
                IN  IF head = NoOperation THEN inserted
                    ELSE SetQueuedBehind(inserted, id, head)
          [] OTHER -> st

\* Shutdown's own stops bypass the conflict table and the queue: one for each
\* participant, in wave order, with consecutive identifiers from `first`.
ObserveShutdownStops(st, first, waves) ==
    Store([id \in DOMAIN st.records \union first..(first + Len(waves) - 1) |->
                IF id < first THEN st.records[id]
                ELSE NewRecord("Stop", waves[id - first + 1], "Shutdown")],
          [s \in Services |->
                IF s \in Members(waves)
                THEN Append(st.active[s],
                            first - 1 + (CHOOSE i \in DOMAIN waves : waves[i] = s))
                ELSE st.active[s]],
          st.queuedBehind)

-----------------------------------------------------------------------------
(* The store under its callers. *)

VARIABLES
    store,          \* the operation store
    nextId,         \* the identifier the allocator hands out next
    shuttingDown    \* shutdown has fixed its plan

vars == <<store, nextId, shuttingDown>>

Init ==
    /\ store = EmptyStore
    /\ nextId = 1
    /\ shuttingDown = FALSE

CanAllocate == nextId <= MaxOperations

Allocate == CanAllocate /\ nextId' = nextId + 1

\* A lifecycle command, a dependency start, a timer, a relationship stop: any
\* caller's request that the conflict table does not reject.
Request(s, type) ==
    /\ ~shuttingDown
    /\ Allocate
    /\ ResolveRequest(store, s, type).kind # "Reject"
    /\ store' = RequestOperation(store, nextId, type, s, "Admin")
    /\ UNCHANGED shuttingDown

\* A second restart of a service in Backoff merges into the deferred one.
MergeDeferredRestart(s) ==
    LET head == CurrentForService(store, s)
    IN  /\ ~shuttingDown
        /\ Allocate
        /\ head # NoOperation
        /\ store.records[head].type = "Restart"
        /\ InState(store, head, "Pending")
        /\ store' = MergeRequest(store, nextId, "Restart", s, "Admin", head)
        /\ UNCHANGED shuttingDown

\* A stop or a reset answered on the spot: request, start and complete.
SynchronousClear(s, type) ==
    LET requested == RequestOperation(store, nextId, type, s, "Admin")
    IN  /\ ~shuttingDown
        /\ Allocate
        /\ ResolveRequest(store, s, type).kind # "Reject"
        /\ CanStart(requested, nextId)
        /\ store' = CompleteOperation(StartOperation(requested, nextId), nextId)
        /\ UNCHANGED shuttingDown

\* Mutation: any operation whose predecessor has ended may begin.
StartBehindHead(s) ==
    /\ \E id \in Members(store.active[s]) :
        /\ CanStart(store, id)
        /\ ~IsQueuedBehindLive(store, id)
        /\ store' = StartOperation(store, id)
    /\ UNCHANGED <<nextId, shuttingDown>>

\* The control boundary or the start path begins the operation at the head of
\* the list, once it waits for nothing.
StartHead(s) ==
    LET head == CurrentForService(store, s)
    IN  /\ head # NoOperation
        /\ CanStart(store, head)
        /\ head \notin DOMAIN store.queuedBehind
        /\ store' = StartOperation(store, head)
        /\ UNCHANGED <<nextId, shuttingDown>>

\* A shutdown wave begins its own stop wherever it stands in the list.
StartShutdownStop(s) ==
    /\ \E id \in Members(store.active[s]) :
        /\ store.records[id].source = "Shutdown"
        /\ CanStart(store, id)
        /\ store' = StartOperation(store, id)
    /\ UNCHANGED <<nextId, shuttingDown>>

\* A live operation ends: by its outcome, by its lifetime, or with its graph
\* member; only a pending one is cancelled, only a running one aborted.
End(id) ==
    /\ \/ CanFinish(store, id) /\ store' = CompleteOperation(store, id)
       \/ CanFinish(store, id) /\ store' = FailOperation(store, id)
       \/ CanCancel(store, id) /\ store' = CancelOperation(store, id)
       \/ CanAbort(store, id) /\ store' = AbortOperation(store, id)
    /\ UNCHANGED <<nextId, shuttingDown>>

\* A queued operation whose turn has come is admitted against the service's
\* state: it goes on (to the boundary, a start plan or the backoff deadline),
\* ends on the spot, or is queued once more.
Promote(id) ==
    LET cleared == ClearQueuedBehind(store, id)
    IN  /\ IsReadyQueued(store, id)
        /\ \/ store' = cleared
           \/ store' = CompleteOperation(cleared, id)
           \/ store' = FailOperation(cleared, id)
           \/ /\ store.records[id].type = "Start"
              /\ store' = RequeueBehindHead(cleared, id)
        /\ UNCHANGED <<nextId, shuttingDown>>

\* The orders in which shutdown may list the services it will stop.
StopWaves ==
    {w \in UNION {[1..n -> Services] : n \in 0..MaxOperations} :
        \A i, j \in DOMAIN w : w[i] = w[j] => i = j}

\* Shutdown fixes its plan: no command is admitted from here on, and each
\* participant gets a stop of its own.
BeginShutdown(waves) ==
    /\ ~shuttingDown
    /\ shuttingDown' = TRUE
    /\ nextId + Len(waves) <= MaxOperations + 1
    /\ nextId' = nextId + Len(waves)
    /\ store' = ObserveShutdownStops(store, nextId, waves)

Purge(id) ==
    /\ Has(store, id)
    /\ IsTerminal(store.records[id].state)
    /\ store' = PurgeRecord(store, id)
    /\ UNCHANGED <<nextId, shuttingDown>>

Next ==
    \/ \E s \in Services :
        \/ \E type \in OperationTypes \ {"Reset"} : Request(s, type)
        \/ \E type \in {"Stop", "Reset"} : SynchronousClear(s, type)
        \/ MergeDeferredRestart(s)
        \/ StartHead(s)
        \/ StartShutdownStop(s)
    \/ \E id \in DOMAIN store.records : End(id) \/ Promote(id) \/ Purge(id)
    \/ \E waves \in StopWaves : BeginShutdown(waves)

Spec == Init /\ [][Next]_vars

-----------------------------------------------------------------------------
(* Properties. *)

\* A store whose identifiers are all below n.
StoreType(records, active, queuedBehind, n) ==
    /\ records \in [DOMAIN records -> OperationRecord]
    /\ DOMAIN records \subseteq 1..(n - 1)
    /\ active \in [Services -> Seq(1..(n - 1))]
    /\ queuedBehind \in [DOMAIN queuedBehind -> 1..(n - 1)]
    /\ DOMAIN queuedBehind \subseteq 1..(n - 1)

IsStore(st) == st = Store(st.records, st.active, st.queuedBehind)

TypeOK ==
    /\ nextId \in Nat \ {0}
    /\ shuttingDown \in BOOLEAN
    /\ IsStore(store)
    /\ StoreType(store.records, store.active, store.queuedBehind, nextId)

ListsLiveOnce(records, active) ==
    /\ \A s \in Services : \A i, j \in DOMAIN active[s] :
        active[s][i] = active[s][j] => i = j
    /\ \A s \in Services : \A i \in DOMAIN active[s] :
        /\ LiveIn(records, active[s][i])
        /\ records[active[s][i]].service = s
    /\ \A id \in DOMAIN records :
        LiveIn(records, id) => id \in Members(active[records[id].service])

\* The list of a service's active operations and the records agree: the list
\* holds each Pending or Running operation of that service once and nothing
\* else, however the operation got there and however another one ended.
ActiveMatchesRecords == ListsLiveOnce(store.records, store.active)

QueuedBehindHead(records, active, queuedBehind) ==
    \A s \in Services : \A i \in DOMAIN active[s] :
        \/ i = 1
        \/ active[s][i] \in DOMAIN queuedBehind
        \/ records[active[s][i]].source = "Shutdown"

\* Every operation behind the head of its service's list waits in the queue:
\* promotion is what will start it, so none is orphaned when the operations
\* ahead of it are merged, cancelled, aborted or replaced at the front.
\* Shutdown's stops are the exception: a wave starts them.
OnlyHeadIsUnqueued ==
    QueuedBehindHead(store.records, store.active, store.queuedBehind)

QueueWaits(records, queuedBehind) ==
    \A id \in DOMAIN queuedBehind :
        /\ id \in DOMAIN records
        /\ records[id].state = "Pending"
        /\ queuedBehind[id] \in DOMAIN records =>
            records[queuedBehind[id]].service = records[id].service

\* A queue entry belongs to a Pending operation, and names another operation
\* of the same service or one whose record is gone; no entry outlives its
\* operation.
QueueEntriesAreWaiting == QueueWaits(store.records, store.queuedBehind)

\* At most one operation of a service runs, apart from shutdown's own stop:
\* a conflicting request ends the running operation before its successor can
\* begin, and a queued one never overtakes it.
OneRunningPerService ==
    \A a, b \in DOMAIN store.records :
        (/\ InState(store, a, "Running") /\ InState(store, b, "Running")
         /\ store.records[a].service = store.records[b].service
         /\ store.records[a].source # "Shutdown"
         /\ store.records[b].source # "Shutdown") => a = b

InRequestOrder(active) ==
    \A s \in Services : \A i, j \in DOMAIN active[s] :
        1 < i /\ i < j => active[s][i] < active[s][j]

\* Behind the head, operations stand in the order of their requests: what
\* replaces the head (a stop, a restart over a reload) goes to the front, and
\* nothing else overtakes.
QueueIsFirstComeFirstServed == InRequestOrder(store.active)

\* A caller whose request merges is answered with the identifier of an
\* operation of its service that was live at that moment and will do what was
\* asked for: the same type, or a restart for a start.
MergeTargetsAreLive ==
    [][\A id \in DOMAIN store'.records \ DOMAIN store.records :
        LET new == store'.records[id]
        IN  new.state = "Merged" =>
                /\ IsLive(store, new.mergedInto)
                /\ store.records[new.mergedInto].service = new.service
                /\ store.records[new.mergedInto].type \in {new.type, "Restart"}]_vars

=============================================================================
