--------------------------- MODULE ControlChannel ---------------------------
(***************************************************************************)
(* The control and the jobs sockets and the runtime turn that serves them  *)
(* (src/src/control/connection, src/src/control/wire,                      *)
(* src/src/supervisor/control_connection, src/src/supervisor/              *)
(* control_command, src/src/jobs, src/src/runtime).                        *)
(*                                                                         *)
(* A turn pumps the queued work, answers the waits that are ready, resumes *)
(* the requests those waits held back, sleeps in epoll until a source is   *)
(* readable or a deadline is due, handles the sources, and does it again.  *)
(* Clients write, read, half-close and leave at any moment in between.     *)
(*                                                                         *)
(* A request is `size' tokens and a newline; an answer on the control      *)
(* socket is two units, so that a write can be partial.  The sockets       *)
(* register for EPOLLIN only.  Time is relative: an age or a remaining     *)
(* time that saturates, so that the model has no horizon.                  *)
(***************************************************************************)
EXTENDS Integers, Sequences, FiniteSets, SequencesExt, FiniteSetsExt, TLC

CONSTANTS
    ControlFds, JobsFds,   \* the descriptors accept hands out, naturals
    Callers, System,       \* who connects; System is exempt from the quota
    Restless,              \* the callers who half-close or leave
    Rights,                \* what each caller may do: a set of access rights
    MaxConnections, MaxPerCaller,
    Visits,                \* the clients that come, each with its requests: a set of sequences
    MaxRequest, MaxRead, Room,
    Timeout, OpTime, Retention,
    Ops                    \* the identifiers of operations and jobs: 1..n

Fds == ControlFds \cup JobsFds
NoWait == 0

ASSUME ControlChannelAssumption ==
    /\ ControlFds \cap JobsFds = {} /\ Fds \subseteq Nat
    /\ System \in Callers /\ MaxPerCaller \in Nat /\ MaxConnections \in Nat
    /\ {MaxRequest, MaxRead, Room, Timeout, OpTime, Retention} \subseteq Nat \ {0}

VARIABLE rt
vars == <<rt>>

(***************************************************************************)
(* The state.  conns: ControlConnectionRecord and JobsConnectionRecord by  *)
(* descriptor.  peers: the client's end and what the kernel holds for both *)
(* directions.  ops: operations and submitted jobs as the channels see     *)
(* them, with the time that is left to the next deadline.                  *)
(***************************************************************************)
Connection(caller) ==
    [read |-> <<>>, write |-> <<>>, closing |-> FALSE, wait |-> NoWait, waits |-> 0,
     age |-> 0, caller |-> caller]

NoPeer == [state |-> "none", caller |-> System, script |-> <<>>, sent |-> 0,
           inq |-> <<>>, out |-> <<>>, got |-> <<>>]

NoOp == [state |-> "none", left |-> 0, type |-> "none"]

Init ==
    \E visits \in Visits :
        rt = [conns |-> <<>>, peers |-> [fd \in Fds |-> NoPeer],
              backlog |-> [control |-> <<>>, jobs |-> <<>>], visits |-> visits,
              ops |-> [o \in Ops |-> NoOp], shutdown |-> FALSE,
              pc |-> "sources", events |-> {}]

Tracked(s) == DOMAIN s.conns
Forget(s, fds) == [s EXCEPT !.conns = [f \in Tracked(s) \ fds |-> s.conns[f]],
                            !.peers = [f \in Fds |-> IF f \in fds THEN NoPeer ELSE @[f]]]
Ended(s) == [s EXCEPT !.pc = "ended", !.events = {}]

\* An operation that can no longer change, or that is no longer remembered.
Terminal(op) == op.state \in {"ended", "purged"}

(***************************************************************************)
(* Frames and buffers.                                                     *)
(***************************************************************************)
Token(r, end) == [req |-> r, end |-> end]

\* The tokens a client sends for its whole script.
TokensOf(r, size) == [i \in 1..(size + 1) |-> Token(r, i = size + 1)]
Stream(script) ==
    FlattenSeq([r \in 1..Len(script) |-> TokensOf(r, script[r].size)])

Newlines(buffer) == {i \in 1..Len(buffer) : buffer[i].end}
HoldsCompleteFrame(buffer) == Newlines(buffer) # {}

ControlFrameDecision(buffer) ==
    IF HoldsCompleteFrame(buffer)
    THEN LET body == Min(Newlines(buffer)) - 1
         IN IF body > MaxRequest THEN "TooLarge"
            ELSE IF body = 0 THEN "Malformed" ELSE "Complete"
    ELSE IF Len(buffer) > MaxRequest THEN "TooLarge" ELSE "Incomplete"

Consume(buffer) == SubSeq(buffer, Min(Newlines(buffer)) + 1, Len(buffer))

Unit(r, part) == [req |-> r, part |-> part]
Answer(fd, r) == IF fd \in ControlFds THEN <<Unit(r, 1), Unit(r, 2)>> ELSE <<Unit(r, 1)>>

EnqueueResponse(c, fd, r, close) ==
    [c EXCEPT !.write = @ \o Answer(fd, r), !.closing = @ \/ close]

\* Mutation: a request behind a wait runs.
HoldsRunnableFrameIgnoringWait(c) == HoldsCompleteFrame(c.read)

HoldsRunnableFrame(c) == c.wait = NoWait /\ HoldsCompleteFrame(c.read)

\* Idle means nothing in flight: no wait, nothing unwritten, no whole frame.
IsIdle(c) == c.wait = NoWait /\ c.write = <<>> /\ ~HoldsCompleteFrame(c.read)
IdleExpired(c) == IsIdle(c) /\ c.age >= Timeout

(***************************************************************************)
(* Commands.  A request names its command; "bad" stands for a body the     *)
(* parser refuses and for a service or job that is unknown.                *)
(***************************************************************************)
Queries == {"status", "list", "operation_status", "boot", "job_status", "job_list"}
ParseControlRequest(command) == IF command = "bad" THEN "error" ELSE command

ServiceAccessFor(command) ==
    CASE command \in {"start", "startwait"} -> "start"
      [] command = "stop"                   -> "stop"
      [] OTHER                              -> "query_status"
CheckSystemAccess(caller, right) == right \in Rights[caller]
CheckServiceCommandAccess(caller, command) == ServiceAccessFor(command) \in Rights[caller]
CheckJobAccess(caller, right) == right \in Rights[caller]

IsShutdownAllowedQuery(command) == command \in Queries
RejectDuringShutdown(s, command) == s.shutdown /\ ~IsShutdownAllowedQuery(command)

Live(op) == op.state \in {"queued", "running", "late", "exited"}
LiveOf(s, type) == {o \in Ops : Live(s.ops[o]) /\ s.ops[o].type = type}
Fresh(s) == {o \in Ops : s.ops[o].state = "none"}
NewOp(type) == [state |-> "queued", left |-> OpTime, type |-> type]
EndedOp(op) == [state |-> "ended", left |-> Retention, type |-> op.type]
EndWhere(s, set) == [s EXCEPT !.ops = [o \in Ops |-> IF o \in set THEN EndedOp(@[o]) ELSE @[o]]]

Reply(s, wait) == [state |-> s, wait |-> wait]
Create(s, type, waits) ==
    IF Fresh(s) = {} THEN Reply(s, NoWait)
    ELSE Reply([s EXCEPT !.ops[Min(Fresh(s))] = NewOp(type)],
               IF waits THEN Min(Fresh(s)) ELSE NoWait)

\* What a lifecycle command does, and the operation its caller waits for: a
\* command joins a live one of its type, and a stop ends the starts.
RunLifecycleCommand(s, caller, command) ==
    LET type == ServiceAccessFor(command)
        waits == command = "startwait"
    IN IF ~CheckServiceCommandAccess(caller, command) THEN Reply(s, NoWait)
       ELSE IF LiveOf(s, type) # {}
       THEN Reply(s, IF waits THEN Min(LiveOf(s, type)) ELSE NoWait)
       ELSE Create(IF type = "stop" THEN EndWhere(s, LiveOf(s, "start")) ELSE s, type, waits)

\* A query changes nothing and is answered at once.
RunQuery(s, caller, command) == Reply(s, NoWait)

RunShutdownCommand(s, caller) ==
    IF ~CheckSystemAccess(caller, "shutdown") THEN Reply(s, NoWait)
    ELSE Reply([s EXCEPT !.shutdown = TRUE], NoWait)

\* A job that has not begun is cancelled, one that runs is told to stop.
StopSubmittedJob(s, o) ==
    CASE s.ops[o].state = "queued"  -> EndWhere(s, {o})
      [] s.ops[o].state = "running" -> [s EXCEPT !.ops[o].state = "late", !.ops[o].left = 0]
      [] OTHER -> s

\* From either socket: the caller waits unless the job is over already.
RunJobStop(s, caller) ==
    LET jobs == LiveOf(s, "job")
        stopped == StopSubmittedJob(s, Min(jobs))
    IN IF jobs = {} THEN Reply(s, NoWait)
       ELSE IF ~CheckJobAccess(caller, "stop") THEN Reply(s, NoWait)
       ELSE Reply(stopped, IF Terminal(stopped.ops[Min(jobs)]) THEN NoWait ELSE Min(jobs))

RunControlBody(s, caller, command) ==
    CASE ParseControlRequest(command) = "error" -> Reply(s, NoWait)
      [] RejectDuringShutdown(s, command) -> Reply(s, NoWait)
      [] command \in Queries   -> RunQuery(s, caller, command)
      [] command = "shutdown"  -> RunShutdownCommand(s, caller)
      [] command = "job_stop"  -> RunJobStop(s, caller)
      [] OTHER -> RunLifecycleCommand(s, caller, command)

\* A submit is answered once its job has left Created, a wait when its job is
\* over.  A shutdown refuses a submit.
RunJobsMessage(s, caller, command) ==
    CASE command = "submit" -> IF s.shutdown THEN Reply(s, NoWait) ELSE Create(s, "job", TRUE)
      [] command = "stop"   -> RunJobStop(s, caller)
      [] command = "wait"   ->
           IF LiveOf(s, "job") = {} \/ ~CheckJobAccess(caller, "query_status")
           THEN Reply(s, NoWait) ELSE Reply(s, Min(LiveOf(s, "job")))

(***************************************************************************)
(* One connection's input and output.                                      *)
(***************************************************************************)
Gone(s, fd) == s.peers[fd].state = "gone"
AtEof(s, fd) == s.peers[fd].state \in {"shut", "gone"} /\ s.peers[fd].inq = <<>>
\* The client left with an answer unread: the next read is an error.
Reset(s, fd) == Gone(s, fd) /\ AtEof(s, fd) /\ s.peers[fd].out # <<>>

\* How much of the answer the kernel takes: all of it, a part, or nothing.
Accepts(s, fd) == LET free == Room - Len(s.peers[fd].out)
                  IN Min({free, Len(s.conns[fd].write)})

WriteFails(s, fd) == s.conns[fd].write # <<>> /\ Gone(s, fd)

\* flush_control_connection, and the jobs connection's flush.
Flush(s, fd) ==
    LET n == Accepts(s, fd)
        w == s.conns[fd].write
    IN IF WriteFails(s, fd) THEN Ended(s)
       ELSE [s EXCEPT !.peers[fd].out = @ \o SubSeq(w, 1, n),
                      !.conns[fd].write = SubSeq(w, n + 1, Len(w)),
                      !.conns[fd].age = IF n > 0 THEN 0 ELSE @]

ReadBytes(s, fd) ==
    LET q == s.peers[fd].inq
        n == Min({MaxRead, Len(q)})
    IN [s EXCEPT !.peers[fd].inq = SubSeq(q, n + 1, Len(q)),
                 !.conns[fd].read = @ \o SubSeq(q, 1, n)]

(***************************************************************************)
(* A turn of a control connection: read, run every whole frame until a     *)
(* wait or a rejection stops it, flush, close.                             *)
(***************************************************************************)
ProcessNextFrame(s, fd) ==
    LET c == s.conns[fd]
        decision == ControlFrameDecision(c.read)
        req == c.read[1].req
    IN IF decision = "Incomplete" THEN s
       ELSE IF decision = "Complete" THEN
            LET ran == RunControlBody(s, c.caller, s.peers[fd].script[req].cmd)
                left == [c EXCEPT !.read = Consume(@)]
            IN [ran.state EXCEPT !.conns[fd] =
                    IF ran.wait = NoWait THEN EnqueueResponse(left, fd, req, FALSE)
                    ELSE [left EXCEPT !.wait = ran.wait, !.waits = req]]
       ELSE [s EXCEPT !.conns[fd] =
                EnqueueResponse([c EXCEPT !.read = <<>>], fd, req, TRUE)]

Frameable(c) == HoldsRunnableFrame(c) /\ ~c.closing

RECURSIVE ProcessFrames(_, _)
ProcessFrames(s, fd) ==
    IF Frameable(s.conns[fd]) THEN ProcessFrames(ProcessNextFrame(s, fd), fd) ELSE s

\* The loop runs once even when no frame is whole: that is how a request
\* that is too large and has no newline yet is refused.
RunFrames(s, fd) ==
    LET c == s.conns[fd]
    IN IF c.wait # NoWait \/ c.closing THEN s
       ELSE ProcessFrames(ProcessNextFrame([s EXCEPT !.conns[fd].age = 0], fd), fd)

ShouldClose(s, fd, eof) ==
    s.conns[fd].write = <<>> /\ (eof \/ s.conns[fd].closing)

\* Mutation: the end of the file is taken for an empty read.
ControlConnectionTurnNoEof(s, fd) ==
    LET read == IF s.peers[fd].inq # <<>> THEN ReadBytes(s, fd) ELSE s
        wrote == Flush(RunFrames(read, fd), fd)
    IN IF fd \notin Tracked(s) THEN s
       ELSE IF Reset(s, fd) THEN Ended(s)
       ELSE IF wrote.pc = "ended" THEN wrote
       ELSE IF ShouldClose(wrote, fd, FALSE) THEN Forget(wrote, {fd}) ELSE wrote

ControlConnectionTurn(s, fd) ==
    LET eof == AtEof(s, fd)
        read == IF s.peers[fd].inq # <<>>
                THEN [ReadBytes(s, fd) EXCEPT !.conns[fd].age = 0] ELSE s
        ran == IF eof THEN read ELSE RunFrames(read, fd)
        wrote == Flush(ran, fd)
    IN IF fd \notin Tracked(s) THEN s
       ELSE IF Reset(s, fd) THEN Ended(s)
       ELSE IF wrote.pc = "ended" THEN wrote
       ELSE IF ShouldClose(wrote, fd, eof) THEN Forget(wrote, {fd}) ELSE wrote

(***************************************************************************)
(* A turn of a jobs connection: one record, unless a wait is pending.      *)
(***************************************************************************)
ReadMessage(s, fd) ==
    LET req == Head(s.peers[fd].inq).req
        ran == RunJobsMessage(s, s.conns[fd].caller, s.peers[fd].script[req].cmd)
        c == [s.conns[fd] EXCEPT !.age = 0]
    IN [ran.state EXCEPT
          !.peers[fd].inq = Tail(@),
          !.conns[fd] = IF ran.wait = NoWait
                        THEN EnqueueResponse(c, fd, req, s.peers[fd].script[req].size > MaxRequest)
                        ELSE [c EXCEPT !.wait = ran.wait, !.waits = req]]

JobsConnectionTurn(s, fd) ==
    LET waiting == s.conns[fd].wait # NoWait
        eof == ~waiting /\ AtEof(s, fd)
        read == IF ~waiting /\ s.peers[fd].inq # <<>> THEN ReadMessage(s, fd) ELSE s
        wrote == Flush(read, fd)
    IN IF fd \notin Tracked(s) THEN s
       ELSE IF ~waiting /\ Reset(s, fd) THEN Ended(s)
       ELSE IF wrote.pc = "ended" THEN wrote
       ELSE IF eof \/ (wrote.conns[fd].closing /\ wrote.conns[fd].write = <<>>)
       THEN Forget(wrote, {fd}) ELSE wrote

(***************************************************************************)
(* Accepting.  The kernel hands out the least free descriptor.             *)
(***************************************************************************)
Free(s, fds) == {fd \in fds : fd \notin Tracked(s)}
Held(s, caller) == Cardinality({fd \in Tracked(s) \cap ControlFds : s.conns[fd].caller = caller})

AdmitsCaller(s, caller) == caller = System \/ Held(s, caller) < MaxPerCaller

Admit(s, fds) == Cardinality(Tracked(s) \cap fds) < MaxConnections

\* A rejected connection is closed without an answer.
AcceptConnection(s, kind) ==
    LET b == Head(s.backlog[kind])
        fds == IF kind = "control" THEN ControlFds ELSE JobsFds
        fd == Min(Free(s, fds))
        rest == [s EXCEPT !.backlog[kind] = Tail(@)]
    IN IF s.backlog[kind] = <<>> THEN s
       ELSE IF (kind = "control" => AdmitsCaller(s, b.caller)) /\ Admit(s, fds)
       THEN [rest EXCEPT !.conns = (fd :> Connection(b.caller)) @@ @, !.peers[fd] = b]
       ELSE rest

(***************************************************************************)
(* Waits.                                                                  *)
(***************************************************************************)
\* The operation is over, forgotten, or out of time; a jobs wait has no
\* time of its own, and a submit is answered once its job has left Created.
WaitIsReady(s, fd) ==
    LET op == s.ops[s.conns[fd].wait]
    IN \/ Terminal(op)
       \/ fd \in ControlFds /\ op.type # "job" /\ op.left = 0
       \/ fd \in JobsFds /\ s.peers[fd].script[s.conns[fd].waits].cmd = "submit"
                         /\ op.state # "queued"

AnswerWait(s, fd) ==
    Flush([s EXCEPT !.conns[fd] =
              EnqueueResponse([@ EXCEPT !.wait = NoWait, !.waits = 0], fd, @.waits, FALSE)], fd)

FlushWait(s, fd) ==
    IF s.pc = "ended" \/ fd \notin Tracked(s) THEN s
    ELSE IF s.conns[fd].wait = NoWait THEN s
    ELSE IF WaitIsReady(s, fd) THEN AnswerWait(s, fd) ELSE s

InOrder(fds) == SetToSortSeq(fds, <)
FlushTerminalControlWaits(s) == FoldLeft(FlushWait, s, InOrder(Tracked(s) \cap ControlFds))
FlushJobsWaits(s) == FoldLeft(FlushWait, s, InOrder(Tracked(s) \cap JobsFds))

FdsWithRunnableFrames(s) == {fd \in Tracked(s) \cap ControlFds : HoldsRunnableFrame(s.conns[fd])}

ResumeConnection(s, fd) == IF s.pc = "ended" THEN s ELSE ControlConnectionTurn(s, fd)
\* Mutation: what a wait held back is left to the next readable event.
ResumeNothing(s) == s

ResumeBufferedFrames(s) == FoldLeft(ResumeConnection, s, InOrder(FdsWithRunnableFrames(s)))

(***************************************************************************)
(* The rest of the turn.                                                   *)
(***************************************************************************)
\* The work pump starts jobs, and operations that wait for no other.
MayBegin(s, o) ==
    /\ s.ops[o].state = "queued"
    /\ s.ops[o].type # "job" => \A x \in LiveOf(s, "start") \cup LiveOf(s, "stop") : o <= x

DrainWorkQueues(s) ==
    [s EXCEPT !.ops = [o \in Ops |->
        IF MayBegin(s, o) THEN [@[o] EXCEPT !.state = "running"] ELSE @[o]]]

\* Queued operations out of time fail; ended ones are forgotten in the end.
OutOfTime(s, state) == {o \in Ops : s.ops[o].state = state /\ s.ops[o].left = 0}
ProcessDueMaintenance(s) ==
    [EndWhere(s, OutOfTime(s, "queued")) EXCEPT !.ops =
        [o \in Ops |-> IF o \in OutOfTime(s, "ended") THEN [@[o] EXCEPT !.state = "purged"] ELSE @[o]]]

CloseIdle(s) ==
    IF s.pc = "ended" THEN s ELSE Forget(s, {fd \in Tracked(s) : IdleExpired(s.conns[fd])})

\* The next deadline of the idle connections and of the maintenance is due.
DeadlineIsDue(s) ==
    \/ \E fd \in Tracked(s) : IdleExpired(s.conns[fd])
    \/ OutOfTime(s, "queued") \cup OutOfTime(s, "ended") # {}

Source(kind, fd) == [kind |-> kind, fd |-> fd]
Readable(p) == p.inq # <<>> \/ p.state \in {"shut", "gone"}
When(condition, source) == IF condition THEN {source} ELSE {}

\* What epoll reports: it is level triggered, and only for input.
ReadySources(s) ==
    {Source("connection", fd) : fd \in {f \in Tracked(s) : Readable(s.peers[f])}}
        \cup When(s.backlog.control # <<>>, Source("control", 0))
        \cup When(s.backlog.jobs # <<>>, Source("jobs", 0))
        \cup When(\E o \in Ops : s.ops[o].state = "exited", Source("signal", 0))
        \cup When(OutOfTime(s, "running") # {}, Source("deadline", 0))

\* Signals are handled first; epoll reports the others in any order.
MayBeNext(e, events) == e.kind = "signal" \/ Source("signal", 0) \notin events

Reap(s) == EndWhere(s, {o \in Ops : s.ops[o].state = "exited"})

\* The lifecycle timer: what runs out of time is stopped, and ends later.
Expire(s) == [s EXCEPT !.ops = [o \in Ops |->
    IF o \in OutOfTime(s, "running") THEN [@[o] EXCEPT !.state = "late"] ELSE @[o]]]

Then(s, pc) == IF s.pc = "ended" THEN s ELSE [s EXCEPT !.pc = pc]

FlushAndResume(s) ==
    LET flushed == FlushTerminalControlWaits(s)
    IN IF flushed.pc = "ended" THEN flushed ELSE ResumeBufferedFrames(flushed)

\* Mutation: the waits of the jobs socket are forgotten.
FlushNoJobs(s) == s

FlushJobs(s) == IF s.pc = "ended" THEN s ELSE FlushJobsWaits(s)

\* What a turn does before the wait, and again after the sources.
HalfTurn(s) == LET pumped == FlushJobs(FlushAndResume(DrainWorkQueues(s)))
               IN IF pumped.pc = "ended" THEN pumped
                  ELSE CloseIdle(FlushAndResume(ProcessDueMaintenance(pumped)))

ProcessSource(s, e) ==
    CASE e.kind = "signal"   -> Reap(s)
      [] e.kind = "deadline" -> Expire(s)
      [] e.kind \in {"control", "jobs"} -> AcceptConnection(s, e.kind)
      [] OTHER -> IF e.fd \in ControlFds THEN ControlConnectionTurn(s, e.fd)
                  ELSE JobsConnectionTurn(s, e.fd)

(***************************************************************************)
(* The actions of the runtime.                                             *)
(***************************************************************************)
EpollWait ==
    /\ rt.pc = "wait"
    /\ ReadySources(rt) # {} \/ DeadlineIsDue(rt)
    /\ rt' = [rt EXCEPT !.pc = "sources", !.events = ReadySources(rt)]

ProcessNextSource ==
    /\ rt.pc = "sources"
    /\ \E e \in rt.events :
          /\ MayBeNext(e, rt.events)
          /\ rt' = ProcessSource([rt EXCEPT !.events = @ \ {e}], e)

\* The end of a turn and the beginning of the next.
NextTurn ==
    /\ rt.pc = "sources" /\ rt.events = {}
    /\ rt' = Then(HalfTurn(HalfTurn(rt)), "wait")

(***************************************************************************)
(* The world: clients, processes and time.                                 *)
(***************************************************************************)
Connect ==
    LET v == Head(rt.visits)
    IN /\ rt.visits # <<>> /\ rt.pc # "ended"
       /\ rt' = [rt EXCEPT !.visits = Tail(@),
                           !.backlog[v.kind] = Append(@, [NoPeer EXCEPT !.state = "open",
                                                   !.caller = v.caller, !.script = v.script])]

ClientSend(fd) ==
    LET p == rt.peers[fd]
        all == IF fd \in ControlFds THEN Stream(p.script)
               ELSE [r \in 1..Len(p.script) |-> Token(r, TRUE)]
    IN /\ p.state = "open" /\ p.sent < Len(all) /\ rt.pc # "ended"
       /\ rt' = [rt EXCEPT !.peers[fd].sent = @ + 1, !.peers[fd].inq = Append(@, all[p.sent + 1])]

ClientRead(fd) ==
    /\ rt.peers[fd].state \in {"open", "shut"} /\ rt.peers[fd].out # <<>> /\ rt.pc # "ended"
    /\ rt' = [rt EXCEPT !.peers[fd].got = @ \o rt.peers[fd].out, !.peers[fd].out = <<>>]

ClientShut(fd) ==
    /\ rt.peers[fd].state = "open" /\ rt.peers[fd].caller \in Restless /\ rt.pc # "ended"
    /\ rt' = [rt EXCEPT !.peers[fd].state = "shut"]

ClientLeave(fd) ==
    /\ rt.peers[fd].state \in {"open", "shut"} /\ rt.peers[fd].caller \in Restless
    /\ rt.pc # "ended"
    /\ rt' = [rt EXCEPT !.peers[fd].state = "gone"]

ProcessExits(o) ==
    /\ rt.ops[o].state \in {"running", "late"} /\ rt.pc # "ended"
    /\ rt' = [rt EXCEPT !.ops[o].state = "exited", !.ops[o].left = 0]

\* Only an idle connection ages: becoming idle is an activity, which resets
\* the age, so the age of a busy one is never looked at.
Older(c) == IF IsIdle(c) THEN [c EXCEPT !.age = Min({@ + 1, Timeout})] ELSE c

Tick ==
    /\ rt.pc # "ended"
    /\ rt' = [rt EXCEPT !.conns = [fd \in Tracked(rt) |-> Older(@[fd])],
                     !.ops = [o \in Ops |-> [@[o] EXCEPT !.left = Max({@ - 1, 0})]]]

Runtime == EpollWait \/ ProcessNextSource \/ NextTurn

Next ==
    \/ Runtime
    \/ Connect
    \/ \E fd \in Fds : ClientSend(fd) \/ ClientRead(fd) \/ ClientShut(fd) \/ ClientLeave(fd)
    \/ \E o \in Ops : ProcessExits(o)
    \/ Tick

\* The loop can take a step; and it takes one (only its steps change these).
CanRun == rt.pc = "sources" \/ (rt.pc = "wait" /\ (ReadySources(rt) # {} \/ DeadlineIsDue(rt)))
Runs == <<rt.pc, rt.events>>' # <<rt.pc, rt.events>>

\* The loop runs whenever it can, which is its weak fairness; time passes; and
\* what is started ends.  Clients owe nothing.
Fairness ==
    /\ []<>~CanRun \/ []<><<Runs>>_vars
    /\ WF_vars(Tick)
    /\ \A o \in Ops : WF_vars(ProcessExits(o))

Spec == Init /\ [][Next]_vars /\ Fairness

(***************************************************************************)
(* Properties.                                                             *)
(***************************************************************************)
Flow(fd) == rt.peers[fd].got \o rt.peers[fd].out \o rt.conns[fd].write
Answers(fd, k) == FlattenSeq([r \in 1..k |-> Answer(fd, r)])

\* What a client receives, what the kernel holds for it and what is still to
\* be written are together the answers to its first requests, each once, whole
\* and in order, and the request it waits for or that is read next is the one
\* after them: whatever is pipelined behind a wait, resumed when the wait is
\* answered, written in parts or refused (control_connection/turn/standard.rs).
AnswersInOrder ==
    \A fd \in Tracked(rt) :
        LET c == rt.conns[fd]
            k == Len(Flow(fd)) \div Len(Answer(fd, 1))
        IN /\ Flow(fd) = Answers(fd, k)
           /\ c.wait # NoWait => c.waits = k + 1
           /\ c.read # <<>> /\ ~c.closing => c.read[1].req = k + (IF c.wait # NoWait THEN 2 ELSE 1)

\* When the loop sleeps, no connection whose client still has its end open
\* holds a request that could run: no readable event will come for bytes that
\* were already read (the comment of resume_buffered_control_frames).
NoFrameIsStranded ==
    rt.pc = "wait" => \A fd \in Tracked(rt) \cap ControlFds :
                          ~AtEof(rt, fd) => ~Frameable(rt.conns[fd])

Left(fd) == fd \notin Tracked(rt) \/ rt.pc = "ended"
Served(fd, r) == Left(fd) \/ rt.peers[fd].state # "open" \/ rt.conns[fd].closing
                          \/ Contains(Flow(fd), Unit(r, 1))
Arrived(fd, r) == ~Left(fd) /\ Contains(rt.peers[fd].inq, Token(r, TRUE))

\* Every request that arrives whole is answered, however many wait before it,
\* unless its client half-closes or its connection ends first: the loop never
\* sleeps for ever on an answer that is due (wait.rs, prepare.rs).
RequestsAreAnswered ==
    \A fd \in Fds : \A r \in 1..2 : Arrived(fd, r) ~> Served(fd, r)

\* The slot of a client that is gone is given back: a connection that is
\* waiting, or half written to, does not hold it for ever.
SlotsAreReturned ==
    \A fd \in Fds : (~Left(fd) /\ Gone(rt, fd)) ~> Left(fd)

=============================================================================
