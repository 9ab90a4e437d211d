----------------------------- MODULE EventLoop -----------------------------
(***************************************************************************)
(* The event-loop server both programs are built on: svr_base.cpp,         *)
(* svr_thrd.cpp, io_event.cpp, http_event.cpp and accept_event.cpp.  One   *)
(* loop thread accepts connections, reads requests, hands each complete    *)
(* request to one of the computing threads, and writes the response that   *)
(* thread prepared.  Events are shared by raw pointer: the only thing that *)
(* keeps an event alive is the count of io_event::add_ref and release.     *)
(*                                                                         *)
(* What is kept: every list and queue an event can sit in, every reference *)
(* taken and dropped, the state and io type fields, and each point where   *)
(* another thread can run.  What is abstracted: the bytes (a read or a     *)
(* write is an outcome: failed, partial or complete), the clock (a         *)
(* deadline is a flag that some step sets) and the order of the lists      *)
(* m_evts and m_evts_appd, which every round walks as a whole; how many    *)
(* times an event sits in them is kept.                                    *)
(***************************************************************************)
EXTENDS Naturals, Sequences, FiniteSets

CONSTANTS Conns,       \* the connections clients may open
          Threads,     \* m_thrds_pool, the computing threads
          Listener,    \* the accept_event that bind() adds
          NoEvt,       \* the NULL event pointer
          MaxPartial   \* bound: partial reads and writes of one connection

ASSUME ConstAssumption ==
    /\ Listener \notin Conns
    /\ NoEvt \notin Conns \cup {Listener}
    /\ MaxPartial \in Nat

Evts == Conns \cup {Listener}

VARIABLES life,      \* the heap object of each event: unborn, live or deleted
          ref,       \* io_event::m_ref
          state,     \* http_event::m_state
          ioType,    \* io_event::m_io_type
          reply,     \* http_event::m_resp_data: none, set, or sent in full
          expired,   \* is_timeout() holds from now on
          partial,   \* partial reads and writes so far, at most MaxPartial
          evts,      \* svr_base::m_evts, how often each event occurs in it
          appd,      \* svr_base::m_evts_appd, likewise
          todo,      \* events the current walk over m_evts has still to handle
          pc,        \* where the loop thread is
          cur,       \* the event the loop thread took out of m_evts
          running,   \* the flag the signal handler of the program clears
          tasks,     \* svr_thrd::m_tasks of each computing thread
          tpc,       \* where each computing thread is
          tevt,      \* the event each computing thread popped
          trunning   \* svr_thrd::m_running

evtVars    == <<life, ref, state, ioType, reply, expired, partial>>
listVars   == <<evts, appd>>
loopVars   == <<todo, pc, cur, running>>
threadVars == <<tasks, tpc, tevt, trunning>>
vars == <<evtVars, listVars, loopVars, threadVars>>

ReadStates == {"read_head", "read_body"}

TypeOK ==
    /\ life \in [Evts -> {"unborn", "live", "dead"}]
    /\ ref \in [Evts -> Nat]
    /\ state \in [Evts -> ReadStates \cup {"compute", "write"}]
    /\ ioType \in [Evts -> {"i", "o"}]
    /\ reply \in [Evts -> {"none", "set", "sent"}]
    /\ expired \in [Evts -> BOOLEAN]
    /\ partial \in [Evts -> Nat]
    /\ evts \in [Evts -> Nat]
    /\ appd \in [Evts -> Nat]
    /\ todo \in SUBSET Evts
    /\ pc \in {"merge", "select", "walk", "walk_release", "clock", "sweep",
               "sweep_release", "stop", "join", "destroy", "done"}
    /\ cur \in Evts \cup {NoEvt}
    /\ running \in BOOLEAN
    /\ tasks \in [Threads -> Seq(Evts)]
    /\ tpc \in [Threads -> {"check", "pop", "process", "add_ref", "push",
                            "release", "exited"}]
    /\ tevt \in [Threads -> Evts \cup {NoEvt}]
    /\ trunning \in [Threads -> BOOLEAN]

----------------------------------------------------------------------------
\* bind() has added the accept_event and run() has created the threads.
Init ==
    /\ life = [e \in Evts |-> IF e = Listener THEN "live" ELSE "unborn"]
    /\ ref = [e \in Evts |-> IF e = Listener THEN 1 ELSE 0]
    /\ state = [e \in Evts |-> "read_head"]
    /\ ioType = [e \in Evts |-> "i"]
    /\ reply = [e \in Evts |-> "none"]
    /\ expired = [e \in Evts |-> FALSE]
    /\ partial = [e \in Evts |-> 0]
    /\ evts = [e \in Evts |-> 0]
    /\ appd = [e \in Evts |-> IF e = Listener THEN 1 ELSE 0]
    /\ todo = {} /\ pc = "merge" /\ cur = NoEvt /\ running = TRUE
    /\ tasks = [t \in Threads |-> <<>>]
    /\ tpc = [t \in Threads |-> "check"]
    /\ tevt = [t \in Threads |-> NoEvt]
    /\ trunning = [t \in Threads |-> TRUE]

----------------------------------------------------------------------------
(* References and lists.                                                   *)

\* add_io_event: one more reference and one more occurrence in m_evts_appd,
\* for every event of the set es.
AddIoEvents(es) ==
    /\ ref' = [e \in Evts |-> IF e \in es THEN ref[e] + 1 ELSE ref[e]]
    /\ appd' = [e \in Evts |-> IF e \in es THEN appd[e] + 1 ELSE appd[e]]

\* release: drop one reference; the event deletes itself when none is left.
Release(e) ==
    /\ ref' = [ref EXCEPT ![e] = @ - 1]
    /\ life' = IF ref[e] = 1 THEN [life EXCEPT ![e] = "dead"] ELSE life

\* The iterator of a walk leaves e behind: m_evts.erase(iter).
Erase(e) ==
    /\ evts' = [evts EXCEPT ![e] = @ - 1]
    /\ todo' = IF evts[e] = 1 THEN todo \ {e} ELSE todo
    /\ cur' = e

----------------------------------------------------------------------------
(* The loop thread: svr_base::run_routine.                                 *)

\* Mutant: m_evts is replaced by m_evts_appd instead of extended with it.
MergeReplaces ==
    /\ pc = "merge" /\ running
    /\ evts' = appd
    /\ appd' = [e \in Evts |-> 0]
    /\ pc' = "select"
    /\ UNCHANGED <<evtVars, todo, cur, running, threadVars>>

\* The first statement of run_routine, under m_lock: m_evts_appd moves to
\* m_evts.
Merge ==
    /\ pc = "merge" /\ running
    /\ evts' = [e \in Evts |-> evts[e] + appd[e]]
    /\ appd' = [e \in Evts |-> 0]
    /\ pc' = "select"
    /\ UNCHANGED <<evtVars, todo, cur, running, threadVars>>

\* select() reports some monitored events ready, or none before its timeout.
Select ==
    /\ pc = "select"
    /\ \E ready \in SUBSET {e \in Evts : evts[e] > 0} : todo' = ready
    /\ pc' = "walk"
    /\ UNCHANGED <<evtVars, listVars, cur, running, threadVars>>

\* select() fails, and run_routine returns without looking at any event.
SelectError ==
    /\ pc = "select"
    /\ pc' = "merge"
    /\ UNCHANGED <<evtVars, listVars, todo, cur, running, threadVars>>

\* accept_event::on_event: a new event for the connection, then both events
\* go to m_evts_appd (http_event fields as create_event sets them).
Accept(c) ==
    /\ pc = "walk" /\ Listener \in todo /\ life[c] = "unborn"
    /\ Erase(Listener)
    /\ life' = [life EXCEPT ![c] = "live"]
    /\ AddIoEvents({Listener, c})
    /\ pc' = "walk_release"
    /\ UNCHANGED <<state, ioType, reply, expired, partial, running, threadVars>>

\* accept() or set_nonblock() fails: on_event returns before the line that
\* would add the accept_event again.
AcceptError ==
    /\ pc = "walk" /\ Listener \in todo
    /\ Erase(Listener)
    /\ pc' = "walk_release"
    /\ UNCHANGED <<evtVars, appd, running, threadVars>>

\* Mutant: the handler releases the event, and the loop does so again.
IoErrorReleases(c) ==
    /\ pc = "walk" /\ c \in todo
    /\ Erase(c)
    /\ Release(c)
    /\ pc' = "walk_release"
    /\ UNCHANGED <<state, ioType, reply, expired, partial, appd, running, threadVars>>

\* on_read_head, on_read_body or on_write finds the peer gone or a socket
\* error, and returns without adding the event again.
IoError(c) ==
    /\ pc = "walk" /\ c \in todo
    /\ Erase(c)
    /\ pc' = "walk_release"
    /\ UNCHANGED <<evtVars, appd, running, threadVars>>

\* on_read_head or on_read_body with a request that is not complete yet: the
\* head may or may not be done, a body that is being read stays so.
ReadPartial(c) ==
    /\ pc = "walk" /\ c \in todo /\ state[c] \in ReadStates
    /\ partial[c] < MaxPartial
    /\ Erase(c)
    /\ \E next \in ReadStates :
          /\ state[c] = "read_body" => next = "read_body"
          /\ state' = [state EXCEPT ![c] = next]
    /\ partial' = [partial EXCEPT ![c] = @ + 1]
    /\ AddIoEvents({c})
    /\ pc' = "walk_release"
    /\ UNCHANGED <<life, ioType, reply, expired, running, threadVars>>

\* Mutant: add_task does not take a reference for the queue.
ReadCompleteNoRef(c, t) ==
    /\ pc = "walk" /\ c \in todo /\ state[c] \in ReadStates
    /\ Erase(c)
    /\ state' = [state EXCEPT ![c] = "compute"]
    /\ tasks' = [tasks EXCEPT ![t] = Append(@, c)]
    /\ pc' = "walk_release"
    /\ UNCHANGED <<life, ref, ioType, reply, expired, partial, appd, running,
                   tpc, tevt, trunning>>

\* Mutant: the event stays in m_evts while a computing thread works on it.
ReadCompleteMonitored(c, t) ==
    /\ pc = "walk" /\ c \in todo /\ state[c] \in ReadStates
    /\ Erase(c)
    /\ state' = [state EXCEPT ![c] = "compute"]
    /\ ref' = [ref EXCEPT ![c] = @ + 2]
    /\ appd' = [appd EXCEPT ![c] = @ + 1]
    /\ tasks' = [tasks EXCEPT ![t] = Append(@, c)]
    /\ pc' = "walk_release"
    /\ UNCHANGED <<life, ioType, reply, expired, partial, running, tpc, tevt,
                   trunning>>

\* The request is complete: on_cmplt_pkg, on_dispatch_task and add_task.  The
\* queue takes its reference before the task becomes visible; the thread is
\* drawn at random.
ReadComplete(c, t) ==
    /\ pc = "walk" /\ c \in todo /\ state[c] \in ReadStates
    /\ Erase(c)
    /\ state' = [state EXCEPT ![c] = "compute"]
    /\ ref' = [ref EXCEPT ![c] = @ + 1]
    /\ tasks' = [tasks EXCEPT ![t] = Append(@, c)]
    /\ pc' = "walk_release"
    /\ UNCHANGED <<life, ioType, reply, expired, partial, appd, running,
                   tpc, tevt, trunning>>

\* on_write: every other state.  A partial send adds the event again; with no
\* response data send() returns 0 and the event is dropped like a finished one.
WritePartial(c) ==
    /\ pc = "walk" /\ c \in todo /\ state[c] \notin ReadStates
    /\ reply[c] = "set" /\ partial[c] < MaxPartial
    /\ Erase(c)
    /\ state' = [state EXCEPT ![c] = "write"]
    /\ partial' = [partial EXCEPT ![c] = @ + 1]
    /\ AddIoEvents({c})
    /\ pc' = "walk_release"
    /\ UNCHANGED <<life, ioType, reply, expired, running, threadVars>>

WriteComplete(c) ==
    /\ pc = "walk" /\ c \in todo /\ state[c] \notin ReadStates
    /\ Erase(c)
    /\ reply' = IF reply[c] = "set" THEN [reply EXCEPT ![c] = "sent"] ELSE reply
    /\ pc' = "walk_release"
    /\ UNCHANGED <<life, ref, state, ioType, expired, partial, appd, running,
                   threadVars>>

\* The evt->release() after on_event() in the walk, or after on_timeout() in
\* the sweep.
LoopRelease ==
    /\ pc \in {"walk_release", "sweep_release"}
    /\ Release(cur)
    /\ cur' = NoEvt
    /\ pc' = IF pc = "walk_release" THEN "walk" ELSE "sweep"
    /\ UNCHANGED <<state, ioType, reply, expired, partial, listVars, todo,
                   running, threadVars>>

\* The walk is over, or select() reported nothing.
EndWalk ==
    /\ pc = "walk" /\ todo = {}
    /\ pc' = "clock"
    /\ UNCHANGED <<evtVars, listVars, todo, cur, running, threadVars>>

\* A second has passed since the last sweep: the events in m_evts that are
\* past their deadline are dropped.  m_evts_appd is not looked at.
StartSweep ==
    /\ pc = "clock"
    /\ todo' = {e \in Evts : evts[e] > 0 /\ expired[e]}
    /\ pc' = "sweep"
    /\ UNCHANGED <<evtVars, listVars, cur, running, threadVars>>

NoSweep ==
    /\ pc = "clock"
    /\ pc' = "merge"
    /\ UNCHANGED <<evtVars, listVars, todo, cur, running, threadVars>>

Sweep(e) ==
    /\ pc = "sweep" /\ e \in todo
    /\ Erase(e)
    /\ pc' = "sweep_release"
    /\ UNCHANGED <<evtVars, appd, running, threadVars>>

EndSweep ==
    /\ pc = "sweep" /\ todo = {}
    /\ pc' = "merge"
    /\ UNCHANGED <<evtVars, listVars, todo, cur, running, threadVars>>

----------------------------------------------------------------------------
(* Shutdown: the end of main, svr_base::stop, join and the destructor.     *)

\* signal_proc clears the flag of the main loop.
Signal ==
    /\ running
    /\ running' = FALSE
    /\ UNCHANGED <<evtVars, listVars, todo, pc, cur, threadVars>>

LeaveLoop ==
    /\ pc = "merge" /\ ~running
    /\ pc' = "stop"
    /\ UNCHANGED <<evtVars, listVars, todo, cur, running, threadVars>>

\* stop() clears the flags of the computing threads one after the other.
StopThread(t) ==
    /\ pc = "stop" /\ trunning[t]
    /\ trunning' = [trunning EXCEPT ![t] = FALSE]
    /\ UNCHANGED <<evtVars, listVars, loopVars, tasks, tpc, tevt>>

EndStop ==
    /\ pc = "stop" /\ \A t \in Threads : ~trunning[t]
    /\ pc' = "join"
    /\ UNCHANGED <<evtVars, listVars, todo, cur, running, threadVars>>

\* join() returns when the last thread has left its routine.
Join ==
    /\ pc = "join" /\ \A t \in Threads : tpc[t] = "exited"
    /\ pc' = "destroy"
    /\ UNCHANGED <<evtVars, listVars, todo, cur, running, threadVars>>

\* ~svr_base releases what is in m_evts and in m_evts_appd.
DestroyEvt(e) ==
    /\ pc = "destroy"
    /\ \/ /\ evts[e] > 0
          /\ evts' = [evts EXCEPT ![e] = @ - 1]
          /\ UNCHANGED appd
       \/ /\ appd[e] > 0
          /\ appd' = [appd EXCEPT ![e] = @ - 1]
          /\ UNCHANGED evts
    /\ Release(e)
    /\ UNCHANGED <<state, ioType, reply, expired, partial, loopVars, threadVars>>

EndDestroy ==
    /\ pc = "destroy" /\ \A e \in Evts : evts[e] = 0 /\ appd[e] = 0
    /\ pc' = "done"
    /\ UNCHANGED <<evtVars, listVars, todo, cur, running, threadVars>>

----------------------------------------------------------------------------
(* A computing thread: svr_thrd::run_routine.                              *)

\* Mutant: the thread never looks at its flag.
CheckNever(t) ==
    /\ tpc[t] = "check"
    /\ tpc' = [tpc EXCEPT ![t] = "pop"]
    /\ UNCHANGED <<evtVars, listVars, loopVars, tasks, tevt, trunning>>

\* while (is_running()).
Check(t) ==
    /\ tpc[t] = "check"
    /\ tpc' = [tpc EXCEPT ![t] = IF trunning[t] THEN "pop" ELSE "exited"]
    /\ UNCHANGED <<evtVars, listVars, loopVars, tasks, tevt, trunning>>

\* Under m_mutex: take the first task, at once or after the timed wait.
Pop(t) ==
    /\ tpc[t] = "pop" /\ tasks[t] # <<>>
    /\ tevt' = [tevt EXCEPT ![t] = Head(tasks[t])]
    /\ tasks' = [tasks EXCEPT ![t] = Tail(@)]
    /\ tpc' = [tpc EXCEPT ![t] = "process"]
    /\ UNCHANGED <<evtVars, listVars, loopVars, trunning>>

\* The wait of up to a second ends with the queue still empty.
PopNothing(t) ==
    /\ tpc[t] = "pop" /\ tasks[t] = <<>>
    /\ tpc' = [tpc EXCEPT ![t] = "check"]
    /\ UNCHANGED <<evtVars, listVars, loopVars, tasks, tevt, trunning>>

\* Mutant: set_io_type('o') is forgotten.
ProcessKeepsType(t) ==
    /\ tpc[t] = "process"
    /\ reply' = [reply EXCEPT ![tevt[t]] = "set"]
    /\ state' = [state EXCEPT ![tevt[t]] = "write"]
    /\ tpc' = [tpc EXCEPT ![t] = "add_ref"]
    /\ UNCHANGED <<life, ref, ioType, expired, partial, listVars, loopVars, tasks,
                   tevt, trunning>>

\* on_process up to add_io_event: the handler runs, the response is set, the
\* event is turned around.  The deadline of the request stays in force.
Process(t) ==
    /\ tpc[t] = "process"
    /\ reply' = [reply EXCEPT ![tevt[t]] = "set"]
    /\ state' = [state EXCEPT ![tevt[t]] = "write"]
    /\ ioType' = [ioType EXCEPT ![tevt[t]] = "o"]
    /\ tpc' = [tpc EXCEPT ![t] = "add_ref"]
    /\ UNCHANGED <<life, ref, expired, partial, listVars, loopVars, tasks, tevt,
                   trunning>>

\* Mutant: add_io_event takes no reference.
ThreadAddNoRef(t) ==
    /\ tpc[t] = "add_ref"
    /\ tpc' = [tpc EXCEPT ![t] = "push"]
    /\ UNCHANGED <<evtVars, listVars, loopVars, tasks, tevt, trunning>>

\* add_io_event on a computing thread: the reference first, then the list.
ThreadAddRef(t) ==
    /\ tpc[t] = "add_ref"
    /\ ref' = [ref EXCEPT ![tevt[t]] = @ + 1]
    /\ tpc' = [tpc EXCEPT ![t] = "push"]
    /\ UNCHANGED <<life, state, ioType, reply, expired, partial, listVars,
                   loopVars, tasks, tevt, trunning>>

ThreadPush(t) ==
    /\ tpc[t] = "push"
    /\ appd' = [appd EXCEPT ![tevt[t]] = @ + 1]
    /\ tpc' = [tpc EXCEPT ![t] = "release"]
    /\ UNCHANGED <<evtVars, evts, loopVars, tasks, tevt, trunning>>

\* Mutant: the thread keeps the reference of the queue.
ThreadForgets(t) ==
    /\ tpc[t] = "release"
    /\ tevt' = [tevt EXCEPT ![t] = NoEvt]
    /\ tpc' = [tpc EXCEPT ![t] = "check"]
    /\ UNCHANGED <<evtVars, listVars, loopVars, tasks, trunning>>

ThreadRelease(t) ==
    /\ tpc[t] = "release"
    /\ Release(tevt[t])
    /\ tevt' = [tevt EXCEPT ![t] = NoEvt]
    /\ tpc' = [tpc EXCEPT ![t] = "check"]
    /\ UNCHANGED <<state, ioType, reply, expired, partial, listVars, loopVars,
                   tasks, trunning>>

----------------------------------------------------------------------------
\* The deadline set_timeout(RPC_RECV_TIMEOUT) gave a connection passes.
Expire(c) ==
    /\ life[c] = "live" /\ ~expired[c]
    /\ expired' = [expired EXCEPT ![c] = TRUE]
    /\ UNCHANGED <<life, ref, state, ioType, reply, partial, listVars, loopVars,
                   threadVars>>

Loop ==
    \/ Merge \/ Select \/ SelectError \/ AcceptError
    \/ \E c \in Conns : \/ Accept(c) \/ IoError(c) \/ ReadPartial(c)
                        \/ WritePartial(c) \/ WriteComplete(c)
                        \/ \E t \in Threads : ReadComplete(c, t)
    \/ LoopRelease \/ EndWalk \/ StartSweep \/ NoSweep
    \/ \E e \in Evts : Sweep(e) \/ DestroyEvt(e)
    \/ EndSweep \/ LeaveLoop \/ EndStop \/ Join \/ EndDestroy
    \/ \E t \in Threads : StopThread(t)

Thread(t) ==
    \/ Check(t) \/ Pop(t) \/ PopNothing(t) \/ Process(t)
    \/ ThreadAddRef(t) \/ ThreadPush(t) \/ ThreadRelease(t)

Next ==
    \/ Loop
    \/ Signal
    \/ \E t \in Threads : Thread(t)
    \/ \E c \in Conns : Expire(c)

Spec == Init /\ [][Next]_vars

\* The two threads of control keep running; deadlines pass; select() does not
\* fail for ever and a second passes again and again, so that both branches
\* that a round may take are taken.
Fairness ==
    /\ WF_vars(Loop)
    /\ SF_vars(Select)
    /\ SF_vars(StartSweep)
    /\ \A t \in Threads : WF_vars(Thread(t))
    /\ \A c \in Conns : WF_vars(Expire(c))

FairSpec == Spec /\ Fairness

----------------------------------------------------------------------------
(* Who holds a pointer to an event, and may still use it.                  *)

Queued(e, t) == \E i \in 1..Len(tasks[t]) : tasks[t][i] = e

\* The loop thread holds a reference it has not released yet.
LoopHolds(e) == cur = e

\* A queue or its thread holds the reference add_task took.
TaskHolds(e) == \E t \in Threads : Queued(e, t) \/ tevt[t] = e

\* A computing thread has taken the reference for the list but not pushed yet.
Pushing(e) == \E t \in Threads : tevt[t] = e /\ tpc[t] = "push"

One(b) == IF b THEN 1 ELSE 0

Holders(e) ==
    evts[e] + appd[e] + One(LoopHolds(e)) + One(TaskHolds(e)) + One(Pushing(e))

\* No list, no queue and no thread points to an event whose memory is gone or
\* was never created (delete this in release, against every holder).
NoUseAfterFree ==
    \A e \in Evts : Holders(e) > 0 => life[e] = "live"

\* The count of an event is the number of places that hold it, so nothing is
\* freed early and nothing stays behind that no place holds.
RefsAreHolders ==
    \A e \in Evts : ref[e] = Holders(e) /\ (ref[e] = 0 => life[e] # "live")

\* While a computing thread works on an event the loop thread cannot reach it:
\* the fields on_process writes without a lock are not raced by on_event.
ExclusiveProcessing ==
    \A t \in Threads : tpc[t] \in {"process", "add_ref", "push"} =>
        /\ evts[tevt[t]] = 0 /\ appd[tevt[t]] = 0
        /\ \A u \in Threads : ~Queued(tevt[t], u) /\ (tevt[u] = tevt[t] => u = t)

\* What the loop thread monitors is in a state on_event can handle: it waits
\* for input while a request is read, for output once a response is there, and
\* never monitors an event that is being computed.
MonitoredMatchesState ==
    \A c \in Conns : evts[c] + appd[c] > 0 =>
        \/ state[c] \in ReadStates /\ ioType[c] = "i" /\ reply[c] = "none"
        \/ state[c] = "write" /\ ioType[c] = "o" /\ reply[c] = "set"

\* After the destructor the only events left alive are those stop() left in
\* the task queues: nobody releases them any more.
LeakedOnlyFromQueues ==
    pc = "done" => \A e \in Evts : life[e] = "live" <=> \E t \in Threads : Queued(e, t)

\* What a client sees of its connection.
ClientPhase == [c \in Conns |->
    CASE life[c] = "unborn" -> "idle"
      [] life[c] # "unborn" /\ reply[c] = "sent" -> "answered"
      [] life[c] = "dead" /\ reply[c] # "sent" -> "dropped"
      [] life[c] = "live" /\ reply[c] # "sent" ->
            IF state[c] \in ReadStates THEN "reading"
            ELSE IF state[c] = "compute" THEN "working" ELSE "answering"]

Client == INSTANCE ConnLife WITH phase <- ClientPhase

\* Each connection goes through its phases in order: a request is handed to a
\* computing thread once, is never thrown away once it is, and is answered only
\* after that thread prepared the answer.
ImplementsConnLife == Client!Spec

\* Every accepted connection is destroyed in the end (its descriptor closed),
\* unless the server stopped with the request still queued.
ConnectionsEnd ==
    \A c \in Conns :
        life[c] = "live" ~> (life[c] = "dead"
                             \/ (pc = "done" /\ \E t \in Threads : Queued(c, t)))

\* Once told to stop, the server comes to its end.
ShutdownEnds == ~running ~> pc = "done"
=============================================================================
