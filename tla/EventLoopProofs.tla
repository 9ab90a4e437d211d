-------------------------- MODULE EventLoopProofs --------------------------
(***************************************************************************)
(* Proofs about EventLoop: the reference count of an event is the number   *)
(* of places that hold it, so no list, queue or thread ever points to an   *)
(* event that is gone, for any number of connections and threads.          *)
(***************************************************************************)
EXTENDS EventLoop, TLAPS

\* The loop thread: what it has still to handle is in m_evts, it has nothing to
\* handle outside its two walks, and it holds an event just between taking it
\* out of the list and releasing it.
LoopInv ==
    /\ \A e \in todo : evts[e] > 0
    /\ pc \notin {"walk", "walk_release", "sweep", "sweep_release"} => todo = {}
    /\ cur # NoEvt <=> pc \in {"walk_release", "sweep_release"}

\* A computing thread has an event from the pop to the release.
ThreadInv ==
    \A t \in Threads : tevt[t] = NoEvt <=> tpc[t] \in {"check", "pop", "exited"}

\* An event is in one task queue at most, once, or with one computing thread.
OneTask ==
    /\ \A t \in Threads : \A i, j \in 1..Len(tasks[t]) :
          tasks[t][i] = tasks[t][j] => i = j
    /\ \A e \in Evts, t \in Threads, u \in Threads :
          /\ Queued(e, t) /\ Queued(e, u) => t = u
          /\ Queued(e, t) => tevt[u] # e
          /\ tevt[t] = e /\ tevt[u] = e => t = u

\* What is queued or with a thread has left the read states for good, so it is
\* not queued again.
TaskState ==
    \A e \in Evts : TaskHolds(e) => e \in Conns /\ state[e] \notin ReadStates

TaskInv == OneTask /\ TaskState

\* An event that somebody refers to is alive.
RefLive == \A e \in Evts : ref[e] > 0 => life[e] = "live"

CountInv == RefsAreHolders /\ RefLive

\* A thread that is not done with an event, or a queue, has it.
Working(e) ==
    \E t \in Threads :
        Queued(e, t) \/ (tevt[t] = e /\ tpc[t] \in {"process", "add_ref", "push"})

\* An event is at one place: in a list, or with a thread that works on it.
PlaceInv == \A e \in Evts : evts[e] + appd[e] + One(Working(e)) <= 1

\* The destructor runs when the threads are gone, and empties the lists.
ShutInv ==
    /\ pc \in {"destroy", "done"} => \A t \in Threads : tpc[t] = "exited"
    /\ pc = "done" => \A e \in Evts : evts[e] = 0 /\ appd[e] = 0

\* The response is ready to be written.
Answered(c) == state[c] = "write" /\ ioType[c] = "o" /\ reply[c] = "set"

\* The fields of an event go with the place it is at.
FieldInv ==
    /\ \A c \in Conns : life[c] = "unborn" => state[c] \in ReadStates
    /\ \A c \in Conns : state[c] \in ReadStates => ioType[c] = "i" /\ reply[c] = "none"
    /\ \A c \in Conns : evts[c] > 0 \/ appd[c] > 0 => state[c] \in ReadStates \/ Answered(c)
    /\ \A t \in Threads : tpc[t] \in {"add_ref", "push"} => Answered(tevt[t])

Inv ==
    /\ TypeOK /\ LoopInv /\ ThreadInv /\ TaskInv /\ CountInv
    /\ PlaceInv /\ ShutInv /\ FieldInv

----------------------------------------------------------------------------
(* The steps, grouped by what they do to references.                       *)

\* Steps that neither move an event nor take or drop a reference.
QuietStep ==
    \/ Select \/ SelectError \/ EndWalk \/ StartSweep \/ NoSweep \/ EndSweep
    \/ LeaveLoop \/ EndStop \/ Join \/ EndDestroy \/ Signal
    \/ \E t \in Threads : StopThread(t) \/ Check(t) \/ PopNothing(t)
    \/ \E c \in Conns : Expire(c)
    \/ UNCHANGED vars

\* Steps that take an event out of m_evts and do not put it back.
DropStep(e) == (e = Listener /\ AcceptError) \/ IoError(e) \/ WriteComplete(e) \/ Sweep(e)

\* Steps that take an event out of m_evts and put it back into m_evts_appd.
KeepStep(c) == ReadPartial(c) \/ WritePartial(c)

LEMMA StepCases ==
    ASSUME [Next]_vars
    PROVE  \/ QuietStep \/ Merge \/ LoopRelease
           \/ \E e \in Evts : DropStep(e) \/ DestroyEvt(e)
           \/ \E c \in Conns : KeepStep(c) \/ Accept(c)
           \/ \E c \in Conns, t \in Threads : ReadComplete(c, t)
           \/ \E t \in Threads : \/ Pop(t) \/ Process(t) \/ ThreadAddRef(t)
                                 \/ ThreadPush(t) \/ ThreadRelease(t)
  BY DEF Next, Loop, Thread, QuietStep, DropStep, KeepStep, Evts

----------------------------------------------------------------------------
(* Holders, as a number.                                                   *)

\* Whoever holds an event has a share of its count.
LEMMA HoldersCount ==
    ASSUME TypeOK, RefsAreHolders, NEW e \in Evts
    PROVE  /\ evts[e] > 0 => ref[e] > 0
           /\ appd[e] > 0 => ref[e] > 0
           /\ cur = e => ref[e] > 0
           /\ TaskHolds(e) => ref[e] > 0
<1>1. ref[e] = evts[e] + appd[e] + One(LoopHolds(e)) + One(TaskHolds(e)) + One(Pushing(e))
  BY DEF RefsAreHolders, Holders
<1>2. evts[e] \in Nat /\ appd[e] \in Nat
  BY DEF TypeOK
<1>3. /\ One(LoopHolds(e)) \in Nat /\ (cur = e => One(LoopHolds(e)) = 1)
      /\ One(TaskHolds(e)) \in Nat /\ (TaskHolds(e) => One(TaskHolds(e)) = 1)
      /\ One(Pushing(e)) \in Nat
  BY DEF One, LoopHolds
<1>4. QED
  BY <1>1, <1>2, <1>3

\* The holders of an event do not change if its places do not.
LEMMA HoldersSame ==
    ASSUME NEW e \in Evts, evts'[e] = evts[e], appd'[e] = appd[e],
           LoopHolds(e)' <=> LoopHolds(e), TaskHolds(e)' <=> TaskHolds(e),
           Pushing(e)' <=> Pushing(e)
    PROVE  Holders(e)' = Holders(e)
  BY DEF Holders, One

----------------------------------------------------------------------------
(* Types.                                                                  *)

\* The types of the events' fields, of the lists, and of the threads' variables.
EvtTypes ==
    /\ life \in [Evts -> {"unborn", "live", "dead"}]
    /\ ref \in [Evts -> Nat]
    /\ state \in [Evts -> ReadStates \cup {"compute", "write"}]
    /\ ioType \in [Evts -> {"i", "o"}]
    /\ reply \in [Evts -> {"none", "set", "sent"}]
    /\ expired \in [Evts -> BOOLEAN]
    /\ partial \in [Evts -> Nat]

ListTypes == evts \in [Evts -> Nat] /\ appd \in [Evts -> Nat]

LoopTypes ==
    /\ todo \in SUBSET Evts
    /\ pc \in {"merge", "select", "walk", "walk_release", "clock", "sweep",
               "sweep_release", "stop", "join", "destroy", "done"}
    /\ cur \in Evts \cup {NoEvt}
    /\ running \in BOOLEAN

ThreadTypes ==
    /\ tasks \in [Threads -> Seq(Evts)]
    /\ tpc \in [Threads -> {"check", "pop", "process", "add_ref", "push",
                            "release", "exited"}]
    /\ tevt \in [Threads -> Evts \cup {NoEvt}]
    /\ trunning \in [Threads -> BOOLEAN]

\* Taking a reference, dropping one that is there, taking an event out of m_evts.
LEMMA ReleaseTypes ==
    ASSUME TypeOK, NEW e \in Evts, ref[e] > 0, Release(e)
    PROVE  /\ ref' \in [Evts -> Nat]
           /\ life' \in [Evts -> {"unborn", "live", "dead"}]
  BY DEF TypeOK, Release

LEMMA EraseTypes ==
    ASSUME TypeOK, LoopInv, NEW e \in Evts, e \in todo, Erase(e)
    PROVE  /\ evts' \in [Evts -> Nat] /\ todo' \in SUBSET Evts
           /\ cur' \in Evts \cup {NoEvt}
  BY DEF TypeOK, LoopInv, Erase

LEMMA AddTypes ==
    ASSUME TypeOK, NEW es, AddIoEvents(es)
    PROVE  ref' \in [Evts -> Nat] /\ appd' \in [Evts -> Nat]
  BY DEF TypeOK, AddIoEvents

LEMMA TypeStep ==
    ASSUME Inv, [Next]_vars
    PROVE  TypeOK'
<1> USE DEF Evts
<1>0. TypeOK /\ LoopInv /\ ThreadInv /\ RefsAreHolders
  BY DEF Inv, CountInv
<1>1. CASE QuietStep
  <2>1. EvtTypes'
    BY <1>0, <1>1 DEF QuietStep, TypeOK, EvtTypes, Select, SelectError, EndWalk, StartSweep,
       NoSweep, EndSweep, LeaveLoop, EndStop, Join, EndDestroy, Signal, StopThread, Check,
       PopNothing, Expire, vars, evtVars
  <2>2. ListTypes'
    BY <1>0, <1>1 DEF QuietStep, TypeOK, ListTypes, Select, SelectError, EndWalk, StartSweep,
       NoSweep, EndSweep, LeaveLoop, EndStop, Join, EndDestroy, Signal, StopThread, Check,
       PopNothing, Expire, vars, listVars
  <2>3. LoopTypes'
    BY <1>0, <1>1 DEF QuietStep, TypeOK, LoopTypes, Select, SelectError, EndWalk, StartSweep,
       NoSweep, EndSweep, LeaveLoop, EndStop, Join, EndDestroy, Signal, StopThread, Check,
       PopNothing, Expire, vars, loopVars
  <2>4. ThreadTypes'
    BY <1>0, <1>1 DEF QuietStep, TypeOK, ThreadTypes, Select, SelectError, EndWalk, StartSweep,
       NoSweep, EndSweep, LeaveLoop, EndStop, Join, EndDestroy, Signal, StopThread, Check,
       PopNothing, Expire, vars, threadVars
  <2>5. QED
    BY <2>1, <2>2, <2>3, <2>4 DEF TypeOK, EvtTypes, ListTypes, LoopTypes, ThreadTypes
<1>2. CASE Merge
  BY <1>0, <1>2 DEF Merge, TypeOK, evtVars, threadVars
<1>3. CASE LoopRelease
  <2>1. cur \in Evts
    BY <1>0, <1>3 DEF LoopRelease, LoopInv, TypeOK
  <2>2. ref' \in [Evts -> Nat] /\ life' \in [Evts -> {"unborn", "live", "dead"}]
    BY <1>0, <1>3, <2>1, HoldersCount, ReleaseTypes DEF LoopRelease
  <2>3. QED
    BY <1>0, <1>3, <2>2 DEF LoopRelease, TypeOK, listVars, threadVars
<1>4. ASSUME NEW e \in Evts, DropStep(e) PROVE TypeOK'
  <2>1. e \in todo /\ Erase(e)
    BY <1>4 DEF DropStep, AcceptError, IoError, WriteComplete, Sweep
  <2>2. evts' \in [Evts -> Nat] /\ todo' \in SUBSET Evts /\ cur' \in Evts \cup {NoEvt}
    BY <1>0, <2>1, EraseTypes
  <2>3. QED
    BY <1>0, <1>4, <2>2 DEF DropStep, AcceptError, IoError, WriteComplete, Sweep, TypeOK,
       evtVars, threadVars
<1>5. ASSUME NEW c \in Conns, KeepStep(c) \/ Accept(c) PROVE TypeOK'
  <2>1. evts' \in [Evts -> Nat] /\ todo' \in SUBSET Evts /\ cur' \in Evts \cup {NoEvt}
    BY <1>0, <1>5, EraseTypes DEF KeepStep, ReadPartial, WritePartial, Accept
  <2>2. ref' \in [Evts -> Nat] /\ appd' \in [Evts -> Nat]
    BY <1>0, <1>5, AddTypes DEF KeepStep, ReadPartial, WritePartial, Accept
  <2>3. c \in Evts
    OBVIOUS
  <2>7. life' \in [Evts -> {"unborn", "live", "dead"}]
    <3>1. life' = life \/ life' = [life EXCEPT ![c] = "live"]
      BY <1>5 DEF KeepStep, ReadPartial, WritePartial, Accept
    <3>2. QED
      BY <1>0, <3>1, <2>3 DEF TypeOK
  <2>8. partial' \in [Evts -> Nat]
    <3>1. partial' = partial \/ partial' = [partial EXCEPT ![c] = @ + 1]
      BY <1>5 DEF KeepStep, ReadPartial, WritePartial, Accept
    <3>2. partial \in [Evts -> Nat] /\ partial[c] + 1 \in Nat
      BY <1>0, <2>3 DEF TypeOK
    <3>3. QED
      BY <3>1, <3>2
  <2>4. state' \in [Evts -> ReadStates \cup {"compute", "write"}]
    BY <1>0, <1>5 DEF KeepStep, ReadPartial, WritePartial, Accept, TypeOK
  <2>5. UNCHANGED <<ioType, reply, expired, running, threadVars>> /\ pc' = "walk_release"
    BY <1>5 DEF KeepStep, ReadPartial, WritePartial, Accept
  <2>6. QED
    BY <1>0, <2>1, <2>2, <2>7, <2>8, <2>4, <2>5 DEF TypeOK, threadVars
<1>6. ASSUME NEW c \in Conns, NEW t \in Threads, ReadComplete(c, t) PROVE TypeOK'
  <2>1. evts' \in [Evts -> Nat] /\ todo' \in SUBSET Evts /\ cur' \in Evts \cup {NoEvt}
    BY <1>0, <1>6, EraseTypes DEF ReadComplete
  <2>2. /\ ref' \in [Evts -> Nat] /\ pc' = "walk_release"
        /\ state' \in [Evts -> ReadStates \cup {"compute", "write"}]
    BY <1>0, <1>6 DEF ReadComplete, TypeOK
  <2>3. tasks' \in [Threads -> Seq(Evts)]
    <3>1. Append(tasks[t], c) \in Seq(Evts)
      BY <1>0 DEF TypeOK
    <3>2. QED
      BY <1>0, <1>6, <3>1 DEF ReadComplete, TypeOK
  <2>4. UNCHANGED <<life, ioType, reply, expired, partial, appd, running, tpc, tevt, trunning>>
    BY <1>6 DEF ReadComplete
  <2>5. QED
    BY <1>0, <2>1, <2>2, <2>3, <2>4 DEF TypeOK
<1>7. ASSUME NEW e \in Evts, DestroyEvt(e) PROVE TypeOK'
  <2>1. ref[e] > 0
    BY <1>0, <1>7, HoldersCount DEF DestroyEvt
  <2>2. ref' \in [Evts -> Nat] /\ life' \in [Evts -> {"unborn", "live", "dead"}]
    BY <1>0, <1>7, <2>1, ReleaseTypes DEF DestroyEvt
  <2>3. evts' \in [Evts -> Nat] /\ appd' \in [Evts -> Nat]
    <3>1. evts' = evts \/ (evts[e] > 0 /\ evts' = [evts EXCEPT ![e] = @ - 1])
      BY <1>7 DEF DestroyEvt
    <3>2. appd' = appd \/ (appd[e] > 0 /\ appd' = [appd EXCEPT ![e] = @ - 1])
      BY <1>7 DEF DestroyEvt
    <3>3. evts \in [Evts -> Nat] /\ appd \in [Evts -> Nat]
      BY <1>0 DEF TypeOK
    <3>4. (evts[e] > 0 => evts[e] - 1 \in Nat) /\ (appd[e] > 0 => appd[e] - 1 \in Nat)
      BY <3>3
    <3>5. QED
      BY <3>1, <3>2, <3>3, <3>4
  <2>4. UNCHANGED <<state, ioType, reply, expired, partial, loopVars, threadVars>>
    BY <1>7 DEF DestroyEvt
  <2>5. QED
    BY <1>0, <2>2, <2>3, <2>4 DEF TypeOK, loopVars, threadVars
<1>8. ASSUME NEW t \in Threads, Pop(t) PROVE TypeOK'
  <2>1. Head(tasks[t]) \in Evts /\ Tail(tasks[t]) \in Seq(Evts)
    BY <1>0, <1>8 DEF Pop, TypeOK
  <2>2. QED
    BY <1>0, <1>8, <2>1 DEF Pop, TypeOK, evtVars, listVars, loopVars
<1>9. ASSUME NEW t \in Threads, Process(t) PROVE TypeOK'
  <2>1. tevt[t] \in Evts
    BY <1>0, <1>9 DEF Process, ThreadInv, TypeOK
  <2>2. EvtTypes' /\ ThreadTypes'
    BY <1>0, <1>9, <2>1 DEF Process, EvtTypes, ThreadTypes, TypeOK
  <2>3. ListTypes' /\ LoopTypes'
    BY <1>0, <1>9 DEF Process, ListTypes, LoopTypes, TypeOK, listVars, loopVars
  <2>4. QED
    BY <2>2, <2>3 DEF TypeOK, EvtTypes, ListTypes, LoopTypes, ThreadTypes
<1>10. ASSUME NEW t \in Threads, ThreadAddRef(t) \/ ThreadPush(t) PROVE TypeOK'
  <2>1. tevt[t] \in Evts
    BY <1>0, <1>10 DEF ThreadAddRef, ThreadPush, ThreadInv, TypeOK
  <2>2. /\ tpc' \in [Threads -> {"check", "pop", "process", "add_ref", "push",
                                 "release", "exited"}]
        /\ UNCHANGED <<life, state, ioType, reply, expired, partial, evts, loopVars,
                       tasks, tevt, trunning>>
    BY <1>0, <1>10 DEF ThreadAddRef, ThreadPush, TypeOK, evtVars, listVars
  <2>3. /\ ref' = ref \/ ref' = [ref EXCEPT ![tevt[t]] = @ + 1]
        /\ appd' = appd \/ appd' = [appd EXCEPT ![tevt[t]] = @ + 1]
    BY <1>10 DEF ThreadAddRef, ThreadPush, evtVars, listVars
  <2>4. ref[tevt[t]] + 1 \in Nat /\ appd[tevt[t]] + 1 \in Nat
    BY <1>0, <2>1 DEF TypeOK
  <2>5. ref' \in [Evts -> Nat] /\ appd' \in [Evts -> Nat]
    <3>1. ref \in [Evts -> Nat] /\ appd \in [Evts -> Nat]
      BY <1>0 DEF TypeOK
    <3>2. ref' \in [Evts -> Nat]
      BY <2>1, <2>3, <2>4, <3>1
    <3>3. appd' \in [Evts -> Nat]
      BY <2>1, <2>3, <2>4, <3>1
    <3>4. QED
      BY <3>2, <3>3
  <2>6. QED
    BY <1>0, <2>2, <2>5 DEF TypeOK, loopVars
<1>11. ASSUME NEW t \in Threads, ThreadRelease(t) PROVE TypeOK'
  <2>1. tevt[t] \in Evts
    BY <1>0, <1>11 DEF ThreadRelease, ThreadInv, TypeOK
  <2>2. ref[tevt[t]] > 0
    BY <1>0, <2>1, HoldersCount DEF TaskHolds
  <2>3. ref' \in [Evts -> Nat] /\ life' \in [Evts -> {"unborn", "live", "dead"}]
    BY <1>0, <1>11, <2>1, <2>2, ReleaseTypes DEF ThreadRelease
  <2>4. QED
    BY <1>0, <1>11, <2>3 DEF ThreadRelease, TypeOK, listVars, loopVars
<1>12. QED
  BY <1>1, <1>2, <1>3, <1>4, <1>5, <1>6, <1>7, <1>8, <1>9, <1>10, <1>11, StepCases

----------------------------------------------------------------------------
(* The threads of control.                                                 *)

LEMMA LoopStep ==
    ASSUME Inv, [Next]_vars
    PROVE  LoopInv'
<1> USE ConstAssumption DEF LoopInv, Evts
<1>0. TypeOK /\ LoopInv
  BY DEF Inv
<1>1. CASE QuietStep
  BY <1>0, <1>1 DEF QuietStep, Select, SelectError, EndWalk, StartSweep, NoSweep,
     EndSweep, LeaveLoop, EndStop, Join, EndDestroy, Signal, StopThread, Check,
     PopNothing, Expire, vars, evtVars, listVars, loopVars, threadVars
<1>2. CASE Merge
  BY <1>0, <1>2 DEF Merge, TypeOK
<1>3. CASE LoopRelease
  BY <1>0, <1>3 DEF LoopRelease, listVars
<1>4. ASSUME NEW e \in Evts, DropStep(e) PROVE LoopInv'
  <2>1. /\ e \in todo /\ Erase(e)
        /\ pc' \in {"walk_release", "sweep_release"}
    BY <1>4 DEF DropStep, AcceptError, IoError, WriteComplete, Sweep
  <2>2. QED
    BY <1>0, <2>1 DEF Erase, TypeOK
<1>5. ASSUME NEW c \in Conns, KeepStep(c) \/ Accept(c) PROVE LoopInv'
  <2>1. \E e \in Evts : e \in todo /\ Erase(e) /\ pc' = "walk_release"
    BY <1>5 DEF KeepStep, ReadPartial, WritePartial, Accept
  <2>2. QED
    BY <1>0, <2>1 DEF Erase, TypeOK
<1>6. ASSUME NEW c \in Conns, NEW t \in Threads, ReadComplete(c, t) PROVE LoopInv'
  BY <1>0, <1>6 DEF ReadComplete, Erase, TypeOK
<1>7. ASSUME NEW e \in Evts, DestroyEvt(e) PROVE LoopInv'
  BY <1>0, <1>7 DEF DestroyEvt, loopVars
<1>8. ASSUME NEW t \in Threads, \/ Pop(t) \/ Process(t) \/ ThreadAddRef(t)
                                \/ ThreadPush(t) \/ ThreadRelease(t)
      PROVE  LoopInv'
  BY <1>0, <1>8 DEF Pop, Process, ThreadAddRef, ThreadPush, ThreadRelease, loopVars, listVars
<1>9. QED
  BY <1>1, <1>2, <1>3, <1>4, <1>5, <1>6, <1>7, <1>8, StepCases

LEMMA ThreadStep ==
    ASSUME Inv, [Next]_vars
    PROVE  ThreadInv'
<1> USE ConstAssumption DEF TypeOK, ThreadInv, Evts
<1>0. TypeOK /\ ThreadInv
  BY DEF Inv
<1>1. CASE QuietStep
  BY <1>0, <1>1 DEF QuietStep, Select, SelectError, EndWalk, StartSweep, NoSweep,
     EndSweep, LeaveLoop, EndStop, Join, EndDestroy, Signal, StopThread, Check,
     PopNothing, Expire, vars, threadVars
<1>2. CASE UNCHANGED <<tevt, tpc>>
  BY <1>0, <1>2
<1>3. ASSUME NEW e \in Evts, DropStep(e) \/ DestroyEvt(e) PROVE UNCHANGED <<tevt, tpc>>
  BY <1>0, <1>3 DEF DropStep, AcceptError, IoError, WriteComplete, Sweep, DestroyEvt, threadVars
<1>4. ASSUME NEW c \in Conns, KeepStep(c) \/ Accept(c) PROVE UNCHANGED <<tevt, tpc>>
  BY <1>0, <1>4 DEF KeepStep, ReadPartial, WritePartial, Accept, threadVars
<1>5. ASSUME NEW c \in Conns, NEW t \in Threads, ReadComplete(c, t)
      PROVE  UNCHANGED <<tevt, tpc>>
  BY <1>0, <1>5 DEF ReadComplete
<1>6. ASSUME Merge \/ LoopRelease PROVE UNCHANGED <<tevt, tpc>>
  BY <1>0, <1>6 DEF Merge, LoopRelease, threadVars
<1>7. ASSUME NEW t \in Threads, Pop(t) PROVE ThreadInv'
  <2>1. Head(tasks[t]) \in Evts
    BY <1>0, <1>7 DEF Pop
  <2>2. QED
    BY <1>0, <1>7, <2>1 DEF Pop
<1>8. ASSUME NEW t \in Threads, Process(t) \/ ThreadAddRef(t) \/ ThreadPush(t)
      PROVE  ThreadInv'
  <2>1. \/ tpc[t] = "process" /\ tpc' = [tpc EXCEPT ![t] = "add_ref"]
        \/ tpc[t] = "add_ref" /\ tpc' = [tpc EXCEPT ![t] = "push"]
        \/ tpc[t] = "push" /\ tpc' = [tpc EXCEPT ![t] = "release"]
    BY <1>8 DEF Process, ThreadAddRef, ThreadPush
  <2>2. tevt' = tevt
    BY <1>8 DEF Process, ThreadAddRef, ThreadPush
  <2>3. ASSUME NEW u \in Threads
        PROVE  /\ tevt'[u] = tevt[u] /\ tpc'[u] = tpc[u] /\ u # t
               \/ /\ tpc[u] \in {"process", "add_ref", "push"} /\ tevt'[u] = tevt[u]
                  /\ tpc'[u] \in {"add_ref", "push", "release"}
    <3>1. CASE u = t
      BY <1>0, <2>1, <2>2, <3>1
    <3>2. CASE u # t
      BY <1>0, <2>1, <2>2, <3>2
    <3>3. QED
      BY <3>1, <3>2
  <2>4. QED
    BY <1>0, <2>3
<1>9. ASSUME NEW t \in Threads, ThreadRelease(t) PROVE ThreadInv'
  BY <1>0, <1>9 DEF ThreadRelease
<1>10. QED
  BY <1>1, <1>2, <1>3, <1>4, <1>5, <1>6, <1>7, <1>8, <1>9, StepCases

----------------------------------------------------------------------------
(* The task queues.                                                        *)

\* A queue grows at its end.
LEMMA QueuedAppend ==
    ASSUME TypeOK, NEW c \in Evts, NEW t \in Threads,
           tasks' = [tasks EXCEPT ![t] = Append(@, c)]
    PROVE  \A e \in Evts, u \in Threads :
              Queued(e, u)' <=> Queued(e, u) \/ (u = t /\ e = c)
<1> TAKE e \in Evts, u \in Threads
<1>1. tasks[t] \in Seq(Evts) /\ tasks[u] \in Seq(Evts)
  BY DEF TypeOK
<1>2. CASE u # t
  BY <1>2 DEF Queued, TypeOK
<1>3. CASE u = t
  <2> DEFINE q == tasks[t]
  <2>1. tasks'[t] = Append(q, c)
    BY DEF TypeOK
  <2>2. /\ Len(Append(q, c)) = Len(q) + 1 /\ Len(q) \in Nat
        /\ \A i \in 1..Len(q) : Append(q, c)[i] = q[i]
        /\ Append(q, c)[Len(q) + 1] = c
    BY <1>1
  <2>3. \A i : i \in 1..Len(q) + 1 <=> i \in 1..Len(q) \/ i = Len(q) + 1
    BY <2>2
  <2> HIDE DEF q
  <2>4. (\E i \in 1..Len(Append(q, c)) : Append(q, c)[i] = e)
        <=> (\E i \in 1..Len(q) : q[i] = e) \/ e = c
    BY <2>2, <2>3
  <2>5. QED
    BY <1>3, <2>1, <2>4 DEF Queued, q
<1>4. QED
  BY <1>2, <1>3

\* What is taken off a queue without repetitions is no longer in it.
LEMMA QueuedTail ==
    ASSUME TypeOK, OneTask, NEW t \in Threads, tasks[t] # <<>>,
           tasks' = [tasks EXCEPT ![t] = Tail(@)]
    PROVE  /\ Head(tasks[t]) \in Evts
           /\ Queued(Head(tasks[t]), t)
           /\ \A e \in Evts, u \in Threads :
                 Queued(e, u)' <=> Queued(e, u) /\ ~(u = t /\ e = Head(tasks[t]))
           /\ \A i, j \in 1..Len(tasks'[t]) : tasks'[t][i] = tasks'[t][j] => i = j
<1> DEFINE q == tasks[t]
<1>1. q \in Seq(Evts) /\ q # <<>> /\ tasks'[t] = Tail(q)
  BY DEF TypeOK
<1>2. \A i, j \in 1..Len(q) : q[i] = q[j] => i = j
  BY DEF OneTask
<1> HIDE DEF q
<1>3. Len(q) \in Nat /\ Len(q) >= 1 /\ Head(q) = q[1] /\ Len(Tail(q)) = Len(q) - 1
  BY <1>1
<1>4. \A i \in 1..Len(q) - 1 : Tail(q)[i] = q[i + 1] /\ i + 1 \in 1..Len(q)
  BY <1>1, <1>3
<1>5. Head(q) \in Evts
  BY <1>1
<1>6. \A i, j \in 1..Len(Tail(q)) : Tail(q)[i] = Tail(q)[j] => i = j
  BY <1>2, <1>3, <1>4
<1>7. ASSUME NEW e \in Evts
      PROVE  (\E i \in 1..Len(Tail(q)) : Tail(q)[i] = e)
             <=> (\E i \in 1..Len(q) : q[i] = e) /\ e # Head(q)
  <2>1. ASSUME NEW i \in 1..Len(Tail(q)), Tail(q)[i] = e
        PROVE  (\E j \in 1..Len(q) : q[j] = e) /\ e # Head(q)
    <3>1. i \in 1..Len(q) - 1 /\ i + 1 # 1 /\ 1 \in 1..Len(q)
      BY <1>3
    <3>2. i + 1 \in 1..Len(q) /\ q[i + 1] = e
      BY <1>4, <2>1, <3>1
    <3>3. QED
      BY <1>2, <1>3, <3>1, <3>2
  <2>2. ASSUME NEW j \in 1..Len(q), q[j] = e, e # Head(q)
        PROVE  \E i \in 1..Len(Tail(q)) : Tail(q)[i] = e
    <3>1. j # 1
      BY <1>3, <2>2
    <3>2. j - 1 \in 1..Len(q) - 1 /\ (j - 1) + 1 = j
      BY <1>3, <3>1
    <3>3. Tail(q)[j - 1] = e
      BY <1>4, <2>2, <3>2
    <3>4. QED
      BY <1>3, <3>2, <3>3
  <2>3. QED
    BY <2>1, <2>2
<1>8. 1 \in 1..Len(q)
  BY <1>3
<1>9. \A e, u : Queued(e, u) <=> \E i \in 1..Len(tasks[u]) : tasks[u][i] = e
  BY DEF Queued
<1>10. \A e, u : Queued(e, u)' <=> \E i \in 1..Len(tasks'[u]) : tasks'[u][i] = e
  BY DEF Queued
<1>11. \A u \in Threads : u # t => tasks'[u] = tasks[u]
  BY DEF TypeOK
<1>12. Queued(Head(q), t)
  BY <1>3, <1>8, <1>9 DEF q
<1>13. ASSUME NEW e \in Evts, NEW u \in Threads
       PROVE  Queued(e, u)' <=> Queued(e, u) /\ ~(u = t /\ e = Head(q))
  <2>1. CASE u = t
    <3>1. Queued(e, t)' <=> \E i \in 1..Len(Tail(q)) : Tail(q)[i] = e
      BY <1>1 DEF Queued
    <3>2. Queued(e, t) <=> \E i \in 1..Len(q) : q[i] = e
      BY DEF Queued, q
    <3>3. QED
      BY <1>7, <2>1, <3>1, <3>2
  <2>2. CASE u # t
    BY <1>9, <1>10, <1>11, <2>2
  <2>3. QED
    BY <2>1, <2>2
<1>14. QED
  BY <1>1, <1>5, <1>6, <1>12, <1>13 DEF q

----------------------------------------------------------------------------
(* One event, one task.                                                    *)

\* Steps that leave the queues and the threads' events alone can only turn a
\* response that is being written.
LEMMA TaskSame ==
    ASSUME TypeOK, TaskInv, UNCHANGED <<tasks, tevt>>,
           \A e \in Evts : \/ state'[e] = state[e]
                           \/ state[e] \in ReadStates
                           \/ state'[e] \notin ReadStates
    PROVE  TaskInv'
<1>1. \A e, t : Queued(e, t)' <=> Queued(e, t)
  BY DEF Queued
<1>2. \A e : TaskHolds(e)' <=> TaskHolds(e)
  BY <1>1 DEF TaskHolds
<1>3. OneTask'
  BY <1>1 DEF TaskInv, OneTask
<1>4. TaskState'
  BY <1>2 DEF TaskInv, TaskState
<1>5. QED
  BY <1>3, <1>4 DEF TaskInv

\* A request whose connection is still being read becomes a task.
LEMMA TaskAdded ==
    ASSUME TypeOK, TaskInv, NEW c \in Conns, NEW t \in Threads, ReadComplete(c, t)
    PROVE  /\ TaskInv'
           /\ ~TaskHolds(c)
           /\ \A e \in Evts : TaskHolds(e)' <=> TaskHolds(e) \/ e = c
<1>0. c \in Evts
  BY DEF Evts
<1>1. tasks' = [tasks EXCEPT ![t] = Append(@, c)] /\ tevt' = tevt
  BY DEF ReadComplete
<1>2. \A e \in Evts, u \in Threads : Queued(e, u)' <=> Queued(e, u) \/ (u = t /\ e = c)
  BY <1>0, <1>1, QueuedAppend
<1>3. ~TaskHolds(c)
  BY <1>0 DEF TaskInv, TaskState, ReadComplete
<1>4. \A u \in Threads : ~Queued(c, u) /\ tevt[u] # c
  BY <1>3 DEF TaskHolds
<1>5. \A e \in Evts : TaskHolds(e)' <=> TaskHolds(e) \/ e = c
  BY <1>1, <1>2 DEF TaskHolds
<1>6. \A e \in Evts, u \in Threads, v \in Threads :
          /\ Queued(e, u)' /\ Queued(e, v)' => u = v
          /\ Queued(e, u)' => tevt'[v] # e
          /\ tevt'[u] = e /\ tevt'[v] = e => u = v
  BY <1>1, <1>2, <1>4 DEF TaskInv, OneTask
<1>7. ASSUME NEW u \in Threads, NEW i \in 1..Len(tasks'[u]), NEW j \in 1..Len(tasks'[u]),
             tasks'[u][i] = tasks'[u][j]
      PROVE  i = j
  <2>1. CASE u # t
    BY <1>1, <1>7, <2>1 DEF TypeOK, TaskInv, OneTask
  <2>2. CASE u = t
    <3> DEFINE q == tasks[t]
    <3>1. q \in Seq(Evts) /\ tasks'[t] = Append(q, c)
      BY <1>1 DEF TypeOK
    <3>2. \A k \in 1..Len(q) : q[k] # c
      BY <1>4 DEF Queued
    <3>3. \A k, l \in 1..Len(q) : q[k] = q[l] => k = l
      BY DEF TaskInv, OneTask
    <3> HIDE DEF q
    <3>4. /\ Len(Append(q, c)) = Len(q) + 1 /\ Len(q) \in Nat
          /\ \A k \in 1..Len(q) : Append(q, c)[k] = q[k]
          /\ Append(q, c)[Len(q) + 1] = c
      BY <3>1
    <3>5. /\ i \in 1..Len(q) \/ i = Len(q) + 1
          /\ j \in 1..Len(q) \/ j = Len(q) + 1
      BY <2>2, <3>1, <3>4
    <3>6. QED
      BY <1>7, <2>2, <3>1, <3>2, <3>3, <3>4, <3>5
  <2>3. QED
    BY <2>1, <2>2
<1>8. OneTask'
  BY <1>6, <1>7 DEF OneTask
<1>9. \A e \in Evts : e # c => state'[e] = state[e]
  BY <1>0 DEF ReadComplete, TypeOK
<1>10. state'[c] \notin ReadStates
  BY <1>0 DEF ReadComplete, TypeOK, ReadStates
<1>11. TaskState'
  BY <1>5, <1>9, <1>10 DEF TaskInv, TaskState
<1>12. QED
  BY <1>3, <1>5, <1>8, <1>11 DEF TaskInv

\* The first task goes from the queue to its thread.
LEMMA TaskPopped ==
    ASSUME TypeOK, ThreadInv, TaskInv, NEW t \in Threads, Pop(t)
    PROVE  /\ TaskInv'
           /\ Head(tasks[t]) \in Evts /\ TaskHolds(Head(tasks[t]))
           /\ \A e \in Evts : TaskHolds(e)' <=> TaskHolds(e)
<1> DEFINE h == Head(tasks[t])
<1>1. /\ tasks[t] # <<>> /\ tasks' = [tasks EXCEPT ![t] = Tail(@)]
      /\ tevt' = [tevt EXCEPT ![t] = h] /\ state' = state
  BY DEF Pop, evtVars
<1>2. OneTask /\ TaskState
  BY DEF TaskInv
<1>3. /\ h \in Evts
      /\ Queued(h, t)
      /\ \A e \in Evts, u \in Threads :
            Queued(e, u)' <=> Queued(e, u) /\ ~(u = t /\ e = h)
      /\ \A i, j \in 1..Len(tasks'[t]) : tasks'[t][i] = tasks'[t][j] => i = j
  BY <1>1, <1>2, QueuedTail
<1> HIDE DEF h
<1>4. tevt'[t] = h /\ \A u \in Threads : u # t => tevt'[u] = tevt[u]
  BY <1>1 DEF TypeOK
<1>5. tevt[t] = NoEvt
  BY DEF ThreadInv, Pop
<1>6. \A e \in Evts : tevt[t] # e
  BY <1>5, ConstAssumption DEF Evts
<1>7. \A e \in Evts : TaskHolds(e)' <=> TaskHolds(e)
  <2>1. ASSUME NEW e \in Evts, TaskHolds(e) PROVE TaskHolds(e)'
    BY <1>3, <1>4, <1>6, <2>1 DEF TaskHolds
  <2>2. ASSUME NEW e \in Evts, TaskHolds(e)' PROVE TaskHolds(e)
    BY <1>3, <1>4, <2>2 DEF TaskHolds
  <2>3. QED
    BY <2>1, <2>2
<1>8. \A e \in Evts, u \in Threads, v \in Threads :
          /\ Queued(e, u)' /\ Queued(e, v)' => u = v
          /\ Queued(e, u)' => tevt'[v] # e
          /\ tevt'[u] = e /\ tevt'[v] = e => u = v
  BY <1>2, <1>3, <1>4 DEF OneTask
<1>9. \A u \in Threads : u # t => tasks'[u] = tasks[u]
  BY <1>1 DEF TypeOK
<1>10. OneTask'
  BY <1>2, <1>3, <1>8, <1>9 DEF OneTask
<1>11. TaskState'
  BY <1>1, <1>2, <1>7 DEF TaskState
<1>12. QED
  BY <1>3, <1>7, <1>10, <1>11 DEF TaskInv, TaskHolds, h

\* The thread is done with its task.
LEMMA TaskDone ==
    ASSUME TypeOK, TaskInv, NEW t \in Threads, tevt[t] \in Evts, ThreadRelease(t)
    PROVE  /\ TaskInv'
           /\ \A e \in Evts : TaskHolds(e)' <=> TaskHolds(e) /\ e # tevt[t]
<1>1. tasks' = tasks /\ tevt' = [tevt EXCEPT ![t] = NoEvt] /\ state' = state
  BY DEF ThreadRelease
<1>2. tevt'[t] = NoEvt /\ \A u \in Threads : u # t => tevt'[u] = tevt[u]
  BY <1>1 DEF TypeOK
<1>3. \A e \in Evts : e # NoEvt
  BY ConstAssumption DEF Evts
<1>4. \A e, u : Queued(e, u)' <=> Queued(e, u)
  BY <1>1 DEF Queued
<1>5. \A e \in Evts : TaskHolds(e)' <=> TaskHolds(e) /\ e # tevt[t]
  BY <1>2, <1>3, <1>4 DEF TaskHolds, TaskInv, OneTask
<1>6. OneTask'
  BY <1>1, <1>2, <1>3, <1>4 DEF TaskInv, OneTask
<1>7. TaskState'
  BY <1>1, <1>5 DEF TaskInv, TaskState
<1>8. QED
  BY <1>5, <1>6, <1>7 DEF TaskInv

LEMMA TaskStep ==
    ASSUME Inv, [Next]_vars
    PROVE  TaskInv'
<1>0. TypeOK /\ ThreadInv /\ TaskInv
  BY DEF Inv
<1>1. CASE QuietStep
  <2>1. UNCHANGED <<tasks, tevt, state>>
    BY <1>1 DEF QuietStep, Select, SelectError, EndWalk, StartSweep, NoSweep, EndSweep,
       LeaveLoop, EndStop, Join, EndDestroy, Signal, StopThread, Check, PopNothing, Expire,
       vars, evtVars, threadVars
  <2>2. QED
    BY <1>0, <2>1, TaskSame
<1>2. CASE Merge \/ LoopRelease
  <2>1. UNCHANGED <<tasks, tevt, state>>
    BY <1>2 DEF Merge, LoopRelease, evtVars, threadVars
  <2>2. QED
    BY <1>0, <2>1, TaskSame
<1>3. ASSUME NEW e \in Evts, DropStep(e) \/ DestroyEvt(e) PROVE TaskInv'
  <2>1. UNCHANGED <<tasks, tevt, state>>
    BY <1>3 DEF DropStep, AcceptError, IoError, WriteComplete, Sweep, DestroyEvt, evtVars,
       threadVars
  <2>2. QED
    BY <1>0, <2>1, TaskSame
<1>4. ASSUME NEW c \in Conns, KeepStep(c) \/ Accept(c) PROVE TaskInv'
  <2>1. UNCHANGED <<tasks, tevt>>
    BY <1>4 DEF KeepStep, ReadPartial, WritePartial, Accept, threadVars
  <2>2. CASE ReadPartial(c)
    <3>1. ASSUME NEW e \in Evts PROVE state'[e] = state[e] \/ state[e] \in ReadStates
      BY <1>0, <2>2, <3>1 DEF ReadPartial, TypeOK
    <3>2. QED
      BY <1>0, <2>1, <3>1, TaskSame
  <2>3. CASE WritePartial(c)
    <3>1. ASSUME NEW e \in Evts PROVE state'[e] = state[e] \/ state'[e] \notin ReadStates
      BY <1>0, <2>3, <3>1 DEF WritePartial, TypeOK, ReadStates
    <3>2. QED
      BY <1>0, <2>1, <3>1, TaskSame
  <2>4. CASE Accept(c)
    <3>1. state' = state
      BY <2>4 DEF Accept
    <3>2. QED
      BY <1>0, <2>1, <3>1, TaskSame
  <2>5. QED
    BY <1>4, <2>2, <2>3, <2>4 DEF KeepStep
<1>5. ASSUME NEW c \in Conns, NEW t \in Threads, ReadComplete(c, t) PROVE TaskInv'
  BY <1>0, <1>5, TaskAdded
<1>6. ASSUME NEW t \in Threads, Pop(t) PROVE TaskInv'
  BY <1>0, <1>6, TaskPopped
<1>7. ASSUME NEW t \in Threads, Process(t) \/ ThreadAddRef(t) \/ ThreadPush(t)
      PROVE  TaskInv'
  <2>1. /\ UNCHANGED <<tasks, tevt>>
        /\ state' = state \/ state' = [state EXCEPT ![tevt[t]] = "write"]
    BY <1>7 DEF Process, ThreadAddRef, ThreadPush, evtVars
  <2>2. ASSUME NEW e \in Evts PROVE state'[e] = state[e] \/ state'[e] \notin ReadStates
    BY <1>0, <2>1, <2>2 DEF TypeOK, ReadStates
  <2>3. QED
    BY <1>0, <2>1, <2>2, TaskSame
<1>8. ASSUME NEW t \in Threads, ThreadRelease(t) PROVE TaskInv'
  <2>1. tevt[t] \in Evts
    BY <1>0, <1>8 DEF ThreadRelease, ThreadInv, TypeOK
  <2>2. QED
    BY <1>0, <1>8, <2>1, TaskDone
<1>9. QED
  BY <1>1, <1>2, <1>3, <1>4, <1>5, <1>6, <1>7, <1>8, StepCases

----------------------------------------------------------------------------
(* Counting references.                                                    *)

\* What ref and life must agree on, apart from the number itself.
LEMMA CountPartsNext ==
    ASSUME TypeOK', \A e \in Evts : ref'[e] = Holders(e)',
           \A e \in Evts : ref'[e] = 0 <=> life'[e] # "live"
    PROVE  CountInv'
<1>1. \A e \in Evts : ref'[e] \in Nat
  BY DEF TypeOK
<1>2. RefsAreHolders'
  BY DEF RefsAreHolders
<1>3. RefLive'
  BY <1>1 DEF RefLive
<1>4. QED
  BY <1>2, <1>3 DEF CountInv

\* Before the step.
LEMMA CountBefore ==
    ASSUME TypeOK, CountInv, NEW e \in Evts
    PROVE  /\ ref[e] = evts[e] + appd[e] + One(LoopHolds(e)) + One(TaskHolds(e))
                       + One(Pushing(e))
           /\ ref[e] \in Nat /\ evts[e] \in Nat /\ appd[e] \in Nat
           /\ ref[e] = 0 <=> life[e] # "live"
  BY DEF TypeOK, CountInv, RefsAreHolders, RefLive, Holders

\* After the step, as a sum over the places.
LEMMA HoldersNext ==
    ASSUME NEW e \in Evts
    PROVE  Holders(e)' = evts'[e] + appd'[e] + One(LoopHolds(e)') + One(TaskHolds(e)')
                         + One(Pushing(e)')
  BY DEF Holders, One

\* release deletes the event exactly when it drops the last reference.
LEMMA ReleaseEffect ==
    ASSUME TypeOK, CountInv, NEW e \in Evts, ref[e] > 0, Release(e)
    PROVE  /\ ref'[e] = ref[e] - 1
           /\ \A x \in Evts : x # e => ref'[x] = ref[x]
           /\ \A x \in Evts : ref'[x] = 0 <=> life'[x] # "live"
<1>1. \A x \in Evts : ref[x] \in Nat /\ (ref[x] = 0 <=> life[x] # "live")
  BY CountBefore
<1>2. /\ ref'[e] = ref[e] - 1
      /\ \A x \in Evts : x # e => ref'[x] = ref[x]
  BY DEF Release, TypeOK
<1>3. CASE ref[e] = 1
  BY <1>1, <1>2, <1>3 DEF Release, TypeOK
<1>4. CASE ref[e] # 1
  BY <1>1, <1>2, <1>4 DEF Release, TypeOK
<1>5. QED
  BY <1>2, <1>3, <1>4

\* A step of the loop thread that leaves the computing threads alone.
LEMMA LoopCount ==
    ASSUME TypeOK, CountInv, TypeOK', UNCHANGED <<tasks, tevt, tpc>>,
           \A e \in Evts :
              ref'[e] + evts[e] + appd[e] + One(LoopHolds(e))
                = ref[e] + evts'[e] + appd'[e] + One(LoopHolds(e)'),
           \A e \in Evts : ref'[e] = 0 <=> life'[e] # "live"
    PROVE  CountInv'
<1>1. \A e \in Evts : (TaskHolds(e)' <=> TaskHolds(e)) /\ (Pushing(e)' <=> Pushing(e))
  BY DEF TaskHolds, Queued, Pushing
<1>2. ASSUME NEW e \in Evts PROVE ref'[e] = Holders(e)'
  <2>1. /\ ref'[e] \in Nat /\ evts'[e] \in Nat /\ appd'[e] \in Nat
        /\ One(LoopHolds(e)) \in Nat /\ One(LoopHolds(e)') \in Nat
        /\ One(TaskHolds(e)) \in Nat /\ One(Pushing(e)) \in Nat
    BY DEF TypeOK, One
  <2>2. One(TaskHolds(e)') = One(TaskHolds(e)) /\ One(Pushing(e)') = One(Pushing(e))
    BY <1>1 DEF One
  <2>3. /\ ref[e] = evts[e] + appd[e] + One(LoopHolds(e)) + One(TaskHolds(e)) + One(Pushing(e))
        /\ ref[e] \in Nat /\ evts[e] \in Nat /\ appd[e] \in Nat
    BY CountBefore
  <2>4. Holders(e)' = evts'[e] + appd'[e] + One(LoopHolds(e)') + One(TaskHolds(e)')
                      + One(Pushing(e)')
    BY HoldersNext
  <2>5. ref'[e] + evts[e] + appd[e] + One(LoopHolds(e))
          = ref[e] + evts'[e] + appd'[e] + One(LoopHolds(e)')
    OBVIOUS
  <2>6. ref'[e] = evts'[e] + appd'[e] + One(LoopHolds(e)') + One(TaskHolds(e)) + One(Pushing(e))
    BY <2>1, <2>3, <2>5
  <2>7. QED
    BY <2>2, <2>4, <2>6
<1>3. QED
  BY <1>2, CountPartsNext

\* A step of a computing thread that leaves the loop thread alone.
LEMMA ThreadCount ==
    ASSUME TypeOK, CountInv, TypeOK', UNCHANGED <<evts, cur>>,
           \A e \in Evts :
              ref'[e] + appd[e] + One(TaskHolds(e)) + One(Pushing(e))
                = ref[e] + appd'[e] + One(TaskHolds(e)') + One(Pushing(e)'),
           \A e \in Evts : ref'[e] = 0 <=> life'[e] # "live"
    PROVE  CountInv'
<1>1. ASSUME NEW e \in Evts PROVE ref'[e] = Holders(e)'
  <2>1. /\ ref'[e] \in Nat /\ appd'[e] \in Nat
        /\ One(TaskHolds(e)) \in Nat /\ One(TaskHolds(e)') \in Nat
        /\ One(Pushing(e)) \in Nat /\ One(Pushing(e)') \in Nat
        /\ One(LoopHolds(e)) \in Nat
    BY DEF TypeOK, One
  <2>2. evts' = evts /\ One(LoopHolds(e)') = One(LoopHolds(e))
    BY DEF One, LoopHolds
  <2>3. /\ ref[e] = evts[e] + appd[e] + One(LoopHolds(e)) + One(TaskHolds(e)) + One(Pushing(e))
        /\ ref[e] \in Nat /\ evts[e] \in Nat /\ appd[e] \in Nat
    BY CountBefore
  <2>4. Holders(e)' = evts'[e] + appd'[e] + One(LoopHolds(e)') + One(TaskHolds(e)')
                      + One(Pushing(e)')
    BY HoldersNext
  <2>5. ref'[e] + appd[e] + One(TaskHolds(e)) + One(Pushing(e))
          = ref[e] + appd'[e] + One(TaskHolds(e)') + One(Pushing(e)')
    OBVIOUS
  <2>6. ref'[e] = evts[e] + appd'[e] + One(LoopHolds(e)) + One(TaskHolds(e)') + One(Pushing(e)')
    <3>1. PICK h2 \in Nat, p2 \in Nat, h \in Nat, p \in Nat, l \in Nat :
             /\ h2 = One(TaskHolds(e)') /\ p2 = One(Pushing(e)')
             /\ h = One(TaskHolds(e)) /\ p = One(Pushing(e)) /\ l = One(LoopHolds(e))
      BY <2>1
    <3>2. PICK r \in Nat, r2 \in Nat, m \in Nat, a \in Nat, a2 \in Nat :
             r = ref[e] /\ r2 = ref'[e] /\ m = evts[e] /\ a = appd[e] /\ a2 = appd'[e]
      BY <2>1, <2>3
    <3>3. r2 + a + h + p = r + a2 + h2 + p2
      BY <2>5, <3>1, <3>2
    <3>6. r = m + a + l + h + p
      BY <2>3, <3>1, <3>2
    <3>4. r2 = m + a2 + l + h2 + p2
      BY <3>3, <3>6
    <3>5. QED
      BY <3>1, <3>2, <3>4
  <2>7. QED
    BY <2>2, <2>4, <2>6
<1>2. QED
  BY <1>1, CountPartsNext

\* Taking an event out of m_evts hands its reference to the loop thread.
LEMMA EraseCount ==
    ASSUME TypeOK, LoopInv, NEW e \in Evts, e \in todo, pc \in {"walk", "sweep"}, Erase(e)
    PROVE  /\ evts[e] > 0 /\ evts'[e] = evts[e] - 1 /\ cur = NoEvt /\ cur' = e
           /\ \A x \in Evts : One(LoopHolds(x)) = 0
           /\ \A x \in Evts : x # e => evts'[x] = evts[x] /\ One(LoopHolds(x)') = 0
           /\ One(LoopHolds(e)') = 1
<1>1. cur = NoEvt /\ evts[e] > 0
  BY DEF LoopInv
<1>2. \A x \in Evts : x # NoEvt
  BY ConstAssumption DEF Evts
<1>3. QED
  BY <1>1, <1>2 DEF Erase, TypeOK, LoopHolds, One

LEMMA CountStep ==
    ASSUME Inv, [Next]_vars, TypeOK'
    PROVE  CountInv'
<1>0. TypeOK /\ LoopInv /\ ThreadInv /\ TaskInv /\ CountInv
  BY DEF Inv
<1>n. \A x \in Evts : x # NoEvt
  BY ConstAssumption DEF Evts
<1>t. \A x \in Evts : /\ ref[x] \in Nat /\ evts[x] \in Nat /\ appd[x] \in Nat
                      /\ One(LoopHolds(x)) \in Nat /\ One(TaskHolds(x)) \in Nat
                      /\ One(Pushing(x)) \in Nat
  BY <1>0 DEF TypeOK, One
<1>l. \A x \in Evts : ref[x] = 0 <=> life[x] # "live"
  BY <1>0, CountBefore
<1>1. CASE QuietStep
  <2>1. /\ UNCHANGED <<tasks, tevt, ref, life, evts, appd, cur>>
        /\ \A t \in Threads : tpc'[t] = "push" <=> tpc[t] = "push"
    BY <1>0, <1>1 DEF QuietStep, Select, SelectError, EndWalk, StartSweep, NoSweep, EndSweep,
       LeaveLoop, EndStop, Join, EndDestroy, Signal, StopThread, Check, PopNothing, Expire,
       vars, evtVars, listVars, loopVars, threadVars, TypeOK
  <2>2. ASSUME NEW e \in Evts PROVE ref'[e] = Holders(e)'
    <3>1. /\ TaskHolds(e)' <=> TaskHolds(e)
          /\ Pushing(e)' <=> Pushing(e)
      BY <2>1 DEF TaskHolds, Queued, Pushing
    <3>2. LoopHolds(e)' <=> LoopHolds(e)
      BY <2>1 DEF LoopHolds
    <3>3. Holders(e)' = Holders(e)
      BY <2>1, <3>1, <3>2, HoldersSame
    <3>4. QED
      BY <1>0, <2>1, <3>3 DEF CountInv, RefsAreHolders
  <2>3. QED
    BY <1>l, <2>1, <2>2, CountPartsNext
<1>2. CASE Merge
  <2>1. UNCHANGED <<tasks, tevt, tpc, ref, life, cur>>
    BY <1>2 DEF Merge, evtVars, threadVars
  <2>2. ASSUME NEW e \in Evts
        PROVE  evts'[e] = evts[e] + appd[e] /\ appd'[e] = 0
               /\ One(LoopHolds(e)') = One(LoopHolds(e))
    BY <1>2, <2>1 DEF Merge, LoopHolds, One
  <2>3. QED
    BY <1>0, <1>t, <1>l, <2>1, <2>2, LoopCount
<1>3. CASE LoopRelease
  <2>1. cur \in Evts /\ Release(cur) /\ cur' = NoEvt
    BY <1>0, <1>3 DEF LoopRelease, LoopInv, TypeOK
  <2>2. UNCHANGED <<tasks, tevt, tpc, evts, appd>>
    BY <1>3 DEF LoopRelease, listVars, threadVars
  <2>3. ref[cur] > 0
    BY <1>0, <2>1, HoldersCount DEF CountInv
  <2>4. /\ ref'[cur] = ref[cur] - 1
        /\ \A x \in Evts : x # cur => ref'[x] = ref[x]
        /\ \A x \in Evts : ref'[x] = 0 <=> life'[x] # "live"
    BY <1>0, <2>1, <2>3, ReleaseEffect
  <2>5. \A x \in Evts : /\ One(LoopHolds(x)') = 0
                        /\ One(LoopHolds(x)) = IF x = cur THEN 1 ELSE 0
    BY <1>n, <2>1 DEF LoopHolds, One
  <2>6. \A x \in Evts : ref'[x] + evts[x] + appd[x] + One(LoopHolds(x))
                          = ref[x] + evts'[x] + appd'[x] + One(LoopHolds(x)')
    BY <1>t, <2>2, <2>4, <2>5
  <2>7. QED
    BY <1>0, <2>2, <2>4, <2>6, LoopCount
<1>4. ASSUME NEW e \in Evts, DropStep(e) PROVE CountInv'
  <2>1. /\ e \in todo /\ pc \in {"walk", "sweep"} /\ Erase(e)
        /\ UNCHANGED <<tasks, tevt, tpc, appd, ref, life>>
    BY <1>4 DEF DropStep, AcceptError, IoError, WriteComplete, Sweep, evtVars, threadVars
  <2>2. /\ evts[e] > 0 /\ evts'[e] = evts[e] - 1
        /\ \A x \in Evts : One(LoopHolds(x)) = 0
        /\ \A x \in Evts : x # e => evts'[x] = evts[x] /\ One(LoopHolds(x)') = 0
        /\ One(LoopHolds(e)') = 1
    BY <1>0, <2>1, EraseCount
  <2>3. \A x \in Evts : ref'[x] + evts[x] + appd[x] + One(LoopHolds(x))
                          = ref[x] + evts'[x] + appd'[x] + One(LoopHolds(x)')
    BY <1>t, <2>1, <2>2
  <2>4. QED
    BY <1>0, <1>l, <2>1, <2>3, LoopCount
<1>5. ASSUME NEW c \in Conns, KeepStep(c) PROVE CountInv'
  <2>1. /\ c \in Evts /\ c \in todo /\ pc \in {"walk", "sweep"} /\ Erase(c)
        /\ AddIoEvents({c}) /\ UNCHANGED <<tasks, tevt, tpc, life>>
    BY <1>5 DEF KeepStep, ReadPartial, WritePartial, threadVars, Evts
  <2>2. /\ evts[c] > 0 /\ evts'[c] = evts[c] - 1
        /\ \A x \in Evts : One(LoopHolds(x)) = 0
        /\ \A x \in Evts : x # c => evts'[x] = evts[x] /\ One(LoopHolds(x)') = 0
        /\ One(LoopHolds(c)') = 1
    BY <1>0, <2>1, EraseCount
  <2>3. \A x \in Evts : /\ ref'[x] = IF x = c THEN ref[x] + 1 ELSE ref[x]
                        /\ appd'[x] = IF x = c THEN appd[x] + 1 ELSE appd[x]
    BY <2>1 DEF AddIoEvents
  <2>4. \A x \in Evts : ref'[x] + evts[x] + appd[x] + One(LoopHolds(x))
                          = ref[x] + evts'[x] + appd'[x] + One(LoopHolds(x)')
    BY <1>t, <2>1, <2>2, <2>3
  <2>5. ref[c] > 0
    BY <1>0, <2>1, <2>2, HoldersCount DEF CountInv
  <2>6. \A x \in Evts : ref'[x] = 0 <=> life'[x] # "live"
    BY <1>t, <1>l, <2>1, <2>3, <2>5
  <2>7. QED
    BY <1>0, <2>1, <2>4, <2>6, LoopCount
<1>6. ASSUME NEW c \in Conns, Accept(c) PROVE CountInv'
  <2>1. /\ c \in Evts /\ Listener \in Evts /\ c # Listener /\ Listener \in todo
        /\ pc \in {"walk", "sweep"} /\ Erase(Listener) /\ AddIoEvents({Listener, c})
        /\ life' = [life EXCEPT ![c] = "live"] /\ UNCHANGED <<tasks, tevt, tpc>>
    BY <1>6, ConstAssumption DEF Accept, threadVars, Evts
  <2>2. /\ evts[Listener] > 0 /\ evts'[Listener] = evts[Listener] - 1
        /\ \A x \in Evts : One(LoopHolds(x)) = 0
        /\ \A x \in Evts : x # Listener => evts'[x] = evts[x] /\ One(LoopHolds(x)') = 0
        /\ One(LoopHolds(Listener)') = 1
    BY <1>0, <2>1, EraseCount
  <2>3. \A x \in Evts :
           /\ ref'[x] = IF x \in {Listener, c} THEN ref[x] + 1 ELSE ref[x]
           /\ appd'[x] = IF x \in {Listener, c} THEN appd[x] + 1 ELSE appd[x]
    BY <2>1 DEF AddIoEvents
  <2>4. \A x \in Evts : ref'[x] + evts[x] + appd[x] + One(LoopHolds(x))
                          = ref[x] + evts'[x] + appd'[x] + One(LoopHolds(x)')
    BY <1>t, <2>1, <2>2, <2>3
  <2>5. ref[Listener] > 0
    BY <1>0, <2>1, <2>2, HoldersCount DEF CountInv
  <2>6. /\ life'[c] = "live"
        /\ \A x \in Evts : x # c => life'[x] = life[x]
    BY <1>0, <2>1 DEF TypeOK
  <2>7. \A x \in Evts : ref'[x] = 0 <=> life'[x] # "live"
    BY <1>t, <1>l, <2>1, <2>3, <2>5, <2>6
  <2>8. QED
    BY <1>0, <2>1, <2>4, <2>7, LoopCount
<1>7. ASSUME NEW c \in Conns, NEW t \in Threads, ReadComplete(c, t) PROVE CountInv'
  <2>1. /\ c \in Evts /\ c \in todo /\ pc \in {"walk", "sweep"} /\ Erase(c)
        /\ appd' = appd /\ life' = life /\ tevt' = tevt /\ tpc' = tpc
        /\ ref' = [ref EXCEPT ![c] = @ + 1]
    BY <1>7 DEF ReadComplete, Evts
  <2>2. /\ evts[c] > 0 /\ evts'[c] = evts[c] - 1
        /\ \A x \in Evts : One(LoopHolds(x)) = 0
        /\ \A x \in Evts : x # c => evts'[x] = evts[x] /\ One(LoopHolds(x)') = 0
        /\ One(LoopHolds(c)') = 1
    BY <1>0, <2>1, EraseCount
  <2>3. /\ ~TaskHolds(c)
        /\ \A x \in Evts : TaskHolds(x)' <=> TaskHolds(x) \/ x = c
    BY <1>0, <1>7, TaskAdded
  <2>4. ref'[c] = ref[c] + 1 /\ \A x \in Evts : x # c => ref'[x] = ref[x]
    BY <1>0, <2>1 DEF TypeOK
  <2>5. ref[c] > 0
    BY <1>0, <2>1, <2>2, HoldersCount DEF CountInv
  <2>6. \A x \in Evts : ref'[x] = 0 <=> life'[x] # "live"
    BY <1>t, <1>l, <2>1, <2>4, <2>5
  <2>7. ASSUME NEW e \in Evts PROVE ref'[e] = Holders(e)'
    <3>1. One(Pushing(e)') = One(Pushing(e))
      BY <2>1 DEF Pushing, One
    <3>2. /\ ref[e] = evts[e] + appd[e] + One(LoopHolds(e)) + One(TaskHolds(e))
                      + One(Pushing(e))
      BY <1>0, CountBefore
    <3>3. Holders(e)' = evts'[e] + appd'[e] + One(LoopHolds(e)') + One(TaskHolds(e)')
                        + One(Pushing(e)')
      BY HoldersNext
    <3>4. CASE e = c
      <4>1. One(TaskHolds(e)) = 0 /\ One(TaskHolds(e)') = 1
        BY <2>3, <3>4 DEF One
      <4>2. QED
        BY <1>t, <2>1, <2>2, <2>4, <3>1, <3>2, <3>3, <3>4, <4>1
    <3>5. CASE e # c
      <4>1. One(TaskHolds(e)') = One(TaskHolds(e))
        BY <2>3, <3>5 DEF One
      <4>2. QED
        BY <1>t, <2>1, <2>2, <2>4, <3>1, <3>2, <3>3, <3>5, <4>1
    <3>6. QED
      BY <3>4, <3>5
  <2>8. QED
    BY <2>6, <2>7, CountPartsNext
<1>8. ASSUME NEW e \in Evts, DestroyEvt(e) PROVE CountInv'
  <2>1. /\ Release(e) /\ UNCHANGED <<tasks, tevt, tpc, cur>>
        /\ \/ evts[e] > 0 /\ evts' = [evts EXCEPT ![e] = @ - 1] /\ appd' = appd
           \/ appd[e] > 0 /\ appd' = [appd EXCEPT ![e] = @ - 1] /\ evts' = evts
    BY <1>8 DEF DestroyEvt, loopVars, threadVars
  <2>2. ref[e] > 0
    BY <1>0, <2>1, HoldersCount DEF CountInv
  <2>3. /\ ref'[e] = ref[e] - 1
        /\ \A x \in Evts : x # e => ref'[x] = ref[x]
        /\ \A x \in Evts : ref'[x] = 0 <=> life'[x] # "live"
    BY <1>0, <2>1, <2>2, ReleaseEffect
  <2>4. \A x \in Evts :
           evts'[x] + appd'[x] = IF x = e THEN evts[x] + appd[x] - 1 ELSE evts[x] + appd[x]
    <3>1. evts \in [Evts -> Nat] /\ appd \in [Evts -> Nat]
      BY <1>0 DEF TypeOK
    <3>2. QED
      BY <2>1, <3>1
  <2>5. \A x \in Evts : /\ One(LoopHolds(x)') = One(LoopHolds(x))
                        /\ evts'[x] \in Nat /\ appd'[x] \in Nat /\ ref'[x] \in Nat
    BY <2>1 DEF LoopHolds, One, TypeOK
  <2>6. \A x \in Evts : ref'[x] + evts[x] + appd[x] + One(LoopHolds(x))
                          = ref[x] + evts'[x] + appd'[x] + One(LoopHolds(x)')
    BY <1>t, <2>3, <2>4, <2>5
  <2>7. QED
    BY <1>0, <2>1, <2>3, <2>6, LoopCount
<1>9. ASSUME NEW t \in Threads, Pop(t) PROVE CountInv'
  <2>1. UNCHANGED <<evts, appd, cur, ref, life>> /\ tpc[t] = "pop" /\ tpc'[t] = "process"
    BY <1>0, <1>9 DEF Pop, evtVars, listVars, loopVars, TypeOK
  <2>2. \A x \in Evts : TaskHolds(x)' <=> TaskHolds(x)
    BY <1>0, <1>9, TaskPopped
  <2>3. \A u \in Threads : u # t => tpc'[u] = tpc[u] /\ tevt'[u] = tevt[u]
    BY <1>0, <1>9 DEF Pop, TypeOK
  <2>4. \A x \in Evts : Pushing(x)' <=> Pushing(x)
    BY <2>1, <2>3 DEF Pushing
  <2>5. \A x \in Evts : /\ One(TaskHolds(x)') = One(TaskHolds(x))
                        /\ One(Pushing(x)') = One(Pushing(x))
    BY <2>2, <2>4 DEF One
  <2>6. QED
    BY <1>0, <1>t, <1>l, <2>1, <2>5, ThreadCount
<1>10. ASSUME NEW t \in Threads, Process(t) PROVE CountInv'
  <2>1. /\ UNCHANGED <<evts, appd, cur, ref, life, tasks, tevt>>
        /\ tpc[t] = "process" /\ tpc'[t] = "add_ref"
        /\ \A u \in Threads : u # t => tpc'[u] = tpc[u]
    BY <1>0, <1>10 DEF Process, listVars, loopVars, TypeOK
  <2>2. \A x \in Evts : /\ One(TaskHolds(x)') = One(TaskHolds(x))
                        /\ One(Pushing(x)') = One(Pushing(x))
    BY <2>1 DEF TaskHolds, Queued, Pushing, One
  <2>3. QED
    BY <1>0, <1>t, <1>l, <2>1, <2>2, ThreadCount
<1>11. ASSUME NEW t \in Threads, ThreadAddRef(t) \/ ThreadPush(t) \/ ThreadRelease(t)
       PROVE  CountInv'
  <2>1. /\ tevt[t] \in Evts /\ TaskHolds(tevt[t])
        /\ \A u \in Threads : u # t => tevt[u] # tevt[t]
    <3>1. tpc[t] \in {"add_ref", "push", "release"}
      BY <1>11 DEF ThreadAddRef, ThreadPush, ThreadRelease
    <3>5. tevt[t] # NoEvt
      BY <1>0, <3>1 DEF ThreadInv
    <3>2. tevt[t] \in Evts
      BY <1>0, <3>5 DEF TypeOK
    <3>3. TaskHolds(tevt[t])
      BY DEF TaskHolds
    <3>4. QED
      BY <1>0, <3>2, <3>3 DEF TaskInv, OneTask
  <2>2. ref[tevt[t]] > 0
    BY <1>0, <2>1, HoldersCount DEF CountInv
  <2>3. CASE ThreadAddRef(t)
    <3>1. /\ UNCHANGED <<evts, appd, cur, life, tasks, tevt>>
          /\ tpc[t] = "add_ref" /\ tpc'[t] = "push"
          /\ \A u \in Threads : u # t => tpc'[u] = tpc[u]
          /\ \A x \in Evts : ref'[x] = IF x = tevt[t] THEN ref[x] + 1 ELSE ref[x]
      BY <1>0, <2>3 DEF ThreadAddRef, listVars, loopVars, TypeOK
    <3>2. \A x \in Evts : Pushing(x)' <=> Pushing(x) \/ x = tevt[t]
      BY <2>1, <3>1 DEF Pushing
    <3>3. ~Pushing(tevt[t])
      BY <2>1, <3>1 DEF Pushing
    <3>4. \A x \in Evts :
             /\ One(TaskHolds(x)') = One(TaskHolds(x))
             /\ One(Pushing(x)') = IF x = tevt[t] THEN One(Pushing(x)) + 1 ELSE One(Pushing(x))
      BY <3>1, <3>2, <3>3 DEF TaskHolds, Queued, One
    <3>5. \A x \in Evts : ref'[x] = 0 <=> life'[x] # "live"
      BY <1>t, <1>l, <2>2, <3>1
    <3>6. \A e \in Evts :
             ref'[e] + appd[e] + One(TaskHolds(e)) + One(Pushing(e))
               = ref[e] + appd'[e] + One(TaskHolds(e)') + One(Pushing(e)')
      BY <1>t, <3>1, <3>4
    <3>7. QED
      BY <1>0, <3>1, <3>5, <3>6, ThreadCount
  <2>4. CASE ThreadPush(t)
    <3>1. /\ UNCHANGED <<evts, cur, ref, life, tasks, tevt>>
          /\ tpc[t] = "push" /\ tpc'[t] = "release"
          /\ \A u \in Threads : u # t => tpc'[u] = tpc[u]
          /\ \A x \in Evts : appd'[x] = IF x = tevt[t] THEN appd[x] + 1 ELSE appd[x]
      BY <1>0, <2>4 DEF ThreadPush, evtVars, loopVars, TypeOK
    <3>2. \A x \in Evts : Pushing(x)' <=> Pushing(x) /\ x # tevt[t]
      BY <2>1, <3>1 DEF Pushing
    <3>3. Pushing(tevt[t])
      BY <2>1, <3>1 DEF Pushing
    <3>4. \A x \in Evts :
             /\ One(TaskHolds(x)') = One(TaskHolds(x))
             /\ One(Pushing(x)) = IF x = tevt[t] THEN One(Pushing(x)') + 1 ELSE One(Pushing(x)')
             /\ One(Pushing(x)') \in Nat
      BY <3>1, <3>2, <3>3 DEF TaskHolds, Queued, One
    <3>5. \A e \in Evts :
             ref'[e] + appd[e] + One(TaskHolds(e)) + One(Pushing(e))
               = ref[e] + appd'[e] + One(TaskHolds(e)') + One(Pushing(e)')
      BY <1>t, <3>1, <3>4
    <3>6. QED
      BY <1>0, <1>l, <3>1, <3>5, ThreadCount
  <2>5. CASE ThreadRelease(t)
    <3>1. /\ UNCHANGED <<evts, appd, cur>> /\ Release(tevt[t])
          /\ tpc[t] = "release" /\ tpc'[t] = "check"
          /\ \A u \in Threads : u # t => tpc'[u] = tpc[u] /\ tevt'[u] = tevt[u]
      BY <1>0, <2>5 DEF ThreadRelease, listVars, loopVars, TypeOK
    <3>2. /\ ref'[tevt[t]] = ref[tevt[t]] - 1
          /\ \A x \in Evts : x # tevt[t] => ref'[x] = ref[x]
          /\ \A x \in Evts : ref'[x] = 0 <=> life'[x] # "live"
      BY <1>0, <2>1, <2>2, <3>1, ReleaseEffect
    <3>3. \A x \in Evts : TaskHolds(x)' <=> TaskHolds(x) /\ x # tevt[t]
      BY <1>0, <2>1, <2>5, TaskDone
    <3>4. \A x \in Evts : Pushing(x)' <=> Pushing(x)
      BY <3>1 DEF Pushing
    <3>5. \A x \in Evts :
             /\ One(Pushing(x)') = One(Pushing(x))
             /\ One(TaskHolds(x)) = IF x = tevt[t] THEN One(TaskHolds(x)') + 1
                                    ELSE One(TaskHolds(x)')
             /\ One(TaskHolds(x)') \in Nat
      BY <2>1, <3>3, <3>4 DEF One
    <3>6. \A e \in Evts :
             ref'[e] + appd[e] + One(TaskHolds(e)) + One(Pushing(e))
               = ref[e] + appd'[e] + One(TaskHolds(e)') + One(Pushing(e)')
      BY <1>t, <2>1, <3>1, <3>2, <3>5
    <3>7. QED
      BY <1>0, <3>1, <3>2, <3>6, ThreadCount
  <2>6. QED
    BY <1>11, <2>3, <2>4, <2>5
<1>12. QED
  BY <1>1, <1>2, <1>3, <1>4, <1>5, <1>6, <1>7, <1>8, <1>9, <1>10, <1>11, StepCases

----------------------------------------------------------------------------
(* One place.                                                              *)

\* Most steps bring no event to a second place.
LEMMA PlaceSame ==
    ASSUME TypeOK, PlaceInv, TypeOK', \A e \in Evts : Working(e)' => Working(e),
           \A e \in Evts : evts'[e] + appd'[e] <= evts[e] + appd[e]
    PROVE  PlaceInv'
<1> SUFFICES ASSUME NEW e \in Evts
             PROVE  evts'[e] + appd'[e] + One(Working(e)') <= 1
  BY DEF PlaceInv, One
<1>1. PICK w \in {0, 1}, w2 \in {0, 1} :
         w = One(Working(e)) /\ w2 = One(Working(e)') /\ w2 <= w
  BY DEF One
<1>2. PICK a \in Nat, a2 \in Nat : a = evts[e] + appd[e] /\ a2 = evts'[e] + appd'[e]
  BY DEF TypeOK
<1>3. a + w <= 1 /\ a2 <= a
  BY <1>1, <1>2 DEF PlaceInv
<1>4. a2 + w2 <= 1
  BY <1>1, <1>3
<1>5. QED
  BY <1>1, <1>2, <1>4

\* An event in a list is in it once, in no other, and no thread works on it.
LEMMA PlaceOne ==
    ASSUME TypeOK, PlaceInv, NEW e \in Evts
    PROVE  /\ evts[e] > 0 => evts[e] = 1 /\ appd[e] = 0 /\ ~Working(e)
           /\ Working(e) => evts[e] = 0 /\ appd[e] = 0
           /\ evts[e] + appd[e] <= 1
<1>1. PICK w \in {0, 1} : w = One(Working(e)) /\ (w = 1 <=> Working(e))
  BY DEF One
<1>2. evts[e] \in Nat /\ appd[e] \in Nat /\ evts[e] + appd[e] + w <= 1
  BY <1>1 DEF TypeOK, PlaceInv
<1>3. QED
  BY <1>1, <1>2

LEMMA PlaceStep ==
    ASSUME Inv, [Next]_vars, TypeOK'
    PROVE  PlaceInv'
<1>0. TypeOK /\ LoopInv /\ ThreadInv /\ TaskInv /\ CountInv /\ PlaceInv
  BY DEF Inv
<1>t. \A x \in Evts : /\ evts[x] \in Nat /\ appd[x] \in Nat
                      /\ evts'[x] \in Nat /\ appd'[x] \in Nat
  BY <1>0 DEF TypeOK
<1>1. CASE QuietStep
  <2>1. /\ UNCHANGED <<tasks, tevt, evts, appd>>
        /\ \A t \in Threads : tpc'[t] = tpc[t] \/ tpc'[t] \in {"check", "pop", "exited"}
    BY <1>0, <1>1 DEF QuietStep, Select, SelectError, EndWalk, StartSweep, NoSweep, EndSweep,
       LeaveLoop, EndStop, Join, EndDestroy, Signal, StopThread, Check, PopNothing, Expire,
       vars, listVars, threadVars, TypeOK
  <2>2. \A e \in Evts : Working(e)' => Working(e)
    BY <2>1 DEF Working, Queued
  <2>3. QED
    BY <1>0, <1>t, <2>1, <2>2, PlaceSame
<1>2. CASE Merge
  <2>1. UNCHANGED <<tasks, tevt, tpc>>
    BY <1>2 DEF Merge, threadVars
  <2>2. \A e \in Evts : Working(e)' => Working(e)
    BY <2>1 DEF Working, Queued
  <2>3. \A e \in Evts : evts'[e] = evts[e] + appd[e] /\ appd'[e] = 0
    BY <1>2 DEF Merge
  <2>4. QED
    BY <1>0, <1>t, <2>2, <2>3, PlaceSame
<1>3. CASE LoopRelease
  <2>1. UNCHANGED <<tasks, tevt, tpc, evts, appd>>
    BY <1>3 DEF LoopRelease, listVars, threadVars
  <2>2. \A e \in Evts : Working(e)' => Working(e)
    BY <2>1 DEF Working, Queued
  <2>3. QED
    BY <1>0, <1>t, <2>1, <2>2, PlaceSame
<1>4. ASSUME NEW e \in Evts, DropStep(e) \/ DestroyEvt(e) PROVE PlaceInv'
  <2>1. /\ UNCHANGED <<tasks, tevt, tpc>>
        /\ evts' = evts \/ evts' = [evts EXCEPT ![e] = @ - 1]
        /\ appd' = appd \/ appd' = [appd EXCEPT ![e] = @ - 1]
    BY <1>4 DEF DropStep, AcceptError, IoError, WriteComplete, Sweep, DestroyEvt, Erase,
       threadVars
  <2>2. \A x \in Evts : Working(x)' => Working(x)
    BY <2>1 DEF Working, Queued
  <2>3. /\ \A x \in Evts : evts'[x] = evts[x] \/ evts'[x] = evts[x] - 1
        /\ \A x \in Evts : appd'[x] = appd[x] \/ appd'[x] = appd[x] - 1
    <3>1. evts \in [Evts -> Nat] /\ appd \in [Evts -> Nat]
      BY <1>0 DEF TypeOK
    <3>2. \A x \in Evts : evts'[x] = evts[x] \/ evts'[x] = evts[x] - 1
      BY <2>1, <3>1
    <3>3. \A x \in Evts : appd'[x] = appd[x] \/ appd'[x] = appd[x] - 1
      BY <2>1, <3>1
    <3>4. QED
      BY <3>2, <3>3
  <2>4. \A x \in Evts : evts'[x] + appd'[x] <= evts[x] + appd[x]
    BY <1>t, <2>3
  <2>5. QED
    BY <1>0, <2>2, <2>4, PlaceSame
<1>5. ASSUME NEW c \in Conns, KeepStep(c) PROVE PlaceInv'
  <2>1. /\ c \in Evts /\ UNCHANGED <<tasks, tevt, tpc>>
        /\ evts' = [evts EXCEPT ![c] = @ - 1]
        /\ AddIoEvents({c})
    BY <1>5 DEF KeepStep, ReadPartial, WritePartial, Erase, threadVars, Evts
  <2>2. \A x \in Evts : Working(x)' => Working(x)
    BY <2>1 DEF Working, Queued
  <2>3. \A x \in Evts : /\ evts'[x] = IF x = c THEN evts[x] - 1 ELSE evts[x]
                        /\ appd'[x] = IF x = c THEN appd[x] + 1 ELSE appd[x]
    BY <1>0, <2>1 DEF AddIoEvents, TypeOK
  <2>4. QED
    BY <1>0, <1>t, <2>2, <2>3, PlaceSame
<1>6. ASSUME NEW c \in Conns, Accept(c) PROVE PlaceInv'
  <2>1. /\ c \in Evts /\ Listener \in Evts /\ c # Listener /\ UNCHANGED <<tasks, tevt, tpc>>
        /\ Listener \in todo /\ life[c] = "unborn"
        /\ evts' = [evts EXCEPT ![Listener] = @ - 1]
        /\ AddIoEvents({Listener, c})
    BY <1>6, ConstAssumption DEF Accept, Erase, threadVars, Evts
  <2>2. \A x \in Evts : Working(x)' <=> Working(x)
    BY <2>1 DEF Working, Queued
  <2>3. \A x \in Evts :
           /\ evts'[x] = IF x = Listener THEN evts[x] - 1 ELSE evts[x]
           /\ appd'[x] = IF x \in {Listener, c} THEN appd[x] + 1 ELSE appd[x]
    BY <1>0, <2>1 DEF AddIoEvents, TypeOK
  <2>4. ref[c] = 0
    BY <1>0, <2>1, CountBefore
  <2>5. evts[c] = 0 /\ appd[c] = 0 /\ ~TaskHolds(c)
    BY <1>0, <1>t, <2>1, <2>4, HoldersCount DEF CountInv
  <2>6. ~Working(c)
    BY <2>5 DEF Working, TaskHolds
  <2>7. ASSUME NEW x \in Evts PROVE evts'[x] + appd'[x] + One(Working(x)') <= 1
    <3>1. evts[x] + appd[x] + One(Working(x)) <= 1 /\ One(Working(x)') = One(Working(x))
      BY <1>0, <2>2 DEF PlaceInv, One
    <3>2. CASE x = c
      BY <1>t, <2>1, <2>2, <2>3, <2>5, <2>6, <3>2 DEF One
    <3>3. CASE x = Listener
      <4>1. evts[x] = 1 /\ appd[x] = 0 /\ ~Working(x)
        BY <1>0, <1>t, <2>1, <3>3, PlaceOne DEF LoopInv
      <4>2. QED
        BY <2>1, <2>2, <2>3, <3>3, <4>1 DEF One
    <3>4. CASE x # c /\ x # Listener
      BY <2>3, <3>1, <3>4
    <3>5. QED
      BY <3>2, <3>3, <3>4
  <2>8. QED
    BY <2>7 DEF PlaceInv, One
<1>7. ASSUME NEW c \in Conns, NEW t \in Threads, ReadComplete(c, t) PROVE PlaceInv'
  <2>1. /\ c \in Evts /\ c \in todo /\ appd' = appd /\ tevt' = tevt /\ tpc' = tpc
        /\ evts' = [evts EXCEPT ![c] = @ - 1]
        /\ tasks' = [tasks EXCEPT ![t] = Append(@, c)]
    BY <1>7 DEF ReadComplete, Erase, Evts
  <2>2. \A e \in Evts, u \in Threads : Queued(e, u)' <=> Queued(e, u) \/ (u = t /\ e = c)
    BY <1>0, <2>1, QueuedAppend
  <2>3. \A x \in Evts : x # c => (Working(x)' <=> Working(x))
    BY <2>1, <2>2 DEF Working
  <2>4. evts[c] = 1 /\ appd[c] = 0
    BY <1>0, <2>1, PlaceOne DEF LoopInv
  <2>5. \A x \in Evts : evts'[x] = IF x = c THEN evts[x] - 1 ELSE evts[x]
    BY <1>0, <2>1 DEF TypeOK
  <2>6. ASSUME NEW x \in Evts PROVE evts'[x] + appd'[x] + One(Working(x)') <= 1
    <3>1. CASE x = c
      <4>1. One(Working(x)') \in {0, 1}
        BY DEF One
      <4>2. evts'[x] = 0 /\ appd'[x] = 0
        BY <2>1, <2>4, <2>5, <3>1
      <4>3. QED
        BY <4>1, <4>2
    <3>2. CASE x # c
      <4>1. One(Working(x)') = One(Working(x))
        BY <2>3, <3>2 DEF One
      <4>2. QED
        BY <1>0, <2>1, <2>5, <3>2, <4>1 DEF PlaceInv
    <3>3. QED
      BY <3>1, <3>2
  <2>7. QED
    BY <2>6 DEF PlaceInv, One
<1>8. ASSUME NEW t \in Threads, Pop(t) PROVE PlaceInv'
  <2>1. UNCHANGED <<evts, appd>>
    BY <1>8 DEF Pop, listVars
  <2>2. tasks[t] # <<>> /\ tasks' = [tasks EXCEPT ![t] = Tail(@)]
    BY <1>8 DEF Pop
  <2>3. /\ Queued(Head(tasks[t]), t)
        /\ \A e \in Evts, u \in Threads : Queued(e, u)' => Queued(e, u)
    BY <1>0, <2>2, QueuedTail DEF TaskInv
  <2>4. /\ tevt'[t] = Head(tasks[t])
        /\ \A u \in Threads : u # t => tevt'[u] = tevt[u] /\ tpc'[u] = tpc[u]
    BY <1>0, <1>8 DEF Pop, TypeOK
  <2>5. \A e \in Evts : Working(e)' => Working(e)
    BY <2>3, <2>4 DEF Working
  <2>6. QED
    BY <1>0, <1>t, <2>1, <2>5, PlaceSame
<1>9. ASSUME NEW t \in Threads, Process(t) \/ ThreadAddRef(t) PROVE PlaceInv'
  <2>1. /\ UNCHANGED <<evts, appd, tasks, tevt>> /\ tpc[t] \in {"process", "add_ref"}
        /\ \A u \in Threads : u # t => tpc'[u] = tpc[u]
    BY <1>0, <1>9 DEF Process, ThreadAddRef, listVars, TypeOK
  <2>2. \A e \in Evts : Working(e)' => Working(e)
    BY <2>1 DEF Working, Queued
  <2>3. QED
    BY <1>0, <1>t, <2>1, <2>2, PlaceSame
<1>10. ASSUME NEW t \in Threads, ThreadPush(t) PROVE PlaceInv'
  <2>1. /\ UNCHANGED <<evts, tasks, tevt>> /\ tpc[t] = "push" /\ tpc'[t] = "release"
        /\ \A u \in Threads : u # t => tpc'[u] = tpc[u]
        /\ \A x \in Evts : appd'[x] = IF x = tevt[t] THEN appd[x] + 1 ELSE appd[x]
    BY <1>0, <1>10 DEF ThreadPush, evtVars, TypeOK
  <2>2. \A x \in Evts : Working(x)' => Working(x) /\ x # tevt[t]
    BY <1>0, <2>1 DEF Working, Queued, TaskInv, OneTask
  <2>3. ASSUME NEW x \in Evts PROVE evts'[x] + appd'[x] + One(Working(x)') <= 1
    <3>1. CASE x = tevt[t]
      <4>1. Working(x) /\ ~Working(x)'
        BY <2>1, <2>2, <3>1 DEF Working
      <4>2. evts[x] = 0 /\ appd[x] = 0
        BY <1>0, <4>1, PlaceOne
      <4>3. One(Working(x)') = 0
        BY <4>1 DEF One
      <4>4. QED
        BY <2>1, <3>1, <4>2, <4>3
    <3>2. CASE x # tevt[t]
      <4>1. PICK w \in {0, 1}, w2 \in {0, 1} :
               w = One(Working(x)) /\ w2 = One(Working(x)') /\ w2 <= w
        BY <2>2 DEF One
      <4>2. evts[x] + appd[x] + w <= 1
        BY <1>0, <4>1 DEF PlaceInv
      <4>3. evts'[x] = evts[x] /\ appd'[x] = appd[x]
        BY <2>1, <3>2
      <4>4. evts'[x] + appd'[x] + w2 <= 1
        BY <1>t, <4>1, <4>2, <4>3
      <4>5. QED
        BY <4>1, <4>4
    <3>3. QED
      BY <3>1, <3>2
  <2>4. QED
    BY <2>3 DEF PlaceInv, One
<1>11. ASSUME NEW t \in Threads, ThreadRelease(t) PROVE PlaceInv'
  <2>1. /\ UNCHANGED <<evts, appd, tasks>> /\ tpc'[t] = "check"
        /\ \A u \in Threads : u # t => tpc'[u] = tpc[u] /\ tevt'[u] = tevt[u]
    BY <1>0, <1>11 DEF ThreadRelease, listVars, TypeOK
  <2>2. \A e \in Evts : Working(e)' => Working(e)
    BY <2>1 DEF Working, Queued
  <2>3. QED
    BY <1>0, <1>t, <2>1, <2>2, PlaceSame
<1>12. QED
  BY <1>1, <1>2, <1>3, <1>4, <1>5, <1>6, <1>7, <1>8, <1>9, <1>10, <1>11, StepCases

----------------------------------------------------------------------------
(* Shutdown.                                                               *)

LEMMA ShutStep ==
    ASSUME Inv, [Next]_vars
    PROVE  ShutInv'
<1>0. TypeOK /\ ShutInv
  BY DEF Inv
<1>1. CASE QuietStep
  BY <1>0, <1>1 DEF ShutInv, TypeOK, QuietStep, Select, SelectError, EndWalk, StartSweep,
     NoSweep, EndSweep, LeaveLoop, EndStop, Join, EndDestroy, Signal, StopThread, Check,
     PopNothing, Expire, vars, listVars, loopVars, threadVars
<1>2. CASE Merge \/ LoopRelease
  BY <1>2 DEF ShutInv, Merge, LoopRelease
<1>3. ASSUME NEW e \in Evts, DropStep(e) PROVE ShutInv'
  BY <1>3 DEF ShutInv, DropStep, AcceptError, IoError, WriteComplete, Sweep
<1>4. ASSUME NEW e \in Evts, DestroyEvt(e) PROVE ShutInv'
  BY <1>0, <1>4 DEF ShutInv, DestroyEvt, loopVars, threadVars
<1>5. ASSUME NEW c \in Conns, KeepStep(c) \/ Accept(c) PROVE ShutInv'
  BY <1>5 DEF ShutInv, KeepStep, ReadPartial, WritePartial, Accept
<1>6. ASSUME NEW c \in Conns, NEW t \in Threads, ReadComplete(c, t) PROVE ShutInv'
  BY <1>6 DEF ShutInv, ReadComplete
<1>7. ASSUME NEW t \in Threads, \/ Pop(t) \/ Process(t) \/ ThreadAddRef(t)
                                \/ ThreadPush(t) \/ ThreadRelease(t)
      PROVE  ShutInv'
  <2>1. tpc[t] # "exited" /\ pc' = pc
    BY <1>7 DEF Pop, Process, ThreadAddRef, ThreadPush, ThreadRelease, loopVars
  <2>2. QED
    BY <1>0, <2>1 DEF ShutInv
<1>8. QED
  BY <1>1, <1>2, <1>3, <1>4, <1>5, <1>6, <1>7, StepCases

----------------------------------------------------------------------------
(* Fields and places.                                                      *)

\* Steps that leave the fields alone and put no event into a list, and no
\* thread behind its computation.
LEMMA FieldSame ==
    ASSUME TypeOK, FieldInv, UNCHANGED <<state, ioType, reply>>,
           \A c \in Conns : life'[c] = "unborn" => life[c] = "unborn",
           \A c \in Conns : evts'[c] > 0 \/ appd'[c] > 0 => evts[c] > 0 \/ appd[c] > 0,
           \A t \in Threads : tpc'[t] \in {"add_ref", "push"} =>
               tpc[t] \in {"add_ref", "push"} /\ tevt'[t] = tevt[t]
    PROVE  FieldInv'
  BY DEF FieldInv, Answered

\* release turns nothing into an unborn event.
LEMMA ReleaseLife ==
    ASSUME TypeOK, NEW e \in Evts, Release(e)
    PROVE  \A c \in Conns : life'[c] = "unborn" => life[c] = "unborn"
  BY DEF TypeOK, Release, Evts

LEMMA FieldStep ==
    ASSUME Inv, [Next]_vars, TypeOK'
    PROVE  FieldInv'
<1>0. TypeOK /\ LoopInv /\ ThreadInv /\ TaskInv /\ CountInv /\ PlaceInv /\ FieldInv
  BY DEF Inv
<1>t. \A c \in Conns : /\ c \in Evts /\ evts[c] \in Nat /\ appd[c] \in Nat
  BY <1>0 DEF TypeOK, Evts
<1>1. CASE QuietStep
  <2>1. /\ UNCHANGED <<state, ioType, reply, life, tevt, evts, appd>>
        /\ \A t \in Threads : tpc'[t] = tpc[t] \/ tpc'[t] \in {"check", "pop", "exited"}
    BY <1>0, <1>1 DEF QuietStep, Select, SelectError, EndWalk, StartSweep, NoSweep, EndSweep,
       LeaveLoop, EndStop, Join, EndDestroy, Signal, StopThread, Check, PopNothing, Expire,
       vars, evtVars, listVars, threadVars, TypeOK
  <2>2. QED
    BY <1>0, <2>1, FieldSame
<1>2. CASE Merge
  <2>1. UNCHANGED <<state, ioType, reply, life, tevt, tpc>>
    BY <1>2 DEF Merge, evtVars, threadVars
  <2>2. \A c \in Conns : evts'[c] = evts[c] + appd[c] /\ appd'[c] = 0
    BY <1>t, <1>2 DEF Merge
  <2>3. \A c \in Conns : evts'[c] > 0 \/ appd'[c] > 0 => evts[c] > 0 \/ appd[c] > 0
    BY <1>t, <2>2
  <2>4. QED
    BY <1>0, <2>1, <2>3, FieldSame
<1>3. CASE LoopRelease
  <2>1. cur \in Evts /\ Release(cur)
    BY <1>0, <1>3 DEF LoopRelease, LoopInv, TypeOK
  <2>2. UNCHANGED <<state, ioType, reply, tevt, tpc, evts, appd>>
    BY <1>3 DEF LoopRelease, listVars, threadVars
  <2>3. \A c \in Conns : life'[c] = "unborn" => life[c] = "unborn"
    BY <1>0, <2>1, ReleaseLife
  <2>4. QED
    BY <1>0, <2>2, <2>3, FieldSame
<1>4. ASSUME NEW e \in Evts, DestroyEvt(e) PROVE FieldInv'
  <2>1. /\ Release(e) /\ UNCHANGED <<state, ioType, reply, tevt, tpc>>
        /\ \/ evts' = [evts EXCEPT ![e] = @ - 1] /\ appd' = appd
           \/ appd' = [appd EXCEPT ![e] = @ - 1] /\ evts' = evts
    BY <1>4 DEF DestroyEvt, threadVars
  <2>2. \A c \in Conns : evts'[c] > 0 \/ appd'[c] > 0 => evts[c] > 0 \/ appd[c] > 0
    <3>1. evts \in [Evts -> Nat] /\ appd \in [Evts -> Nat]
      BY <1>0 DEF TypeOK
    <3>2. QED
      BY <1>t, <2>1, <3>1
  <2>3. \A c \in Conns : life'[c] = "unborn" => life[c] = "unborn"
    BY <1>0, <2>1, ReleaseLife
  <2>4. QED
    BY <1>0, <2>1, <2>2, <2>3, FieldSame
<1>5. ASSUME NEW e \in Evts, \/ e = Listener /\ AcceptError
                             \/ IoError(e) \/ Sweep(e)
      PROVE  FieldInv'
  <2>1. /\ UNCHANGED <<state, ioType, reply, life, tevt, tpc, appd>>
        /\ evts' = [evts EXCEPT ![e] = @ - 1]
    BY <1>5 DEF AcceptError, IoError, Sweep, Erase, evtVars, threadVars
  <2>2. \A c \in Conns : evts'[c] > 0 \/ appd'[c] > 0 => evts[c] > 0 \/ appd[c] > 0
    <3>1. evts \in [Evts -> Nat]
      BY <1>0 DEF TypeOK
    <3>2. QED
      BY <1>t, <2>1, <3>1
  <2>3. QED
    BY <1>0, <2>1, <2>2, FieldSame
<1>6. ASSUME NEW e \in Evts, WriteComplete(e) PROVE FieldInv'
  <2>1. /\ UNCHANGED <<state, ioType, life, tevt, tpc, appd>> /\ e \in todo
        /\ state[e] \notin ReadStates /\ evts' = [evts EXCEPT ![e] = @ - 1]
        /\ \A x \in Evts : x # e => reply'[x] = reply[x]
    BY <1>0, <1>6 DEF WriteComplete, Erase, threadVars, TypeOK
  <2>2. evts[e] = 1 /\ appd[e] = 0 /\ ~Working(e)
    BY <1>0, <2>1, PlaceOne DEF LoopInv
  <2>3. evts'[e] = 0 /\ appd'[e] = 0 /\ \A x \in Evts : x # e => evts'[x] = evts[x]
    BY <1>0, <2>1, <2>2 DEF TypeOK
  <2>4. \A t \in Threads : tpc[t] \in {"add_ref", "push"} => tevt[t] # e /\ tevt[t] \in Evts
    <3>1. \A t \in Threads : tpc[t] \in {"add_ref", "push"} => tevt[t] # NoEvt
      BY <1>0 DEF ThreadInv
    <3>2. QED
      BY <1>0, <2>2, <3>1 DEF Working, TypeOK
  <2>5. QED
    BY <1>0, <1>t, <2>1, <2>3, <2>4 DEF FieldInv, Answered
<1>7. ASSUME NEW c \in Conns, ReadPartial(c) PROVE FieldInv'
  <2>1. /\ c \in Evts /\ UNCHANGED <<ioType, reply, life, tevt, tpc>> /\ AddIoEvents({c})
        /\ evts' = [evts EXCEPT ![c] = @ - 1] /\ state[c] \in ReadStates
        /\ \E next \in ReadStates : state' = [state EXCEPT ![c] = next]
    BY <1>7 DEF ReadPartial, Erase, threadVars, Evts
  <2>2. /\ state'[c] \in ReadStates
        /\ \A x \in Evts : x # c => state'[x] = state[x]
    BY <1>0, <2>1 DEF TypeOK
  <2>3. \A x \in Evts : x # c => evts'[x] = evts[x] /\ appd'[x] = appd[x]
    BY <1>0, <2>1 DEF TypeOK, AddIoEvents
  <2>4. \A t \in Threads : tpc[t] \in {"add_ref", "push"} => tevt[t] # c /\ tevt[t] \in Evts
    <3>1. \A t \in Threads : tpc[t] \in {"add_ref", "push"} => tevt[t] # NoEvt
      BY <1>0 DEF ThreadInv
    <3>2. ~TaskHolds(c)
      BY <1>0, <2>1 DEF TaskInv, TaskState
    <3>3. QED
      BY <1>0, <3>1, <3>2 DEF TaskHolds, TypeOK
  <2>5. QED
    BY <1>0, <1>t, <2>1, <2>2, <2>3, <2>4 DEF FieldInv, Answered
<1>8. ASSUME NEW c \in Conns, WritePartial(c) PROVE FieldInv'
  <2>1. /\ c \in Evts /\ UNCHANGED <<ioType, reply, life, tevt, tpc>> /\ AddIoEvents({c})
        /\ evts' = [evts EXCEPT ![c] = @ - 1] /\ c \in todo /\ state[c] \notin ReadStates
        /\ state' = [state EXCEPT ![c] = "write"]
    BY <1>8 DEF WritePartial, Erase, threadVars, Evts
  <2>2. evts[c] > 0
    BY <1>0, <2>1 DEF LoopInv
  <2>3. state[c] = "write"
    BY <1>0, <2>1, <2>2 DEF FieldInv, Answered
  <2>4. state' = state
    BY <1>0, <2>1, <2>3 DEF TypeOK
  <2>5. \A x \in Evts : x # c => evts'[x] = evts[x] /\ appd'[x] = appd[x]
    BY <1>0, <2>1 DEF TypeOK, AddIoEvents
  <2>6. \A x \in Conns : evts'[x] > 0 \/ appd'[x] > 0 => evts[x] > 0 \/ appd[x] > 0
    BY <1>t, <2>2, <2>5
  <2>7. QED
    BY <1>0, <2>1, <2>4, <2>6, FieldSame
<1>9. ASSUME NEW c \in Conns, Accept(c) PROVE FieldInv'
  <2>1. /\ c \in Evts /\ UNCHANGED <<state, ioType, reply, tevt, tpc>>
        /\ AddIoEvents({Listener, c}) /\ life[c] = "unborn"
        /\ life' = [life EXCEPT ![c] = "live"]
        /\ evts' = [evts EXCEPT ![Listener] = @ - 1] /\ Listener \notin Conns
    BY <1>9, ConstAssumption DEF Accept, Erase, threadVars, Evts
  <2>2. state[c] \in ReadStates
    BY <1>0, <2>1 DEF FieldInv
  <2>3. ASSUME NEW x \in Conns, x # c PROVE evts'[x] = evts[x] /\ appd'[x] = appd[x]
    <3>1. x \in Evts /\ x \notin {Listener, c}
      BY <1>t, <2>1, <2>3
    <3>2. evts'[x] = evts[x]
      BY <1>0, <2>1, <3>1 DEF TypeOK
    <3>3. appd'[x] = appd[x]
      BY <2>1, <3>1 DEF AddIoEvents
    <3>4. QED
      BY <3>2, <3>3
  <2>4. \A x \in Conns : life'[x] = "unborn" => life[x] = "unborn"
    BY <1>0, <1>t, <2>1 DEF TypeOK
  <2>5. QED
    BY <1>0, <1>t, <2>1, <2>2, <2>3, <2>4 DEF FieldInv, Answered
<1>10. ASSUME NEW c \in Conns, NEW t \in Threads, ReadComplete(c, t) PROVE FieldInv'
  <2>1. /\ c \in Evts /\ c \in todo /\ UNCHANGED <<ioType, reply, life, tevt, tpc, appd>>
        /\ evts' = [evts EXCEPT ![c] = @ - 1] /\ state[c] \in ReadStates
        /\ state' = [state EXCEPT ![c] = "compute"]
    BY <1>10 DEF ReadComplete, Erase, Evts
  <2>2. evts[c] = 1 /\ appd[c] = 0
    BY <1>0, <2>1, PlaceOne DEF LoopInv
  <2>3. /\ evts'[c] = 0 /\ appd'[c] = 0 /\ state'[c] = "compute"
        /\ \A x \in Evts : x # c => evts'[x] = evts[x] /\ state'[x] = state[x]
    BY <1>0, <2>1, <2>2 DEF TypeOK
  <2>4. \A u \in Threads : tpc[u] \in {"add_ref", "push"} => tevt[u] # c /\ tevt[u] \in Evts
    <3>1. \A u \in Threads : tpc[u] \in {"add_ref", "push"} => tevt[u] # NoEvt
      BY <1>0 DEF ThreadInv
    <3>2. ~TaskHolds(c)
      BY <1>0, <2>1 DEF TaskInv, TaskState
    <3>3. QED
      BY <1>0, <3>1, <3>2 DEF TaskHolds, TypeOK
  <2>5. life[c] # "unborn"
    <3>1. ref[c] > 0
      BY <1>0, <2>1, <2>2, HoldersCount DEF CountInv
    <3>2. QED
      BY <1>0, <2>1, <3>1 DEF CountInv, RefLive
  <2>6. "compute" \notin ReadStates
    BY DEF ReadStates
  <2>7. QED
    BY <1>0, <1>t, <2>1, <2>3, <2>4, <2>5, <2>6 DEF FieldInv, Answered
<1>11. ASSUME NEW t \in Threads, Pop(t) \/ ThreadAddRef(t) PROVE FieldInv'
  <2>1. UNCHANGED <<state, ioType, reply, life, evts, appd>>
    BY <1>11 DEF Pop, ThreadAddRef, evtVars, listVars
  <2>2. /\ \A u \in Threads : u # t => tpc'[u] = tpc[u] /\ tevt'[u] = tevt[u]
        /\ \/ tpc'[t] = "process"
           \/ tpc[t] = "add_ref" /\ tevt'[t] = tevt[t]
    BY <1>0, <1>11 DEF Pop, ThreadAddRef, TypeOK
  <2>3. \A u \in Threads : tpc'[u] \in {"add_ref", "push"} =>
               tpc[u] \in {"add_ref", "push"} /\ tevt'[u] = tevt[u]
    BY <2>2
  <2>4. QED
    BY <1>0, <2>1, <2>3, FieldSame
<1>12. ASSUME NEW t \in Threads, Process(t) PROVE FieldInv'
  <2>1. tevt[t] # NoEvt /\ UNCHANGED <<life, evts, appd, tevt>>
    BY <1>0, <1>12 DEF ThreadInv, Process, listVars
  <2>2. tevt[t] \in Evts
    BY <1>0, <2>1 DEF TypeOK
  <2>3. /\ Answered(tevt[t])'
        /\ \A x \in Evts : x # tevt[t] => /\ state'[x] = state[x] /\ ioType'[x] = ioType[x]
                                         /\ reply'[x] = reply[x]
    BY <1>0, <1>12, <2>1, <2>2 DEF Process, TypeOK, Answered
  <2>4. \A u \in Threads : u # t => tpc'[u] = tpc[u] /\ tevt[u] # tevt[t]
    BY <1>0, <1>12, <2>2 DEF Process, TypeOK, TaskInv, OneTask
  <2>5. life[tevt[t]] # "unborn"
    <3>1. ref[tevt[t]] > 0
      BY <1>0, <2>2, HoldersCount DEF CountInv, TaskHolds
    <3>2. QED
      BY <1>0, <2>2, <3>1 DEF CountInv, RefLive
  <2>6. \A u \in Threads : tpc[u] \in {"add_ref", "push"} => tevt[u] \in Evts
    <3>1. \A u \in Threads : tpc[u] \in {"add_ref", "push"} => tevt[u] # NoEvt
      BY <1>0 DEF ThreadInv
    <3>2. QED
      BY <1>0, <3>1 DEF TypeOK
  <2>7. "write" \notin ReadStates
    BY DEF ReadStates
  <2>8. state'[tevt[t]] = "write" /\ ioType'[tevt[t]] = "o" /\ reply'[tevt[t]] = "set"
    BY <2>1, <2>3 DEF Answered
  <2>9. ASSUME NEW c \in Conns
        PROVE  /\ life'[c] = "unborn" => state'[c] \in ReadStates
               /\ state'[c] \in ReadStates => ioType'[c] = "i" /\ reply'[c] = "none"
               /\ evts'[c] > 0 \/ appd'[c] > 0 => state'[c] \in ReadStates \/ Answered(c)'
    <3>1. CASE c = tevt[t]
      BY <2>1, <2>3, <2>5, <2>7, <2>8, <3>1
    <3>2. CASE c # tevt[t]
      BY <1>0, <1>t, <2>1, <2>3, <3>2 DEF FieldInv, Answered
    <3>3. QED
      BY <3>1, <3>2
  <2>10. ASSUME NEW u \in Threads, tpc'[u] \in {"add_ref", "push"}
         PROVE  Answered(tevt[u])'
    <3>1. CASE u = t
      BY <2>1, <2>8, <3>1 DEF Answered
    <3>2. CASE u # t
      BY <1>0, <2>1, <2>3, <2>4, <2>6, <2>10, <3>2 DEF FieldInv, Answered
    <3>3. QED
      BY <3>1, <3>2
  <2>11. QED
    BY <2>9, <2>10 DEF FieldInv, Answered
<1>13. ASSUME NEW t \in Threads, ThreadPush(t) PROVE FieldInv'
  <2>1. /\ UNCHANGED <<state, ioType, reply, life, evts, tevt>> /\ tpc[t] = "push"
        /\ tpc'[t] = "release" /\ \A u \in Threads : u # t => tpc'[u] = tpc[u]
        /\ \A x \in Evts : x # tevt[t] => appd'[x] = appd[x]
    BY <1>0, <1>13 DEF ThreadPush, evtVars, TypeOK
  <2>2. QED
    BY <1>0, <1>t, <2>1 DEF FieldInv, Answered
<1>14. ASSUME NEW t \in Threads, ThreadRelease(t) PROVE FieldInv'
  <2>1. /\ UNCHANGED <<state, ioType, reply, evts, appd>> /\ Release(tevt[t])
        /\ tpc[t] = "release" /\ tpc'[t] = "check"
        /\ \A u \in Threads : u # t => tpc'[u] = tpc[u] /\ tevt'[u] = tevt[u]
    BY <1>0, <1>14 DEF ThreadRelease, listVars, TypeOK
  <2>2. tevt[t] # NoEvt
    BY <1>0, <2>1 DEF ThreadInv
  <2>3. tevt[t] \in Evts
    BY <1>0, <2>2 DEF TypeOK
  <2>4. \A c \in Conns : life'[c] = "unborn" => life[c] = "unborn"
    BY <1>0, <2>1, <2>3, ReleaseLife
  <2>5. QED
    BY <1>0, <2>1, <2>4, FieldSame
<1>15. QED
  BY <1>1, <1>2, <1>3, <1>4, <1>5, <1>6, <1>7, <1>8, <1>9, <1>10, <1>11, <1>12, <1>13, <1>14,
     StepCases DEF DropStep, KeepStep

----------------------------------------------------------------------------
(* The theorems.                                                           *)

LEMMA InitInv == Init => Inv
<1> SUFFICES ASSUME Init PROVE Inv
  OBVIOUS
<1>1. TypeOK
  <2>1. tasks \in [Threads -> Seq(Evts)]
    BY DEF Init
  <2>2. EvtTypes
    BY DEF Init, EvtTypes, ReadStates
  <2>3. ListTypes /\ LoopTypes
    BY DEF Init, ListTypes, LoopTypes
  <2>4. QED
    BY <2>1, <2>2, <2>3 DEF Init, TypeOK, EvtTypes, ListTypes, LoopTypes
<1>2. LoopInv /\ ThreadInv /\ ShutInv
  BY DEF Init, LoopInv, ThreadInv, ShutInv
<1>n. \A e \in Evts : e # NoEvt
  BY ConstAssumption DEF Evts
<1>3. \A e \in Evts : ~TaskHolds(e) /\ ~Working(e) /\ ~Pushing(e) /\ ~LoopHolds(e)
  <2>1. \A t \in Threads : tasks[t] = <<>> /\ tevt[t] = NoEvt
    BY DEF Init
  <2>2. \A e \in Evts, t \in Threads : ~Queued(e, t)
    BY <2>1 DEF Queued
  <2>3. cur = NoEvt
    BY DEF Init
  <2>4. QED
    BY <1>n, <2>1, <2>2, <2>3 DEF TaskHolds, Working, Pushing, LoopHolds
<1>4. TaskInv
  <2>1. \A t \in Threads : tasks[t] = <<>> /\ Len(tasks[t]) = 0
    BY DEF Init
  <2>2. \A t \in Threads : \A i, j \in 1..Len(tasks[t]) : tasks[t][i] = tasks[t][j] => i = j
    BY <2>1
  <2>3. QED
    BY <1>3, <2>2 DEF TaskInv, OneTask, TaskState, TaskHolds
<1>5. \A e \in Evts : /\ ref[e] = IF e = Listener THEN 1 ELSE 0
                      /\ life[e] = IF e = Listener THEN "live" ELSE "unborn"
                      /\ evts[e] = 0
                      /\ appd[e] = IF e = Listener THEN 1 ELSE 0
  BY DEF Init
<1>6. \A e \in Evts : One(LoopHolds(e)) = 0 /\ One(TaskHolds(e)) = 0 /\ One(Pushing(e)) = 0
                      /\ One(Working(e)) = 0
  BY <1>3 DEF One
<1>7. CountInv
  BY <1>5, <1>6 DEF CountInv, RefsAreHolders, RefLive, Holders
<1>8. PlaceInv
  BY <1>5, <1>6 DEF PlaceInv
<1>9. FieldInv
  <2>1. \A c \in Conns : state[c] \in ReadStates /\ ioType[c] = "i" /\ reply[c] = "none"
    BY DEF Init, ReadStates, Evts
  <2>2. \A t \in Threads : tpc[t] = "check"
    BY DEF Init
  <2>3. QED
    BY <2>1, <2>2 DEF FieldInv
<1>10. QED
  BY <1>1, <1>2, <1>4, <1>7, <1>8, <1>9 DEF Inv

LEMMA NextInv == Inv /\ [Next]_vars => Inv'
<1> SUFFICES ASSUME Inv, [Next]_vars PROVE Inv'
  OBVIOUS
<1>1. TypeOK'
  BY TypeStep
<1>2. LoopInv' /\ ThreadInv' /\ TaskInv' /\ ShutInv'
  BY LoopStep, ThreadStep, TaskStep, ShutStep
<1>3. CountInv' /\ PlaceInv' /\ FieldInv'
  BY <1>1, CountStep, PlaceStep, FieldStep
<1>4. QED
  BY <1>1, <1>2, <1>3 DEF Inv

\* Every reachable state of the server satisfies the inductive invariant.
THEOREM Invariance == Spec => []Inv
  BY InitInv, NextInv, PTL DEF Spec

\* The variables of the loop, of the threads and of the events keep their types.
THEOREM TypeCorrect == Spec => []TypeOK
<1>1. Inv => TypeOK
  BY DEF Inv
<1>2. QED
  BY <1>1, Invariance, PTL

\* The count add_ref and release keep is the number of places that hold the
\* event, whatever the number of connections and threads.
THEOREM RefsExact == Spec => []RefsAreHolders
<1>1. Inv => RefsAreHolders
  BY DEF Inv, CountInv
<1>2. QED
  BY <1>1, Invariance, PTL

\* No list, queue or thread ever holds an event that release has deleted.
THEOREM NoFree == Spec => []NoUseAfterFree
<1>1. Inv => NoUseAfterFree
  <2> SUFFICES ASSUME Inv, NEW e \in Evts, Holders(e) > 0 PROVE life[e] = "live"
    BY DEF NoUseAfterFree
  <2>1. ref[e] = Holders(e)
    BY DEF Inv, CountInv, RefsAreHolders
  <2>2. QED
    BY <2>1 DEF Inv, CountInv, RefLive
<1>2. QED
  BY <1>1, Invariance, PTL

\* The loop thread cannot reach an event while on_process runs on it, and no
\* second computing thread has it.
THEOREM Exclusive == Spec => []ExclusiveProcessing
<1>1. Inv => ExclusiveProcessing
  <2> SUFFICES ASSUME Inv, NEW t \in Threads, tpc[t] \in {"process", "add_ref", "push"}
               PROVE  /\ evts[tevt[t]] = 0 /\ appd[tevt[t]] = 0
                      /\ \A u \in Threads : /\ ~Queued(tevt[t], u)
                                            /\ tevt[u] = tevt[t] => u = t
    BY DEF ExclusiveProcessing
  <2>1. TypeOK /\ ThreadInv /\ TaskInv /\ PlaceInv
    BY DEF Inv
  <2>2. tevt[t] # NoEvt
    BY <2>1 DEF ThreadInv
  <2>3. tevt[t] \in Evts
    BY <2>1, <2>2 DEF TypeOK
  <2>4. Working(tevt[t])
    BY DEF Working
  <2>5. evts[tevt[t]] = 0 /\ appd[tevt[t]] = 0
    BY <2>1, <2>3, <2>4, PlaceOne
  <2>6. QED
    BY <2>1, <2>3, <2>5 DEF TaskInv, OneTask
<1>2. QED
  BY <1>1, Invariance, PTL

\* What the loop thread monitors is in a state on_event can handle.
THEOREM MonitoredReady == Spec => []MonitoredMatchesState
<1>1. Inv => MonitoredMatchesState
  <2> SUFFICES ASSUME Inv, NEW c \in Conns, evts[c] + appd[c] > 0
               PROVE  \/ state[c] \in ReadStates /\ ioType[c] = "i" /\ reply[c] = "none"
                      \/ state[c] = "write" /\ ioType[c] = "o" /\ reply[c] = "set"
    BY DEF MonitoredMatchesState
  <2>1. evts[c] \in Nat /\ appd[c] \in Nat
    BY DEF Inv, TypeOK, Evts
  <2>2. evts[c] > 0 \/ appd[c] > 0
    BY <2>1
  <2>3. QED
    BY <2>2 DEF Inv, FieldInv, Answered
<1>2. QED
  BY <1>1, Invariance, PTL

\* When the destructor is done, an event is left alive exactly if stop() left it
\* in a task queue: nothing else is ever leaked.
THEOREM LeaksOnlyQueued == Spec => []LeakedOnlyFromQueues
<1>1. Inv => LeakedOnlyFromQueues
  <2> SUFFICES ASSUME Inv, pc = "done", NEW e \in Evts
               PROVE  life[e] = "live" <=> \E t \in Threads : Queued(e, t)
    BY DEF LeakedOnlyFromQueues
  <2>1. TypeOK /\ LoopInv /\ ThreadInv /\ ShutInv /\ CountInv
    BY DEF Inv
  <2>2. e # NoEvt /\ cur = NoEvt /\ evts[e] = 0 /\ appd[e] = 0
    BY <2>1, ConstAssumption DEF LoopInv, ShutInv, Evts
  <2>3. \A t \in Threads : tpc[t] = "exited" /\ tevt[t] = NoEvt
    BY <2>1 DEF ThreadInv, ShutInv
  <2>4. ~LoopHolds(e) /\ ~Pushing(e) /\ (TaskHolds(e) <=> \E t \in Threads : Queued(e, t))
    BY <2>2, <2>3 DEF LoopHolds, Pushing, TaskHolds
  <2>5. ref[e] = One(TaskHolds(e)) /\ (ref[e] = 0 <=> life[e] # "live")
    <3>1. ref[e] = evts[e] + appd[e] + One(LoopHolds(e)) + One(TaskHolds(e)) + One(Pushing(e))
          /\ (ref[e] = 0 <=> life[e] # "live")
      BY <2>1, CountBefore
    <3>2. One(LoopHolds(e)) = 0 /\ One(Pushing(e)) = 0 /\ One(TaskHolds(e)) \in Nat
      BY <2>4 DEF One
    <3>3. QED
      BY <2>2, <3>1, <3>2
  <2>6. One(TaskHolds(e)) = 0 <=> ~TaskHolds(e)
    BY DEF One
  <2>7. QED
    BY <2>4, <2>5, <2>6
<1>2. QED
  BY <1>1, Invariance, PTL

----------------------------------------------------------------------------
(***************************************************************************)
(* EventLoop implements ConnLife, for any number of connections and        *)
(* threads.                                                                *)
(***************************************************************************)

\* The request of c waits for a computing thread or is in on_process.
Computes(c) ==
    \E t \in Threads : Queued(c, t) \/ (tevt[t] = c /\ tpc[t] = "process")

\* A connection is in state compute exactly as long as that is so: no request that was
\* taken on is dropped from its queue, and none is answered before it was worked on.
ComputeInv ==
    \A c \in Conns :
        /\ state[c] = "compute" <=> Computes(c)
        /\ state[c] = "compute" => reply[c] = "none"

LEMMA ComputeFrame ==
    ASSUME ComputeInv,
           \A c \in Conns : /\ Computes(c)' <=> Computes(c)
                            /\ state'[c] = state[c]
                            /\ reply'[c] = reply[c] \/ state[c] # "compute"
    PROVE  ComputeInv'
BY DEF ComputeInv

\* Steps that leave the tasks alone.
LEMMA ComputesSame ==
    ASSUME tasks' = tasks,
           \A t \in Threads : \/ tpc'[t] = tpc[t] /\ tevt'[t] = tevt[t]
                              \/ tpc[t] # "process" /\ tpc'[t] # "process"
    PROVE  \A c \in Conns : Computes(c)' <=> Computes(c)
<1>1. \A e, t : Queued(e, t)' <=> Queued(e, t)
  BY DEF Queued
<1>2. QED
  BY <1>1 DEF Computes

LEMMA ComputeStep ==
    ASSUME Inv, ComputeInv, [Next]_vars
    PROVE  ComputeInv'
<1>0. TypeOK /\ LoopInv /\ ThreadInv /\ TaskInv /\ PlaceInv /\ FieldInv
  BY DEF Inv
<1>t. \A c \in Conns : c \in Evts /\ c # NoEvt
  BY ConstAssumption DEF Evts
<1>1. CASE QuietStep
  <2>1. /\ UNCHANGED <<state, reply, tasks, tevt>>
        /\ \A t \in Threads : tpc'[t] = tpc[t] \/ (tpc[t] # "process" /\ tpc'[t] # "process")
    BY <1>0, <1>1 DEF QuietStep, Select, SelectError, EndWalk, StartSweep, NoSweep, EndSweep,
       LeaveLoop, EndStop, Join, EndDestroy, Signal, StopThread, Check, PopNothing, Expire,
       vars, evtVars, threadVars, TypeOK
  <2>2. QED
    BY <2>1, ComputesSame, ComputeFrame
<1>2. CASE Merge \/ LoopRelease
  <2>1. UNCHANGED <<state, reply, tasks, tevt, tpc>>
    BY <1>2 DEF Merge, LoopRelease, evtVars, threadVars
  <2>2. QED
    BY <2>1, ComputesSame, ComputeFrame
<1>3. ASSUME NEW e \in Evts, DropStep(e) \/ DestroyEvt(e) PROVE ComputeInv'
  <2>1. UNCHANGED <<state, tasks, tevt, tpc>>
    BY <1>3 DEF DropStep, AcceptError, IoError, WriteComplete, Sweep, DestroyEvt, evtVars,
       threadVars
  <2>2. ASSUME NEW c \in Conns PROVE reply'[c] = reply[c] \/ state[c] # "compute"
    <3>1. CASE WriteComplete(e)
      <4>1. evts[e] > 0 /\ \A x \in Evts : x # e => reply'[x] = reply[x]
        BY <1>0, <3>1 DEF WriteComplete, LoopInv, TypeOK
      <4>2. QED
        BY <1>0, <1>t, <4>1 DEF FieldInv, Answered, ReadStates
    <3>2. CASE reply' = reply
      BY <3>2
    <3>3. QED
      BY <1>3, <3>1, <3>2 DEF DropStep, AcceptError, IoError, Sweep, DestroyEvt, evtVars
  <2>3. QED
    BY <2>1, <2>2, ComputesSame, ComputeFrame
<1>4. ASSUME NEW c \in Conns, KeepStep(c) PROVE ComputeInv'
  <2>1. UNCHANGED <<reply, tasks, tevt, tpc>> /\ c \in todo
    BY <1>4 DEF KeepStep, ReadPartial, WritePartial, threadVars
  <2>2. state[c] # "compute"
    BY <1>0, <2>1 DEF LoopInv, FieldInv, Answered, ReadStates
  <2>3. state'[c] # "compute" /\ \A x \in Evts : x # c => state'[x] = state[x]
    BY <1>0, <1>t, <1>4 DEF KeepStep, ReadPartial, WritePartial, ReadStates, TypeOK
  <2>4. \A d \in Conns : Computes(d)' <=> Computes(d)
    BY <2>1, ComputesSame
  <2>5. QED
    BY <1>t, <2>1, <2>2, <2>3, <2>4 DEF ComputeInv
<1>5. ASSUME NEW c \in Conns, Accept(c) PROVE ComputeInv'
  <2>1. UNCHANGED <<state, reply, tasks, tevt, tpc>>
    BY <1>5 DEF Accept, threadVars
  <2>2. QED
    BY <2>1, ComputesSame, ComputeFrame
<1>6. ASSUME NEW c \in Conns, NEW t \in Threads, ReadComplete(c, t) PROVE ComputeInv'
  <2>1. /\ tasks' = [tasks EXCEPT ![t] = Append(@, c)] /\ UNCHANGED <<reply, tevt, tpc>>
        /\ state' = [state EXCEPT ![c] = "compute"] /\ state[c] \in ReadStates
    BY <1>6 DEF ReadComplete
  <2>2. \A e \in Evts, u \in Threads : Queued(e, u)' <=> Queued(e, u) \/ (u = t /\ e = c)
    BY <1>0, <1>t, <2>1, QueuedAppend
  <2>3. \A d \in Conns : Computes(d)' <=> Computes(d) \/ d = c
    BY <1>t, <2>1, <2>2 DEF Computes
  <2>4. /\ state'[c] = "compute" /\ reply'[c] = "none"
        /\ \A x \in Evts : x # c => state'[x] = state[x]
    BY <1>0, <1>t, <2>1 DEF FieldInv, TypeOK
  <2>5. QED
    BY <1>t, <2>1, <2>3, <2>4 DEF ComputeInv
<1>7. ASSUME NEW t \in Threads, Pop(t) PROVE ComputeInv'
  <2> DEFINE h == Head(tasks[t])
  <2>1. /\ tasks[t] # <<>> /\ tasks' = [tasks EXCEPT ![t] = Tail(@)]
        /\ tevt' = [tevt EXCEPT ![t] = h] /\ tpc' = [tpc EXCEPT ![t] = "process"]
        /\ tpc[t] = "pop" /\ UNCHANGED <<state, reply>>
    BY <1>7 DEF Pop, evtVars
  <2>2. /\ Queued(h, t)
        /\ \A e \in Evts, u \in Threads : Queued(e, u)' <=> Queued(e, u) /\ ~(u = t /\ e = h)
    BY <1>0, <2>1, QueuedTail DEF TaskInv
  <2> HIDE DEF h
  <2>3. /\ tevt'[t] = h /\ tpc'[t] = "process"
        /\ \A u \in Threads : u # t => tevt'[u] = tevt[u] /\ tpc'[u] = tpc[u]
    BY <1>0, <2>1 DEF TypeOK
  <2>4. ASSUME NEW c \in Conns, Computes(c) PROVE Computes(c)'
    BY <1>t, <2>1, <2>2, <2>3, <2>4 DEF Computes
  <2>5. ASSUME NEW c \in Conns, Computes(c)' PROVE Computes(c)
    BY <1>t, <2>1, <2>2, <2>3, <2>5 DEF Computes
  <2>6. QED
    BY <2>1, <2>4, <2>5, ComputeFrame
<1>8. ASSUME NEW t \in Threads, Process(t) PROVE ComputeInv'
  <2>1. /\ UNCHANGED <<tasks, tevt>> /\ tpc[t] = "process" /\ tevt[t] \in Evts
        /\ state' = [state EXCEPT ![tevt[t]] = "write"]
        /\ reply' = [reply EXCEPT ![tevt[t]] = "set"]
        /\ tpc' = [tpc EXCEPT ![t] = "add_ref"]
    BY <1>0, <1>8 DEF Process, ThreadInv, TypeOK
  <2>2. \A e, u : Queued(e, u)' <=> Queued(e, u)
    BY <2>1 DEF Queued
  <2>3. \A u \in Threads : ~Queued(tevt[t], u) /\ (tevt[u] = tevt[t] => u = t)
    BY <1>0, <2>1 DEF TaskInv, OneTask
  <2>4. tpc'[t] # "process" /\ \A u \in Threads : u # t => tpc'[u] = tpc[u]
    BY <1>0, <2>1 DEF TypeOK
  <2>5. \A c \in Conns : Computes(c)' <=> Computes(c) /\ c # tevt[t]
    BY <2>1, <2>2, <2>3, <2>4 DEF Computes
  <2>6. /\ state'[tevt[t]] = "write"
        /\ \A x \in Evts : x # tevt[t] => state'[x] = state[x] /\ reply'[x] = reply[x]
    BY <1>0, <2>1 DEF TypeOK
  <2>7. QED
    BY <1>t, <2>5, <2>6 DEF ComputeInv
<1>9. ASSUME NEW t \in Threads, ThreadAddRef(t) \/ ThreadPush(t) \/ ThreadRelease(t)
      PROVE  ComputeInv'
  <2>1. UNCHANGED <<state, reply, tasks>>
    BY <1>9 DEF ThreadAddRef, ThreadPush, ThreadRelease, evtVars
  <2>2. ASSUME NEW u \in Threads
        PROVE  \/ tpc'[u] = tpc[u] /\ tevt'[u] = tevt[u]
               \/ tpc[u] # "process" /\ tpc'[u] # "process"
    BY <1>0, <1>9 DEF ThreadAddRef, ThreadPush, ThreadRelease, TypeOK
  <2>3. QED
    BY <2>1, <2>2, ComputesSame, ComputeFrame
<1>10. QED
  BY <1>1, <1>2, <1>3, <1>4, <1>5, <1>6, <1>7, <1>8, <1>9, StepCases

----------------------------------------------------------------------------
(* The mapping.                                                            *)

Phase(l, s, r) ==
    IF l = "unborn" THEN "idle"
    ELSE IF r = "sent" THEN "answered"
    ELSE IF l = "dead" THEN "dropped"
    ELSE IF s \in ReadStates THEN "reading"
    ELSE IF s = "compute" THEN "working" ELSE "answering"

LEMMA PhaseIs ==
    TypeOK => ClientPhase = [c \in Conns |-> Phase(life[c], state[c], reply[c])]
<1> SUFFICES ASSUME TypeOK, NEW c \in Conns
             PROVE  ClientPhase[c] = Phase(life[c], state[c], reply[c])
  BY DEF ClientPhase
<1>1. life[c] \in {"unborn", "live", "dead"}
  BY DEF TypeOK, Evts
<1>2. QED
  BY <1>1 DEF ClientPhase, Phase

\* A step that changes the fields of one connection at most.
LEMMA PhaseMove ==
    ASSUME ClientPhase = [c \in Conns |-> Phase(life[c], state[c], reply[c])],
           ClientPhase' = [c \in Conns |-> Phase(life'[c], state'[c], reply'[c])],
           NEW c \in Conns, NEW from, NEW to,
           \A d \in Conns : d # c =>
               life'[d] = life[d] /\ state'[d] = state[d] /\ reply'[d] = reply[d],
           Phase(life[c], state[c], reply[c]) \in from,
           Phase(life'[c], state'[c], reply'[c]) = to
    PROVE  Client!Move(c, from, to)
<1>1. \A d \in Conns : ClientPhase'[d] = IF d = c THEN to ELSE ClientPhase[d]
  OBVIOUS
<1>2. ClientPhase' = [ClientPhase EXCEPT ![c] = to]
  BY <1>1
<1>3. QED
  BY <1>2 DEF Client!Move

LEMMA PhaseStutter ==
    ASSUME ClientPhase = [c \in Conns |-> Phase(life[c], state[c], reply[c])],
           ClientPhase' = [c \in Conns |-> Phase(life'[c], state'[c], reply'[c])],
           \A d \in Conns :
               Phase(life'[d], state'[d], reply'[d]) = Phase(life[d], state[d], reply[d])
    PROVE  UNCHANGED ClientPhase
OBVIOUS

\* The end of an event whose request is not being worked on.
LEMMA ReleasePhase ==
    ASSUME ClientPhase = [c \in Conns |-> Phase(life[c], state[c], reply[c])],
           ClientPhase' = [c \in Conns |-> Phase(life'[c], state'[c], reply'[c])],
           Inv, NEW e \in Evts, Release(e), UNCHANGED <<state, reply>>,
           e \in Conns /\ ref[e] = 1 => state[e] # "compute"
    PROVE  [Client!Next]_ClientPhase
<1>1. life \in [Evts -> {"unborn", "live", "dead"}] /\ Conns \subseteq Evts /\ TypeOK
  BY DEF Inv, TypeOK, Evts
<1>2. CASE ref[e] # 1
  <2>1. life' = life
    BY <1>2 DEF Release
  <2>2. QED
    BY <2>1, PhaseStutter
<1>3. CASE ref[e] = 1
  <2>1. life' = [life EXCEPT ![e] = "dead"] /\ life[e] = "live"
    BY <1>3 DEF Release, Inv, CountInv, RefLive
  <2>2. \A d \in Conns : d # e => life'[d] = life[d]
    BY <1>1, <2>1
  <2>3. CASE e \notin Conns \/ reply[e] = "sent"
    <3>1. \A d \in Conns :
             Phase(life'[d], state'[d], reply'[d]) = Phase(life[d], state[d], reply[d])
      BY <1>1, <2>1, <2>2, <2>3 DEF Phase
    <3>2. QED
      BY <3>1, PhaseStutter
  <2>4. CASE e \in Conns /\ reply[e] # "sent"
    <3>1. Phase(life'[e], state'[e], reply'[e]) = "dropped"
      BY <1>1, <2>1, <2>4 DEF Phase
    <3>2. Phase(life[e], state[e], reply[e]) \in {"reading", "answering"}
      BY <1>3, <2>1, <2>4 DEF Phase
    <3>3. Client!Drop(e)
      BY <2>2, <2>4, <3>1, <3>2, PhaseMove DEF Client!Drop
    <3>4. QED
      BY <2>4, <3>3 DEF Client!Next
  <2>5. QED
    BY <2>3, <2>4
<1>4. QED
  BY <1>2, <1>3

LEMMA PhaseStep ==
    ASSUME ClientPhase = [c \in Conns |-> Phase(life[c], state[c], reply[c])],
           ClientPhase' = [c \in Conns |-> Phase(life'[c], state'[c], reply'[c])],
           Inv, ComputeInv, [Next]_vars
    PROVE  [Client!Next]_ClientPhase
<1>0. TypeOK /\ LoopInv /\ ThreadInv /\ TaskInv /\ CountInv /\ PlaceInv /\ FieldInv
  BY DEF Inv
<1>t. \A c \in Conns : c \in Evts /\ c # NoEvt /\ c # Listener
  BY ConstAssumption DEF Evts
<1>l. \A c \in Conns : evts[c] > 0 => life[c] = "live"
  BY <1>0, <1>t, HoldersCount DEF CountInv, RefLive
<1>s. CASE UNCHANGED <<life, state, reply>>
  BY <1>s, PhaseStutter
<1>1. CASE LoopRelease
  <2>1. cur \in Evts /\ Release(cur) /\ UNCHANGED <<state, reply>>
    BY <1>0, <1>1 DEF LoopRelease, LoopInv, TypeOK
  <2>2. ASSUME cur \in Conns, ref[cur] = 1 PROVE state[cur] # "compute"
    <3>1. ref[cur] = evts[cur] + appd[cur] + One(LoopHolds(cur)) + One(TaskHolds(cur))
                     + One(Pushing(cur))
      BY <1>0, <2>1 DEF CountInv, RefsAreHolders, Holders
    <3>2. /\ evts[cur] \in Nat /\ appd[cur] \in Nat /\ One(LoopHolds(cur)) = 1
          /\ One(Pushing(cur)) \in Nat
      BY <1>0, <2>1 DEF TypeOK, One, LoopHolds
    <3>3. One(TaskHolds(cur)) \in Nat /\ (TaskHolds(cur) => One(TaskHolds(cur)) = 1)
      BY DEF One
    <3>4. ~TaskHolds(cur)
      BY <2>2, <3>1, <3>2, <3>3
    <3>5. ~Computes(cur)
      BY <3>4 DEF Computes, TaskHolds
    <3>6. QED
      BY <2>2, <3>5 DEF ComputeInv
  <2>3. QED
    BY <2>1, <2>2, ReleasePhase
<1>2. ASSUME NEW t \in Threads, ThreadRelease(t) PROVE [Client!Next]_ClientPhase
  <2>1. /\ tevt[t] \in Evts /\ Release(tevt[t]) /\ UNCHANGED <<state, reply>>
        /\ tpc[t] = "release"
    BY <1>0, <1>2 DEF ThreadRelease, ThreadInv, TypeOK
  <2>2. ~Computes(tevt[t])
    BY <1>0, <2>1 DEF Computes, TaskInv, OneTask
  <2>3. QED
    BY <2>1, <2>2, ReleasePhase DEF ComputeInv
<1>3. ASSUME NEW e \in Evts, DestroyEvt(e) PROVE [Client!Next]_ClientPhase
  <2>1. (evts[e] > 0 \/ appd[e] > 0) /\ Release(e) /\ UNCHANGED <<state, reply>>
    BY <1>3 DEF DestroyEvt
  <2>2. e \in Conns => state[e] # "compute"
    BY <1>0, <2>1 DEF FieldInv, Answered, ReadStates
  <2>3. QED
    BY <2>1, <2>2, ReleasePhase
<1>4. ASSUME NEW e \in Evts, WriteComplete(e) PROVE [Client!Next]_ClientPhase
  <2>1. /\ e \in todo /\ state[e] \notin ReadStates /\ UNCHANGED <<life, state>>
        /\ reply' = IF reply[e] = "set" THEN [reply EXCEPT ![e] = "sent"] ELSE reply
        /\ evts[e] > 0
    BY <1>0, <1>4 DEF WriteComplete, LoopInv
  <2>2. CASE e \in Conns
    <3>1. life[e] = "live" /\ state[e] = "write" /\ reply[e] = "set"
      BY <1>0, <1>l, <2>1, <2>2 DEF FieldInv, Answered
    <3>2. /\ \A d \in Conns : d # e => reply'[d] = reply[d]
          /\ reply'[e] = "sent"
      BY <1>0, <1>t, <2>1, <2>2, <3>1 DEF TypeOK
    <3>3. /\ Phase(life[e], state[e], reply[e]) = "answering"
          /\ Phase(life'[e], state'[e], reply'[e]) = "answered"
      BY <2>1, <3>1, <3>2 DEF Phase, ReadStates
    <3>4. Client!Finish(e)
      BY <2>1, <2>2, <3>2, <3>3, PhaseMove DEF Client!Finish
    <3>5. QED
      BY <2>2, <3>4 DEF Client!Next
  <2>3. CASE e \notin Conns
    <3>1. \A d \in Conns : reply'[d] = reply[d]
      BY <1>0, <1>t, <2>1, <2>3 DEF TypeOK
    <3>2. QED
      BY <2>1, <3>1, PhaseStutter
  <2>4. QED
    BY <2>2, <2>3
<1>5. ASSUME NEW c \in Conns, KeepStep(c) PROVE [Client!Next]_ClientPhase
  <2>1. UNCHANGED <<life, reply>> /\ evts[c] > 0
    BY <1>0, <1>5 DEF KeepStep, ReadPartial, WritePartial, LoopInv
  <2>2. /\ \A d \in Conns : d # c => state'[d] = state[d]
        /\ \/ state[c] \in ReadStates /\ state'[c] \in ReadStates
           \/ state[c] \notin ReadStates /\ state'[c] = "write"
    BY <1>0, <1>t, <1>5 DEF KeepStep, ReadPartial, WritePartial, TypeOK
  <2>3. state[c] \in ReadStates \/ state[c] = "write"
    BY <1>0, <2>1 DEF FieldInv, Answered
  <2>4. Phase(life'[c], state'[c], reply'[c]) = Phase(life[c], state[c], reply[c])
    BY <2>1, <2>2, <2>3 DEF Phase, ReadStates
  <2>5. QED
    BY <2>1, <2>2, <2>4, PhaseStutter
<1>6. ASSUME NEW c \in Conns, Accept(c) PROVE [Client!Next]_ClientPhase
  <2>1. /\ UNCHANGED <<state, reply>> /\ life[c] = "unborn"
        /\ life' = [life EXCEPT ![c] = "live"]
    BY <1>6 DEF Accept
  <2>2. life'[c] = "live" /\ \A d \in Conns : d # c => life'[d] = life[d]
    BY <1>0, <1>t, <2>1 DEF TypeOK
  <2>3. state[c] \in ReadStates /\ reply[c] = "none"
    BY <1>0, <2>1 DEF FieldInv
  <2>4. /\ Phase(life[c], state[c], reply[c]) = "idle"
        /\ Phase(life'[c], state'[c], reply'[c]) = "reading"
    BY <2>1, <2>2, <2>3 DEF Phase
  <2>5. Client!Open(c)
    BY <2>1, <2>2, <2>4, PhaseMove DEF Client!Open
  <2>6. QED
    BY <2>5 DEF Client!Next
<1>7. ASSUME NEW c \in Conns, NEW t \in Threads, ReadComplete(c, t)
      PROVE  [Client!Next]_ClientPhase
  <2>1. /\ UNCHANGED <<life, reply>> /\ evts[c] > 0 /\ state[c] \in ReadStates
        /\ state' = [state EXCEPT ![c] = "compute"]
    BY <1>0, <1>7 DEF ReadComplete, LoopInv
  <2>2. state'[c] = "compute" /\ \A d \in Conns : d # c => state'[d] = state[d]
    BY <1>0, <1>t, <2>1 DEF TypeOK
  <2>3. life[c] = "live" /\ reply[c] = "none"
    BY <1>0, <1>l, <2>1 DEF FieldInv
  <2>4. /\ Phase(life[c], state[c], reply[c]) = "reading"
        /\ Phase(life'[c], state'[c], reply'[c]) = "working"
    BY <2>1, <2>2, <2>3 DEF Phase, ReadStates
  <2>5. Client!TakeOn(c)
    BY <2>1, <2>2, <2>4, PhaseMove DEF Client!TakeOn
  <2>6. QED
    BY <2>5 DEF Client!Next
<1>8. ASSUME NEW t \in Threads, Process(t) PROVE [Client!Next]_ClientPhase
  <2> DEFINE c == tevt[t]
  <2>1. /\ tpc[t] = "process" /\ c \in Evts /\ UNCHANGED life
        /\ state' = [state EXCEPT ![c] = "write"] /\ reply' = [reply EXCEPT ![c] = "set"]
    BY <1>0, <1>8 DEF Process, ThreadInv, TypeOK
  <2>2. TaskHolds(c) /\ Computes(c)
    BY <2>1 DEF TaskHolds, Computes
  <2>3. c \in Conns /\ life[c] = "live"
    BY <1>0, <2>1, <2>2, HoldersCount DEF TaskInv, TaskState, CountInv, RefLive
  <2>4. state[c] = "compute" /\ reply[c] = "none"
    BY <2>2, <2>3 DEF ComputeInv
  <2> HIDE DEF c
  <2>5. /\ state'[c] = "write" /\ reply'[c] = "set"
        /\ \A d \in Conns : d # c => state'[d] = state[d] /\ reply'[d] = reply[d]
    BY <1>0, <1>t, <2>1 DEF TypeOK
  <2>6. /\ Phase(life[c], state[c], reply[c]) = "working"
        /\ Phase(life'[c], state'[c], reply'[c]) = "answering"
    BY <2>1, <2>3, <2>4, <2>5 DEF Phase, ReadStates
  <2>7. Client!Answer(c)
    BY <2>1, <2>3, <2>5, <2>6, PhaseMove DEF Client!Answer
  <2>8. QED
    BY <2>3, <2>7 DEF Client!Next
<1>9. CASE QuietStep \/ Merge
  BY <1>s, <1>9 DEF QuietStep, Merge, Select, SelectError, EndWalk, StartSweep, NoSweep,
     EndSweep, LeaveLoop, EndStop, Join, EndDestroy, Signal, StopThread, Check, PopNothing,
     Expire, vars, evtVars
<1>10. ASSUME NEW e \in Evts, DropStep(e) PROVE [Client!Next]_ClientPhase
  BY <1>s, <1>4, <1>10 DEF DropStep, AcceptError, IoError, Sweep, evtVars
<1>11. ASSUME NEW t \in Threads, Pop(t) \/ ThreadAddRef(t) \/ ThreadPush(t)
       PROVE  [Client!Next]_ClientPhase
  BY <1>s, <1>11 DEF Pop, ThreadAddRef, ThreadPush, evtVars
<1>12. QED
  BY <1>1, <1>2, <1>3, <1>5, <1>6, <1>7, <1>8, <1>9, <1>10, <1>11, StepCases

\* Each connection goes through its phases in order: a request is handed to a computing
\* thread once, is never thrown away once it is, and is answered only after that thread
\* prepared the answer.
THEOREM Refinement == Spec => ImplementsConnLife
<1>1. Init => ComputeInv
  <2> SUFFICES ASSUME Init, NEW c \in Conns PROVE state[c] # "compute" /\ ~Computes(c)
    BY DEF ComputeInv
  <2>1. \A t \in Threads : tasks[t] = <<>> /\ tpc[t] = "check"
    BY DEF Init
  <2>2. \A t \in Threads : ~Queued(c, t)
    BY <2>1 DEF Queued
  <2>3. QED
    BY <2>1, <2>2 DEF Init, Evts, Computes
<1>2. Init => Client!Init
  <2> SUFFICES ASSUME Init, NEW c \in Conns PROVE life[c] = "unborn"
    BY DEF Client!Init, ClientPhase
  <2>1. QED
    BY ConstAssumption DEF Init, Evts
<1>3. Inv /\ ComputeInv /\ [Next]_vars => ComputeInv'
  BY ComputeStep
<1>4. Inv => TypeOK
  BY DEF Inv
<1>5. Inv => ClientPhase = [c \in Conns |-> Phase(life[c], state[c], reply[c])]
  BY <1>4, PhaseIs
<1>6. Inv' => ClientPhase' = [c \in Conns |-> Phase(life'[c], state'[c], reply'[c])]
  <2>1. Inv' => (ClientPhase = [c \in Conns |-> Phase(life[c], state[c], reply[c])])'
    BY <1>5, PTL
  <2>2. QED
    BY <2>1 DEF Phase
<1>7. Inv /\ Inv' /\ ComputeInv /\ [Next]_vars => [Client!Next]_ClientPhase
  BY <1>5, <1>6, PhaseStep
<1>8. QED
  BY <1>1, <1>2, <1>3, <1>7, Invariance, PTL DEF Spec, ImplementsConnLife, Client!Spec
=============================================================================
