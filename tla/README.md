# Verification of miniGoogle

TLA+ models of the programs under `src/`, the runs of the model checker TLC on
small instances, and theorems whose proofs the proof system TLAPS checks.

    tlc -config Replication.cfg MCReplication.tla        # one run
    tlapm EventLoopProofs.tla                            # the proofs of a module

`PROJECT.json` lists the components, the runs, the mutants (a change of a
definition that each property is able to notice), the source lines of every
definition, the findings, the hazards and the theorems.

## 1. The system

Three programs share one server library.

| part | source | state | operations |
|---|---|---|---|
| event loop server | `svr_base`, `svr_thrd`, `io_event`, `accept_event` | `m_evts`, `m_evts_appd`, a reference count per event, a task queue per computing thread | accept, read, dispatch, process, write, sweep, stop, join, destroy |
| HTTP connection | `http_event` | `m_state` (read_head, read_body, compute, write), head, body, response | on_read_head, on_read_body, on_cmplt_pkg, on_process, on_write |
| index tables | `lookup_table`, `invert_table` | file to worker (100 groups), word to files and frequencies (1000 groups), a read-write lock per group | set/get_file_info, update, search, lock_group |
| master | `mini_google_master_svr`, `main_master` | the two tables, `m_queue` of index tasks, `m_svr_list` of registered slave masters with the time of their last registration | put, poll, report, query, search, retrieve, backup, register, unregister, query_slave, check_timeout |
| slave master | the same program, started with a master's address | the same, filled from the master | register, backup_lookup_table, backup_invert_table, then as the master |
| worker | `main_slave`, `task_consumer`, `file_mngr`, `mini_google_slave_svr` | consumer threads, the files under its data directory with 256 locks | poll, count words, save, report; retrieve |
| uishell | `main_uishell`, `uishell` | `g_task_list`, the cached list of servers | index, query, retrieve, abstract |
| HTTP client | `rpc_http`, `rpc_net` | none | connect, send and receive, each with a timeout of 500 ms |
| report encoding | `basic_proto` | a buffer that doubles, how much of it is written or read | add and read a number, bytes, a string |

How they interact. A uishell in index mode puts files on the master's queue from
several threads. Consumers of the workers poll the queue, save the file at their
worker, count its words and report both to the master. The master's handler updates
the lookup table, then the invert table word by word, then forwards the report to
every registered slave. A slave that starts registers, copies the two tables group
by group, and only then serves. A retrieve asks a master, which asks the worker its
lookup table names. Every call is one HTTP exchange over a connection of its own:
nothing is retried except the fetch of a group, and nothing is persistent except the
files of the workers.

Where it is hard. Events are raw pointers passed between the loop thread and the
computing threads, kept alive by counting alone. Tables are locked per group, so a
report, a copy and a query interleave word by word. A poll removes the task from the
only queue before the answer is on its way. Registrations expire by time. A slave's
copy and the reports forwarded to it run at once and in any order. The list of
hazards, each with its line, is in `PROJECT.json`.

What makes each part correct. *Event loop*: the count is the number of holders, what
a computing thread works on the loop cannot reach, each request is taken on once and
answered once, connections and the server end. *Replication*: no entry of the master
escapes a slave, a slave is never ahead, a hit has a location, a slave settles with
the master's entries. *Indexing*: an accepted file is in somebody's hands until it is
in the index, a retrieve finds the whole file where the table says. *Query*: exactly
the files with all words, and of a search the best. *Failover*: a command fails only
if every cached server failed, and the list of servers heals after a crash. *Framing and
encoding*: a request or an answer arrives to the byte or not at all, and a report is read
as it was packed.

## 2. The modules

### EventLoop, ConnLife

`EventLoop` is the server library. One action per step another thread can see.

| model | code |
|---|---|
| `evts`, `appd`, `tasks` | `m_evts`, `m_evts_appd` (how often an event is in them), `m_tasks` |
| `ref`, `life`, `Release` | `m_ref`; live until `delete this` |
| `Merge` .. `EndSweep` | `svr_base::run_routine` from top to bottom; `pc` is the line |
| `Accept`, `AcceptError` | `accept_event::on_event`, with its early returns |
| `ReadPartial`, `ReadComplete`, `WritePartial`, `WriteComplete`, `IoError` | the outcomes of `http_event::on_event` |
| `Check` .. `ThreadRelease` | `svr_thrd::run_routine`; `on_process` is `Process`, then `add_io_event` in two steps (the count, then the list) |
| `Signal`, `LeaveLoop`, `StopThread`, `Join`, `DestroyEvt` | the end of `main`, `stop`, `join`, `~svr_base` |
| `Expire` | the deadline `create_event` sets passes; `on_process` of both programs does not renew it |

Abstracted: the bytes, the clock, the order inside the lists that are walked as a
whole. `ConnLife` is what one client sees (idle, reading, working, answering, then
answered or dropped); `EventLoop` implements it under the mapping `ClientPhase`.
An event is added to the loop's list with `m_lock` held and counted before; the
loop's own `add_io_event` is one action because no other thread reads what it
writes in between.

### Replication, Backups

`Replication` has one master, slaves that start, copy, serve, crash and leave, and
reports. Its actions are the critical sections: `SetFileInfo`, `UpdateWord` and
`GetSlavesList` are the steps of `process_report` on the master and on a slave
alike, `Forward` the exchange with one slave, `FetchGroup` and `StoreGroup` one turn
of the copying loops, `Register`, `Heartbeat`, `Unregister`, `CheckTimeout` the list.
A report forwarded to a slave that has bound its socket but does not serve yet waits
in its listen backlog (`hpc[s][r] = "queued"`) until it serves.

The constant `Faults` says what the environment may do: lose messages, take 20 seconds
or more for a copy, send a slave that copies more reports than its listen backlog of 32
holds, fail a first registration, break off a reply inside its body. Crashes and restarts of
slaves are always possible. Without any fault, the model makes these assumptions, each of
which a fault lifts: exchanges with a process that is up succeed, a copy takes less than 20
seconds, no more than 32 reports come during it, heartbeats arrive. The 20 seconds are those
of the code: a registration expires at 30, and `main` renews it for the first time 10 seconds
after the copy (`prev_msec` is set behind it). So `renewed` has the slaves whose main loop has
renewed the registration at least once, and with the fault `late` one that is not in it may be
dropped (`MayExpire`), whether it still copies or serves already.

A posting is a pair of word and file: the frequency is a function of the content,
and the id of a file is the md5 of its content.

Two history variables, written by every step (`Remember`), let properties hold under every
fault at once. `harmed` has the slaves that met a fault since they started: the master
dropped a running one from its list, or the slave copies without being in it, a group it fetched
was broken off, a report on its way to it got lost. `raced` has the files two reports of which
were under way at once. A slave's crash excuses nothing: its next process copies everything again.

`Backups` is the promise to who asks a slave: it has a part of what the master has, and
what it has only grows until its process ends. `Replication` implements it (`HeldCopies`).

### Indexing, DocStore

`Indexing` follows a file from the uishell's list through the queue, a consumer, the
worker's disk, the report and the tables, and back through a retrieve. `consume()` is
`Poll`, `OpenFile`, `WriteFile` (or `SaveFails`, or `WriteFails`), `Report`; the two steps of a save
are separate because opening truncates the file, and the read-write lock is the guard
`Locked`: `file_mngr` has 256 locks and takes the one the first two digits of the id name, so
`LockOf` gives every file a lock and two files may share it. `Faults` again: lost messages, a
signal to a worker, the crash of a worker, a file that cannot be opened (`save_fails`), and a write
that fails (`write_fails`): `save` does not look at the stream behind `open`, so it leaves a part of the
file, returns 0, and the file is reported. `happened` records which of those took effect behind the queue,
so that a property can name exactly the fault it does not survive. `DocStore` is the
promise: an accepted file becomes available and stays so; `Indexing` implements it.

### Query, Text

`Text` has the text functions of `mini_google_common.cpp` over tokens: a page is a
sequence of runs of letters and digits, `<`, `>`, whitespace and other characters, a
request the sequence of its pieces between `%20`. `HtmlToWords` and `HtmlToSentences`
go through a page as the loops do, with their count of open tags and `skip_tag`.

`Query` is one server whose index grows while it answers. `SetFileInfo` and `UpdateWord`
are the steps of `process_report`; a request is `Ask`, one `SearchWord` for each word
(the lock of its group is held for that long and no longer), then `RankQuery`,
`AnswerTerms` (merge=0) or `RankSearch` with one `FetchFile` for each file. Files are
their contents, since a file's id is the md5 of it. `Sorted` is every order `std::sort`
may leave. `FetchFile` takes whatever `retrieve_file` leaves behind, a part of the file
or the text of a refusal included, because `process_search` does not look at its result,
and it writes behind the end of `res_file` as the code does: the process dies of it or
goes on. One request at a time is enough because requests only read.

### Failover

`Failover` has one uishell, one master that may crash and come back without its tables,
and slaves that start, copy, serve, stop and crash.

| model | code |
|---|---|
| `cache`, `due` | `m_slaves_list`; 20 seconds have passed since `m_last_cache_msec` |
| `Command`, `Refresh`, `RefreshFails` | `cache_slave_address`, which sets the time before it fetches |
| `Pick`, `Try`, `TryAnswered`, `TryFails`, `Show` | the loop of `uishell::query` and `uishell::retrieve` |
| `Connect` .. `TimeOut` | `connect_ex`, `http_send` and `http_recv` of one `http_talk` |
| `Serve`, `WorkerSilent` | the handler of the server that is asked; the second is `process_retrieve` without an answer of the worker |
| `Report`, `Listening` | `process_report` on the master, and the slaves it forwards to |
| `StartSlave` .. `StopSlave`, `CheckTimeout` | `main` of a slave; `do_register`, `do_unregister`, `check_timeout` |

A server can go away, and another process come up at its address, between any two calls of
an exchange; what it has sent before arrives. Its index is reduced to one file, a report to one
step (`Replication` has both in detail).

The fault `slow` lets any exchange between processes that are up take longer than its wait: one
of the uishell, a registration, the fetch of a group (the slave then exits), the forwarding of a
report to any of the slaves, and the renewals, so that the master may drop a slave that runs. The
fault `worker` lets a retrieve get nothing from the worker that has the file: `process_retrieve`
answers "inner error" with the 404 it also gives for a file it does not know, and
the uishell takes both for -2 and ends its walk. `owed`, `harmed`, `excused`, `lost` and `known` are
history: which servers a walk may count on, which slaves were out of the list or missed a forwarded
report since they started, whether the answer of this command came from one of those or for want of
the worker's, whether the master lost its index, whether the file that is retrieved was indexed
when the user asked.

### Wire, Http, Proto

`Wire` is one call between two programs: `http_talk` on one side, `http_event` on the other,
and the bytes under way in both directions.

| model | code |
|---|---|
| `Calls` | the requests the programs make: report, put, the bodiless ones, and a group of a backup, tried twice with the same strings |
| `Connect`, `Send`, `ReceiveHead`, `ReceiveBody` | the turns of `connect_ex`, `send_ex`, `http_recv`, `recv_ex` |
| `TryFails` | every error return of `http_talk`, and the loop around it |
| `ReadHead`, `ReadBody`, `Process`, `Write`, `Drop` | `on_read_head` with `parse_http_head`, `on_read_body`, `on_process`, `on_write`, their error returns and the sweep |
| `rspHead`, `rspBody`, `head`, `body`, `contentLen`, `response` | the strings and the length of both sides |

Every read and write takes any number of bytes up to the size of its buffer. `Http` has the
heads as the programs write them and as the two parsers read them; a text is a sequence of
cells, where a word the parsers look for (the name of the length, the host, the version) is
one cell, since a word that has arrived in part is found no more than one that has not.
Line ends are kept byte by byte, because reads cut the empty line that ends a head, and the
bytes of a body are kept as numbers.

`Proto` is `basic_proto`: the buffer that doubles until a field fits, numbers of four bytes,
strings with their length, and the report `pack_report` writes with them and
`process_report` reads back. A byte written behind the buffer is not in it: reading it gives
`Stray`. `fresh`, `answer` and `unpacked` of `Wire` are history.

## 3. The runs

| run | question | instance | result |
|---|---|---|---|
| EventLoopSafety | references, exclusion, states, leaks, refinement of ConnLife | 2 connections, 2 threads, 1 partial transfer each, symmetry | 277 145 states, holds |
| EventLoopLive | connections end, shutdown ends | 1 connection, 2 threads | 20 182 states, holds |
| Replication | BackupComplete and its companions | 2 files sharing a word, 2+1 groups, 2 reports, 2 slaves, no faults, symmetry | 1 290 116 states, holds |
| ReplicationFaults | what survives every fault: entries, locations, convergence of a slave no fault met, refinement of Backups | 1 file of three words, two of them in one group, 2 reports of it from different workers, 1 slave, every fault and crashes | 152 396 states, holds |
| ReplicationLate | a settled slave has the master's entries | 1 slave, copies of 20 seconds or more | violated: finding 1 |
| ReplicationBroken | the same | 1 slave, broken replies | violated: finding 2 |
| Indexing | NothingLost, NeverTorn, RetrieveFinds | 2 files with a lock each, 3 puts, 2 workers with 2 and 1 consumers, 1 uishell thread, 1 reader, every fault, symmetry | 1 299 693 states, holds |
| IndexingLive | refinement of DocStore, with its liveness | the same with one lock for both files, no faults | 16 456 states, holds |
| Query | answers against a reference read off the pages | 3 pages, 7 requests, Limit 2 | 139 275 states, holds |
| Failover | the walk over cached servers, the list of slaves | master and 1 slave, slow exchanges of every kind, silent workers, crashes and restarts of both | 52 755 states, holds |
| Wire | requests and answers whole, no mutual wait, reports read as packed | 8 calls: 3 reports, 2 puts, 2 requests without a body, a group; 3 answers; buffers of 4 and 8 bytes | 200 773 states, holds |
| IndexingSaveFails | the worker a retrieve is sent to has the file | the same, failing saves | violated: finding 3 |

Bounds. Two connections and two threads give every pairwise interleaving of an event
with another in the same list, queue or thread; partial transfers are bounded by
`MaxPartial` because repeating one changes nothing but the count. Two files that share
a word, a lookup group for each of them and two reports give a copy between any two updates of
either report, and a posting list that two reports write; invert groups on either side of the
copy are in `ReplicationFaults`, whose file has words in two of them. Slaves do not talk to each other, so two suffice. Three puts of
two files make one file be put twice, also while its first copy is being saved, which
is when the lock matters; three consumers on two workers put it on the same or on
different workers. The three pages have the words two and one, one and one, and none and
two times, which gives full and partial matches, a tie, and a difference between the order
by number and the order by frequency; with three pages a limit of 2 cuts one. They hold
words inside a tag, after a style tag, after its end and at the end of the page, where
none counts. A master and one slave make a walk of two servers, in either order, whose first or second is
lost, restarted or dropped from the list in the middle; each server of a longer walk is asked
the same way. Two reports of one file, from different workers, are what locations can
disagree about; three words in two groups let a copy pass between two words of one group.
The buffers of `Wire` are smaller than a head, so that a read ends at every place of the
texts; the bodies are empty, shorter than one buffer, longer than one, and one holds an
empty line and the name of a length. The reports have a field that ends where the buffer
ends, one that makes it double twice, and numbers of one and two bytes; the answers give a
second try a body that is shorter, as long, and longer than that of the first. Deadlock is not checked: servers stop and bounded inputs run out.

### Fairness

*EventLoop*: the loop thread and each computing thread go on (weak fairness of `Loop`
and `Thread(t)`: operating-system threads that do not block for ever, since select and
the condition wait have timeouts); select does not fail every single time and a second
passes again and again (strong fairness of `Select` and `StartSweep`, both enabled
again in every round); a deadline passes (weak fairness of `Expire`). *Replication*:
handlers and a slave's start-up go on (each is a thread that never waits for longer than
its timeouts); nobody has to report, start, crash, leave or send a heartbeat, and the
faults may go on for ever. `Wire` needs none: that both ends never wait for each other is
an invariant. *Indexing*: consumers and the master's handlers go on; nobody has to
put, read or stop. *Failover*: the uishell goes on with a command (each of its waits ends),
a server that has a request answers it (or, in a retrieve, its worker stays silent), and of the heartbeats
a slave that serves sends every 10 seconds one gets through again and again, also when others are too
slow: `SlavesComeBack` says that such a slave is in the list again and again, not for good, since
renewals that are too slow let it expire. Nobody has to start, stop, report or ask.

### Findings

1. `ReplicationLate`. The heartbeats of a slave start with its main loop, the first 10 seconds
   after a copy of 1102 exchanges. A copy of 20 seconds or more lets the registration reach 30
   before it is renewed: the master drops the slave, handles a report without forwarding it,
   and the heartbeat restores the registration but not the entry. The slave may be serving
   when that happens.
2. `ReplicationBroken`. The second try for a group appends to the head of the first,
   and the body is cut at the first Content-Length; if the group grew between the tries
   the slave stores a part of it and goes on.
3. `IndexingSaveFails`. The result of `save` is ignored and the file reported.

Met while reading, without a run: the project report (2.2, 4.2) lets a slave register
after its copy, the code registers before it, and `BackupComplete` is the reason to;
two workers that report one file at once can leave master and slave with different
locations for it (`LocationsAgree` holds for every other file). A retrieve is told "not existed" as well when the worker of the
file does not answer, and asks no other server then (`WorkerSilent`, an exception of
`AbsentOnlyByFault`). A full disk leaves half of a file that `save` calls saved (`WriteFails`, an exception of
`NeverTorn`). The server looks for
`content-length` in the whole head, the request line included: of a query for that word it
takes the first number after the next colon, which is the host's address, for the length of
a body, and waits for it until the deadline while the client waits for the answer
(`Misread`, the exception of `NeverBothWait`). A second try for a group may succeed with a
body that is cut, never with one that mixes both (`ReplyBegins`). `split_string` makes an empty word of two separators in a row, so a query
with two blanks finds nothing. The inner loop of `process_search` hides the index of
the outer one: sentences of different files are mixed and a search that finds fewer files
than one of them has sentences writes behind its vector. `html_to_words` takes any "style" or "script"
inside a tag, also in an attribute or a closing tag, for the start of text to skip:
words right after `</script>` are not indexed, while `html_to_sentences` shows them; one `>`
too many ends the text of a page for both. The uishell whose first fetch of
the servers fails has none for 20 seconds, because the time of the cache is set before it.

## 4. The proofs

Every theorem holds for all values of the constants that satisfy the module's `ASSUME`, which
TLC evaluates in the runs. The inductive invariants were checked by TLC on the runs' instances
before they were proved. Each module of proofs is checked on its own:

    tlapm QueryProofs.tla

| module | theorem | states | assumption |
|---|---|---|---|
| EventLoopProofs | `TypeCorrect` | `Spec => []TypeOK` | `ConstAssumption` of EventLoop |
| | `RefsExact` | `Spec => []RefsAreHolders` | |
| | `NoFree` | `Spec => []NoUseAfterFree` | |
| | `Exclusive` | `Spec => []ExclusiveProcessing` | |
| | `MonitoredReady` | `Spec => []MonitoredMatchesState` | |
| | `LeaksOnlyQueued` | `Spec => []LeakedOnlyFromQueues` | |
| | `Refinement` | `Spec => ImplementsConnLife` | |
| ReplicationProofs | `TypeCorrect` | `Spec => []TypeOK` | `ConstAssumption` of Replication; any faults |
| | `NeverAhead` | `Spec => []BackupNeverAhead` | any faults |
| | `Refinement` | `Spec => ImplementsBackups` | any faults |
| | `SettledUnharmedHasEntries` | `Spec => []SettledUnharmed` | any faults |
| | `Complete` | `Spec => []BackupComplete` | `Faults = {}` |
| | `CompleteUnharmed` | no entry escapes a following slave that is not `harmed` | any faults |
| | `SettledHasEntries` | `Spec => []SettledSlaveHasEntries` | `Faults = {}` |
| | `HitsHaveLocations` | `Spec => []HitHasLocation` | `Faults = {}` |
| | `SettledLocationsAgree` | `Spec => []LocationsAgree` | any faults |
| IndexingProofs | `TypeCorrect` | `Spec => []TypeOK` | `ConstAssumption` of Indexing; any faults |
| | `NothingForgotten` | `Spec => []NothingLost` | any faults |
| | `LoadedWhole` | `Spec => []NeverTorn` | any faults |
| | `FileFound` | `Spec => []RetrieveFinds` | any faults |
| | `StoreSafety` | every step is one of DocStore's or a stutter | no crash of a worker, no failing save or write; messages may be lost |
| FailoverProofs | `TypeCorrect` | `Spec => []TypeOK` | `ConstAssumption` of Failover; any faults |
| | `FailsWithAll` | `Spec => []FailsOnlyIfAllFail` | |
| | `AbsentMeansFault` | `Spec => []AbsentOnlyByFault` | |
| QueryProofs | `DictCounts` | the counted words of a page are those of the reference | `TokenAssumption` of Text |
| | `TypeCorrect` | `Spec => []TypeOK` | and `QueryAssumption` |
| | `AnswersHaveAllWords` | `Spec => []HitsHaveAllWords` | |
| | `KnownFilesFound` | `Spec => []NoKnownFileMissed` | |
| | `SearchesBest` | `Spec => []SearchBest` | |
| CodecProofs | `PostHeadRead`, `GetHeadRead`, `ReplyHeadRead` | a head is read as it was written, for every uri, code and length | `KindAssumption` of Http |
| | `UnpackedAsPacked` | `UnpackReport(PackReport(r))` is `r`, for every report | `InitBufAssumption` of Proto |
| WireProofs | `TypeCorrect` | `Spec => []TypeOK` | the two above, `ConstAssumption` of Wire |
| | `RequestsWhole` | `Spec => []RequestWhole` | |
| | `RepliesWhole` | `Spec => []ReplyWhole` | |
| | `RepliesBegin` | `Spec => []ReplyBegins` | |
| | `NeverWaiting` | `Spec => []NeverBothWait` | |
| | `ReportsWhole` | `Spec => []ReportWhole` | |

The assumptions say no more than what the code has: the special values (no event, no worker,
no file, the listener, the master) are none of the others, groups and locks are numbered, every
file has one of each, the sets of files, pages and slaves are finite, the tokens of a page are
different from each other, a request has a word. For `Wire`: the number of a report fits an
int and so do the lengths of its strings, a uri has no space and no end of a line in it, the code
and the type of an answer are words and not the name of the length, the uri of a group is not
taken for one either, and no buffer is empty.

**Event loop.** One invariant `Inv` carries all six (`Invariance`). That the count is the
number of holders (`CountInv`) is inductive only if every step knows which place it takes a
reference from: `PlaceInv` says that an event is in at most one place, one of the loop's two
lists or with the thread that queues it or works on it; `TaskInv` that it is in one queue,
once, or in one thread's hands, and that it left the read states before it got there. Nothing that is held is freed, because a
held event has a positive count and a positive count means live (`RefLive`). Exclusion is
`PlaceInv` read from the thread's side: what it works on counts 1 there, so 0 in the lists.
`FieldInv` says in which states an event can be at each of its places, which is what
`MonitoredMatchesState` needs across a dispatch and a return; `ShutInv` says what the
queues and lists can still hold in each phase of the shutdown, and gives the leak theorem.
The refinement of `ConnLife` needs `ComputeInv` besides: a connection is in state compute
exactly as long as its request is in a queue or in `on_process`, and has no answer then. So
nothing leaves compute but through `Process`, and a step that ends an event ends none that is
being worked on.

**Replication.** `BackupNeverAhead` is not inductive: a report on its way to a slave
carries entries the master must already have. `AheadInv` adds `MasterApplied` (a
handler of the master that is past a point has put into the tables what precedes that
point) and `ForwardedApplied` (a slave only has reports whose master handler is past
its loop over the words); the order "tables first, then the list, then the forwarding"
is what makes them hold. `Refinement` rests on the same invariant (`AheadAlways`): a step that
adds to a slave (`FollowStep`) adds entries of a report the master has applied, or of a group
`BackupNeverAhead` speaks of; one that adds to the master is `LearnStep`, the end of a process
`ForgetStep`, and every other leaves all tables alone.

That nothing escapes a slave is proved slave by slave, for those no fault met (`harmed`), so
that one argument serves both runs: `CoveredInv` says that every entry of the master is in
the slave's tables, in a group it has still to fetch, in the reply it holds, or in a report on its
way. `FollowInv` (such a slave is in the master's list, and holds group data only between a
fetch and its store) and `WordsInv` make it inductive; the step that matters is the one with
which the master learns an entry, whose report is not yet past its loop over the list. At a slave
that serves (`ServingInv`) with nothing in flight only the tables are left, which with
`BackupNeverAhead` is `SettledUnharmed`. Without faults nobody is harmed (`NobodyHarmed`), which
gives the three theorems with `Faults = {}`, where a copy is under 20 seconds and no backlog is full; what is left of `Complete` when
that does not hold is `CompleteUnharmed`. `HitHasLocation` also rests on `MasterHits`, the
lookup table is updated first.

`LocationsAgree` is about values that are overwritten. Of a file that was never reported twice
at once, the master names the worker of the only report under way (`RaceInv`, `NamedInv`). So
a slave may take up any report it still holds, and `CurrentInv` has only to show that it is
taken up after the copy is stored: its entry is the master's, or its group is still to be fetched, or
a report that brings it is coming.

**Indexing.** `NothingLost` needs that a step which takes a file out of one place puts it into
the next (`NothingForgotten` has one step per place). `NeverTorn` is not inductive: a torn file
on a disk has to have a writer. `TornWhileWriting` says that it has, unless a worker crashed or a write failed, and
the lock of the file is then taken, so no reader gets in. For `RetrieveFinds`, `SavedHere`
follows a location from the consumer through the report to the table and to the reader: at each
of them the worker named has the file. `StoreSafety` joins these: without crashes and failing
saves or writes what is in the index is what is available, and what gets there was accepted
(`ProvenanceInv`).

**Failover.** The type invariant has the list of slaves and the cache without repetitions
(`RemoveAt` and `Append` keep them so) and, in `ExchangeInv`, how far the exchange is in
every state of the command. `FailsOnlyIfAllFail` rests on `WalkInv`: whoever the walk has asked
is not owed an answer any more, nor is the one that is being asked once its exchange failed. That a
walk of as many tries as there are servers asks each of them is arithmetic of
`(i + ind) % Len(cache)` (`EveryPlace`). `AbsentOnlyByFault` rests on
`CoveredInv`, the one-file version of the replication argument for the slaves that are not `harmed`: such a
slave is in the master's list, and once it has copied it has the file if the master has. `KnownInv` carries
that from the command to the answer, which is the master's or the slave's that was asked.

**Query.** `DictCounts` is an induction over the page: after `n` characters (`ParseInv`) the
number of open tags is the difference of the counts of `<` and `>`, `skip_tag` is set exactly
if a style or script was met in a tag and no tag opened since, and the list has each word as often
as the characters so far have it where it counts. The reference looks at the whole page and
nowhere at the state of a loop. The invariant of the answers, `QueryInv`, says that a word of a file that is not
waiting for its update is indexed as the page deserves (`IndexedInv`), that a list which was
taken is right about each file in it and complete about the files known when the request came
(`ListsInv`, `KnownInv`), and that the answer is cut out of an order of these lists' files
(`RankInv`). What the lists are joined to (`Stat`) and what `Sorted` may leave of it are lemmas
about finite sets and injective sequences.

**Heads and reports.** `CodecProofs` is about every input of the two encodings. A head has
one end, at its end (`IsHead`): in its lines no carriage return stands two cells behind another
(`Lines`), which only the empty line brings about. `Atoi` gives back what
`Digits` wrote (`AtoiDigits`, by recursion on the number), the name of the length is met in its own
line first unless the uri has one, and a text that was cut anywhere behind the end of its head is cut
by the parser there (`CutAtEnd`), whatever is in the body. For a report, a buffer always holds what was added
(`EnlargedHolds`, `AddBinaryAppends`), so what is packed is the fields one behind the other, and
each read finds its field at the place where the one before ended.

**Wire.** `RequestWhole` and the others look at the ends of a call; inductive is where each byte
is meanwhile. `RequestInv`: what the server has of the request, what is under way and what is
still to come are the request, and as long as the head has no end nothing was cut from it.
`ReplyInv`: behind what a broken try left in `rsp_head`, the client's head, what is
under way and what the server has still to write are the answer; once the head is cut off, the same holds
for the body, and on a first try the length that is missing is the length that is to come. `AnswerInv`
and `TurnInv` say whose turn it is. Every step moves cells from the front of one text to the end of the
text before it (`Moved`, `MovedFrom`), which leaves the whole as it is; the two that find the
end of a head rest on `CutAtEnd`. `NeverBothWait` follows, because with nothing
under way the head has arrived, and a head that has arrived has an end. In the invariant the text a
broken try left is any text; TLC, which cannot enumerate those, checked it on the run's instance with that
text taken from the beginnings of `rsp_head`.

**Recursion.** The installed provers cannot use the library's induction theorems, which take
a property as an operator. `Recursion` has them for properties that are sets: `LeastNumber` comes
from `WFMin` for the strict subsets of a finite set, `UpTo` is the induction from 0 to a bound, and
`RecursionExists` with `RecursionType` say that `f[n] == Step(f[n - 1], n)` has a solution of the
type its steps keep, which is what a LET-recursive function needs before anything can be said of
its values.

Every invariant and action property that a passing run checks is a theorem, and so are the
refinements of ConnLife and Backups and the safety part of that of DocStore. Model-checked only are the
liveness properties (`ConnectionsEnd`, `ShutdownEnds`, `UnharmedConverge`, `CommandEnds`,
`SlavesComeBack` and that of DocStore): fairness and ENABLED are outside the prover.

## 5. Not modelled

The XML library is third-party code and a message the record it carries. The arithmetic of
timeouts is left out: `MAX(0, int - unsigned)` (`rpc_http.cpp:112`) never yields 0, but a wait
still ends as a failure, so nothing but the waiting time depends on it. So is the overflow of
`i + ind` in the walk, which needs a `random()` next to 2^31 and moves the walk only with seven
servers or more. A server started with no computing thread divides by zero when it dispatches
(`svr_base.cpp:137`), and one with more connections than `FD_SETSIZE` writes outside its
descriptor sets (`svr_base.cpp:167`): the models have a thread at least and no descriptor
numbers. `basic_proto` also encodes floats, arrays and matrices, `rpc_http.cpp` has an
`http_talk` for a list of addresses, `task_consumer.cpp` a second word count and
`rpc_common.cpp` a client of a directory service; no program calls them. Option parsing, md5,
logging and the scripts stay outside. The programs do not ignore SIGPIPE: a second `send` to a peer that
has closed may end the whole process, where `IoError`, `Broken` and `Drop` end the connection only; such an end
is one of the crashes of the models that have them. `m_content_len` is a signed `int` that a foreign head
could make negative or overflow; the heads the programs write name no such length, and the one request
whose length is read from elsewhere is excepted (`Misread`). The master of `Indexing` never ends: what its
end loses, the queue and both tables, is in `Failover` as `lost`, and no property of
`Indexing` speaks of it. `rpc_lock.h` wraps pthread locks: a critical section is
one action. The flag `m_running` of a thread is a plain bool written by one thread and read by
another; the model reads the old or the new value at any moment, and a build that never reads
the new one is left out.

## 6. Plan

1. *(done)* EventLoop with ConnLife; Replication; Indexing with DocStore; Query with Text;
   Failover; the proofs of EventLoopProofs and ReplicationProofs.
2. *(done)* Every fault of Replication in one run, with what survives it, and Backups; the table of
   locks in Indexing; Wire with Http and Proto: framing, retries and encoding byte by byte.
3. *(done)* Proofs of every invariant and refinement of Replication, EventLoop, Indexing, Failover and
   Query that TLC checks, except liveness.
4. *(done)* The invariants of Wire: a head is read as it was written, the bytes under way and those
   that arrived are what was sent, a report is unpacked as it was packed.
5. The steps under the liveness properties that the prover can reach: which steps a queued request,
   a report or a command still needs, and that each step takes one away or leaves them alone.
