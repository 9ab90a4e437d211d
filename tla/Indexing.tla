------------------------------ MODULE Indexing ------------------------------
(***************************************************************************)
(* The way of a file from the uishell to the index and back: main_uishell, *)
(* the task queue of the master (put, poll), the consumer threads of the   *)
(* workers (task_consumer.cpp), the files they store (file_mngr.cpp), the  *)
(* reports, and a retrieve (process_retrieve on the master and on the      *)
(* worker).                                                                *)
(*                                                                         *)
(* Kept: the queue and its order, every step of consume() that another     *)
(* thread can see, the read-write lock of a file, the two steps of a save  *)
(* (opening truncates the file), the two tables a report updates, every    *)
(* exchange whose request or answer can get lost, workers that stop, crash *)
(* and start again.  Abstracted: the content of a file is its id, the word *)
(* list of a report is one step (Replication has it word by word).         *)
(***************************************************************************)
EXTENDS Naturals, Sequences, SequencesExt

CONSTANTS Files, Putters, Workers, Consumers, Readers,
          HomeOf,      \* the worker a consumer thread belongs to
          LockOf,      \* file_mngr::get_lock_index: files share 256 locks
          NoFile, NoWorker,
          MaxSent,     \* bound: files given to the index command in all
          Faults       \* what the environment of this instance may do

(* "loss": the request of a put or a report, or the answer of a poll, does not *)
(* arrive; "stop": a worker gets a signal; "crash": it dies; "save_fails": a   *)
(* file cannot be opened for writing; "write_fails": it can be, but not all of *)
(* the content goes into it                                                    *)
AllFaults == {"loss", "stop", "crash", "save_fails", "write_fails"}

ASSUME ConstAssumption ==
    /\ IsFiniteSet(Files)
    /\ NoFile \notin Files /\ NoWorker \notin Workers
    /\ HomeOf \in [Consumers -> Workers]
    /\ LockOf \in [Files -> 0..255]
    /\ MaxSent \in Nat
    /\ Faults \subseteq AllFaults

VARIABLES pending,    \* g_task_list: files the uishell has still to send
          sent,       \* files given to the index command so far
          putting,    \* the file each uishell thread is sending
          queue,      \* mini_google_svr::m_queue
          cpc, cfile, \* where each consumer is in consume(), and its file
          wstate,     \* each worker process
          disk,       \* the file under its path at each worker
          inbox,      \* reports that reached the master, before set_file_info
          updating,   \* reports whose words the handler has still to add
          lookup,     \* m_lookup_table
          indexed,    \* files whose words are in m_invert_table
          reader,     \* the retrieve request each reader has at the master
          accepted,   \* history: files the master accepted for indexing
          happened    \* history: the faults that took effect behind the queue

clientVars   == <<pending, sent, putting>>
consumerVars == <<cpc, cfile, wstate, disk>>
tableVars    == <<inbox, updating, lookup, indexed>>
history      == <<accepted, happened>>
vars == <<clientVars, queue, consumerVars, tableVars, reader, history>>

Reports == Files \X Workers
NoRequest == [file |-> NoFile, worker |-> NoWorker, got |-> "nothing"]

TypeOK ==
    /\ pending \in SUBSET Files
    /\ sent \in 0..MaxSent
    /\ putting \in [Putters -> Files \cup {NoFile}]
    /\ queue \in Seq(Files)
    /\ cpc \in [Consumers -> {"idle", "polled", "writing", "saved"}]
    /\ cfile \in [Consumers -> Files \cup {NoFile}]
    /\ wstate \in [Workers -> {"up", "stopping", "down"}]
    /\ disk \in [Workers -> [Files -> {"none", "torn", "whole"}]]
    /\ inbox \in SUBSET Reports /\ updating \in SUBSET Reports
    /\ lookup \in [Files -> Workers \cup {NoWorker}]
    /\ indexed \in SUBSET Files
    /\ reader \in [Readers -> [file : Files \cup {NoFile},
                               worker : Workers \cup {NoWorker},
                               got : {"nothing", "none", "torn", "whole"}]]
    /\ accepted \in SUBSET Files /\ happened \in SUBSET Faults

Init ==
    /\ pending = {} /\ sent = 0
    /\ putting = [p \in Putters |-> NoFile]
    /\ queue = <<>>
    /\ cpc = [c \in Consumers |-> "idle"]
    /\ cfile = [c \in Consumers |-> NoFile]
    /\ wstate = [k \in Workers |-> "up"]
    /\ disk = [k \in Workers |-> [f \in Files |-> "none"]]
    /\ inbox = {} /\ updating = {}
    /\ lookup = [f \in Files |-> NoWorker]
    /\ indexed = {}
    /\ reader = [q \in Readers |-> NoRequest]
    /\ accepted = {} /\ happened = {}

\* A fault occurs that a property may have to excuse.
Fault(kind) == kind \in Faults /\ happened' = happened \cup {kind}

----------------------------------------------------------------------------
(* The uishell in index mode, and put.                                     *)

\* proc_index: the file, or every file of the directory, goes to g_task_list.
IndexCommand ==
    /\ pending = {} /\ \A p \in Putters : putting[p] = NoFile
    /\ \E files \in SUBSET Files \ {{}} :
          /\ sent + Cardinality(files) <= MaxSent
          /\ pending' = files
          /\ sent' = sent + Cardinality(files)
    /\ UNCHANGED <<putting, queue, consumerVars, tableVars, reader, history>>

\* index_routine takes the next path, under g_task_lock, and reads the file.
TakePath(p) ==
    /\ putting[p] = NoFile
    /\ \E f \in pending :
          /\ pending' = pending \ {f}
          /\ putting' = [putting EXCEPT ![p] = f]
    /\ UNCHANGED <<sent, queue, consumerVars, tableVars, reader, history>>

\* mini_google_svr::put, under m_queue_lock: any number of tasks is taken.
Enqueue(f) == queue' = Append(queue, f)

\* The master's handler never refuses a file.
ProcessPut(f) == Enqueue(f) /\ accepted' = accepted \cup {f}

\* put_task_to_master.  A failure is logged, and the next file is taken.
Put(p) ==
    /\ putting[p] # NoFile
    /\ putting' = [putting EXCEPT ![p] = NoFile]
    /\ \/ ProcessPut(putting[p])
       \/ "loss" \in Faults /\ UNCHANGED <<queue, accepted>>
    /\ UNCHANGED <<pending, sent, consumerVars, tableVars, reader, happened>>

----------------------------------------------------------------------------
(* A consumer thread: task_consumer::consume.                              *)

\* mini_google_svr::poll, under m_queue_lock.
Dequeue == queue # <<>> /\ queue' = Tail(queue)

\* The answer of a poll arrives with a task.
Polled(c, f) ==
    /\ cpc' = [cpc EXCEPT ![c] = "polled"]
    /\ cfile' = [cfile EXCEPT ![c] = f]

\* A poll pops the first task at the master; if the answer gets lost the task
\* is gone.  With an empty queue the poll fails and nothing changes.  A consumer
\* goes on until it reads the flag that tc->stop() clears, some time after the
\* signal.
Poll(c) ==
    /\ cpc[c] = "idle" /\ wstate[HomeOf[c]] # "down"
    /\ Dequeue
    /\ \/ Polled(c, Head(queue)) /\ UNCHANGED happened
       \/ Fault("loss") /\ UNCHANGED <<cpc, cfile>>
    /\ UNCHANGED <<clientVars, wstate, disk, tableVars, reader, accepted>>

\* A consumer of worker k is in save() with file f.
Writing(k, f) == \E c \in Consumers : HomeOf[c] = k /\ cpc[c] = "writing" /\ cfile[c] = f

\* The write lock of file f at worker k is held, for f or for another file.
Locked(k, f) == \E g \in Files : LockOf[g] = LockOf[f] /\ Writing(k, g)

\* file_mngr::save, under the write lock: opening the file truncates it.
OpenFile(c) ==
    /\ cpc[c] = "polled" /\ ~Locked(HomeOf[c], cfile[c])
    /\ disk' = [disk EXCEPT ![HomeOf[c]][cfile[c]] = "torn"]
    /\ cpc' = [cpc EXCEPT ![c] = "writing"]
    /\ UNCHANGED <<clientVars, queue, cfile, wstate, tableVars, reader, history>>

\* The content is written and the file closed.
WriteFile(c) ==
    /\ cpc[c] = "writing"
    /\ disk' = [disk EXCEPT ![HomeOf[c]][cfile[c]] = "whole"]
    /\ cpc' = [cpc EXCEPT ![c] = "saved"]
    /\ UNCHANGED <<clientVars, queue, cfile, wstate, tableVars, reader, history>>

\* The disk is full: half of the file, or nothing, is in it, and save() returns 0,
\* for nobody looks at the stream after open().
WriteFails(c) ==
    /\ cpc[c] = "writing" /\ Fault("write_fails")
    /\ cpc' = [cpc EXCEPT ![c] = "saved"]
    /\ UNCHANGED <<clientVars, queue, cfile, wstate, disk, tableVars, reader, accepted>>

\* save() returns -1, and consume() does not look at it.
SaveFails(c) ==
    /\ cpc[c] = "polled" /\ ~Locked(HomeOf[c], cfile[c]) /\ Fault("save_fails")
    /\ cpc' = [cpc EXCEPT ![c] = "saved"]
    /\ UNCHANGED <<clientVars, queue, cfile, wstate, disk, tableVars, reader, accepted>>

\* Mutant: the report carries the thread instead of the worker's address.
ReportThread(c) ==
    /\ cpc[c] = "saved"
    /\ cpc' = [cpc EXCEPT ![c] = "idle"]
    /\ cfile' = [cfile EXCEPT ![c] = NoFile]
    /\ inbox' = inbox \cup {<<cfile[c], c>>}
    /\ UNCHANGED <<clientVars, queue, wstate, disk, updating, lookup, indexed,
                   reader, history>>

\* Mutant: consume() reports before it saves.
ReportFirst(c) ==
    /\ cpc[c] = "polled" /\ disk[HomeOf[c]][cfile[c]] = "none"
    /\ inbox' = inbox \cup {<<cfile[c], HomeOf[c]>>}
    /\ UNCHANGED <<clientVars, queue, cpc, cfile, wstate, disk, updating, lookup,
                   indexed, reader, history>>

\* http_talk of /report, tried once.  The consumer takes the next task when the
\* answer arrives or 500 ms have passed, whatever the master does meanwhile.
Report(c) ==
    /\ cpc[c] = "saved"
    /\ cpc' = [cpc EXCEPT ![c] = "idle"]
    /\ cfile' = [cfile EXCEPT ![c] = NoFile]
    /\ \/ inbox' = inbox \cup {<<cfile[c], HomeOf[c]>>} /\ UNCHANGED happened
       \/ Fault("loss") /\ UNCHANGED inbox
    /\ UNCHANGED <<clientVars, queue, wstate, disk, updating, lookup, indexed,
                   reader, accepted>>

----------------------------------------------------------------------------
(* The master's handler of a report, on one of its computing threads.      *)

\* Mutant: a report that comes while another is handled is refused.
SetFileInfoRefuses(m) ==
    /\ m \in inbox
    /\ inbox' = inbox \ {m}
    /\ IF updating = {} THEN updating' = {m} /\ lookup' = [lookup EXCEPT ![m[1]] = m[2]]
                        ELSE UNCHANGED <<updating, lookup>>
    /\ UNCHANGED <<clientVars, queue, consumerVars, indexed, reader, history>>

SetFileInfo(m) ==
    /\ m \in inbox
    /\ inbox' = inbox \ {m} /\ updating' = updating \cup {m}
    /\ lookup' = [lookup EXCEPT ![m[1]] = m[2]]
    /\ UNCHANGED <<clientVars, queue, consumerVars, indexed, reader, history>>

UpdateWords(m) ==
    /\ m \in updating
    /\ updating' = updating \ {m}
    /\ indexed' = indexed \cup {m[1]}
    /\ UNCHANGED <<clientVars, queue, consumerVars, inbox, lookup, reader, history>>

----------------------------------------------------------------------------
(* A retrieve: process_retrieve on the master asks the worker the lookup   *)
(* table names, whose process_retrieve loads the file.                     *)

\* lookup_table::get_file_info, under the lock of the file's group.
HasLocation(f) == lookup[f] # NoWorker

\* The master looks for a location; without one the request fails.
AskLocation(q, f) ==
    /\ reader[q].worker = NoWorker /\ HasLocation(f)
    /\ reader' = [reader EXCEPT ![q] = [file |-> f, worker |-> lookup[f],
                                        got |-> "nothing"]]
    /\ UNCHANGED <<clientVars, queue, consumerVars, tableVars, history>>

\* Mutant: load does not take the lock.
LoadUnlocked(q) ==
    /\ reader[q].worker # NoWorker
    /\ wstate[reader[q].worker] # "down"
    /\ LET found == disk[reader[q].worker][reader[q].file]
       IN  reader' = [reader EXCEPT ![q] = [NoRequest EXCEPT !.got = found]]
    /\ UNCHANGED <<clientVars, queue, consumerVars, tableVars, history>>

\* file_mngr::load under the read lock; a worker that was told to stop may still
\* answer, or not.
Load(q) ==
    /\ reader[q].worker # NoWorker
    /\ wstate[reader[q].worker] # "down"
    /\ ~Locked(reader[q].worker, reader[q].file)
    /\ LET found == disk[reader[q].worker][reader[q].file]
       IN  reader' = [reader EXCEPT ![q] = [NoRequest EXCEPT !.got = found]]
    /\ UNCHANGED <<clientVars, queue, consumerVars, tableVars, history>>

\* The worker does not answer: "retrieve failed, inner error".
RetrieveFails(q) ==
    /\ reader[q].worker # NoWorker /\ wstate[reader[q].worker] # "up"
    /\ reader' = [reader EXCEPT ![q] = NoRequest]
    /\ UNCHANGED <<clientVars, queue, consumerVars, tableVars, history>>

----------------------------------------------------------------------------
(* Worker processes: main of main_slave.cpp.                               *)

\* A signal arrives: the event loop ends after its current round, then come
\* tc->stop() and tc->join(), which waits until every consumer has finished the
\* task it is at.
StopWorker(k) ==
    /\ wstate[k] = "up" /\ "stop" \in Faults
    /\ wstate' = [wstate EXCEPT ![k] = "stopping"]
    /\ UNCHANGED <<clientVars, queue, cpc, cfile, disk, tableVars, reader, history>>

\* Mutant: the process does not join its consumers.
ExitAtOnce(k) ==
    /\ wstate[k] = "stopping"
    /\ wstate' = [wstate EXCEPT ![k] = "down"]
    /\ cpc' = [c \in Consumers |-> IF HomeOf[c] = k THEN "idle" ELSE cpc[c]]
    /\ cfile' = [c \in Consumers |-> IF HomeOf[c] = k THEN NoFile ELSE cfile[c]]
    /\ UNCHANGED <<clientVars, queue, disk, tableVars, reader, history>>

ExitWorker(k) ==
    /\ wstate[k] = "stopping"
    /\ \A c \in Consumers : HomeOf[c] = k => cpc[c] = "idle"
    /\ wstate' = [wstate EXCEPT ![k] = "down"]
    /\ UNCHANGED <<clientVars, queue, cpc, cfile, disk, tableVars, reader, history>>

\* The process dies at any point: its files stay as they are.
CrashWorker(k) ==
    /\ wstate[k] # "down" /\ Fault("crash")
    /\ wstate' = [wstate EXCEPT ![k] = "down"]
    /\ cpc' = [c \in Consumers |-> IF HomeOf[c] = k THEN "idle" ELSE cpc[c]]
    /\ cfile' = [c \in Consumers |-> IF HomeOf[c] = k THEN NoFile ELSE cfile[c]]
    /\ UNCHANGED <<clientVars, queue, disk, tableVars, reader, accepted>>

StartWorker(k) ==
    /\ wstate[k] = "down"
    /\ wstate' = [wstate EXCEPT ![k] = "up"]
    /\ UNCHANGED <<clientVars, queue, cpc, cfile, disk, tableVars, reader, history>>

Client(p) == TakePath(p) \/ Put(p)
Consume(c) == Poll(c) \/ OpenFile(c) \/ WriteFile(c) \/ WriteFails(c) \/ SaveFails(c)
              \/ Report(c)
Retrieve(q) == Load(q) \/ RetrieveFails(q) \/ \E f \in Files : AskLocation(q, f)
Process(k) == StopWorker(k) \/ ExitWorker(k) \/ CrashWorker(k) \/ StartWorker(k)

Next ==
    \/ IndexCommand
    \/ \E p \in Putters : Client(p)
    \/ \E c \in Consumers : Consume(c)
    \/ \E m \in Reports : SetFileInfo(m) \/ UpdateWords(m)
    \/ \E q \in Readers : Retrieve(q)
    \/ \E k \in Workers : Process(k)

Spec == Init /\ [][Next]_vars

\* The consumer threads and the master's handlers proceed.
Fairness ==
    /\ \A c \in Consumers : WF_vars(Consume(c))
    /\ \A m \in Reports : WF_vars(SetFileInfo(m)) /\ WF_vars(UpdateWords(m))

FairSpec == Spec /\ Fairness

----------------------------------------------------------------------------
\* Somebody still carries file f towards the index.
Underway(f) ==
    \/ f \in ToSet(queue)
    \/ \E c \in Consumers : cfile[c] = f
    \/ \E k \in Workers : <<f, k>> \in inbox \cup updating

\* No accepted file is forgotten, although a poll takes its task out of the
\* only queue and nothing is ever retried: unless a poll or a report was lost or
\* a worker died, it is in the index or somebody carries it there.  Stopping a worker
\* loses nothing, for its consumers finish their tasks, and a save that fails
\* keeps no file out of the index.
NothingLost ==
    happened \cap {"loss", "crash"} = {} =>
        \A f \in accepted : f \in indexed \/ Underway(f)

\* What a retrieve loads is whole or missing, never half of a file that another
\* consumer is writing again at that moment: load waits for the lock.  Only the
\* crash of a worker inside save(), and a write that failed, leave half a file.
NeverTorn ==
    happened \cap {"crash", "write_fails"} = {} => \A q \in Readers : reader[q].got # "torn"

\* The worker a retrieve is sent to has the file, whatever messages are lost and
\* whenever workers die: save precedes report, files outlive the processes that
\* wrote them.  Only a save that failed breaks it.
RetrieveFinds ==
    "save_fails" \notin happened => \A q \in Readers : reader[q].got # "none"

\* The same without that exception: the worker that has the location of a file
\* "has the resource" (cs2510_miniGoogle_report.pdf, 3.3).
LocatedFileExists == \A q \in Readers : reader[q].got # "none"

\* Files a query finds and a retrieve can fetch, if the worker is up.
Available ==
    {f \in indexed : lookup[f] # NoWorker
                     /\ (disk[lookup[f]][f] = "whole" \/ Writing(lookup[f], f))}

Store == INSTANCE DocStore WITH available <- Available

\* Without faults every accepted file is available in the end, for good, through
\* whatever worker the lookup table names at the time.
ImplementsDocStore == Store!Spec
=============================================================================
