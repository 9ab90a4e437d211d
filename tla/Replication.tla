---------------------------- MODULE Replication ----------------------------
(***************************************************************************)
(* A master, its index tables, and the backup masters that follow it       *)
(* (main_master.cpp, mini_google_master_svr.cpp, lookup_table.cpp,         *)
(* invert_table.cpp).  A worker reports an indexed file to the master; the *)
(* handler updates the lookup table, then the invert table word by word,   *)
(* then forwards the report to every registered slave.  A slave registers, *)
(* copies both tables group by group, and only then starts to serve;       *)
(* reports forwarded meanwhile wait in its listen backlog.                 *)
(*                                                                         *)
(* Kept: every critical section (one table group, one slave list access)   *)
(* as one action, the order of the handler's steps, every message that can *)
(* be lost or come late.  Abstracted: the frequency of a word in a file is *)
(* a function of the file (its id is the md5 of its content), so a posting *)
(* is the pair of word and file; ages of registrations become the moment   *)
(* they may expire.  Every step remembers the faults it brings (Remember), *)
(* so that properties can say what survives them; Backups is what the      *)
(* slaves promise.                                                         *)
(***************************************************************************)
EXTENDS Naturals, FiniteSets

CONSTANTS Files, Words, Workers, Reports, Slaves,
          Master,        \* the primary master
          NoWorker,      \* a file the lookup table does not hold
          WordsOf,       \* the words of each file
          FileOf,        \* the file a report is about
          WorkerOf,      \* the worker that sent it: where the file is stored
          LookupGroup,   \* the group of a file in the lookup table
          InvertGroup,   \* the group of a word in the invert table
          NumLookup,     \* LOOKUP_TABLE_GROUP_NUM
          NumInvert,     \* INVERT_TABLE_GROUP_NUM
          Faults         \* what the environment of this instance may do

(* "loss": a message to or from a slave that is up may be lost              *)
(* "late": 20 seconds of copying are exceeded: with the 10 to the first     *)
(*         heartbeat that is the age at which a registration expires        *)
(* "full": more reports wait for a slave that copies than its listen        *)
(*         backlog holds                                                    *)
(* "unregistered": the first registration may fail, and the copy goes on    *)
(* "broken": the reply with a group may break off after its head            *)
AllFaults == {"loss", "late", "full", "unregistered", "broken"}

Nodes == {Master} \cup Slaves
NumGroups == NumLookup + NumInvert
Postings == Words \X Files

ASSUME ConstAssumption ==
    /\ Master \notin Slaves
    /\ NoWorker \notin Workers
    /\ WordsOf \in [Files -> SUBSET Words]
    /\ FileOf \in [Reports -> Files]
    /\ WorkerOf \in [Reports -> Workers]
    /\ NumLookup \in Nat /\ NumInvert \in Nat /\ NumGroups > 0
    /\ LookupGroup \in [Files -> 1..NumLookup]
    /\ InvertGroup \in [Words -> (NumLookup + 1)..NumGroups]
    /\ Faults \subseteq AllFaults

VARIABLES lookup,    \* m_lookup_table of each node
          postings,  \* m_invert_table of each node
          hpc,       \* where process_report is, per node and report
          left,      \* the words it has still to update
          targets,   \* slaves the master's handler has still to forward to
          slist,     \* m_svr_list of the master
          sphase,    \* how far the main program of each slave is
          group,     \* the group it fetches next, lookup groups first
          reply,     \* the group data it received and has not stored yet
          broken,    \* the group data whose head alone a first try received
          renewed,   \* slaves whose main loop has renewed the registration
          harmed,    \* history: slaves that met a fault since they started
          raced      \* history: files two reports of which were under way at once

tableVars   == <<lookup, postings>>
handlerVars == <<hpc, left, targets>>
slaveVars   == <<sphase, group, reply, broken, renewed>>
history     == <<harmed, raced>>
vars == <<tableVars, handlerVars, slist, slaveVars, history>>

Lookups == [Files -> Workers \cup {NoWorker}]
NoFiles == [f \in Files |-> NoWorker]
GroupDatas == [lookup : Lookups, postings : SUBSET Postings]
\* Mutant: group data without its postings.
EmptyReply == [lookup |-> NoFiles]

\* Nothing received.
NoReply == [lookup |-> NoFiles, postings |-> {}]

TypeOK ==
    /\ lookup \in [Nodes -> Lookups]
    /\ postings \in [Nodes -> SUBSET Postings]
    /\ hpc \in [Nodes -> [Reports -> {"none", "queued", "words", "forward", "done"}]]
    /\ left \in [Nodes -> [Reports -> SUBSET Words]]
    /\ targets \in [Reports -> SUBSET Slaves]
    /\ slist \in SUBSET Slaves
    /\ sphase \in [Slaves -> {"down", "register", "fetch", "retry", "store", "serving"}]
    /\ group \in [Slaves -> Nat \ {0}]
    /\ reply \in [Slaves -> GroupDatas]
    /\ broken \in [Slaves -> GroupDatas]
    /\ renewed \in SUBSET Slaves
    /\ harmed \in SUBSET Slaves
    /\ raced \in SUBSET Files

Init ==
    /\ lookup = [n \in Nodes |-> NoFiles]
    /\ postings = [n \in Nodes |-> {}]
    /\ hpc = [n \in Nodes |-> [r \in Reports |-> "none"]]
    /\ left = [n \in Nodes |-> [r \in Reports |-> {}]]
    /\ targets = [r \in Reports |-> {}]
    /\ slist = {}
    /\ sphase = [s \in Slaves |-> "down"]
    /\ group = [s \in Slaves |-> 1]
    /\ reply = [s \in Slaves |-> NoReply]
    /\ broken = [s \in Slaves |-> NoReply]
    /\ renewed = {}
    /\ harmed = {} /\ raced = {}

----------------------------------------------------------------------------
(* What every step writes down, so that the properties can name exactly    *)
(* what they do not survive.  The faults and crashes of one slave excuse   *)
(* nothing about another.                                                  *)

\* The slave has finished its start-up registration and has not ended.
Following(s) == sphase[s] \in {"fetch", "retry", "store", "serving"}

\* The step leaves a running slave out of the list, breaks off a group it
\* fetches, or loses a report on its way to it.
Harms(s) ==
    \/ Following(s)' /\ s \notin slist'
    \/ sphase'[s] = "retry"
    \/ /\ Following(s)
       /\ \E r \in Reports : s \in targets[r] \ targets'[r] /\ hpc'[s][r] # "queued"

\* Report r has changed the master's tables and has still to change a slave's.
Spreading(r) ==
    \/ hpc[Master][r] \in {"words", "forward"}
    \/ \E s \in Slaves : hpc[s][r] = "queued"

\* Another report of the file of r spreads with it.
Races(r) == Spreading(r) /\ \E q \in Reports \ {r} : FileOf[q] = FileOf[r] /\ Spreading(q)

\* What a slave missed goes with the tables of its process.
Remember ==
    /\ harmed' = {s \in Slaves : sphase'[s] # "down" /\ (s \in harmed \/ Harms(s))}
    /\ raced' = raced \cup {FileOf[r] : r \in {q \in Reports : Races(q)'}}

----------------------------------------------------------------------------
(* process_report, on the master and, for a forwarded report, on a slave.  *)

\* Mutant: the computing threads of a slave handle reports while it copies.
ServingWhenUp(n) == n \in Slaves => sphase[n] # "down"

Serving(n) == n \in Slaves => sphase[n] = "serving"

GoTo(n, r, where) == hpc' = [hpc EXCEPT ![n][r] = where]

\* A worker's report reaches the master.
Report(r) ==
    /\ hpc[Master][r] = "none"
    /\ GoTo(Master, r, "queued")
    /\ UNCHANGED <<tableVars, left, targets, slist, slaveVars>>
    /\ Remember

\* Mutant: only the master notes where the file is stored.
SetFileInfoOnMaster(n, r) ==
    /\ hpc[n][r] = "queued" /\ Serving(n)
    /\ lookup' = IF n = Master THEN [lookup EXCEPT ![n][FileOf[r]] = WorkerOf[r]]
                 ELSE lookup
    /\ left' = [left EXCEPT ![n][r] = WordsOf[FileOf[r]]]
    /\ GoTo(n, r, "words")
    /\ UNCHANGED <<postings, targets, slist, slaveVars>>
    /\ Remember

\* A computing thread takes the request up: set_file_info.
SetFileInfo(n, r) ==
    /\ hpc[n][r] = "queued" /\ Serving(n)
    /\ lookup' = [lookup EXCEPT ![n][FileOf[r]] = WorkerOf[r]]
    /\ left' = [left EXCEPT ![n][r] = WordsOf[FileOf[r]]]
    /\ GoTo(n, r, "words")
    /\ UNCHANGED <<postings, targets, slist, slaveVars>>
    /\ Remember

\* One turn of the loop over the words: invert_table::update.
UpdateWord(n, r, w) ==
    /\ hpc[n][r] = "words" /\ w \in left[n][r]
    /\ postings' = [postings EXCEPT ![n] = @ \cup {<<w, FileOf[r]>>}]
    /\ left' = [left EXCEPT ![n][r] = @ \ {w}]
    /\ UNCHANGED <<lookup, hpc, targets, slist, slaveVars>>
    /\ Remember

\* Mutant: the loop over the words ends early.
GetSlavesListEarly(n, r) ==
    /\ hpc[n][r] = "words"
    /\ targets' = IF n = Master THEN [targets EXCEPT ![r] = slist] ELSE targets
    /\ GoTo(n, r, "forward")
    /\ UNCHANGED <<tableVars, left, slist, slaveVars>>
    /\ Remember

\* get_slaves_list, a copy taken after the tables are updated.  Nobody
\* registers with a slave: its handler has no one to forward to.
GetSlavesList(n, r) ==
    /\ hpc[n][r] = "words" /\ left[n][r] = {}
    /\ targets' = IF n = Master THEN [targets EXCEPT ![r] = slist] ELSE targets
    /\ GoTo(n, r, "forward")
    /\ UNCHANGED <<tableVars, left, slist, slaveVars>>
    /\ Remember

\* Mutant: a slave that does not serve yet refuses the report.
ForwardToServing(r, s) ==
    /\ hpc[Master][r] = "forward" /\ s \in targets[r]
    /\ targets' = [targets EXCEPT ![r] = @ \ {s}]
    /\ IF sphase[s] = "serving" THEN GoTo(s, r, "queued") ELSE UNCHANGED hpc
    /\ UNCHANGED <<tableVars, left, slist, slaveVars>>
    /\ Remember

\* The exchange with slave s can fail with nothing handed over: nobody listens,
\* the message is lost, or the listen backlog, which is all that takes requests
\* during the copy, is full.
MayMiss(s) ==
    \/ sphase[s] = "down"
    \/ "loss" \in Faults
    \/ "full" \in Faults /\ ~Serving(s)

\* http_talk of /report to the next slave of the copy.  A slave that has bound
\* its socket gets the request, at once or when it starts to serve, whether or
\* not the master waits for the answer; a failure is only logged.
Forward(r, s) ==
    /\ hpc[Master][r] = "forward" /\ s \in targets[r]
    /\ targets' = [targets EXCEPT ![r] = @ \ {s}]
    /\ \/ sphase[s] # "down" /\ GoTo(s, r, "queued")
       \/ MayMiss(s) /\ UNCHANGED hpc
    /\ UNCHANGED <<tableVars, left, slist, slaveVars>>
    /\ Remember

\* Mutant: the response goes out before every slave has been tried.
EndReportEarly(n, r) ==
    /\ hpc[n][r] = "forward"
    /\ GoTo(n, r, "done")
    /\ UNCHANGED <<tableVars, left, targets, slist, slaveVars>>
    /\ Remember

\* Every slave has been tried: the response goes out.
EndReport(n, r) ==
    /\ hpc[n][r] = "forward"
    /\ n = Master => targets[r] = {}
    /\ GoTo(n, r, "done")
    /\ UNCHANGED <<tableVars, left, targets, slist, slaveVars>>
    /\ Remember

----------------------------------------------------------------------------
(* The start of a slave: main of main_master.cpp up to its loop.           *)

\* The program starts: threads, then bind().
Start(s) ==
    /\ sphase[s] = "down"
    /\ sphase' = [sphase EXCEPT ![s] = "register"]
    /\ UNCHANGED <<tableVars, handlerVars, slist, group, reply, broken, renewed>>
    /\ Remember

\* Mutant: the slave registers with its first heartbeat only.
RegisterLater(s) ==
    /\ sphase[s] = "register"
    /\ sphase' = [sphase EXCEPT ![s] = "fetch"]
    /\ UNCHANGED <<tableVars, handlerVars, slist, group, reply, broken, renewed>>
    /\ Remember

\* register_to_master, before the copy; its failure is logged and the copy
\* goes on.
Register(s) ==
    /\ sphase[s] = "register"
    /\ \/ slist' = slist \cup {s}
       \/ "unregistered" \in Faults /\ UNCHANGED slist
    /\ sphase' = [sphase EXCEPT ![s] = "fetch"]
    /\ UNCHANGED <<tableVars, handlerVars, group, reply, broken, renewed>>
    /\ Remember

\* The content of group g at the master, read under its lock (process_backup).
\* The attributes point into the table and are written out after the unlock, so
\* the address of a file that is reported again in between may come out mixed;
\* the properties below only ask whether an entry is there, and entries are never
\* removed.
GroupData(g) ==
    [lookup   |-> [f \in Files |-> IF LookupGroup[f] = g THEN lookup[Master][f]
                                   ELSE NoWorker],
     postings |-> {p \in postings[Master] : InvertGroup[p[1]] = g}]

\* The group arrives, with the first try, or with the second after one that
\* got nothing.
FetchGroup(s) ==
    /\ sphase[s] = "fetch"
    /\ reply' = [reply EXCEPT ![s] = GroupData(group[s])]
    /\ sphase' = [sphase EXCEPT ![s] = "store"]
    /\ UNCHANGED <<tableVars, handlerVars, slist, group, broken, renewed>>
    /\ Remember

\* The first try times out inside the body: rsp_head holds a Content-Length.
BreakReply(s) ==
    /\ sphase[s] = "fetch" /\ "broken" \in Faults
    /\ broken' = [broken EXCEPT ![s] = GroupData(group[s])]
    /\ sphase' = [sphase EXCEPT ![s] = "retry"]
    /\ UNCHANGED <<tableVars, handlerVars, slist, group, reply, renewed>>
    /\ Remember

\* The length of group data, in entries.
Size(data) ==
    Cardinality(data.postings) + Cardinality({f \in Files : data.lookup[f] # NoWorker})

\* Mutant: a body of the right length is taken for the group.
RetryGroupAny(s) ==
    /\ sphase[s] = "retry"
    /\ \E part \in GroupDatas :
          /\ Size(part) = Size(broken[s])
          /\ reply' = [reply EXCEPT ![s] = part]
    /\ broken' = [broken EXCEPT ![s] = NoReply]
    /\ sphase' = [sphase EXCEPT ![s] = "store"]
    /\ UNCHANGED <<tableVars, handlerVars, slist, group, renewed>>
    /\ Remember

\* The second try appends its head to the same string, where http_recv finds
\* the first Content-Length, and cuts the body there: the slave gets as much of
\* the group as it held at the first try, in the order of the hash table.
RetryGroup(s) ==
    /\ sphase[s] = "retry"
    /\ \E part \in GroupDatas :
          /\ part.postings \subseteq GroupData(group[s]).postings
          /\ \A f \in Files :
                part.lookup[f] \in {NoWorker, GroupData(group[s]).lookup[f]}
          /\ Size(part) = Size(broken[s])
          /\ reply' = [reply EXCEPT ![s] = part]
    /\ broken' = [broken EXCEPT ![s] = NoReply]
    /\ sphase' = [sphase EXCEPT ![s] = "store"]
    /\ UNCHANGED <<tableVars, handlerVars, slist, group, renewed>>
    /\ Remember

\* Mutant: the group replaces the table.
StoreGroupReplaces(s) ==
    /\ sphase[s] = "store"
    /\ lookup' = [lookup EXCEPT ![s] = reply[s].lookup]
    /\ postings' = [postings EXCEPT ![s] = reply[s].postings]
    /\ group' = [group EXCEPT ![s] = @ + 1]
    /\ sphase' = [sphase EXCEPT ![s] = IF group[s] = NumGroups THEN "serving"
                                       ELSE "fetch"]
    /\ reply' = [reply EXCEPT ![s] = NoReply]
    /\ UNCHANGED <<handlerVars, slist, broken, renewed>>
    /\ Remember

\* Mutant: the loop over the groups leaves out the last one.
StoreGroupButLast(s) ==
    /\ sphase[s] = "store"
    /\ lookup' = [lookup EXCEPT ![s] =
                     [f \in Files |-> IF reply[s].lookup[f] # NoWorker
                                      THEN reply[s].lookup[f] ELSE @[f]]]
    /\ postings' = [postings EXCEPT ![s] = @ \cup reply[s].postings]
    /\ group' = [group EXCEPT ![s] = @ + 1]
    /\ sphase' = [sphase EXCEPT ![s] = IF group'[s] = NumGroups THEN "serving"
                                       ELSE "fetch"]
    /\ reply' = [reply EXCEPT ![s] = NoReply]
    /\ UNCHANGED <<handlerVars, slist, broken, renewed>>
    /\ Remember

\* The group is merged into the table; after the last one the slave serves.
StoreGroup(s) ==
    /\ sphase[s] = "store"
    /\ lookup' = [lookup EXCEPT ![s] =
                     [f \in Files |-> IF reply[s].lookup[f] # NoWorker
                                      THEN reply[s].lookup[f] ELSE @[f]]]
    /\ postings' = [postings EXCEPT ![s] = @ \cup reply[s].postings]
    /\ group' = [group EXCEPT ![s] = @ + 1]
    /\ sphase' = [sphase EXCEPT ![s] = IF group[s] = NumGroups THEN "serving"
                                       ELSE "fetch"]
    /\ reply' = [reply EXCEPT ![s] = NoReply]
    /\ UNCHANGED <<handlerVars, slist, broken, renewed>>
    /\ Remember

\* The process ends: its memory, and the requests it held, are gone.
Lose(s) ==
    /\ sphase' = [sphase EXCEPT ![s] = "down"]
    /\ lookup' = [lookup EXCEPT ![s] = NoFiles]
    /\ postings' = [postings EXCEPT ![s] = {}]
    /\ hpc' = [hpc EXCEPT ![s] = [r \in Reports |-> "none"]]
    /\ left' = [left EXCEPT ![s] = [r \in Reports |-> {}]]
    /\ group' = [group EXCEPT ![s] = 1]
    /\ reply' = [reply EXCEPT ![s] = NoReply]
    /\ broken' = [broken EXCEPT ![s] = NoReply]
    /\ renewed' = renewed \ {s}

\* Both tries for a group failed: exit(-1).  Or the slave crashes anywhere.
Crash(s) ==
    /\ sphase[s] # "down"
    /\ Lose(s)
    /\ UNCHANGED <<targets, slist>>
    /\ Remember

----------------------------------------------------------------------------
(* A serving slave, and the master's list.                                 *)

\* Every 10 seconds, the first time 10 seconds after the copy: do_register again,
\* which adds the slave if it is not in the list any more.
Heartbeat(s) ==
    /\ sphase[s] = "serving"
    /\ slist' = slist \cup {s}
    /\ renewed' = renewed \cup {s}
    /\ UNCHANGED <<tableVars, handlerVars, sphase, group, reply, broken>>
    /\ Remember

\* The main loop ends: unregister_to_master, then the program ends.
Unregister(s) ==
    /\ sphase[s] = "serving"
    /\ slist' = slist \ {s}
    /\ Lose(s)
    /\ UNCHANGED targets
    /\ Remember

\* When a registration can be 30 seconds old: the slave is down, or about to
\* renew what an earlier process of it left; the copy was long, and the slave
\* still copies or serves but has not come to its first heartbeat; or the
\* renewals of a serving slave failed.
MayExpire(s) ==
    \/ sphase[s] \in {"down", "register"}
    \/ s \notin renewed /\ "late" \in Faults
    \/ Faults \cap {"loss", "unregistered"} # {}

\* check_timeout drops a registration that was not renewed for 30 seconds.
CheckTimeout(s) ==
    /\ s \in slist /\ MayExpire(s)
    /\ slist' = slist \ {s}
    /\ UNCHANGED <<tableVars, handlerVars, slaveVars>>
    /\ Remember

Handle(n, r) ==
    \/ SetFileInfo(n, r) \/ GetSlavesList(n, r) \/ EndReport(n, r)
    \/ \E w \in Words : UpdateWord(n, r, w)
    \/ n = Master /\ \E s \in Slaves : Forward(r, s)

StartUp(s) ==
    \/ Register(s) \/ FetchGroup(s) \/ BreakReply(s) \/ RetryGroup(s)
    \/ StoreGroup(s)

Next ==
    \/ \E r \in Reports : Report(r)
    \/ \E n \in Nodes, r \in Reports : Handle(n, r)
    \/ \E s \in Slaves : \/ Start(s) \/ StartUp(s) \/ Crash(s)
                         \/ Heartbeat(s) \/ Unregister(s) \/ CheckTimeout(s)

Spec == Init /\ [][Next]_vars

\* Handlers and a slave's start-up proceed; nobody has to report, to start, to
\* crash or to stop.
Fairness ==
    /\ \A n \in Nodes, r \in Reports : WF_vars(Handle(n, r))
    /\ \A s \in Slaves : WF_vars(StartUp(s))

FairSpec == Spec /\ Fairness

----------------------------------------------------------------------------
(* What a backup holds, and what is on its way to it.                      *)

\* The master's handler of r will still forward it to s.
WillForward(r, s) ==
    \/ hpc[Master][r] = "words" /\ s \in slist
    \/ hpc[Master][r] = "forward" /\ s \in targets[r]

\* Slave s has still to take up all of report r.
Coming(r, s) == WillForward(r, s) \/ hpc[s][r] = "queued"

\* Group g is still to be fetched.
ToFetch(s, g) == group[s] < g \/ (group[s] = g /\ sphase[s] \in {"fetch", "retry"})

LookupCovered(s, f) ==
    \/ lookup[s][f] # NoWorker
    \/ ToFetch(s, LookupGroup[f])
    \/ reply[s].lookup[f] # NoWorker
    \/ \E r \in Reports : FileOf[r] = f /\ Coming(r, s)

PostingCovered(s, w, f) ==
    \/ <<w, f>> \in postings[s]
    \/ ToFetch(s, InvertGroup[w])
    \/ <<w, f>> \in reply[s].postings
    \/ \E r \in Reports :
          /\ FileOf[r] = f
          /\ \/ Coming(r, s)
             \/ hpc[s][r] = "words" /\ w \in left[s][r]

Covered(s) ==
    \A f \in Files :
        /\ lookup[Master][f] # NoWorker => LookupCovered(s, f)
        /\ \A w \in Words : <<w, f>> \in postings[Master] => PostingCovered(s, w, f)

\* No entry of the master's tables escapes a slave that follows it: the slave
\* has it, has still to fetch its group, or a report that carries it is on its
\* way.  This is why a slave registers before it copies, and why the handler
\* updates the tables before it reads the list; swap either and an entry can
\* fall in between.  Without faults: a copy of 20 seconds already lets the
\* registration expire before the first heartbeat.
BackupComplete == \A s \in Slaves : Following(s) => Covered(s)

\* Whatever the faults, a backup never knows a file or a posting the master does
\* not: a query on a backup returns nothing the master would not.
BackupNeverAhead ==
    \A s \in Slaves :
        /\ postings[s] \cup reply[s].postings \subseteq postings[Master]
        /\ \A f \in Files :
              (lookup[s][f] # NoWorker \/ reply[s].lookup[f] # NoWorker)
                  => lookup[Master][f] # NoWorker

\* A file a query on a node finds can be retrieved through that node: it has the
\* location too.  On the master always; on a serving slave unless a report on
\* the file is still on its way there, for the slave copied the lookup table
\* before the invert table.
HitHasLocation ==
    \A n \in Nodes : Serving(n) => \A p \in postings[n] :
        \/ lookup[n][p[2]] # NoWorker
        \/ n # Master /\ \E r \in Reports : FileOf[r] = p[2] /\ Coming(r, n)

\* Slave s serves and is registered, and nothing is in flight between the master
\* and it.
Settled(s) ==
    /\ sphase[s] = "serving" /\ s \in slist
    /\ \A r \in Reports : /\ hpc[Master][r] \in {"none", "queued", "done"}
                          /\ hpc[s][r] \in {"none", "done"}

SameEntries(s) ==
    /\ postings[s] = postings[Master]
    /\ \A f \in Files : (lookup[s][f] = NoWorker) = (lookup[Master][f] = NoWorker)

\* A settled slave has the master's entries ("backup master's memory",
\* main_master.cpp:108).  Without faults; a copy that takes 20 seconds is one.
SettledSlaveHasEntries == \A s \in Slaves : Settled(s) => SameEntries(s)

\* A settled slave has the master's entries unless a fault met this very
\* process: what it missed in an earlier life, or while it was down, the copy
\* brings it, also when its old registration was still in the list.
SettledUnharmed == \A s \in Slaves \ harmed : Settled(s) => SameEntries(s)

\* A settled slave that no fault met sends a retrieve to the worker the master
\* names, unless two reports of the file were under way at once.  A report that
\* waits in the backlog while the slave copies is the newer of the two: it must
\* not be handled before the copy is stored.
LocationsAgree ==
    \A s \in Slaves \ harmed : Settled(s) =>
        \A f \in Files \ raced : lookup[s][f] = lookup[Master][f]

\* Once reports stop coming, every serving slave that met no fault ends up, and
\* stays, with the master's entries, whatever slaves crashed and started in
\* between.
UnharmedConverge ==
    <>[](\A s \in Slaves \ harmed : sphase[s] = "serving" => SameEntries(s))

\* The entries of a node: the files it can locate and its postings.
EntriesOf(n) ==
    {<<f>> : f \in {g \in Files : lookup[n][g] # NoWorker}} \cup postings[n]

HeldCopies == INSTANCE Backups WITH
    Entries <- {<<f>> : f \in Files} \cup Postings,
    held    <- EntriesOf(Master),
    copy    <- [s \in Slaves |-> EntriesOf(s)]

\* Under every fault a slave holds a part of what the master holds, and what it
\* holds grows until its process ends: a group never takes away what a forwarded
\* report or an earlier group brought.
ImplementsBackups == HeldCopies!Spec
=============================================================================
