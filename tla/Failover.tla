------------------------------ MODULE Failover ------------------------------
(***************************************************************************)
(* The interactive uishell: it caches the addresses of the servers the     *)
(* master knows, and puts a query or a retrieve to one after the other     *)
(* until one answers (uishell.cpp, main_uishell.cpp).  Around it master    *)
(* and slaves start, copy, serve, stop and crash, and the master keeps its *)
(* list of slaves (do_register, do_unregister, check_timeout).             *)
(*                                                                         *)
(* Kept: the exchange of http_talk step by step, so that a server can go   *)
(* away in the middle of it; the age of the cache; where a walk starts and *)
(* when it ends.  Abstracted: a server's index is whether it has the one   *)
(* file that is retrieved (module Replication has the copying in detail,   *)
(* Query what a query answers, Indexing what the worker does); a report is *)
(* one step, so a file is indexed when its handlers are done on every node *)
(* it was sent to; time is the choice between what a wait is for and its   *)
(* end.                                                                    *)
(***************************************************************************)
EXTENDS Naturals, Sequences, FiniteSets, SequencesExt

CONSTANTS Slaves, Master,
          Nobody,      \* no server
          Faults       \* what the environment of this instance may do

(* "slow": an exchange with a server that is up may take longer than a wait    *)
(* "worker": a retrieve may not get the file from the worker that stores it    *)
AllFaults == {"slow", "worker"}

ASSUME ConstAssumption ==
    /\ Master \notin Slaves /\ Nobody \notin Slaves \cup {Master}
    /\ IsFiniteSet(Slaves)
    /\ Faults \subseteq AllFaults

Servers == Slaves \cup {Master}

VARIABLES status,   \* each server process
          slist,    \* m_svr_list of the master, in its order
          index,    \* whether a server's tables have the file
          cache,    \* uishell::m_slaves_list
          due,      \* 20 seconds have passed since m_last_cache_msec
          upc, cmd, \* what the uishell is doing, and the command
          ind, i,   \* the walk: where it started, how far it is
          ret,      \* the result of the command so far
          to,       \* the exchange: the server it is with,
          stage,    \* the call of http_talk it is in,
          conn,     \* whether the connection stands,
          reply,    \* and what the server sent
          owed,     \* history: servers that serve since the walk began and
                    \* have not been too slow in it
          excused,  \* history: the server that handled the last retrieve had met
                    \* a fault, or the worker did not answer it
          lost,     \* history: the master crashed, and its index with it
          harmed,   \* history: slaves whose process was out of the list, or that
                    \* a forwarded report did not reach
          known     \* history: it is a retrieve, of a file that was indexed then

serverVars   == <<status, slist, index, lost, harmed>>
exchangeVars == <<to, stage, conn, reply>>
walkVars     == <<cache, due, upc, cmd, ind, i, ret, known>>
answerVars   == <<owed, excused>>
vars == <<serverVars, exchangeVars, walkVars, answerVars>>

NoReply == [kind |-> "none", list |-> <<>>]

TypeOK ==
    /\ status \in [Servers -> {"down", "starting", "copied", "serving"}]
    /\ status[Master] \in {"down", "serving"}
    /\ slist \in Seq(Slaves) /\ IsInjective(slist)
    /\ index \in [Servers -> BOOLEAN]
    /\ cache \in Seq(Servers) /\ IsInjective(cache)
    /\ cache # <<>> => Last(cache) = Master
    /\ due \in BOOLEAN
    /\ upc \in {"idle", "refresh", "pick", "walk", "end"} /\ cmd \in {"query", "retrieve"}
    /\ ind \in Nat /\ i \in 0 .. Len(cache) /\ (upc = "walk" => i < Len(cache))
    /\ ret \in {"failed", "answer", "absent"}
    /\ to \in Servers \cup {Nobody}
    /\ stage \in {"none", "connect", "send", "recv", "ok", "failed"}
    /\ (stage = "none" <=> to = Nobody) /\ (stage # "none" => upc \in {"refresh", "walk"})
    /\ conn \in BOOLEAN
    /\ reply \in [kind : {"none", "list", "answer", "absent"}, list : Seq(Slaves)]
    /\ owed \subseteq Servers /\ excused \in BOOLEAN
    /\ harmed \subseteq Slaves /\ lost \in BOOLEAN /\ known \in BOOLEAN

\* The master runs; the uishell has cached nothing yet.
Init ==
    /\ status = [s \in Servers |-> IF s = Master THEN "serving" ELSE "down"]
    /\ slist = <<>> /\ index = [s \in Servers |-> FALSE] /\ lost = FALSE
    /\ cache = <<>> /\ due = TRUE
    /\ upc = "idle" /\ cmd = "query" /\ ind = 0 /\ i = 0 /\ ret = "failed" /\ known = FALSE
    /\ to = Nobody /\ stage = "none" /\ conn = FALSE /\ reply = NoReply
    /\ owed = {} /\ excused = FALSE /\ harmed = {}

-----------------------------------------------------------------------------
(* The servers.                                                            *)

Up(s) == status[s] = "serving"

\* do_register: a server that is in the list only gets a new time.
Registered(s) == IF Contains(slist, s) THEN slist ELSE Append(slist, s)

\* do_unregister: the entry that is found is erased.
Unregistered(s) ==
    IF Contains(slist, s)
    THEN RemoveAt(slist, CHOOSE n \in 1 .. Len(slist) : slist[n] = s)
    ELSE slist

\* register_to_master and unregister_to_master, tried once: a master that is down,
\* or too slow, is not told.
TellMaster(list) ==
    \/ Up(Master) /\ slist' = list
    \/ (~Up(Master) \/ "slow" \in Faults) /\ slist' = slist

\* The process of s comes to its end, and its connections with it.
End(s) ==
    /\ status' = [status EXCEPT ![s] = "down"]
    /\ index' = [index EXCEPT ![s] = FALSE]
    /\ conn' = (conn /\ to # s)
    /\ owed' = owed \ {s} /\ harmed' = harmed \ {s}
    /\ UNCHANGED <<to, stage, reply, walkVars, excused>>

\* main of a slave up to the copy: it is bound and registered, if it can be.
StartSlave(s) ==
    /\ status[s] = "down"
    /\ status' = [status EXCEPT ![s] = "starting"]
    /\ TellMaster(Registered(s))
    /\ harmed' = IF Contains(slist', s) THEN harmed ELSE harmed \cup {s}
    /\ UNCHANGED <<index, lost, exchangeVars, walkVars, answerVars>>

\* The groups that have the file's entries are copied.
Copy(s) ==
    /\ status[s] = "starting" /\ Up(Master)
    /\ status' = [status EXCEPT ![s] = "copied"]
    /\ index' = [index EXCEPT ![s] = @ \/ index[Master]]
    /\ UNCHANGED <<slist, lost, harmed, exchangeVars, walkVars, answerVars>>

\* The rest is copied: the main loop begins, and the server's.
CopyDone(s) ==
    /\ status[s] = "copied" /\ Up(Master)
    /\ status' = [status EXCEPT ![s] = "serving"]
    /\ UNCHANGED <<slist, index, lost, harmed, exchangeVars, walkVars, answerVars>>

\* Both tries for a group failed: exit(-1).
CopyFails(s) ==
    /\ status[s] \in {"starting", "copied"} /\ (~Up(Master) \/ "slow" \in Faults)
    /\ End(s)
    /\ UNCHANGED <<slist, lost>>

\* MUTANT of Heartbeat: it renews the time of a known slave, and no more.
HeartbeatRenews(s) ==
    /\ Up(s) /\ Up(Master) /\ Contains(slist, s)
    /\ UNCHANGED vars

\* Every 10 seconds, from the main loop; one that fails changes nothing.
Heartbeat(s) ==
    /\ Up(s) /\ Up(Master)
    /\ slist' = Registered(s)
    /\ UNCHANGED <<status, index, lost, harmed, exchangeVars, walkVars, answerVars>>

\* A signal: the main loop ends, then the slave unregisters and exits.
StopSlave(s) ==
    /\ Up(s)
    /\ End(s)
    /\ TellMaster(Unregistered(s))
    /\ UNCHANGED lost

CrashSlave(s) ==
    /\ status[s] # "down"
    /\ End(s)
    /\ UNCHANGED <<slist, lost>>

\* check_timeout(30): a slave that is down, or one whose renewals took too long.
\* The first is due 10 seconds after the copy: a copy of 20 seconds is enough.
CheckTimeout(s) ==
    /\ Up(Master) /\ Contains(slist, s) /\ (status[s] = "down" \/ "slow" \in Faults)
    /\ slist' = Unregistered(s)
    /\ harmed' = IF status[s] = "down" THEN harmed ELSE harmed \cup {s}
    /\ UNCHANGED <<status, index, lost, exchangeVars, walkVars, answerVars>>

\* Nothing of a master is on disk.
CrashMaster ==
    /\ Up(Master)
    /\ End(Master)
    /\ slist' = <<>>
    /\ lost' = TRUE

StartMaster ==
    /\ status[Master] = "down"
    /\ status' = [status EXCEPT ![Master] = "serving"]
    /\ UNCHANGED <<slist, index, lost, harmed, exchangeVars, walkVars, answerVars>>

\* MUTANT of Listening: a report is forwarded to the slaves that serve only.
ListeningServing == {s \in Slaves : Contains(slist, s) /\ Up(s)}

\* Slaves a report can be forwarded to: one that still copies takes it on, too.
Listening == {s \in Slaves : Contains(slist, s) /\ status[s] # "down"}

\* process_report for the file.  An exchange with a slave that fails is only
\* logged, and nobody tries it again.
Report ==
    /\ Up(Master) /\ ~index[Master]
    /\ \E reached \in SUBSET Listening :
          /\ reached = Listening \/ "slow" \in Faults
          /\ index' = [s \in Servers |-> index[s] \/ s = Master \/ s \in reached]
          /\ harmed' = harmed \cup (Listening \ reached)
    /\ UNCHANGED <<status, slist, lost, exchangeVars, walkVars, answerVars>>

-----------------------------------------------------------------------------
(* One exchange: http_talk.                                                *)

ExchangeStep == UNCHANGED <<serverVars, walkVars>>

\* connect_ex succeeds as soon as the server is bound.
Connect ==
    /\ stage = "connect" /\ status[to] # "down"
    /\ stage' = "send" /\ conn' = TRUE
    /\ UNCHANGED <<to, reply, answerVars>> /\ ExchangeStep

ConnectFails ==
    /\ stage = "connect" /\ (status[to] = "down" \/ "slow" \in Faults)
    /\ stage' = "failed" /\ owed' = owed \ {to}
    /\ UNCHANGED <<to, conn, reply, excused>> /\ ExchangeStep

\* http_send
Send ==
    /\ stage = "send" /\ conn
    /\ stage' = "recv"
    /\ UNCHANGED <<to, conn, reply, answerVars>> /\ ExchangeStep

\* process_querySlave: the addresses of get_slave_list, without the master's own.
QuerySlave == [kind |-> "list", list |-> slist]

\* process_query answers always, process_retrieve if the lookup table has the file.
QueryOrRetrieve ==
    [NoReply EXCEPT !.kind = IF cmd = "query" \/ index[to] THEN "answer" ELSE "absent"]

\* The server's handler, by the uri of the request.
Serve ==
    /\ stage = "recv" /\ conn /\ Up(to) /\ reply = NoReply
    /\ reply' = IF upc = "refresh" THEN QuerySlave ELSE QueryOrRetrieve
    /\ excused' = (to \in harmed)
    /\ UNCHANGED <<to, stage, conn, owed>> /\ ExchangeStep

\* process_retrieve gets nothing from the worker ("inner error"): the same 404 as
\* for a file that is not in the lookup table, and the same -2 in the uishell.
WorkerSilent ==
    /\ stage = "recv" /\ conn /\ Up(to) /\ reply = NoReply
    /\ upc = "walk" /\ cmd = "retrieve" /\ index[to] /\ "worker" \in Faults
    /\ reply' = [NoReply EXCEPT !.kind = "absent"]
    /\ excused' = TRUE
    /\ UNCHANGED <<to, stage, conn, owed>> /\ ExchangeStep

\* http_recv; what was sent arrives even if the server is gone by then.
Receive ==
    /\ stage = "recv" /\ reply # NoReply
    /\ stage' = "ok"
    /\ UNCHANGED <<to, conn, reply, answerVars>> /\ ExchangeStep

Broken ==
    /\ stage \in {"send", "recv"} /\ ~conn
    /\ stage' = "failed"
    /\ UNCHANGED <<to, conn, reply, answerVars>> /\ ExchangeStep

\* wait_for_io: the time is over.
TimeOut ==
    /\ stage \in {"send", "recv"} /\ (~Up(to) \/ "slow" \in Faults)
    /\ stage' = "failed" /\ owed' = owed \ {to}
    /\ UNCHANGED <<to, conn, reply, excused>> /\ ExchangeStep

Talk(s) == to' = s /\ stage' = "connect" /\ conn' = FALSE /\ reply' = NoReply
Close == to' = Nobody /\ stage' = "none" /\ conn' = FALSE /\ reply' = NoReply

-----------------------------------------------------------------------------
(* The uishell.                                                            *)

\* The user gives a command; cache_slave_address sets the time of the cache first.
Command(c) ==
    /\ upc = "idle"
    /\ cmd' = c /\ known' = (c = "retrieve" /\ index[Master] /\ ~lost)
    /\ due' = FALSE
    /\ IF due THEN upc' = "refresh" /\ Talk(Master)
       ELSE upc' = "pick" /\ UNCHANGED exchangeVars
    /\ UNCHANGED <<serverVars, cache, ind, i, ret, answerVars>>

\* get_slave_from_master: the list, and the master behind it.
Refresh ==
    /\ upc = "refresh" /\ stage = "ok"
    /\ cache' = Append(reply.list, Master)
    /\ upc' = "pick" /\ Close
    /\ UNCHANGED <<serverVars, due, cmd, ind, i, ret, known, answerVars>>

\* MUTANT of RefreshFails: the list is asked for until it comes.
RefreshAgain ==
    /\ upc = "refresh" /\ stage = "failed"
    /\ Talk(Master)
    /\ UNCHANGED <<serverVars, walkVars, answerVars>>

\* The old list, or the empty one, stays for the next 20 seconds.
RefreshFails ==
    /\ upc = "refresh" /\ stage = "failed"
    /\ upc' = "pick" /\ Close
    /\ UNCHANGED <<serverVars, cache, due, cmd, ind, i, ret, known, answerVars>>

\* ind = random(), ret = -1
Pick ==
    /\ upc = "pick"
    /\ ind' \in IF cache = <<>> THEN {0} ELSE 0 .. Len(cache) - 1
    /\ i' = 0 /\ ret' = "failed"
    /\ upc' = IF cache = <<>> THEN "end" ELSE "walk"
    /\ owed' = {s \in Servers : Up(s)}
    /\ UNCHANGED <<serverVars, exchangeVars, cache, due, cmd, known, excused>>

\* MUTANT of Try: every try picks its server anew.
TryAny ==
    /\ upc = "walk" /\ stage = "none"
    /\ \E s \in Range(cache) : Talk(s)
    /\ UNCHANGED <<serverVars, walkVars, answerVars>>

Try ==
    /\ upc = "walk" /\ stage = "none"
    /\ Talk(cache[((i + ind) % Len(cache)) + 1])
    /\ UNCHANGED <<serverVars, walkVars, answerVars>>

\* Any answer ends the walk, a "404 Not Found" as well.
TryAnswered ==
    /\ upc = "walk" /\ stage = "ok"
    /\ ret' = reply.kind
    /\ upc' = "end" /\ Close
    /\ UNCHANGED <<serverVars, cache, due, cmd, ind, i, known, answerVars>>

\* MUTANT of TryFails: the walk does not stop behind the last server.
TryFailsOn ==
    /\ upc = "walk" /\ stage = "failed"
    /\ i' = i + 1 /\ Close
    /\ UNCHANGED <<serverVars, cache, due, upc, cmd, ind, ret, known, answerVars>>

TryFails ==
    /\ upc = "walk" /\ stage = "failed"
    /\ i' = i + 1
    /\ upc' = IF i + 1 < Len(cache) THEN "walk" ELSE "end"
    /\ Close
    /\ UNCHANGED <<serverVars, cache, due, cmd, ind, ret, known, answerVars>>

\* proc_cmdline shows the result and waits for the next command.
Show ==
    /\ upc = "end"
    /\ upc' = "idle" /\ cmd' = "query" /\ ind' = 0 /\ i' = 0 /\ ret' = "failed"
    /\ known' = FALSE /\ owed' = {} /\ excused' = FALSE
    /\ UNCHANGED <<serverVars, exchangeVars, cache, due>>

TwentySeconds ==
    /\ upc = "idle" /\ ~due
    /\ due' = TRUE
    /\ UNCHANGED <<serverVars, exchangeVars, cache, upc, cmd, ind, i, ret, known, answerVars>>

-----------------------------------------------------------------------------
Client ==
    \/ Connect \/ ConnectFails \/ Send \/ Receive \/ Broken \/ TimeOut
    \/ Refresh \/ RefreshFails \/ Pick \/ Try \/ TryAnswered \/ TryFails \/ Show

Next ==
    \/ \E s \in Slaves : \/ StartSlave(s) \/ Copy(s) \/ CopyDone(s) \/ CopyFails(s)
                         \/ Heartbeat(s) \/ StopSlave(s) \/ CrashSlave(s) \/ CheckTimeout(s)
    \/ CrashMaster \/ StartMaster \/ Report
    \/ Serve \/ WorkerSilent
    \/ \E c \in {"query", "retrieve"} : Command(c)
    \/ Client
    \/ TwentySeconds

(* The uishell goes on with a command, a server that has a request answers it, *)
(* of the heartbeats a slave that serves keeps sending one gets through again  *)
(* and again.  Nobody has to start, stop or ask.                               *)
Fairness ==
    /\ WF_vars(Client) /\ WF_vars(Serve \/ WorkerSilent)
    /\ \A s \in Slaves : WF_vars(Heartbeat(s))

Spec == Init /\ [][Next]_vars /\ Fairness

-----------------------------------------------------------------------------
(* A command fails only when no server of the cache could have answered it: a *)
(* server that served from the start of the walk to its end was asked, and    *)
(* answered, unless it was too slow.                                          *)
FailsOnlyIfAllFail ==
    upc = "end" /\ ret = "failed" => Range(cache) \cap owed = {}

(* As long as the master has not lost its index, the uishell is told of a file *)
(* that was indexed when the command was given that it does not exist only by  *)
(* a slave that met a fault, or for want of an answer of the worker: neither a *)
(* slave that has just started tells it so, nor one that crashed and came back *)
(* at the address in the cache, nor one that copied during the report.         *)
AbsentOnlyByFault ==
    upc = "end" /\ ret = "absent" => lost \/ ~known \/ excused

(* Every command comes to its end, whatever the servers do.                   *)
CommandEnds == upc # "idle" ~> upc = "idle"

(* The master's list heals: a slave that serves while the master serves gets *)
(* back into the list, after the master lost it in a crash as well as every   *)
(* time its registration expired.                                             *)
SlavesComeBack ==
    \A s \in Slaves : <>[](Up(s) /\ Up(Master)) => []<>Contains(slist, s)
=============================================================================
