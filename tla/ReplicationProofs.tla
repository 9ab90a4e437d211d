------------------------- MODULE ReplicationProofs -------------------------
(***************************************************************************)
(* Proofs about Replication, for every number of files, words, reports,    *)
(* slaves and table groups.                                                *)
(***************************************************************************)
EXTENDS Replication, TLAPS

\* The data of a group is group data.
LEMMA GroupDataType ==
    ASSUME TypeOK, NEW g
    PROVE  GroupData(g) \in GroupDatas
BY ConstAssumption DEF TypeOK, GroupData, GroupDatas, Lookups, Nodes

\* The history keeps its type.
LEMMA HistoryType ==
    ASSUME TypeOK, Remember
    PROVE  harmed' \in SUBSET Slaves /\ raced' \in SUBSET Files
BY ConstAssumption DEF TypeOK, Remember

\* Type correctness: every variable keeps its type.
THEOREM TypeCorrect == Spec => []TypeOK
<1> USE ConstAssumption DEF Nodes, NumGroups
<1>1. Init => TypeOK
  BY DEF Init, TypeOK, Lookups, NoFiles, GroupDatas, NoReply
<1>2. TypeOK /\ [Next]_vars => TypeOK'
  <2> SUFFICES ASSUME TypeOK, [Next]_vars PROVE TypeOK'
    OBVIOUS
  <2>0. Remember => harmed' \in SUBSET Slaves /\ raced' \in SUBSET Files
    BY HistoryType
  <2> USE <2>0 DEF TypeOK
  <2>1. ASSUME NEW r \in Reports, Report(r) PROVE TypeOK'
    BY <2>1 DEF Report, GoTo, tableVars, slaveVars
  <2>2. ASSUME NEW n \in Nodes, NEW r \in Reports, SetFileInfo(n, r) PROVE TypeOK'
    BY <2>2 DEF SetFileInfo, GoTo, slaveVars, Lookups
  <2>3. ASSUME NEW n \in Nodes, NEW r \in Reports, NEW w \in Words,
               UpdateWord(n, r, w) PROVE TypeOK'
    BY <2>3 DEF UpdateWord, slaveVars, Postings
  <2>4. ASSUME NEW n \in Nodes, NEW r \in Reports, GetSlavesList(n, r) PROVE TypeOK'
    BY <2>4 DEF GetSlavesList, GoTo, tableVars, slaveVars
  <2>5. ASSUME NEW r \in Reports, NEW s \in Slaves, Forward(r, s) PROVE TypeOK'
    <3>1. targets' \in [Reports -> SUBSET Slaves]
      BY <2>5 DEF Forward
    <3>2. hpc' \in [Nodes -> [Reports -> {"none", "queued", "words", "forward", "done"}]]
      <4>1. CASE GoTo(s, r, "queued")
        BY <4>1 DEF GoTo
      <4>2. CASE UNCHANGED hpc
        BY <4>2
      <4>3. QED
        BY <2>5, <4>1, <4>2 DEF Forward
    <3>3. QED
      BY <2>5, <3>1, <3>2 DEF Forward, tableVars, slaveVars
  <2>6. ASSUME NEW n \in Nodes, NEW r \in Reports, EndReport(n, r) PROVE TypeOK'
    BY <2>6 DEF EndReport, GoTo, tableVars, slaveVars
  <2>7. ASSUME NEW s \in Slaves, Start(s) PROVE TypeOK'
    BY <2>7 DEF Start, tableVars, handlerVars
  <2>8. ASSUME NEW s \in Slaves, Register(s) PROVE TypeOK'
    BY <2>8 DEF Register, tableVars, handlerVars
  <2>9. ASSUME NEW s \in Slaves, FetchGroup(s) PROVE TypeOK'
    BY <2>9, GroupDataType DEF FetchGroup, tableVars, handlerVars
  <2>10. ASSUME NEW s \in Slaves, BreakReply(s) PROVE TypeOK'
    BY <2>10, GroupDataType DEF BreakReply, tableVars, handlerVars
  <2>11. ASSUME NEW s \in Slaves, RetryGroup(s) PROVE TypeOK'
    <3>1. NoReply \in GroupDatas
      BY DEF NoReply, GroupDatas, NoFiles, Lookups
    <3>2. QED
      BY <2>11, <3>1 DEF RetryGroup, tableVars, handlerVars
  <2>12. ASSUME NEW s \in Slaves, StoreGroup(s) PROVE TypeOK'
    <3>1. reply[s].lookup \in Lookups /\ reply[s].postings \subseteq Postings
      BY DEF GroupDatas
    <3>2. lookup' \in [Nodes -> Lookups]
      BY <2>12, <3>1 DEF StoreGroup, Lookups
    <3>3. postings' \in [Nodes -> SUBSET Postings]
      BY <2>12, <3>1 DEF StoreGroup
    <3>4. group' \in [Slaves -> Nat \ {0}]
      BY <2>12 DEF StoreGroup
    <3>5. QED
      BY <2>12, <3>2, <3>3, <3>4 DEF StoreGroup, handlerVars, GroupDatas, Lookups, NoReply, NoFiles
  <2>13. ASSUME NEW s \in Slaves, Lose(s), targets' = targets, slist' \in SUBSET Slaves,
                Remember
         PROVE TypeOK'
    BY <2>13 DEF Lose, GroupDatas, Lookups, NoReply, NoFiles
  <2>14. ASSUME NEW s \in Slaves, Crash(s) PROVE TypeOK'
    BY <2>13, <2>14 DEF Crash
  <2>15. ASSUME NEW s \in Slaves, Heartbeat(s) PROVE TypeOK'
    BY <2>15 DEF Heartbeat, tableVars, handlerVars, slaveVars
  <2>16. ASSUME NEW s \in Slaves, Unregister(s) PROVE TypeOK'
    BY <2>13, <2>16 DEF Unregister
  <2>17. ASSUME NEW s \in Slaves, CheckTimeout(s) PROVE TypeOK'
    BY <2>17 DEF CheckTimeout, tableVars, handlerVars, slaveVars
  <2>18. CASE Next
    BY <2>1, <2>2, <2>3, <2>4, <2>5, <2>6, <2>7, <2>8, <2>9, <2>10, <2>11, <2>12,
       <2>14, <2>15, <2>16, <2>17, <2>18 DEF Next, Handle, StartUp
  <2>19. CASE UNCHANGED vars
    BY <2>19 DEF vars, tableVars, handlerVars, slaveVars, history
  <2>20. QED
    BY <2>18, <2>19
<1>3. QED
  BY <1>1, <1>2, PTL DEF Spec

----------------------------------------------------------------------------
(* A backup is never ahead of its master, whatever the faults.             *)

\* What the master's handler of a report has done when it is past each point.
MasterApplied ==
    \A r \in Reports : hpc[Master][r] \in {"words", "forward", "done"} =>
        /\ lookup[Master][FileOf[r]] # NoWorker
        /\ \A w \in WordsOf[FileOf[r]] :
              w \in left[Master][r] \/ <<w, FileOf[r]>> \in postings[Master]
        /\ hpc[Master][r] # "words" => left[Master][r] = {}

\* A slave only handles reports the master has applied, and only their words.
ForwardedApplied ==
    \A s \in Slaves, r \in Reports :
        /\ hpc[s][r] # "none" => hpc[Master][r] \in {"forward", "done"}
        /\ left[s][r] \subseteq WordsOf[FileOf[r]]

AheadInv == MasterApplied /\ ForwardedApplied /\ BackupNeverAhead

\* The master's tables only gain entries.
MasterGrows ==
    /\ postings[Master] \subseteq postings'[Master]
    /\ \A f \in Files : lookup[Master][f] # NoWorker => lookup'[Master][f] # NoWorker
\* The actions that leave both tables of every node alone.
LEMMA QuietActions ==
    /\ \A r \in Reports : Report(r) => UNCHANGED tableVars
    /\ \A n \in Nodes, r \in Reports :
          (GetSlavesList(n, r) \/ EndReport(n, r)) => UNCHANGED tableVars
    /\ \A r \in Reports, s \in Slaves : Forward(r, s) => UNCHANGED tableVars
    /\ \A s \in Slaves :
          (\/ Start(s) \/ Register(s) \/ FetchGroup(s) \/ BreakReply(s)
           \/ RetryGroup(s) \/ Heartbeat(s) \/ CheckTimeout(s)) => UNCHANGED tableVars
BY DEF Report, GetSlavesList, EndReport, Forward, Start, Register, FetchGroup,
       BreakReply, RetryGroup, Heartbeat, CheckTimeout

\* No step takes an entry out of the master's tables.
LEMMA MasterOnlyGrows == TypeOK /\ [Next]_vars => MasterGrows
<1> SUFFICES ASSUME TypeOK, [Next]_vars PROVE MasterGrows
  OBVIOUS
<1> USE ConstAssumption DEF Nodes, MasterGrows
<1>1. CASE UNCHANGED tableVars
  BY <1>1 DEF tableVars
<1>2. ASSUME NEW n \in Nodes, NEW r \in Reports, SetFileInfo(n, r) PROVE MasterGrows
  BY <1>2 DEF SetFileInfo, TypeOK, Lookups
<1>3. ASSUME NEW n \in Nodes, NEW r \in Reports, NEW w \in Words, UpdateWord(n, r, w)
      PROVE MasterGrows
  BY <1>3 DEF UpdateWord, TypeOK
<1>4. ASSUME NEW s \in Slaves, StoreGroup(s) PROVE MasterGrows
  BY <1>4 DEF StoreGroup, TypeOK
<1>5. ASSUME NEW s \in Slaves, Lose(s) PROVE MasterGrows
  BY <1>5 DEF Lose, TypeOK
<1>6. CASE UNCHANGED vars
  BY <1>1, <1>6 DEF vars, slaveVars
<1>7. CASE Next
  BY <1>1, <1>2, <1>3, <1>4, <1>5, <1>7, QuietActions
     DEF Next, Handle, StartUp, Crash, Unregister
<1>8. QED
  BY <1>6, <1>7

\* The handler of the master keeps MasterApplied; nothing else touches it.
LEMMA MasterAppliedStep == TypeOK /\ MasterApplied /\ [Next]_vars => MasterApplied'
<1> SUFFICES ASSUME TypeOK, MasterApplied, [Next]_vars PROVE MasterApplied'
  OBVIOUS
<1> USE ConstAssumption, MasterOnlyGrows DEF Nodes, MasterGrows
<1>1. CASE hpc'[Master] = hpc[Master] /\ left'[Master] = left[Master]
  BY <1>1 DEF MasterApplied
<1>2. ASSUME NEW r \in Reports, Report(r) PROVE MasterApplied'
  BY <1>2 DEF Report, GoTo, TypeOK, MasterApplied
<1>3. ASSUME NEW r \in Reports, SetFileInfo(Master, r) PROVE MasterApplied'
  <2>1. lookup'[Master][FileOf[r]] # NoWorker /\ left'[Master][r] = WordsOf[FileOf[r]]
    BY <1>3 DEF SetFileInfo, TypeOK, Lookups
  <2>2. /\ hpc'[Master][r] = "words"
        /\ \A q \in Reports \ {r} : /\ hpc'[Master][q] = hpc[Master][q]
                                    /\ left'[Master][q] = left[Master][q]
    BY <1>3 DEF SetFileInfo, GoTo, TypeOK
  <2>3. QED
    BY <2>1, <2>2 DEF MasterApplied
<1>4. ASSUME NEW r \in Reports, NEW w \in Words, UpdateWord(Master, r, w)
      PROVE MasterApplied'
  BY <1>4 DEF UpdateWord, TypeOK, MasterApplied
<1>5. ASSUME NEW r \in Reports, GetSlavesList(Master, r) PROVE MasterApplied'
  BY <1>5 DEF GetSlavesList, GoTo, TypeOK, MasterApplied
<1>6. ASSUME NEW r \in Reports, EndReport(Master, r) PROVE MasterApplied'
  BY <1>6 DEF EndReport, GoTo, TypeOK, MasterApplied
<1>7. ASSUME NEW s \in Slaves, NEW r \in Reports,
             SetFileInfo(s, r) \/ GetSlavesList(s, r) \/ EndReport(s, r) \/ Forward(r, s)
      PROVE hpc'[Master] = hpc[Master] /\ left'[Master] = left[Master]
  BY <1>7 DEF SetFileInfo, GetSlavesList, EndReport, Forward, GoTo, TypeOK
<1>8. ASSUME NEW s \in Slaves, NEW r \in Reports, NEW w \in Words, UpdateWord(s, r, w)
      PROVE hpc'[Master] = hpc[Master] /\ left'[Master] = left[Master]
  BY <1>8 DEF UpdateWord, TypeOK
<1>9. ASSUME NEW s \in Slaves, \/ StartUp(s) \/ Start(s) \/ Heartbeat(s) \/ CheckTimeout(s)
      PROVE hpc'[Master] = hpc[Master] /\ left'[Master] = left[Master]
  BY <1>9 DEF StartUp, Start, Register, FetchGroup, BreakReply, RetryGroup, StoreGroup,
              Heartbeat, CheckTimeout, handlerVars
<1>10. ASSUME NEW s \in Slaves, Crash(s) \/ Unregister(s)
       PROVE hpc'[Master] = hpc[Master] /\ left'[Master] = left[Master]
  BY <1>10 DEF Crash, Unregister, Lose, TypeOK
<1>11. CASE UNCHANGED vars
  BY <1>1, <1>11 DEF vars, handlerVars
<1>12. CASE Next
  BY <1>1, <1>2, <1>3, <1>4, <1>5, <1>6, <1>7, <1>8, <1>9, <1>10, <1>12
     DEF Next, Handle
<1>13. QED
  BY <1>11, <1>12
\* The master's handler of a report never goes back.
LEMMA HandlerAdvances ==
    TypeOK /\ [Next]_vars =>
        \A r \in Reports : hpc[Master][r] \in {"forward", "done"}
                            => hpc'[Master][r] \in {"forward", "done"}
<1> SUFFICES ASSUME TypeOK, [Next]_vars
             PROVE  \A r \in Reports : hpc[Master][r] \in {"forward", "done"}
                                         => hpc'[Master][r] \in {"forward", "done"}
  OBVIOUS
<1> USE ConstAssumption DEF Nodes
<1>1. CASE UNCHANGED hpc
  BY <1>1
<1>2. ASSUME NEW n \in Nodes, NEW r \in Reports, SetFileInfo(n, r) \/ EndReport(n, r)
      PROVE  \A q \in Reports : hpc[Master][q] \in {"forward", "done"}
                                  => hpc'[Master][q] \in {"forward", "done"}
  BY <1>2 DEF SetFileInfo, EndReport, GoTo, TypeOK
<1>3. ASSUME NEW n \in Nodes, NEW r \in Reports, GetSlavesList(n, r)
      PROVE  \A q \in Reports : hpc[Master][q] \in {"forward", "done"}
                                  => hpc'[Master][q] \in {"forward", "done"}
  BY <1>3 DEF GetSlavesList, GoTo, TypeOK
<1>4. ASSUME NEW r \in Reports, NEW s \in Slaves, Forward(r, s)
      PROVE  hpc'[Master] = hpc[Master]
  BY <1>4 DEF Forward, GoTo, TypeOK
<1>5. ASSUME NEW r \in Reports, Report(r)
      PROVE  \A q \in Reports : hpc[Master][q] \in {"forward", "done"}
                                  => hpc'[Master][q] \in {"forward", "done"}
  BY <1>5 DEF Report, GoTo, TypeOK
<1>6. ASSUME NEW s \in Slaves, Lose(s) PROVE hpc'[Master] = hpc[Master]
  BY <1>6 DEF Lose, TypeOK
<1>7. ASSUME NEW s \in Slaves, \/ StartUp(s) \/ Start(s) \/ Heartbeat(s) \/ CheckTimeout(s)
      PROVE  UNCHANGED hpc
  BY <1>7 DEF StartUp, Start, Register, FetchGroup, BreakReply, RetryGroup, StoreGroup,
              Heartbeat, CheckTimeout, handlerVars
<1>8. ASSUME NEW n \in Nodes, NEW r \in Reports, NEW w \in Words, UpdateWord(n, r, w)
      PROVE  UNCHANGED hpc
  BY <1>8 DEF UpdateWord
<1>9. CASE UNCHANGED vars
  BY <1>1, <1>9 DEF vars, handlerVars
<1>10. CASE Next
  BY <1>1, <1>2, <1>3, <1>4, <1>5, <1>6, <1>7, <1>8, <1>10
     DEF Next, Handle, Crash, Unregister
<1>11. QED
  BY <1>9, <1>10

\* A slave gets a report from the master's handler only, with its words.
LEMMA ForwardedAppliedStep ==
    TypeOK /\ ForwardedApplied /\ [Next]_vars => ForwardedApplied'
<1> SUFFICES ASSUME TypeOK, ForwardedApplied, [Next]_vars,
                    NEW s \in Slaves, NEW r \in Reports
             PROVE  /\ hpc'[s][r] # "none" => hpc'[Master][r] \in {"forward", "done"}
                    /\ left'[s][r] \subseteq WordsOf[FileOf[r]]
  BY DEF ForwardedApplied
<1> DEFINE Goal == /\ hpc'[s][r] # "none" => hpc'[Master][r] \in {"forward", "done"}
                   /\ left'[s][r] \subseteq WordsOf[FileOf[r]]
<1> USE ConstAssumption, HandlerAdvances DEF Nodes
<1>0. /\ hpc[s][r] # "none" => hpc'[Master][r] \in {"forward", "done"}
      /\ left[s][r] \subseteq WordsOf[FileOf[r]]
  BY DEF ForwardedApplied
<1>1. CASE UNCHANGED <<hpc, left>>
  BY <1>0, <1>1
<1>2. ASSUME NEW n \in Nodes, NEW q \in Reports, SetFileInfo(n, q) PROVE Goal
  BY <1>0, <1>2 DEF SetFileInfo, GoTo, TypeOK
<1>3. ASSUME NEW n \in Nodes, NEW q \in Reports, NEW w \in Words, UpdateWord(n, q, w)
      PROVE Goal
  BY <1>0, <1>3 DEF UpdateWord, TypeOK
<1>4. ASSUME NEW n \in Nodes, NEW q \in Reports, GetSlavesList(n, q) \/ EndReport(n, q)
      PROVE Goal
  <2>1. hpc[n][q] # "none" /\ left' = left
    BY <1>4 DEF GetSlavesList, EndReport
  <2>2. PICK where : hpc' = [hpc EXCEPT ![n][q] = where]
    BY <1>4 DEF GetSlavesList, EndReport, GoTo
  <2>3. hpc'[s][r] # "none" => hpc[s][r] # "none"
    BY <2>1, <2>2 DEF TypeOK
  <2>4. QED
    BY <1>0, <2>1, <2>3
<1>5. ASSUME NEW q \in Reports, NEW t \in Slaves, Forward(q, t) PROVE Goal
  <2>1. hpc[Master][q] = "forward" /\ left' = left
    BY <1>5 DEF Forward
  <2>2. hpc' = hpc \/ hpc' = [hpc EXCEPT ![t][q] = "queued"]
    BY <1>5 DEF Forward, GoTo
  <2>3. hpc'[s][r] # "none" => hpc[s][r] # "none" \/ r = q
    <3>1. CASE hpc' = hpc
      BY <3>1
    <3>2. CASE hpc' = [hpc EXCEPT ![t][q] = "queued"]
      BY <3>2 DEF TypeOK
    <3>3. QED
      BY <2>2, <3>1, <3>2
  <2>4. hpc'[Master][q] \in {"forward", "done"}
    BY <2>1
  <2>5. QED
    BY <1>0, <2>1, <2>3, <2>4
<1>6. ASSUME NEW q \in Reports, Report(q) PROVE Goal
  BY <1>0, <1>6 DEF Report, GoTo, TypeOK
<1>7. ASSUME NEW t \in Slaves, Lose(t) PROVE Goal
  BY <1>0, <1>7 DEF Lose, TypeOK
<1>8. ASSUME NEW t \in Slaves, \/ StartUp(t) \/ Start(t) \/ Heartbeat(t) \/ CheckTimeout(t)
      PROVE  UNCHANGED <<hpc, left>>
  BY <1>8 DEF StartUp, Start, Register, FetchGroup, BreakReply, RetryGroup, StoreGroup,
              Heartbeat, CheckTimeout, handlerVars
<1>9. CASE UNCHANGED vars
  BY <1>1, <1>9 DEF vars, handlerVars
<1>10. CASE Next
  BY <1>1, <1>2, <1>3, <1>4, <1>5, <1>6, <1>7, <1>8, <1>10
     DEF Next, Handle, Crash, Unregister
<1>11. QED
  BY <1>9, <1>10
\* What a slave may add to its tables, the master has: the data of a group, or
\* what a report it was forwarded carries.
LEMMA BackupNeverAheadStep ==
    TypeOK /\ AheadInv /\ [Next]_vars => BackupNeverAhead'
<1> SUFFICES ASSUME TypeOK, AheadInv, [Next]_vars, NEW s \in Slaves
             PROVE  /\ postings'[s] \cup reply'[s].postings \subseteq postings'[Master]
                    /\ \A f \in Files :
                          (lookup'[s][f] # NoWorker \/ reply'[s].lookup[f] # NoWorker)
                              => lookup'[Master][f] # NoWorker
  BY DEF BackupNeverAhead
<1> DEFINE Goal == /\ postings'[s] \cup reply'[s].postings \subseteq postings'[Master]
                   /\ \A f \in Files :
                         (lookup'[s][f] # NoWorker \/ reply'[s].lookup[f] # NoWorker)
                             => lookup'[Master][f] # NoWorker
<1>0. /\ postings[s] \cup reply[s].postings \subseteq postings'[Master]
      /\ \A f \in Files :
            (lookup[s][f] # NoWorker \/ reply[s].lookup[f] # NoWorker)
                => lookup'[Master][f] # NoWorker
  BY MasterOnlyGrows DEF MasterGrows, AheadInv, BackupNeverAhead
<1>a. NoReply.postings = {} /\ \A f \in Files : NoReply.lookup[f] = NoWorker
  BY DEF NoReply, NoFiles
<1>b. \A g : /\ GroupData(g).postings \subseteq postings'[Master]
             /\ \A f \in Files : GroupData(g).lookup[f] # NoWorker
                                  => lookup'[Master][f] # NoWorker
  BY MasterOnlyGrows DEF MasterGrows, GroupData
<1> USE ConstAssumption DEF Nodes
<1>1. CASE UNCHANGED <<lookup, postings, reply>>
  BY <1>0, <1>1
<1>2. ASSUME NEW n \in Nodes, NEW r \in Reports, SetFileInfo(n, r) PROVE Goal
  <2>1. postings'[s] = postings[s] /\ reply'[s] = reply[s]
    BY <1>2 DEF SetFileInfo, slaveVars
  <2>2. CASE n # s
    <3>1. lookup'[s] = lookup[s]
      BY <1>2, <2>2 DEF SetFileInfo, TypeOK
    <3>2. QED
      BY <1>0, <2>1, <3>1
  <2>3. CASE n = s
    <3>1. lookup[Master][FileOf[r]] # NoWorker
      BY <1>2, <2>3 DEF SetFileInfo, AheadInv, ForwardedApplied, MasterApplied
    <3>2. \A f \in Files \ {FileOf[r]} : lookup'[s][f] = lookup[s][f]
      BY <1>2, <2>3 DEF SetFileInfo, TypeOK, Lookups
    <3>3. lookup'[Master][FileOf[r]] # NoWorker
      BY <3>1, MasterOnlyGrows DEF MasterGrows
    <3>4. QED
      BY <1>0, <2>1, <3>2, <3>3
  <2>4. QED
    BY <2>2, <2>3
<1>3. ASSUME NEW n \in Nodes, NEW r \in Reports, NEW w \in Words, UpdateWord(n, r, w)
      PROVE Goal
  <2>1. lookup'[s] = lookup[s] /\ reply'[s] = reply[s]
    BY <1>3 DEF UpdateWord, slaveVars
  <2>2. CASE n # s
    <3>1. postings'[s] = postings[s]
      BY <1>3, <2>2 DEF UpdateWord, TypeOK
    <3>2. QED
      BY <1>0, <2>1, <3>1
  <2>3. CASE n = s
    <3>1. hpc[Master][r] \in {"forward", "done"} /\ w \in WordsOf[FileOf[r]]
      BY <1>3, <2>3 DEF UpdateWord, AheadInv, ForwardedApplied
    <3>2. <<w, FileOf[r]>> \in postings[Master]
      BY <3>1 DEF AheadInv, MasterApplied
    <3>3. postings'[s] = postings[s] \cup {<<w, FileOf[r]>>}
      BY <1>3, <2>3 DEF UpdateWord, TypeOK
    <3>4. <<w, FileOf[r]>> \in postings'[Master]
      BY <3>2, MasterOnlyGrows DEF MasterGrows
    <3>5. QED
      BY <1>0, <2>1, <3>3, <3>4
  <2>4. QED
    BY <2>2, <2>3
<1>4. ASSUME NEW t \in Slaves, FetchGroup(t) PROVE Goal
  <2>1. UNCHANGED tableVars /\ (reply'[s] = reply[s] \/ reply'[s] = GroupData(group[t]))
    BY <1>4 DEF FetchGroup, TypeOK
  <2>2. QED
    BY <1>0, <1>b, <2>1 DEF tableVars
<1>5. ASSUME NEW t \in Slaves, RetryGroup(t) PROVE Goal
  <2>1. PICK part \in GroupDatas :
           /\ part.postings \subseteq GroupData(group[t]).postings
           /\ \A f \in Files : part.lookup[f] \in {NoWorker, GroupData(group[t]).lookup[f]}
           /\ reply' = [reply EXCEPT ![t] = part]
    BY <1>5 DEF RetryGroup
  <2>2. UNCHANGED tableVars /\ (reply'[s] = reply[s] \/ reply'[s] = part)
    BY <1>5, <2>1 DEF RetryGroup, TypeOK
  <2>3. QED
    BY <1>0, <1>b, <2>1, <2>2 DEF tableVars
<1>6. ASSUME NEW t \in Slaves, StoreGroup(t) PROVE Goal
  <2>1. CASE t # s
    <3>1. lookup'[s] = lookup[s] /\ postings'[s] = postings[s] /\ reply'[s] = reply[s]
      BY <1>6, <2>1 DEF StoreGroup, TypeOK
    <3>2. QED
      BY <1>0, <3>1
  <2>2. CASE t = s
    <3>1. postings'[s] = postings[s] \cup reply[s].postings /\ reply'[s] = NoReply
      BY <1>6, <2>2 DEF StoreGroup, TypeOK
    <3>2. \A f \in Files : lookup'[s][f] \in {lookup[s][f], reply[s].lookup[f]}
      BY <1>6, <2>2 DEF StoreGroup, TypeOK
    <3>3. QED
      BY <1>0, <1>a, <3>1, <3>2
  <2>3. QED
    BY <2>1, <2>2
<1>7. ASSUME NEW t \in Slaves, Lose(t) PROVE Goal
  <2>1. CASE t # s
    <3>1. lookup'[s] = lookup[s] /\ postings'[s] = postings[s] /\ reply'[s] = reply[s]
      BY <1>7, <2>1 DEF Lose, TypeOK
    <3>2. QED
      BY <1>0, <3>1
  <2>2. CASE t = s
    <3>1. lookup'[s] = NoFiles /\ postings'[s] = {} /\ reply'[s] = NoReply
      BY <1>7, <2>2 DEF Lose, TypeOK
    <3>2. QED
      BY <1>a, <3>1 DEF NoFiles
  <2>3. QED
    BY <2>1, <2>2
<1>8. CASE UNCHANGED vars
  BY <1>1, <1>8 DEF vars, tableVars, slaveVars
<1>9. ASSUME NEW n \in Nodes, NEW r \in Reports,
             Report(r) \/ GetSlavesList(n, r) \/ EndReport(n, r)
      PROVE  UNCHANGED <<lookup, postings, reply>>
  BY <1>9 DEF Report, GetSlavesList, EndReport, tableVars, slaveVars
<1>10. ASSUME NEW r \in Reports, NEW t \in Slaves, Forward(r, t)
       PROVE  UNCHANGED <<lookup, postings, reply>>
  BY <1>10 DEF Forward, tableVars, slaveVars
<1>11. ASSUME NEW t \in Slaves, \/ Start(t) \/ Register(t) \/ BreakReply(t)
                                \/ Heartbeat(t) \/ CheckTimeout(t)
       PROVE  UNCHANGED <<lookup, postings, reply>>
  BY <1>11 DEF Start, Register, BreakReply, Heartbeat, CheckTimeout, tableVars, slaveVars
<1>12. CASE Next
  BY <1>1, <1>2, <1>3, <1>4, <1>5, <1>6, <1>7, <1>9, <1>10, <1>11, <1>12
     DEF Next, Handle, StartUp, Crash, Unregister
<1>13. QED
  BY <1>8, <1>12

\* What makes a backup stay behind holds in every reachable state.
LEMMA AheadAlways == Spec => []AheadInv
<1>1. Init => AheadInv
  BY ConstAssumption
     DEF Init, AheadInv, MasterApplied, ForwardedApplied, BackupNeverAhead, Nodes,
         NoFiles, NoReply
<1>2. TypeOK /\ AheadInv /\ [Next]_vars => AheadInv'
  BY MasterAppliedStep, ForwardedAppliedStep, BackupNeverAheadStep DEF AheadInv
<1>3. QED
  BY <1>1, <1>2, TypeCorrect, PTL DEF Spec

\* A backup never knows an entry its master does not know, whatever is lost,
\* late or broken.
THEOREM NeverAhead == Spec => []BackupNeverAhead
<1>1. AheadInv => BackupNeverAhead
  BY DEF AheadInv
<1>2. QED
  BY <1>1, AheadAlways, PTL

\* What a slave holds, seen as one function.
Copies == [s \in Slaves |-> EntriesOf(s)]

\* Entries of a node follow from its two tables.
LEMMA EntriesKept ==
    ASSUME NEW n, UNCHANGED <<lookup[n], postings[n]>>
    PROVE  UNCHANGED EntriesOf(n)
BY DEF EntriesOf

\* A step that changes the tables of one slave, which takes up a part of what the
\* master holds.
LEMMA FollowStep ==
    ASSUME TypeOK, NEW s \in Slaves, NEW part \in SUBSET EntriesOf(Master),
           \A n \in Nodes \ {s} : UNCHANGED <<lookup[n], postings[n]>>,
           EntriesOf(s)' = EntriesOf(s) \cup part
    PROVE  HeldCopies!Next
<1>1. Copies' = [Copies EXCEPT ![s] = @ \cup part]
  BY EntriesKept DEF Copies, Nodes
<1>2. UNCHANGED EntriesOf(Master)
  BY EntriesKept, ConstAssumption DEF Nodes
<1>3. QED
  BY <1>1, <1>2 DEF HeldCopies!Next, HeldCopies!Follow, Copies

\* A step that changes the tables of the master, which learns one entry.
LEMMA LearnStep ==
    ASSUME TypeOK, NEW e \in {<<f>> : f \in Files} \cup Postings,
           \A s \in Slaves : UNCHANGED <<lookup[s], postings[s]>>,
           EntriesOf(Master)' = EntriesOf(Master) \cup {e}
    PROVE  HeldCopies!Next
<1>1. UNCHANGED Copies
  BY EntriesKept DEF Copies
<1>2. QED
  BY <1>1 DEF HeldCopies!Next, HeldCopies!Learn, Copies

\* The end of a slave's process.
LEMMA ForgetStep ==
    ASSUME TypeOK, NEW s \in Slaves, Lose(s)
    PROVE  HeldCopies!Next
<1>1. \A n \in Nodes \ {s} : UNCHANGED <<lookup[n], postings[n]>>
  BY DEF Lose, TypeOK
<1>2. EntriesOf(s)' = {}
  BY DEF Lose, TypeOK, EntriesOf, NoFiles, Nodes
<1>3. Copies' = [Copies EXCEPT ![s] = {}]
  BY <1>1, <1>2, EntriesKept DEF Copies, Nodes
<1>4. UNCHANGED EntriesOf(Master)
  BY <1>1, EntriesKept, ConstAssumption DEF Nodes
<1>5. QED
  BY <1>3, <1>4 DEF HeldCopies!Next, HeldCopies!Forget, Copies

\* set_file_info adds the file to what a node holds.
LEMMA SetFileInfoEntries ==
    ASSUME TypeOK, NEW n \in Nodes, NEW r \in Reports, SetFileInfo(n, r)
    PROVE  /\ \A m \in Nodes \ {n} : UNCHANGED <<lookup[m], postings[m]>>
           /\ EntriesOf(n)' = EntriesOf(n) \cup {<<FileOf[r]>>}
<1>1. /\ \A m \in Nodes \ {n} : UNCHANGED <<lookup[m], postings[m]>>
      /\ postings'[n] = postings[n]
  BY DEF SetFileInfo, TypeOK
<1>2. \A f \in Files : lookup'[n][f] # NoWorker <=> lookup[n][f] # NoWorker \/ f = FileOf[r]
  BY ConstAssumption DEF SetFileInfo, TypeOK, Lookups
<1>3. {g \in Files : lookup'[n][g] # NoWorker}
        = {g \in Files : lookup[n][g] # NoWorker} \cup {FileOf[r]}
  BY <1>2, ConstAssumption
<1>4. QED
  BY <1>1, <1>3 DEF EntriesOf

\* invert_table::update adds the posting.
LEMMA UpdateWordEntries ==
    ASSUME TypeOK, NEW n \in Nodes, NEW r \in Reports, NEW w \in Words, UpdateWord(n, r, w)
    PROVE  /\ \A m \in Nodes \ {n} : UNCHANGED <<lookup[m], postings[m]>>
           /\ EntriesOf(n)' = EntriesOf(n) \cup {<<w, FileOf[r]>>}
<1>1. /\ \A m \in Nodes \ {n} : UNCHANGED <<lookup[m], postings[m]>>
      /\ lookup'[n] = lookup[n]
      /\ postings'[n] = postings[n] \cup {<<w, FileOf[r]>>}
  BY DEF UpdateWord, TypeOK
<1>2. QED
  BY <1>1 DEF EntriesOf

\* A stored group adds what it carries, none of which is new to the master.
LEMMA StoreGroupEntries ==
    ASSUME TypeOK, AheadInv, NEW s \in Slaves, StoreGroup(s)
    PROVE  /\ \A m \in Nodes \ {s} : UNCHANGED <<lookup[m], postings[m]>>
           /\ \E part \in SUBSET EntriesOf(Master) :
                 EntriesOf(s)' = EntriesOf(s) \cup part
<1> DEFINE got == {g \in Files : reply[s].lookup[g] # NoWorker}
           part == {<<f>> : f \in got} \cup reply[s].postings
<1>1. s \in Nodes /\ Master \in Nodes
  BY DEF Nodes
<1>2. /\ \A m \in Nodes \ {s} : UNCHANGED <<lookup[m], postings[m]>>
      /\ postings'[s] = postings[s] \cup reply[s].postings
  BY <1>1 DEF StoreGroup, TypeOK
<1>3. \A f \in Files : lookup'[s][f] # NoWorker <=>
                          lookup[s][f] # NoWorker \/ reply[s].lookup[f] # NoWorker
  BY <1>1 DEF StoreGroup, TypeOK, Lookups
<1>4. {g \in Files : lookup'[s][g] # NoWorker}
        = {g \in Files : lookup[s][g] # NoWorker} \cup got
  BY <1>3
<1>5. EntriesOf(s)' = EntriesOf(s) \cup part
  BY <1>2, <1>4 DEF EntriesOf
<1>6. part \subseteq EntriesOf(Master)
  <2>1. got \subseteq {g \in Files : lookup[Master][g] # NoWorker}
    BY DEF AheadInv, BackupNeverAhead
  <2>2. reply[s].postings \subseteq postings[Master]
    BY DEF AheadInv, BackupNeverAhead
  <2>3. QED
    BY <2>1, <2>2 DEF EntriesOf
<1>7. QED
  BY <1>2, <1>5, <1>6

\* Every step is one of Backups, or leaves the entries of every node alone.
LEMMA BackupsStep ==
    ASSUME TypeOK, AheadInv, [Next]_vars
    PROVE  [HeldCopies!Next]_<<EntriesOf(Master), Copies>>
<1> USE ConstAssumption DEF Nodes
<1>1. CASE UNCHANGED tableVars
  BY <1>1 DEF tableVars, EntriesOf, Copies
<1>2. ASSUME NEW r \in Reports, SetFileInfo(Master, r) PROVE HeldCopies!Next
  <2>1. /\ \A s \in Slaves : UNCHANGED <<lookup[s], postings[s]>>
        /\ EntriesOf(Master)' = EntriesOf(Master) \cup {<<FileOf[r]>>}
    BY <1>2, SetFileInfoEntries
  <2>2. <<FileOf[r]>> \in {<<f>> : f \in Files} \cup Postings
    OBVIOUS
  <2>3. QED
    BY <2>1, <2>2, LearnStep
<1>3. ASSUME NEW s \in Slaves, NEW r \in Reports, SetFileInfo(s, r) PROVE HeldCopies!Next
  <2>1. hpc[Master][r] \in {"forward", "done"}
    BY <1>3 DEF SetFileInfo, AheadInv, ForwardedApplied
  <2>2. {<<FileOf[r]>>} \in SUBSET EntriesOf(Master)
    BY <2>1 DEF AheadInv, MasterApplied, EntriesOf
  <2>3. QED
    BY <1>3, <2>2, SetFileInfoEntries, FollowStep
<1>4. ASSUME NEW r \in Reports, NEW w \in Words, UpdateWord(Master, r, w)
      PROVE HeldCopies!Next
  <2>1. <<w, FileOf[r]>> \in {<<f>> : f \in Files} \cup Postings
    BY DEF Postings
  <2>2. QED
    BY <1>4, <2>1, UpdateWordEntries, LearnStep
<1>5. ASSUME NEW s \in Slaves, NEW r \in Reports, NEW w \in Words, UpdateWord(s, r, w)
      PROVE HeldCopies!Next
  <2>1. hpc[Master][r] \in {"forward", "done"} /\ w \in WordsOf[FileOf[r]]
    BY <1>5 DEF UpdateWord, AheadInv, ForwardedApplied
  <2>2. {<<w, FileOf[r]>>} \in SUBSET EntriesOf(Master)
    BY <2>1 DEF AheadInv, MasterApplied, EntriesOf
  <2>3. /\ \A n \in Nodes \ {s} : UNCHANGED <<lookup[n], postings[n]>>
        /\ EntriesOf(s)' = EntriesOf(s) \cup {<<w, FileOf[r]>>}
    BY <1>5, UpdateWordEntries
  <2>4. QED
    BY <2>2, <2>3, FollowStep
<1>6. ASSUME NEW s \in Slaves, StoreGroup(s) PROVE HeldCopies!Next
  BY <1>6, StoreGroupEntries, FollowStep
<1>7. ASSUME NEW s \in Slaves, Lose(s) PROVE HeldCopies!Next
  BY <1>7, ForgetStep
<1>8. CASE UNCHANGED vars
  BY <1>1, <1>8 DEF vars, slaveVars
<1>9. CASE Next
  BY <1>1, <1>2, <1>3, <1>4, <1>5, <1>6, <1>7, <1>9, QuietActions
     DEF Next, Handle, StartUp, Crash, Unregister
<1>10. QED
  BY <1>8, <1>9

\* Under every fault the slaves implement Backups: each holds a part of what the
\* master holds, which grows until its process ends.
THEOREM Refinement == Spec => ImplementsBackups
<1>1. Init => HeldCopies!Init
  BY ConstAssumption DEF Init, HeldCopies!Init, EntriesOf, Nodes, NoFiles
<1>2. TypeOK /\ AheadInv /\ [Next]_vars => [HeldCopies!Next]_(HeldCopies!vars)
  BY BackupsStep DEF HeldCopies!vars, Copies
<1>3. QED
  BY <1>1, <1>2, TypeCorrect, AheadAlways, PTL DEF Spec, ImplementsBackups, HeldCopies!Spec

----------------------------------------------------------------------------
(* No entry escapes a backup no fault met since it started, whatever faults *)
(* met the others.  Slaves may crash, stop and start at will.               *)

\* A slave that follows, and met no fault, is in the master's list and fetches
\* no group twice; one that starts has fetched nothing; group data is held
\* between a fetch and its store only.
FollowInv ==
    \A s \in Slaves :
        /\ s \notin harmed /\ Following(s) => s \in slist /\ sphase[s] # "retry"
        /\ ~Following(s) => group[s] = 1
        /\ sphase[s] # "store" => reply[s] = NoReply

\* Handlers deal with the words of their file only, and so does the master's
\* invert table.
WordsInv ==
    /\ \A n \in Nodes, r \in Reports : left[n][r] \subseteq WordsOf[FileOf[r]]
    /\ \A w \in Words, f \in Files : <<w, f>> \in postings[Master] => w \in WordsOf[f]

\* Every step writes down its faults.
LEMMA NextRemembers == Next => Remember
<1>1. \A r \in Reports : Report(r) => Remember
  BY DEF Report
<1>2. \A n \in Nodes, r \in Reports : Handle(n, r) => Remember
  BY DEF Handle, SetFileInfo, UpdateWord, GetSlavesList, Forward, EndReport
<1>3. \A s \in Slaves : StartUp(s) => Remember
  BY DEF StartUp, Register, FetchGroup, BreakReply, RetryGroup, StoreGroup
<1>4. \A s \in Slaves : Start(s) \/ Crash(s) \/ Heartbeat(s) \/ Unregister(s)
                          \/ CheckTimeout(s) => Remember
  BY DEF Start, Crash, Heartbeat, Unregister, CheckTimeout
<1>5. QED
  BY <1>1, <1>2, <1>3, <1>4 DEF Next

\* What it means for a running slave that a step did not harm it.
LEMMA UnharmedStep ==
    ASSUME TypeOK, FollowInv, [Next]_vars,
           NEW s \in Slaves, s \notin harmed', Following(s)'
    PROVE  /\ s \in slist' /\ sphase'[s] # "retry"
           /\ Following(s) =>
                 /\ s \notin harmed /\ s \in slist /\ sphase[s] # "retry"
                 /\ \A r \in Reports : s \in targets[r] => s \in targets'[r]
                                                          \/ hpc'[s][r] = "queued"
<1>1. CASE UNCHANGED vars
  <2>1. /\ harmed' = harmed /\ sphase' = sphase /\ slist' = slist /\ targets' = targets
    BY <1>1 DEF vars, history, slaveVars, handlerVars
  <2>2. QED
    BY <2>1 DEF FollowInv, Following
<1>2. CASE Next
  <2>1. sphase'[s] # "down"
    BY DEF Following
  <2>2. s \notin harmed /\ ~Harms(s)
    BY <1>2, <2>1, NextRemembers DEF Remember
  <2>3. QED
    BY <2>2 DEF Harms, FollowInv
<1>3. QED
  BY <1>1, <1>2

LEMMA FollowInvStep ==
    ASSUME TypeOK, FollowInv, [Next]_vars
    PROVE  FollowInv'
<1> SUFFICES ASSUME NEW s \in Slaves
             PROVE  /\ ~Following(s)' => group'[s] = 1
                    /\ sphase'[s] # "store" => reply'[s] = NoReply
  BY UnharmedStep DEF FollowInv
<1> DEFINE Goal == /\ ~Following(s)' => group'[s] = 1
                   /\ sphase'[s] # "store" => reply'[s] = NoReply
<1> USE ConstAssumption DEF Following, Nodes
<1>0. /\ ~Following(s) => group[s] = 1
      /\ sphase[s] # "store" => reply[s] = NoReply
  BY DEF FollowInv
<1>1. CASE sphase'[s] = sphase[s] /\ group'[s] = group[s] /\ reply'[s] = reply[s]
  BY <1>0, <1>1
<1>2. ASSUME NEW t \in Slaves, Start(t) PROVE Goal
  BY <1>0, <1>2 DEF Start, TypeOK
<1>3. ASSUME NEW t \in Slaves, Register(t) PROVE Goal
  BY <1>0, <1>3 DEF Register, TypeOK
<1>4. ASSUME NEW t \in Slaves, FetchGroup(t) PROVE Goal
  BY <1>0, <1>4 DEF FetchGroup, TypeOK
<1>5. ASSUME NEW t \in Slaves, BreakReply(t) \/ RetryGroup(t) PROVE Goal
  BY <1>0, <1>5 DEF BreakReply, RetryGroup, TypeOK
<1>6. ASSUME NEW t \in Slaves, StoreGroup(t) PROVE Goal
  <2>1. CASE t = s
    BY <1>0, <1>6, <2>1 DEF StoreGroup, TypeOK
  <2>2. CASE t # s
    BY <1>1, <1>6, <2>2 DEF StoreGroup, TypeOK
  <2>3. QED
    BY <2>1, <2>2
<1>7. ASSUME NEW t \in Slaves, Lose(t) PROVE Goal
  <2>1. CASE t = s
    BY <1>7, <2>1 DEF Lose, TypeOK
  <2>2. CASE t # s
    BY <1>1, <1>7, <2>2 DEF Lose, TypeOK
  <2>3. QED
    BY <2>1, <2>2
<1>8. CASE UNCHANGED <<sphase, group, reply, broken>>
  BY <1>1, <1>8 DEF slaveVars
<1>9. ASSUME NEW n \in Nodes, NEW r \in Reports, Handle(n, r) \/ Report(r)
      PROVE  UNCHANGED <<sphase, group, reply, broken>>
  BY <1>9 DEF Handle, Report, SetFileInfo, UpdateWord, GetSlavesList, EndReport, Forward,
              slaveVars
<1>10. ASSUME NEW t \in Slaves, Heartbeat(t) \/ CheckTimeout(t)
      PROVE  UNCHANGED <<sphase, group, reply, broken>>
  BY <1>10 DEF Heartbeat, CheckTimeout, slaveVars
<1>11. CASE UNCHANGED vars
  BY <1>8, <1>11 DEF vars, slaveVars
<1>12. CASE Next
  BY <1>2, <1>3, <1>4, <1>5, <1>6, <1>7, <1>8, <1>9, <1>10, <1>12
     DEF Next, StartUp, Crash, Unregister
<1>13. QED
  BY <1>11, <1>12

\* Every posting of the master comes from a report on its file.
LEMMA WordsInvStep ==
    ASSUME TypeOK, WordsInv, [Next]_vars
    PROVE  WordsInv'
<1> USE ConstAssumption DEF Nodes
<1>1. CASE left' = left /\ postings'[Master] = postings[Master]
  BY <1>1 DEF WordsInv
<1>2. ASSUME NEW n \in Nodes, NEW r \in Reports, SetFileInfo(n, r) PROVE WordsInv'
  BY <1>2 DEF SetFileInfo, WordsInv, TypeOK
<1>3. ASSUME NEW n \in Nodes, NEW r \in Reports, NEW w \in Words, UpdateWord(n, r, w)
      PROVE  WordsInv'
  <2>1. w \in WordsOf[FileOf[r]]
    BY <1>3 DEF UpdateWord, WordsInv
  <2>2. \A m \in Nodes, q \in Reports : left'[m][q] \subseteq left[m][q]
    BY <1>3 DEF UpdateWord, TypeOK
  <2>3. postings'[Master] \subseteq postings[Master] \cup {<<w, FileOf[r]>>}
    BY <1>3 DEF UpdateWord, TypeOK
  <2>4. QED
    BY <2>1, <2>2, <2>3 DEF WordsInv
<1>4. ASSUME NEW s \in Slaves, StoreGroup(s)
      PROVE  left' = left /\ postings'[Master] = postings[Master]
  BY <1>4 DEF StoreGroup, handlerVars, TypeOK
<1>5. ASSUME NEW s \in Slaves, Lose(s) PROVE WordsInv'
  BY <1>5 DEF Lose, WordsInv, TypeOK
<1>6. ASSUME NEW n \in Nodes, NEW r \in Reports,
             Report(r) \/ GetSlavesList(n, r) \/ EndReport(n, r)
      PROVE  UNCHANGED <<left, postings>>
  BY <1>6 DEF Report, GetSlavesList, EndReport, tableVars
<1>7. ASSUME NEW r \in Reports, NEW t \in Slaves, Forward(r, t)
      PROVE  UNCHANGED <<left, postings>>
  BY <1>7 DEF Forward, tableVars
<1>8. ASSUME NEW t \in Slaves, \/ Start(t) \/ Register(t) \/ FetchGroup(t) \/ BreakReply(t)
                               \/ RetryGroup(t) \/ Heartbeat(t) \/ CheckTimeout(t)
      PROVE  UNCHANGED <<left, postings>>
  BY <1>8 DEF Start, Register, FetchGroup, BreakReply, RetryGroup, Heartbeat,
              CheckTimeout, tableVars, handlerVars
<1>9. CASE UNCHANGED vars
  BY <1>1, <1>9 DEF vars, tableVars, handlerVars
<1>10. CASE Next
  BY <1>1, <1>2, <1>3, <1>4, <1>5, <1>6, <1>7, <1>8, <1>10
     DEF Next, Handle, StartUp, Crash, Unregister
<1>11. QED
  BY <1>9, <1>10
\* A report that is coming to a slave stays so until the slave takes it up.
LEMMA ComingStep ==
    ASSUME TypeOK, FollowInv, [Next]_vars,
           NEW s \in Slaves, s \notin harmed', Following(s), Following(s)',
           NEW r \in Reports, Coming(r, s)
    PROVE  Coming(r, s)' \/ SetFileInfo(s, r)
<1> DEFINE Goal == Coming(r, s)' \/ SetFileInfo(s, r)
<1> USE ConstAssumption DEF Nodes
<1>0. /\ s \in slist /\ s \in slist' /\ s # Master /\ sphase[s] # "down"
      /\ s \in targets[r] => s \in targets'[r] \/ hpc'[s][r] = "queued"
  BY UnharmedStep DEF Following
<1>1. CASE hpc'[Master][r] = hpc[Master][r] /\ hpc'[s][r] = hpc[s][r] /\ targets'[r] = targets[r]
  BY <1>0, <1>1 DEF Coming, WillForward
<1>2. ASSUME NEW q \in Reports, Report(q) PROVE Goal
  BY <1>0, <1>2 DEF Report, GoTo, TypeOK, Coming, WillForward
<1>3. ASSUME NEW n \in Nodes, NEW q \in Reports, SetFileInfo(n, q) PROVE Goal
  BY <1>0, <1>3 DEF SetFileInfo, GoTo, TypeOK, Coming, WillForward
<1>4. ASSUME NEW n \in Nodes, NEW q \in Reports, NEW w \in Words, UpdateWord(n, q, w)
      PROVE Goal
  BY <1>1, <1>4 DEF UpdateWord
<1>5. ASSUME NEW n \in Nodes, NEW q \in Reports, GetSlavesList(n, q) PROVE Goal
  <2>1. CASE n = Master /\ q = r
    BY <1>0, <1>5, <2>1 DEF GetSlavesList, GoTo, TypeOK, Coming, WillForward
  <2>2. CASE n = Master /\ q # r
    BY <1>1, <1>0, <1>5, <2>2 DEF GetSlavesList, GoTo, TypeOK
  <2>3. CASE n # Master
    BY <1>0, <1>5, <2>3 DEF GetSlavesList, GoTo, TypeOK, Coming, WillForward
  <2>4. QED
    BY <2>1, <2>2, <2>3
<1>6. ASSUME NEW q \in Reports, NEW t \in Slaves, Forward(q, t) PROVE Goal
  <2>1. CASE t = s /\ q = r
    <3>1. s \in targets[r] /\ s \notin targets'[r]
      BY <1>6, <2>1 DEF Forward, TypeOK
    <3>2. QED
      BY <1>0, <3>1 DEF Coming
  <2>2. CASE t # s \/ q # r
    <3>1. targets'[r] = targets[r] \/ (q = r /\ targets'[r] = targets[r] \ {t})
      BY <1>6 DEF Forward, TypeOK
    <3>2. hpc'[Master][r] = hpc[Master][r] /\ hpc'[s][r] = hpc[s][r]
      <4>1. CASE UNCHANGED hpc
        BY <4>1
      <4>2. CASE GoTo(t, q, "queued")
        BY <1>0, <2>2, <4>2 DEF GoTo, TypeOK
      <4>3. QED
        BY <1>6, <4>1, <4>2 DEF Forward
    <3>3. QED
      BY <1>0, <2>2, <3>1, <3>2 DEF Coming, WillForward
  <2>3. QED
    BY <2>1, <2>2
<1>7. ASSUME NEW n \in Nodes, NEW q \in Reports, EndReport(n, q) PROVE Goal
  BY <1>0, <1>7 DEF EndReport, GoTo, TypeOK, Coming, WillForward
<1>8. ASSUME NEW t \in Slaves, \/ StartUp(t) \/ Start(t) \/ Heartbeat(t) \/ CheckTimeout(t)
      PROVE  UNCHANGED handlerVars
  BY <1>8 DEF StartUp, Start, Register, FetchGroup, BreakReply, RetryGroup, StoreGroup,
              Heartbeat, CheckTimeout
<1>9. ASSUME NEW t \in Slaves, Crash(t) \/ Unregister(t) PROVE Goal
  <2>1. Lose(t) /\ targets' = targets
    BY <1>9 DEF Crash, Unregister
  <2>2. t # s
    BY <2>1 DEF Lose, Following, TypeOK
  <2>3. QED
    BY <1>0, <1>1, <2>1, <2>2 DEF Lose, TypeOK
<1>10. CASE UNCHANGED vars
  BY <1>1, <1>10 DEF vars, handlerVars
<1>11. CASE Next
  BY <1>1, <1>2, <1>3, <1>4, <1>5, <1>6, <1>7, <1>8, <1>9, <1>11
     DEF Next, Handle, handlerVars
<1>12. QED
  BY <1>10, <1>11

\* Only its end takes entries out of a slave's tables.
LEMMA TableStep ==
    ASSUME TypeOK, [Next]_vars, NEW s \in Slaves, Following(s)'
    PROVE  /\ postings[s] \subseteq postings'[s]
           /\ \A f \in Files : lookup[s][f] # NoWorker => lookup'[s][f] # NoWorker
<1> DEFINE Goal == /\ postings[s] \subseteq postings'[s]
                   /\ \A f \in Files : lookup[s][f] # NoWorker => lookup'[s][f] # NoWorker
<1> USE ConstAssumption DEF Nodes
<1>1. CASE UNCHANGED tableVars
  BY <1>1 DEF tableVars
<1>2. ASSUME NEW n \in Nodes, NEW r \in Reports, SetFileInfo(n, r) PROVE Goal
  BY <1>2 DEF SetFileInfo, TypeOK, Lookups
<1>3. ASSUME NEW n \in Nodes, NEW r \in Reports, NEW w \in Words, UpdateWord(n, r, w)
      PROVE Goal
  BY <1>3 DEF UpdateWord, TypeOK
<1>4. ASSUME NEW t \in Slaves, StoreGroup(t) PROVE Goal
  BY <1>4 DEF StoreGroup, TypeOK
<1>5. ASSUME NEW t \in Slaves, Lose(t) PROVE Goal
  BY <1>5 DEF Lose, TypeOK, Following
<1>6. CASE UNCHANGED vars
  BY <1>1, <1>6 DEF vars, slaveVars
<1>7. CASE Next
  BY <1>1, <1>2, <1>3, <1>4, <1>5, <1>7, QuietActions
     DEF Next, Handle, StartUp, Crash, Unregister
<1>8. QED
  BY <1>6, <1>7

\* A group still to be fetched stays so until it is in the reply with all its
\* entries, and a reply stays until it is in the tables.
LEMMA FetchStep ==
    ASSUME TypeOK, FollowInv, [Next]_vars,
           NEW s \in Slaves, s \notin harmed', Following(s), Following(s)'
    PROVE  /\ \A g \in 1..NumGroups : ToFetch(s, g) =>
                  ToFetch(s, g)' \/ reply'[s] = GroupData(g)
           /\ \A f \in Files : reply[s].lookup[f] # NoWorker =>
                  reply'[s].lookup[f] # NoWorker \/ lookup'[s][f] # NoWorker
           /\ reply[s].postings \subseteq reply'[s].postings \cup postings'[s]
<1> DEFINE Goal ==
       /\ \A g \in 1..NumGroups : ToFetch(s, g) =>
              ToFetch(s, g)' \/ reply'[s] = GroupData(g)
       /\ \A f \in Files : reply[s].lookup[f] # NoWorker =>
              reply'[s].lookup[f] # NoWorker \/ lookup'[s][f] # NoWorker
       /\ reply[s].postings \subseteq reply'[s].postings \cup postings'[s]
<1> USE ConstAssumption DEF Nodes
<1>1. CASE sphase'[s] = sphase[s] /\ group'[s] = group[s] /\ reply'[s] = reply[s]
  BY <1>1 DEF ToFetch
<1>2. CASE FetchGroup(s)
  <2>1. reply[s].postings = {} /\ \A f \in Files : reply[s].lookup[f] = NoWorker
    BY <1>2 DEF FetchGroup, FollowInv, NoReply, NoFiles
  <2>2. reply'[s] = GroupData(group[s]) /\ group'[s] = group[s]
    BY <1>2 DEF FetchGroup, TypeOK
  <2>3. QED
    BY <2>1, <2>2 DEF ToFetch, TypeOK
<1>3. CASE StoreGroup(s)
  <2>1. /\ postings'[s] = postings[s] \cup reply[s].postings
        /\ \A f \in Files : reply[s].lookup[f] # NoWorker => lookup'[s][f] # NoWorker
    BY <1>3 DEF StoreGroup, TypeOK
  <2>2. ASSUME NEW g \in 1..NumGroups, ToFetch(s, g) PROVE ToFetch(s, g)'
    <3>1. group[s] \in Nat /\ group[s] < g
      BY <1>3, <2>2 DEF StoreGroup, ToFetch, TypeOK
    <3>2. group'[s] = group[s] + 1 /\ sphase'[s] = "fetch"
      BY <1>3, <3>1 DEF StoreGroup, TypeOK, NumGroups
    <3>3. QED
      BY <3>1, <3>2 DEF ToFetch
  <2>3. QED
    BY <2>1, <2>2
<1>4. ASSUME NEW t \in Slaves, StartUp(t) PROVE Goal
  <2>1. CASE t = s
    <3>1. ~Register(s) /\ ~BreakReply(s) /\ ~RetryGroup(s)
      BY <1>4, UnharmedStep DEF Register, BreakReply, RetryGroup, Following, TypeOK
    <3>2. QED
      BY <1>2, <1>3, <1>4, <2>1, <3>1 DEF StartUp
  <2>2. CASE t # s
    BY <1>1, <1>4, <2>2
       DEF StartUp, Register, FetchGroup, BreakReply, RetryGroup, StoreGroup, TypeOK
  <2>3. QED
    BY <2>1, <2>2
<1>5. ASSUME NEW t \in Slaves, Lose(t) PROVE Goal
  <2>1. t # s
    BY <1>5 DEF Lose, Following, TypeOK
  <2>2. QED
    BY <1>1, <1>5, <2>1 DEF Lose, TypeOK
<1>6. ASSUME NEW t \in Slaves, Start(t) PROVE Goal
  <2>1. t # s
    BY <1>6 DEF Start, Following, TypeOK
  <2>2. QED
    BY <1>1, <1>6, <2>1 DEF Start, TypeOK
<1>7. CASE UNCHANGED <<sphase, group, reply, broken>>
  BY <1>1, <1>7 DEF slaveVars
<1>8. CASE UNCHANGED vars
  BY <1>7, <1>8 DEF vars, slaveVars
<1>9. ASSUME NEW n \in Nodes, NEW r \in Reports, Handle(n, r) \/ Report(r)
      PROVE  UNCHANGED <<sphase, group, reply, broken>>
  BY <1>9 DEF Handle, Report, SetFileInfo, UpdateWord, GetSlavesList, EndReport, Forward,
              slaveVars
<1>10. ASSUME NEW t \in Slaves, Heartbeat(t) \/ CheckTimeout(t)
      PROVE  UNCHANGED <<sphase, group, reply, broken>>
  BY <1>10 DEF Heartbeat, CheckTimeout, slaveVars
<1>11. CASE Next
  BY <1>4, <1>5, <1>6, <1>7, <1>9, <1>10, <1>11 DEF Next, Crash, Unregister
<1>12. QED
  BY <1>8, <1>11

\* An entry that is new at the master comes with a report that will be forwarded
\* to every registered slave.
LEMMA NewEntryComes ==
    ASSUME TypeOK, [Next]_vars, NEW s \in Slaves, s \in slist, s \in slist'
    PROVE  /\ \A f \in Files : lookup'[Master][f] = lookup[Master][f]
                  \/ \E r \in Reports : FileOf[r] = f /\ Coming(r, s)'
           /\ \A p \in postings'[Master] : p \in postings[Master]
                  \/ \E r \in Reports : FileOf[r] = p[2] /\ Coming(r, s)'
<1> DEFINE Goal ==
       /\ \A f \in Files : lookup'[Master][f] = lookup[Master][f]
              \/ \E r \in Reports : FileOf[r] = f /\ Coming(r, s)'
       /\ \A p \in postings'[Master] : p \in postings[Master]
              \/ \E r \in Reports : FileOf[r] = p[2] /\ Coming(r, s)'
<1> USE ConstAssumption DEF Nodes
<1>1. CASE lookup'[Master] = lookup[Master] /\ postings'[Master] = postings[Master]
  BY <1>1
<1>2. ASSUME NEW r \in Reports, SetFileInfo(Master, r) PROVE Goal
  <2>1. hpc'[Master][r] = "words"
    BY <1>2 DEF SetFileInfo, GoTo, TypeOK
  <2>2. Coming(r, s)'
    BY <2>1 DEF Coming, WillForward
  <2>3. \A f \in Files : f = FileOf[r] \/ lookup'[Master][f] = lookup[Master][f]
    BY <1>2 DEF SetFileInfo, TypeOK, Lookups
  <2>4. postings'[Master] = postings[Master]
    BY <1>2 DEF SetFileInfo
  <2>5. QED
    BY <2>2, <2>3, <2>4
<1>3. ASSUME NEW r \in Reports, NEW w \in Words, UpdateWord(Master, r, w) PROVE Goal
  <2>1. Coming(r, s)'
    BY <1>3 DEF UpdateWord, Coming, WillForward
  <2>2. lookup' = lookup /\ postings'[Master] = postings[Master] \cup {<<w, FileOf[r]>>}
    BY <1>3 DEF UpdateWord, TypeOK
  <2>3. QED
    BY <2>1, <2>2
<1>4. ASSUME NEW t \in Slaves, NEW r \in Reports, SetFileInfo(t, r) PROVE Goal
  BY <1>1, <1>4 DEF SetFileInfo, TypeOK
<1>5. ASSUME NEW t \in Slaves, NEW r \in Reports, NEW w \in Words, UpdateWord(t, r, w)
      PROVE Goal
  BY <1>1, <1>5 DEF UpdateWord, TypeOK
<1>6. ASSUME NEW t \in Slaves, StoreGroup(t) \/ Lose(t) PROVE Goal
  BY <1>1, <1>6 DEF StoreGroup, Lose, TypeOK
<1>7. CASE UNCHANGED tableVars
  BY <1>1, <1>7 DEF tableVars
<1>8. CASE UNCHANGED vars
  BY <1>7, <1>8 DEF vars, slaveVars
<1>9. CASE Next
  BY <1>2, <1>3, <1>4, <1>5, <1>6, <1>7, <1>9, QuietActions
     DEF Next, Handle, StartUp, Crash, Unregister
<1>10. QED
  BY <1>8, <1>9

\* A word a slave's handler has still to update stays so until it is updated.
LEMMA WordStep ==
    ASSUME TypeOK, [Next]_vars, NEW s \in Slaves, Following(s)', NEW r \in Reports,
           NEW w \in left[s][r], hpc[s][r] = "words",
           hpc[Master][r] # "forward" \/ s \notin targets[r]
    PROVE  \/ hpc'[s][r] = "words" /\ w \in left'[s][r]
           \/ <<w, FileOf[r]>> \in postings'[s]
<1> DEFINE Goal == \/ hpc'[s][r] = "words" /\ w \in left'[s][r]
                   \/ <<w, FileOf[r]>> \in postings'[s]
<1> USE ConstAssumption DEF Nodes
<1>1. CASE hpc'[s][r] = hpc[s][r] /\ left'[s][r] = left[s][r]
  BY <1>1
<1>2. ASSUME NEW n \in Nodes, NEW q \in Reports,
             SetFileInfo(n, q) \/ GetSlavesList(n, q) \/ EndReport(n, q)
      PROVE Goal
  <2>1. n # s \/ q # r
    BY <1>2 DEF SetFileInfo, GetSlavesList, EndReport, TypeOK
  <2>2. hpc'[s][r] = hpc[s][r]
    BY <1>2, <2>1 DEF SetFileInfo, GetSlavesList, EndReport, GoTo, TypeOK
  <2>3. left'[s][r] = left[s][r]
    BY <1>2, <2>1 DEF SetFileInfo, GetSlavesList, EndReport, TypeOK
  <2>4. QED
    BY <1>1, <2>2, <2>3
<1>3. ASSUME NEW n \in Nodes, NEW q \in Reports, NEW v \in Words, UpdateWord(n, q, v)
      PROVE Goal
  BY <1>3 DEF UpdateWord, TypeOK
<1>4. ASSUME NEW q \in Reports, NEW t \in Slaves, Forward(q, t) PROVE Goal
  <2>1. (t # s \/ q # r) /\ left' = left
    BY <1>4 DEF Forward
  <2>2. CASE UNCHANGED hpc
    BY <1>1, <2>1, <2>2
  <2>3. CASE GoTo(t, q, "queued")
    BY <1>1, <2>1, <2>3 DEF GoTo, TypeOK
  <2>4. QED
    BY <1>4, <2>2, <2>3 DEF Forward
<1>5. ASSUME NEW t \in Slaves, Lose(t) PROVE Goal
  <2>1. t # s
    BY <1>5 DEF Lose, Following, TypeOK
  <2>2. QED
    BY <1>1, <1>5, <2>1 DEF Lose, TypeOK
<1>6. ASSUME NEW q \in Reports, Report(q) PROVE Goal
  BY <1>1, <1>6 DEF Report, GoTo, TypeOK
<1>7. ASSUME NEW t \in Slaves, \/ StartUp(t) \/ Start(t) \/ Heartbeat(t) \/ CheckTimeout(t)
      PROVE  Goal
  BY <1>1, <1>7 DEF StartUp, Start, Register, FetchGroup, BreakReply, RetryGroup,
              StoreGroup, Heartbeat, CheckTimeout, handlerVars
<1>8. CASE UNCHANGED vars
  BY <1>1, <1>8 DEF vars, handlerVars
<1>9. CASE Next
  BY <1>2, <1>3, <1>4, <1>5, <1>6, <1>7, <1>9 DEF Next, Handle, Crash, Unregister
<1>10. QED
  BY <1>8, <1>9

\* A report a slave takes up leaves its file in the lookup table and its words
\* to be updated.
LEMMA TakenUp ==
    ASSUME TypeOK, NEW s \in Slaves, NEW r \in Reports, SetFileInfo(s, r)
    PROVE  /\ lookup'[s][FileOf[r]] # NoWorker
           /\ hpc'[s][r] = "words" /\ left'[s][r] = WordsOf[FileOf[r]]
BY ConstAssumption DEF SetFileInfo, GoTo, TypeOK, Lookups, Nodes

\* What covers an entry of the master's tables at a slave goes on to cover it.
LEMMA CoverageStep ==
    ASSUME TypeOK, FollowInv, WordsInv, [Next]_vars,
           NEW s \in Slaves, s \notin harmed', Following(s), Following(s)', NEW f \in Files
    PROVE  /\ lookup[Master][f] # NoWorker /\ LookupCovered(s, f) => LookupCovered(s, f)'
           /\ \A w \in Words : <<w, f>> \in postings[Master] /\ PostingCovered(s, w, f)
                                  => PostingCovered(s, w, f)'
<1> USE ConstAssumption DEF Nodes
<1>1. ASSUME lookup[Master][f] # NoWorker, LookupCovered(s, f)
      PROVE  LookupCovered(s, f)'
  <2>1. CASE lookup[s][f] # NoWorker
    BY <2>1, TableStep DEF LookupCovered
  <2>2. CASE ToFetch(s, LookupGroup[f])
    <3>1. LookupGroup[f] \in 1..NumGroups
      BY DEF NumGroups
    <3>2. CASE ToFetch(s, LookupGroup[f])'
      BY <3>2 DEF LookupCovered
    <3>3. CASE reply'[s] = GroupData(LookupGroup[f])
      <4>1. reply'[s].lookup[f] = lookup[Master][f]
        BY <3>3 DEF GroupData
      <4>2. QED
        BY <1>1, <4>1 DEF LookupCovered
    <3>4. QED
      BY <2>2, <3>1, <3>2, <3>3, FetchStep
  <2>3. CASE reply[s].lookup[f] # NoWorker
    BY <2>3, FetchStep DEF LookupCovered
  <2>4. ASSUME NEW r \in Reports, FileOf[r] = f, Coming(r, s)
        PROVE  LookupCovered(s, f)'
    <3>1. CASE Coming(r, s)'
      BY <2>4, <3>1 DEF LookupCovered
    <3>2. CASE SetFileInfo(s, r)
      BY <2>4, <3>2, TakenUp DEF LookupCovered
    <3>3. QED
      BY <2>4, <3>1, <3>2, ComingStep
  <2>5. QED
    BY <1>1, <2>1, <2>2, <2>3, <2>4 DEF LookupCovered
<1>2. ASSUME NEW w \in Words, <<w, f>> \in postings[Master], PostingCovered(s, w, f)
      PROVE  PostingCovered(s, w, f)'
  <2>1. CASE <<w, f>> \in postings[s]
    BY <2>1, TableStep DEF PostingCovered
  <2>2. CASE ToFetch(s, InvertGroup[w])
    <3>1. InvertGroup[w] \in 1..NumGroups
      BY DEF NumGroups
    <3>2. CASE ToFetch(s, InvertGroup[w])'
      BY <3>2 DEF PostingCovered
    <3>3. CASE reply'[s] = GroupData(InvertGroup[w])
      <4>1. <<w, f>> \in reply'[s].postings
        BY <1>2, <3>3 DEF GroupData
      <4>2. QED
        BY <4>1 DEF PostingCovered
    <3>4. QED
      BY <2>2, <3>1, <3>2, <3>3, FetchStep
  <2>3. CASE <<w, f>> \in reply[s].postings
    BY <2>3, FetchStep DEF PostingCovered
  <2>4. ASSUME NEW r \in Reports, FileOf[r] = f, Coming(r, s)
        PROVE  PostingCovered(s, w, f)'
    <3>1. CASE Coming(r, s)'
      BY <2>4, <3>1 DEF PostingCovered
    <3>2. CASE SetFileInfo(s, r)
      <4>1. w \in WordsOf[f]
        BY <1>2 DEF WordsInv
      <4>2. QED
        BY <2>4, <3>2, <4>1, TakenUp DEF PostingCovered
    <3>3. QED
      BY <2>4, <3>1, <3>2, ComingStep
  <2>5. ASSUME NEW r \in Reports, FileOf[r] = f, hpc[s][r] = "words", w \in left[s][r]
        PROVE  PostingCovered(s, w, f)'
    <3>1. CASE hpc[Master][r] = "forward" /\ s \in targets[r]
      BY <2>4, <2>5, <3>1 DEF Coming, WillForward
    <3>2. CASE hpc[Master][r] # "forward" \/ s \notin targets[r]
      BY <2>5, <3>2, WordStep DEF PostingCovered
    <3>3. QED
      BY <3>1, <3>2
  <2>6. QED
    BY <1>2, <2>1, <2>2, <2>3, <2>4, <2>5 DEF PostingCovered
<1>3. QED
  BY <1>1, <1>2

\* A step that makes a slave follow leaves all the groups to be fetched.
LEMMA FollowingStarts ==
    ASSUME TypeOK, FollowInv, [Next]_vars,
           NEW s \in Slaves, ~Following(s), Following(s)', NEW g \in 1..NumGroups
    PROVE  ToFetch(s, g)'
<1> USE ConstAssumption DEF Nodes, Following
<1>1. Register(s)
  <2>1. ASSUME NEW t \in Slaves, Lose(t) \/ Start(t) PROVE FALSE
    BY <2>1 DEF Lose, Start, TypeOK
  <2>2. ASSUME NEW t \in Slaves, \/ FetchGroup(t) \/ BreakReply(t) \/ RetryGroup(t)
                                 \/ StoreGroup(t)
        PROVE  FALSE
    BY <2>2 DEF FetchGroup, BreakReply, RetryGroup, StoreGroup, TypeOK
  <2>3. ASSUME NEW t \in Slaves, Register(t) PROVE t = s
    BY <2>3 DEF Register, TypeOK
  <2>4. ASSUME NEW n \in Nodes, NEW r \in Reports, Handle(n, r) \/ Report(r) PROVE FALSE
    BY <2>4 DEF Handle, Report, SetFileInfo, UpdateWord, GetSlavesList, EndReport,
                Forward, slaveVars
  <2>5. ASSUME NEW t \in Slaves, Heartbeat(t) \/ CheckTimeout(t) PROVE FALSE
    BY <2>5 DEF Heartbeat, CheckTimeout, slaveVars
  <2>6. ~UNCHANGED vars
    BY DEF vars, slaveVars
  <2>7. QED
    BY <2>1, <2>2, <2>3, <2>4, <2>5, <2>6 DEF Next, StartUp, Crash, Unregister
<1>2. group'[s] = 1 /\ sphase'[s] = "fetch"
  BY <1>1 DEF Register, FollowInv, TypeOK
<1>3. QED
  BY <1>2 DEF ToFetch

\* No entry of the master's tables escapes a running slave no fault met.
CoveredInv == \A s \in Slaves \ harmed : Following(s) => Covered(s)

\* The invariant that makes CoveredInv inductive.
CompleteInv == FollowInv /\ WordsInv /\ CoveredInv

LEMMA CoveredInvStep ==
    ASSUME TypeOK, CompleteInv, [Next]_vars
    PROVE  CoveredInv'
<1> SUFFICES ASSUME NEW s \in Slaves, s \notin harmed', Following(s)', NEW f \in Files
             PROVE  /\ lookup'[Master][f] # NoWorker => LookupCovered(s, f)'
                    /\ \A w \in Words :
                          <<w, f>> \in postings'[Master] => PostingCovered(s, w, f)'
  BY DEF CoveredInv, Covered
<1> USE ConstAssumption DEF CompleteInv
<1>1. CASE ~Following(s)
  <2>1. LookupGroup[f] \in 1..NumGroups /\ \A w \in Words : InvertGroup[w] \in 1..NumGroups
    BY DEF NumGroups
  <2>2. QED
    BY <1>1, <2>1, FollowingStarts DEF LookupCovered, PostingCovered
<1>2. CASE Following(s)
  <2>1. s \in slist /\ s \in slist' /\ s \notin harmed
    BY <1>2, UnharmedStep
  <2>2. ASSUME lookup'[Master][f] # NoWorker PROVE LookupCovered(s, f)'
    <3>1. CASE lookup'[Master][f] = lookup[Master][f]
      BY <1>2, <2>1, <2>2, <3>1, CoverageStep DEF CoveredInv, Covered
    <3>2. CASE lookup'[Master][f] # lookup[Master][f]
      BY <2>1, <3>2, NewEntryComes DEF LookupCovered
    <3>3. QED
      BY <3>1, <3>2
  <2>3. ASSUME NEW w \in Words, <<w, f>> \in postings'[Master]
        PROVE  PostingCovered(s, w, f)'
    <3>1. CASE <<w, f>> \in postings[Master]
      BY <1>2, <2>1, <3>1, CoverageStep DEF CoveredInv, Covered
    <3>2. CASE <<w, f>> \notin postings[Master]
      <4>1. PICK r \in Reports : FileOf[r] = <<w, f>>[2] /\ Coming(r, s)'
        BY <2>1, <2>3, <3>2, NewEntryComes
      <4>2. QED
        BY <4>1 DEF PostingCovered
    <3>3. QED
      BY <3>1, <3>2
  <2>4. QED
    BY <2>2, <2>3
<1>3. QED
  BY <1>1, <1>2

----------------------------------------------------------------------------
(* What follows for a slave that serves.                                   *)

\* A serving slave has no group left to fetch.
ServingInv == \A s \in Slaves : sphase[s] = "serving" => group[s] > NumGroups

LEMMA ServingInvStep ==
    ASSUME TypeOK, ServingInv, [Next]_vars
    PROVE  ServingInv'
<1> USE ConstAssumption DEF ServingInv, Nodes
<1>1. CASE UNCHANGED <<sphase, group, reply, broken>>
  BY <1>1 DEF slaveVars
<1>2. ASSUME NEW s \in Slaves, \/ Start(s) \/ Register(s) \/ FetchGroup(s)
                               \/ BreakReply(s) \/ RetryGroup(s)
      PROVE  ServingInv'
  BY <1>2 DEF Start, Register, FetchGroup, BreakReply, RetryGroup, TypeOK
<1>3. ASSUME NEW s \in Slaves, StoreGroup(s) PROVE ServingInv'
  <2>1. group'[s] = group[s] + 1 /\ (sphase'[s] = "serving" => group[s] = NumGroups)
    BY <1>3 DEF StoreGroup, TypeOK
  <2>2. \A t \in Slaves \ {s} : group'[t] = group[t] /\ sphase'[t] = sphase[t]
    BY <1>3 DEF StoreGroup, TypeOK
  <2>3. NumGroups \in Nat
    BY DEF NumGroups
  <2>4. QED
    BY <2>1, <2>2, <2>3
<1>4. ASSUME NEW s \in Slaves, Lose(s) PROVE ServingInv'
  BY <1>4 DEF Lose, TypeOK
<1>5. ASSUME NEW n \in Nodes, NEW r \in Reports, Handle(n, r) \/ Report(r)
      PROVE  UNCHANGED <<sphase, group, reply, broken>>
  BY <1>5 DEF Handle, Report, SetFileInfo, UpdateWord, GetSlavesList, EndReport, Forward,
              slaveVars
<1>6. ASSUME NEW t \in Slaves, Heartbeat(t) \/ CheckTimeout(t)
      PROVE  UNCHANGED <<sphase, group, reply, broken>>
  BY <1>6 DEF Heartbeat, CheckTimeout, slaveVars
<1>7. CASE UNCHANGED vars
  BY <1>1, <1>7 DEF vars, slaveVars
<1>8. CASE Next
  BY <1>1, <1>2, <1>3, <1>4, <1>5, <1>6, <1>8 DEF Next, StartUp, Crash, Unregister
<1>9. QED
  BY <1>7, <1>8

\* The master updates the lookup table before the invert table.
MasterHits == \A p \in postings[Master] : lookup[Master][p[2]] # NoWorker

LEMMA MasterHitsStep ==
    ASSUME TypeOK, MasterApplied, MasterHits, [Next]_vars
    PROVE  MasterHits'
<1> USE ConstAssumption DEF Nodes
<1>1. CASE postings'[Master] = postings[Master]
  <2>1. \A p \in postings[Master] : p[2] \in Files
    BY DEF TypeOK, Postings
  <2>2. QED
    BY <1>1, <2>1, MasterOnlyGrows DEF MasterHits, MasterGrows
<1>2. ASSUME NEW r \in Reports, NEW w \in Words, UpdateWord(Master, r, w)
      PROVE  MasterHits'
  <2>1. lookup[Master][FileOf[r]] # NoWorker
    BY <1>2 DEF UpdateWord, MasterApplied
  <2>2. lookup' = lookup /\ postings'[Master] = postings[Master] \cup {<<w, FileOf[r]>>}
    BY <1>2 DEF UpdateWord, TypeOK
  <2>3. QED
    BY <2>1, <2>2 DEF MasterHits
<1>3. ASSUME NEW t \in Slaves, NEW r \in Reports, NEW w \in Words, UpdateWord(t, r, w)
      PROVE  postings'[Master] = postings[Master]
  BY <1>3 DEF UpdateWord, TypeOK
<1>4. ASSUME NEW n \in Nodes, NEW r \in Reports, SetFileInfo(n, r)
      PROVE  postings'[Master] = postings[Master]
  BY <1>4 DEF SetFileInfo
<1>5. ASSUME NEW t \in Slaves, StoreGroup(t) \/ Lose(t)
      PROVE  postings'[Master] = postings[Master]
  BY <1>5 DEF StoreGroup, Lose, TypeOK
<1>6. CASE UNCHANGED tableVars
  BY <1>1, <1>6 DEF tableVars
<1>7. CASE UNCHANGED vars
  BY <1>6, <1>7 DEF vars, slaveVars
<1>8. CASE Next
  BY <1>1, <1>2, <1>3, <1>4, <1>5, <1>6, <1>8, QuietActions
     DEF Next, Handle, StartUp, Crash, Unregister
<1>9. QED
  BY <1>7, <1>8

\* All that holds of the tables, whatever the faults.
TablesInv == AheadInv /\ CompleteInv /\ ServingInv /\ MasterHits

LEMMA TablesAlways == Spec => [](TypeOK /\ TablesInv)
<1>1. Init => TablesInv
  BY ConstAssumption
     DEF Init, TablesInv, AheadInv, MasterApplied, ForwardedApplied, BackupNeverAhead,
         CompleteInv, FollowInv, WordsInv, CoveredInv, Following, ServingInv,
         MasterHits, Nodes, NoFiles, NoReply
<1>2. TypeOK /\ TablesInv /\ [Next]_vars => TablesInv'
  BY MasterAppliedStep, ForwardedAppliedStep, BackupNeverAheadStep, FollowInvStep,
     WordsInvStep, CoveredInvStep, ServingInvStep, MasterHitsStep
     DEF TablesInv, AheadInv, CompleteInv
<1>3. QED
  BY <1>1, <1>2, TypeCorrect, PTL DEF Spec

\* At a serving slave no fault met only the tables and reports can cover an entry.
LEMMA ServingCovered ==
    ASSUME TypeOK, TablesInv, NEW s \in Slaves \ harmed, sphase[s] = "serving",
           NEW f \in Files
    PROVE  /\ lookup[Master][f] # NoWorker =>
                 \/ lookup[s][f] # NoWorker
                 \/ \E r \in Reports : FileOf[r] = f /\ Coming(r, s)
           /\ \A w \in Words : <<w, f>> \in postings[Master] =>
                 \/ <<w, f>> \in postings[s]
                 \/ \E r \in Reports : /\ FileOf[r] = f
                                       /\ Coming(r, s) \/ hpc[s][r] = "words"
<1> USE ConstAssumption
<1>1. \A g \in 1..NumGroups : ~ToFetch(s, g)
  BY DEF TablesInv, ServingInv, ToFetch, TypeOK, NumGroups
<1>2. LookupGroup[f] \in 1..NumGroups /\ \A w \in Words : InvertGroup[w] \in 1..NumGroups
  BY DEF NumGroups
<1>3. reply[s] = NoReply /\ Following(s)
  BY DEF TablesInv, CompleteInv, FollowInv, Following
<1>4. reply[s].postings = {} /\ reply[s].lookup[f] = NoWorker
  BY <1>3 DEF NoReply, NoFiles
<1>5. /\ lookup[Master][f] # NoWorker => LookupCovered(s, f)
      /\ \A w \in Words : <<w, f>> \in postings[Master] => PostingCovered(s, w, f)
  BY <1>3 DEF TablesInv, CompleteInv, CoveredInv, Covered
<1>6. QED
  BY <1>1, <1>2, <1>4, <1>5 DEF LookupCovered, PostingCovered

LEMMA SettledSame ==
    ASSUME TypeOK, TablesInv, NEW s \in Slaves \ harmed, Settled(s)
    PROVE  SameEntries(s)
<1> USE ConstAssumption DEF Nodes
<1>1. sphase[s] = "serving"
  BY DEF Settled
<1>2. \A r \in Reports : ~Coming(r, s) /\ hpc[s][r] # "words"
  BY DEF Settled, Coming, WillForward
<1>3. /\ postings[s] \subseteq postings[Master]
      /\ \A f \in Files : lookup[s][f] # NoWorker => lookup[Master][f] # NoWorker
  BY DEF TablesInv, AheadInv, BackupNeverAhead
<1>4. \A p \in postings[Master] : p \in postings[s]
  <2> TAKE p \in postings[Master]
  <2>1. PICK w \in Words, f \in Files : p = <<w, f>>
    BY DEF TypeOK, Postings
  <2>2. QED
    BY <1>1, <1>2, <2>1, ServingCovered
<1>5. \A f \in Files : lookup[Master][f] # NoWorker => lookup[s][f] # NoWorker
  BY <1>1, <1>2, ServingCovered
<1>6. QED
  BY <1>3, <1>4, <1>5 DEF SameEntries

\* Whatever faults met other slaves, or this one in an earlier life, a settled slave
\* that met none itself has the master's entries: each group of process_backup and
\* each forwarded report it should have got is in its tables.
THEOREM SettledUnharmedHasEntries == Spec => []SettledUnharmed
<1>1. TypeOK /\ TablesInv => SettledUnharmed
  BY SettledSame DEF SettledUnharmed
<1>2. QED
  BY <1>1, TablesAlways, PTL

----------------------------------------------------------------------------
(* When no message is lost, late or broken and every registration succeeds, *)
(* no slave is ever harmed.                                                  *)

\* The copy of the list a handler forwards to is taken once.
TargetsInv == \A r \in Reports : hpc[Master][r] # "forward" => targets[r] = {}

LEMMA TargetsInvStep ==
    ASSUME TypeOK, TargetsInv, [Next]_vars
    PROVE  TargetsInv'
<1> USE ConstAssumption DEF Nodes
<1>1. CASE hpc'[Master] = hpc[Master] /\ targets' = targets
  BY <1>1 DEF TargetsInv
<1>2. ASSUME NEW n \in Nodes, NEW r \in Reports, \/ SetFileInfo(n, r) \/ EndReport(n, r)
      PROVE  TargetsInv'
  BY <1>2 DEF SetFileInfo, EndReport, GoTo, TypeOK, TargetsInv
<1>3. ASSUME NEW n \in Nodes, NEW r \in Reports, GetSlavesList(n, r) PROVE TargetsInv'
  BY <1>3 DEF GetSlavesList, GoTo, TypeOK, TargetsInv
<1>4. ASSUME NEW r \in Reports, NEW s \in Slaves, Forward(r, s) PROVE TargetsInv'
  <2>1. hpc'[Master] = hpc[Master]
    BY <1>4 DEF Forward, GoTo, TypeOK
  <2>2. \A q \in Reports : targets'[q] \subseteq targets[q]
    BY <1>4 DEF Forward, TypeOK
  <2>3. QED
    BY <2>1, <2>2 DEF TargetsInv
<1>5. ASSUME NEW r \in Reports, Report(r) PROVE TargetsInv'
  BY <1>5 DEF Report, GoTo, TypeOK, TargetsInv
<1>6. ASSUME NEW n \in Nodes, NEW r \in Reports, NEW w \in Words, UpdateWord(n, r, w)
      PROVE  TargetsInv'
  BY <1>1, <1>6 DEF UpdateWord
<1>7. ASSUME NEW s \in Slaves, Crash(s) \/ Unregister(s) PROVE TargetsInv'
  BY <1>1, <1>7 DEF Crash, Unregister, Lose, TypeOK
<1>8. ASSUME NEW s \in Slaves, \/ StartUp(s) \/ Start(s) \/ Heartbeat(s) \/ CheckTimeout(s)
      PROVE  TargetsInv'
  BY <1>1, <1>8 DEF StartUp, Start, Register, FetchGroup, BreakReply, RetryGroup, StoreGroup,
              Heartbeat, CheckTimeout, handlerVars
<1>9. CASE UNCHANGED vars
  BY <1>1, <1>9 DEF vars, handlerVars
<1>10. CASE Next
  BY <1>2, <1>3, <1>4, <1>5, <1>6, <1>7, <1>8, <1>10 DEF Next, Handle
<1>11. QED
  BY <1>9, <1>10

\* Without faults a step takes a running slave out of no list.
LEMMA StaysListed ==
    ASSUME Faults = {}, TypeOK, FollowInv, harmed = {}, Next,
           NEW s \in Slaves, Following(s)'
    PROVE  s \in slist' /\ sphase'[s] # "retry"
<1> DEFINE Goal == s \in slist' /\ sphase'[s] # "retry"
<1> USE DEF Following, Nodes
<1>0. Following(s) => s \in slist /\ sphase[s] # "retry"
  BY DEF FollowInv
<1>1. CASE UNCHANGED sphase /\ slist \subseteq slist'
  BY <1>0, <1>1
<1>2. ASSUME NEW t \in Slaves, Start(t) PROVE Goal
  BY <1>0, <1>2 DEF Start, TypeOK
<1>3. ASSUME NEW t \in Slaves, Register(t) PROVE Goal
  BY <1>0, <1>3 DEF Register, TypeOK
<1>4. ASSUME NEW t \in Slaves, FetchGroup(t) \/ StoreGroup(t) PROVE Goal
  BY <1>0, <1>4 DEF FetchGroup, StoreGroup, TypeOK
<1>5. ASSUME NEW t \in Slaves, BreakReply(t) \/ RetryGroup(t) PROVE FALSE
  BY <1>5 DEF BreakReply, RetryGroup, FollowInv
<1>6. ASSUME NEW t \in Slaves, Crash(t) \/ Unregister(t) PROVE Goal
  <2>1. t # s
    BY <1>6 DEF Crash, Unregister, Lose, TypeOK
  <2>2. QED
    BY <1>0, <1>6, <2>1 DEF Crash, Unregister, Lose, TypeOK
<1>7. ASSUME NEW t \in Slaves, CheckTimeout(t) PROVE Goal
  BY <1>0, <1>7 DEF CheckTimeout, MayExpire, slaveVars
<1>8. ASSUME NEW t \in Slaves, Heartbeat(t) PROVE Goal
  BY <1>1, <1>8 DEF Heartbeat, slaveVars
<1>9. ASSUME NEW n \in Nodes, NEW r \in Reports, Handle(n, r) \/ Report(r) PROVE Goal
  BY <1>1, <1>9 DEF Handle, Report, SetFileInfo, UpdateWord, GetSlavesList, EndReport,
                    Forward, slaveVars
<1>10. QED
  BY <1>2, <1>3, <1>4, <1>5, <1>6, <1>7, <1>8, <1>9 DEF Next, StartUp

\* Without faults a report reaches a running slave it is forwarded to.
LEMMA GetsReport ==
    ASSUME Faults = {}, TypeOK, TargetsInv, Next, NEW s \in Slaves, Following(s),
           NEW r \in Reports, s \in targets[r], s \notin targets'[r]
    PROVE  hpc'[s][r] = "queued"
<1> USE DEF Nodes
<1>1. Forward(r, s)
  <2>1. targets[r] # {} /\ targets' # targets
    OBVIOUS
  <2>2. ASSUME NEW n \in Nodes, NEW q \in Reports, \/ GetSlavesList(n, q) PROVE FALSE
    BY <2>1, <2>2 DEF GetSlavesList, TypeOK, TargetsInv
  <2>3. ASSUME NEW n \in Nodes, NEW q \in Reports,
               SetFileInfo(n, q) \/ EndReport(n, q) \/ Report(q)
        PROVE  FALSE
    BY <2>1, <2>3 DEF SetFileInfo, EndReport, Report
  <2>4. ASSUME NEW n \in Nodes, NEW q \in Reports, NEW w \in Words, UpdateWord(n, q, w)
        PROVE  FALSE
    BY <2>1, <2>4 DEF UpdateWord
  <2>5. ASSUME NEW t \in Slaves, NEW q \in Reports, Forward(q, t)
        PROVE  t = s /\ q = r
    BY <2>5 DEF Forward, TypeOK
  <2>6. ASSUME NEW t \in Slaves, \/ StartUp(t) \/ Start(t) \/ Heartbeat(t) \/ CheckTimeout(t)
                                 \/ Crash(t) \/ Unregister(t)
        PROVE  FALSE
    BY <2>1, <2>6
       DEF StartUp, Start, Register, FetchGroup, BreakReply, RetryGroup, StoreGroup,
           Heartbeat, CheckTimeout, Crash, Unregister, handlerVars
  <2>7. QED
    BY <2>2, <2>3, <2>4, <2>5, <2>6 DEF Next, Handle
<1>2. GoTo(s, r, "queued")
  BY <1>1 DEF Forward, MayMiss, Following
<1>3. QED
  BY <1>2 DEF GoTo, TypeOK

\* Without faults nobody is harmed.
LEMMA NobodyHarmed == ASSUME Faults = {} PROVE Spec => [](harmed = {})
<1> DEFINE Calm == harmed = {} /\ TargetsInv
<1>1. Init => Calm
  BY ConstAssumption DEF Init, TargetsInv, Nodes
<1>2. TypeOK /\ TablesInv /\ Calm /\ [Next]_vars => Calm'
  <2> SUFFICES ASSUME TypeOK, TablesInv, Calm, [Next]_vars PROVE harmed' = {}
    BY TargetsInvStep
  <2>1. FollowInv
    BY DEF TablesInv, CompleteInv
  <2>2. CASE Next
    <3>1. ASSUME NEW s \in Slaves PROVE ~Harms(s)
      BY <2>1, <2>2, StaysListed, GetsReport DEF Harms, Following
    <3>2. QED
      BY <2>2, <3>1, NextRemembers DEF Remember
  <2>3. CASE UNCHANGED vars
    BY <2>3 DEF vars, history
  <2>4. QED
    BY <2>2, <2>3
<1>3. QED
  BY <1>1, <1>2, TablesAlways, PTL DEF Spec

\* Under every fault: no entry of the master's tables escapes a slave that follows and
\* that the faults have spared, whatever they did to the other slaves.
THEOREM CompleteUnharmed == Spec => [](\A s \in Slaves \ harmed : Following(s) => Covered(s))
<1>1. TypeOK /\ TablesInv => \A s \in Slaves \ harmed : Following(s) => Covered(s)
  BY DEF TablesInv, CompleteInv, CoveredInv
<1>2. QED
  BY <1>1, TablesAlways, PTL

\* Without faults (a copy of 20 seconds is one), no entry of the master's tables
\* escapes a slave that follows.
THEOREM Complete == ASSUME Faults = {} PROVE Spec => []BackupComplete
<1>1. TypeOK /\ TablesInv /\ harmed = {} => BackupComplete
  BY DEF TablesInv, CompleteInv, CoveredInv, BackupComplete
<1>2. QED
  BY <1>1, TablesAlways, NobodyHarmed, PTL

\* Without faults (a copy of 20 seconds is one), a settled slave has the master's
\* entries.
THEOREM SettledHasEntries ==
    ASSUME Faults = {} PROVE Spec => []SettledSlaveHasEntries
<1>1. TypeOK /\ TablesInv /\ harmed = {} => SettledSlaveHasEntries
  BY SettledSame DEF SettledSlaveHasEntries
<1>2. QED
  BY <1>1, TablesAlways, NobodyHarmed, PTL

\* Without faults, a file a query finds on a serving node has its location there,
\* or a report that brings it is on its way.
THEOREM HitsHaveLocations ==
    ASSUME Faults = {} PROVE Spec => []HitHasLocation
<1>1. TypeOK /\ TablesInv /\ harmed = {} => HitHasLocation
  <2> SUFFICES ASSUME TypeOK, TablesInv, harmed = {}, NEW n \in Nodes, Serving(n),
                      NEW p \in postings[n]
               PROVE  \/ lookup[n][p[2]] # NoWorker
                      \/ n # Master /\ \E r \in Reports : FileOf[r] = p[2] /\ Coming(r, n)
    BY DEF HitHasLocation
  <2> USE ConstAssumption DEF Nodes
  <2>1. CASE n = Master
    BY <2>1 DEF TablesInv, MasterHits
  <2>2. CASE n \in Slaves
    <3>1. p \in postings[Master] /\ p[2] \in Files
      BY <2>2 DEF TablesInv, AheadInv, BackupNeverAhead, TypeOK, Postings
    <3>2. lookup[Master][p[2]] # NoWorker
      BY <3>1 DEF TablesInv, MasterHits
    <3>3. sphase[n] = "serving" /\ n # Master
      BY <2>2 DEF Serving
    <3>4. QED
      BY <2>2, <3>1, <3>2, <3>3, ServingCovered
  <2>3. QED
    BY <2>1, <2>2
<1>2. QED
  BY <1>1, TablesAlways, NobodyHarmed, PTL

----------------------------------------------------------------------------
(***************************************************************************)
(* The values in the lookup tables: a settled slave that no fault met      *)
(* sends a retrieve where the master sends it, under every fault.          *)
(*                                                                         *)
(* A file that no two reports changed at once has one report under way at  *)
(* most, and then the master names the worker of that report (NamedInv).   *)
(* So a slave may overwrite its entry with any report it still holds, and  *)
(* the only thing left to show is that it overwrites in the right order:   *)
(* what it copied first, what it was forwarded after (CurrentInv).         *)
(***************************************************************************)

\* Two reports on a file under way at once are remembered.
RaceInv == \A r \in Reports : Races(r) => FileOf[r] \in raced

\* The master names the worker of the only report of a file under way.
NamedInv == \A r \in Reports : Spreading(r) =>
                \/ FileOf[r] \in raced
                \/ lookup[Master][FileOf[r]] = WorkerOf[r]

\* What the slave's entry of f becomes when it stores what it fetched.
Merged(s, f) == IF reply[s].lookup[f] # NoWorker THEN reply[s].lookup[f] ELSE lookup[s][f]

\* The slave has the master's location of f, has still to fetch it, or a report
\* on its way to the slave brings it.
Current(s, f) ==
    \/ ToFetch(s, LookupGroup[f])
    \/ \E r \in Reports : FileOf[r] = f /\ Coming(r, s)
    \/ Merged(s, f) = lookup[Master][f]

CurrentInv == \A s \in Slaves \ harmed : Following(s) => \A f \in Files \ raced : Current(s, f)

LocationInv == RaceInv /\ NamedInv /\ CurrentInv

----------------------------------------------------------------------------
(* Reports under way.                                                      *)

\* Remember writes down the races of the next state, and forgets none.
LEMMA RaceInvStep ==
    ASSUME RaceInv, [Next]_vars
    PROVE  RaceInv' /\ raced \subseteq raced'
<1>1. CASE Next
  <2>1. Remember
    BY <1>1, NextRemembers
  <2>2. QED
    BY <2>1 DEF Remember, RaceInv
<1>2. CASE UNCHANGED vars
  <2>1. /\ raced' = raced /\ hpc' = hpc
    BY <1>2 DEF vars, history, handlerVars
  <2>2. QED
    BY <2>1 DEF RaceInv, Races, Spreading
<1>3. QED
  BY <1>1, <1>2

\* A report starts to spread when the master takes it up.
LEMMA SpreadStep ==
    ASSUME TypeOK, [Next]_vars, NEW r \in Reports, Spreading(r)'
    PROVE  Spreading(r) \/ SetFileInfo(Master, r)
<1> DEFINE Goal == Spreading(r) \/ SetFileInfo(Master, r)
<1> USE ConstAssumption DEF Nodes
<1>1. CASE \A n \in Nodes : hpc'[n][r] = hpc[n][r]
  BY <1>1 DEF Spreading
<1>2. ASSUME NEW n \in Nodes, NEW q \in Reports, SetFileInfo(n, q) PROVE Goal
  <2>1. CASE n = Master /\ q = r
    BY <1>2, <2>1
  <2>2. CASE n # Master /\ q = r
    BY <1>2, <2>2 DEF SetFileInfo, Spreading
  <2>3. CASE q # r
    BY <1>1, <1>2, <2>3 DEF SetFileInfo, GoTo, TypeOK
  <2>4. QED
    BY <2>1, <2>2, <2>3
<1>3. ASSUME NEW n \in Nodes, NEW q \in Reports, GetSlavesList(n, q) \/ EndReport(n, q)
      PROVE  Goal
  <2>1. hpc[n][q] \in {"words", "forward"}
    BY <1>3 DEF GetSlavesList, EndReport
  <2>2. \A m \in Nodes, p \in Reports : m # n \/ p # q => hpc'[m][p] = hpc[m][p]
    BY <1>3 DEF GetSlavesList, EndReport, GoTo, TypeOK
  <2>3. hpc'[n][q] # "queued"
    BY <1>3 DEF GetSlavesList, EndReport, GoTo, TypeOK
  <2>4. QED
    BY <2>1, <2>2, <2>3 DEF Spreading
<1>4. ASSUME NEW n \in Nodes, NEW q \in Reports, NEW w \in Words, UpdateWord(n, q, w)
      PROVE Goal
  BY <1>1, <1>4 DEF UpdateWord
<1>5. ASSUME NEW q \in Reports, NEW t \in Slaves, Forward(q, t) PROVE Goal
  <2>1. CASE q = r
    BY <1>5, <2>1 DEF Forward, Spreading
  <2>2. CASE q # r
    <3>1. CASE UNCHANGED hpc
      BY <1>1, <3>1
    <3>2. CASE GoTo(t, q, "queued")
      BY <1>1, <2>2, <3>2 DEF GoTo, TypeOK
    <3>3. QED
      BY <1>5, <3>1, <3>2 DEF Forward
  <2>3. QED
    BY <2>1, <2>2
<1>6. ASSUME NEW q \in Reports, Report(q) PROVE Goal
  <2>1. hpc'[Master][r] = hpc[Master][r] \/ hpc'[Master][r] = "queued"
    BY <1>6 DEF Report, GoTo, TypeOK
  <2>2. \A s \in Slaves : hpc'[s][r] = hpc[s][r]
    BY <1>6 DEF Report, GoTo, TypeOK
  <2>3. QED
    BY <2>1, <2>2 DEF Spreading
<1>7. ASSUME NEW t \in Slaves, Lose(t) PROVE Goal
  BY <1>7 DEF Lose, TypeOK, Spreading
<1>8. ASSUME NEW t \in Slaves, \/ StartUp(t) \/ Start(t) \/ Heartbeat(t) \/ CheckTimeout(t)
      PROVE  Goal
  BY <1>1, <1>8 DEF StartUp, Start, Register, FetchGroup, BreakReply, RetryGroup, StoreGroup,
              Heartbeat, CheckTimeout, handlerVars
<1>9. CASE UNCHANGED vars
  BY <1>1, <1>9 DEF vars, handlerVars
<1>10. CASE Next
  BY <1>2, <1>3, <1>4, <1>5, <1>6, <1>7, <1>8, <1>10 DEF Next, Handle, Crash, Unregister
<1>11. QED
  BY <1>9, <1>10

\* Only the handler of a report changes the master's location of its file.
LEMMA MasterLocationStep ==
    ASSUME TypeOK, [Next]_vars, NEW f \in Files
    PROVE  \/ lookup'[Master][f] = lookup[Master][f]
           \/ \E r \in Reports : /\ FileOf[r] = f /\ SetFileInfo(Master, r)
                                 /\ lookup'[Master][f] = WorkerOf[r]
<1> DEFINE Goal == \/ lookup'[Master][f] = lookup[Master][f]
                   \/ \E r \in Reports : /\ FileOf[r] = f /\ SetFileInfo(Master, r)
                                         /\ lookup'[Master][f] = WorkerOf[r]
<1> USE ConstAssumption DEF Nodes
<1>1. CASE lookup'[Master] = lookup[Master]
  BY <1>1
<1>2. ASSUME NEW n \in Nodes, NEW r \in Reports, SetFileInfo(n, r) PROVE Goal
  <2>1. CASE n = Master
    <3>1. lookup'[Master] = [lookup[Master] EXCEPT ![FileOf[r]] = WorkerOf[r]]
      BY <1>2, <2>1 DEF SetFileInfo, TypeOK
    <3>2. lookup[Master] \in [Files -> Workers \cup {NoWorker}]
      BY DEF TypeOK, Lookups
    <3>3. CASE f = FileOf[r]
      BY <1>2, <2>1, <3>1, <3>2, <3>3
    <3>4. CASE f # FileOf[r]
      BY <3>1, <3>2, <3>4
    <3>5. QED
      BY <3>3, <3>4
  <2>2. CASE n # Master
    BY <1>1, <1>2, <2>2 DEF SetFileInfo, TypeOK
  <2>3. QED
    BY <2>1, <2>2
<1>3. ASSUME NEW t \in Slaves, StoreGroup(t) \/ Lose(t) PROVE Goal
  BY <1>1, <1>3 DEF StoreGroup, Lose, TypeOK
<1>4. ASSUME NEW n \in Nodes, NEW r \in Reports, NEW w \in Words, UpdateWord(n, r, w)
      PROVE Goal
  BY <1>1, <1>4 DEF UpdateWord
<1>5. CASE UNCHANGED tableVars
  BY <1>1, <1>5 DEF tableVars
<1>6. CASE UNCHANGED vars
  BY <1>5, <1>6 DEF vars, slaveVars
<1>7. CASE Next
  BY <1>2, <1>3, <1>4, <1>5, <1>7, QuietActions
     DEF Next, Handle, StartUp, Crash, Unregister
<1>8. QED
  BY <1>6, <1>7

\* A report the master has just taken up is under way.
LEMMA TakenUpSpreads ==
    ASSUME TypeOK, NEW r \in Reports, SetFileInfo(Master, r)
    PROVE  Spreading(r)' /\ hpc'[Master][r] = "words"
           /\ lookup'[Master][FileOf[r]] = WorkerOf[r]
BY ConstAssumption DEF SetFileInfo, GoTo, TypeOK, Lookups, Nodes, Spreading

LEMMA NamedInvStep ==
    ASSUME TypeOK, RaceInv, NamedInv, [Next]_vars
    PROVE  NamedInv'
<1> SUFFICES ASSUME NEW r \in Reports, Spreading(r)', FileOf[r] \notin raced'
             PROVE  lookup'[Master][FileOf[r]] = WorkerOf[r]
  BY DEF NamedInv
<1> USE ConstAssumption
<1>1. RaceInv' /\ FileOf[r] \notin raced
  BY RaceInvStep
<1>2. CASE SetFileInfo(Master, r)
  BY <1>2, TakenUpSpreads
<1>3. ASSUME Spreading(r), ~SetFileInfo(Master, r)
      PROVE  lookup'[Master][FileOf[r]] = WorkerOf[r]
  <2>1. lookup[Master][FileOf[r]] = WorkerOf[r]
    BY <1>1, <1>3 DEF NamedInv
  <2>2. ASSUME NEW q \in Reports, FileOf[q] = FileOf[r], SetFileInfo(Master, q)
        PROVE  FALSE
    <3>1. q # r /\ Spreading(q)'
      BY <1>3, <2>2, TakenUpSpreads
    <3>2. Races(r)'
      BY <2>2, <3>1 DEF Races
    <3>3. QED
      BY <1>1, <3>2 DEF RaceInv
  <2>3. QED
    BY <2>1, <2>2, MasterLocationStep
<1>4. QED
  BY <1>2, <1>3, SpreadStep

----------------------------------------------------------------------------
(* The entry of one slave.                                                 *)

\* A slave's location of a file changes when it fetches its group, and when it
\* takes up a report on it, which it does when it has stored every group only.
LEMMA SlaveLocationStep ==
    ASSUME TypeOK, FollowInv, [Next]_vars,
           NEW s \in Slaves, s \notin harmed', Following(s), Following(s)',
           NEW f \in Files, ~ToFetch(s, LookupGroup[f])
    PROVE  \/ Merged(s, f)' = Merged(s, f)
           \/ \E r \in Reports : /\ FileOf[r] = f /\ hpc[s][r] = "queued"
                                 /\ Merged(s, f)' = WorkerOf[r]
<1> DEFINE Goal == \/ Merged(s, f)' = Merged(s, f)
                   \/ \E r \in Reports : /\ FileOf[r] = f /\ hpc[s][r] = "queued"
                                         /\ Merged(s, f)' = WorkerOf[r]
<1> USE ConstAssumption DEF Nodes
<1>0. s # Master /\ lookup[s] \in Lookups
  BY DEF TypeOK
<1>1. CASE lookup'[s] = lookup[s] /\ reply'[s] = reply[s]
  BY <1>1 DEF Merged
<1>2. ASSUME NEW r \in Reports, SetFileInfo(s, r) PROVE Goal
  <2>1. sphase[s] = "serving" /\ hpc[s][r] = "queued" /\ reply' = reply
    BY <1>2 DEF SetFileInfo, Serving, slaveVars
  <2>2. reply[s].lookup[f] = NoWorker
    BY <2>1 DEF FollowInv, NoReply, NoFiles
  <2>3. lookup'[s] = [lookup[s] EXCEPT ![FileOf[r]] = WorkerOf[r]]
    BY <1>2 DEF SetFileInfo, TypeOK
  <2>4. CASE f = FileOf[r]
    <3>1. lookup'[s][f] = WorkerOf[r]
      BY <1>0, <2>3, <2>4 DEF Lookups
    <3>2. QED
      BY <2>1, <2>2, <2>4, <3>1 DEF Merged
  <2>5. CASE f # FileOf[r]
    <3>1. lookup'[s][f] = lookup[s][f]
      BY <1>0, <2>3, <2>5 DEF Lookups
    <3>2. QED
      BY <2>1, <3>1 DEF Merged
  <2>6. QED
    BY <2>4, <2>5
<1>3. ASSUME NEW n \in Nodes, n # s, NEW r \in Reports, SetFileInfo(n, r) PROVE Goal
  BY <1>1, <1>3 DEF SetFileInfo, TypeOK, slaveVars
<1>4. ASSUME NEW n \in Nodes, NEW r \in Reports,
             \/ GetSlavesList(n, r) \/ EndReport(n, r) \/ Report(r)
             \/ \E w \in Words : UpdateWord(n, r, w)
             \/ \E t \in Slaves : Forward(r, t)
      PROVE Goal
  BY <1>1, <1>4 DEF GetSlavesList, EndReport, Report, UpdateWord, Forward, slaveVars, tableVars
<1>5. CASE FetchGroup(s)
  <2>1. reply[s].lookup[f] = NoWorker
    BY <1>5 DEF FetchGroup, FollowInv, NoReply, NoFiles
  <2>2. LookupGroup[f] # group[s] /\ reply'[s] = GroupData(group[s]) /\ lookup' = lookup
    BY <1>5 DEF FetchGroup, ToFetch, TypeOK, tableVars
  <2>3. reply'[s].lookup[f] = NoWorker
    BY <2>2 DEF GroupData
  <2>4. QED
    BY <2>1, <2>2, <2>3 DEF Merged
<1>6. CASE StoreGroup(s)
  <2>1. lookup'[s] = [g \in Files |-> IF reply[s].lookup[g] # NoWorker
                                      THEN reply[s].lookup[g] ELSE lookup[s][g]]
    BY <1>6 DEF StoreGroup, TypeOK
  <2>2. reply'[s].lookup[f] = NoWorker
    BY <1>6 DEF StoreGroup, TypeOK, NoReply, NoFiles
  <2>3. QED
    BY <2>1, <2>2 DEF Merged
<1>7. ~BreakReply(s) /\ ~RetryGroup(s) /\ ~Register(s) /\ ~Start(s) /\ ~Lose(s)
  BY UnharmedStep DEF BreakReply, RetryGroup, Register, Start, Lose, Following, TypeOK
<1>8. ASSUME NEW t \in Slaves, t # s, StartUp(t) \/ Start(t) PROVE Goal
  BY <1>0, <1>1, <1>8
     DEF StartUp, Register, FetchGroup, BreakReply, RetryGroup, StoreGroup, Start, TypeOK,
         tableVars
<1>9. ASSUME NEW t \in Slaves, t # s, Lose(t) PROVE Goal
  BY <1>1, <1>9 DEF Lose, TypeOK
<1>10. ASSUME NEW t \in Slaves, Heartbeat(t) \/ CheckTimeout(t) PROVE Goal
  BY <1>1, <1>10 DEF Heartbeat, CheckTimeout, tableVars, slaveVars
<1>11. CASE UNCHANGED vars
  BY <1>1, <1>11 DEF vars, tableVars, slaveVars
<1>12. CASE Next
  BY <1>2, <1>3, <1>4, <1>5, <1>6, <1>7, <1>8, <1>9, <1>10, <1>12
     DEF Next, Handle, StartUp, Crash, Unregister
<1>13. QED
  BY <1>11, <1>12

\* What keeps a slave's location current goes on to keep it so.
LEMMA CurrentStep ==
    ASSUME TypeOK, TablesInv, BackupNeverAhead', NamedInv, [Next]_vars,
           NEW s \in Slaves, s \notin harmed', Following(s), Following(s)',
           NEW f \in Files, f \notin raced, Current(s, f)
    PROVE  Current(s, f)'
<1> USE ConstAssumption
<1>0. /\ FollowInv /\ s \in slist /\ s \in slist'
  BY UnharmedStep DEF TablesInv, CompleteInv
<1>1. CASE lookup'[Master][f] # lookup[Master][f]
  BY <1>0, <1>1, NewEntryComes DEF Current
<1>2. CASE lookup'[Master][f] = lookup[Master][f]
  <2>1. ASSUME NEW r \in Reports, FileOf[r] = f, hpc[s][r] = "queued"
        PROVE  lookup[Master][f] = WorkerOf[r]
    BY <2>1 DEF NamedInv, Spreading
  <2>2. CASE ToFetch(s, LookupGroup[f])
    <3>1. LookupGroup[f] \in 1..NumGroups
      BY DEF NumGroups
    <3>2. CASE ToFetch(s, LookupGroup[f])'
      BY <3>2 DEF Current
    <3>3. CASE reply'[s] = GroupData(LookupGroup[f])
      <4>1. reply'[s].lookup[f] = lookup'[Master][f]
        BY <1>2, <3>3 DEF GroupData
      <4>2. lookup'[Master][f] = NoWorker => lookup'[s][f] = NoWorker
        BY DEF BackupNeverAhead
      <4>3. QED
        BY <4>1, <4>2 DEF Current, Merged
    <3>4. QED
      BY <1>0, <2>2, <3>1, <3>2, <3>3, FetchStep
  <2>3. ASSUME NEW r \in Reports, FileOf[r] = f, Coming(r, s) PROVE Current(s, f)'
    <3>1. CASE Coming(r, s)'
      BY <2>3, <3>1 DEF Current
    <3>2. CASE SetFileInfo(s, r)
      <4>1. sphase[s] = "serving" /\ hpc[s][r] = "queued" /\ reply' = reply
        BY <3>2 DEF SetFileInfo, Serving, slaveVars
      <4>2. reply'[s].lookup[f] = NoWorker
        BY <1>0, <4>1 DEF FollowInv, NoReply, NoFiles
      <4>3. lookup'[s][f] = WorkerOf[r]
        BY <2>3, <3>2 DEF SetFileInfo, TypeOK, Lookups, Nodes
      <4>4. lookup'[Master][f] = WorkerOf[r]
        BY <1>2, <2>1, <2>3, <4>1
      <4>5. QED
        BY <4>2, <4>3, <4>4 DEF Current, Merged
    <3>3. QED
      BY <1>0, <2>3, <3>1, <3>2, ComingStep
  <2>4. CASE ~ToFetch(s, LookupGroup[f]) /\ Merged(s, f) = lookup[Master][f]
    <3>1. Merged(s, f)' = lookup[Master][f]
      BY <1>0, <2>1, <2>4, SlaveLocationStep
    <3>2. QED
      BY <1>2, <3>1 DEF Current
  <2>5. QED
    BY <2>2, <2>3, <2>4 DEF Current
<1>3. QED
  BY <1>1, <1>2

LEMMA CurrentInvStep ==
    ASSUME TypeOK, TablesInv, TablesInv', LocationInv, [Next]_vars
    PROVE  CurrentInv'
<1> SUFFICES ASSUME NEW s \in Slaves, s \notin harmed', Following(s)',
                    NEW f \in Files, f \notin raced'
             PROVE  Current(s, f)'
  BY DEF CurrentInv
<1>1. f \notin raced /\ FollowInv
  BY RaceInvStep DEF LocationInv, TablesInv, CompleteInv
<1>2. CASE ~Following(s)
  <2>1. LookupGroup[f] \in 1..NumGroups
    BY ConstAssumption DEF NumGroups
  <2>2. QED
    BY <1>1, <1>2, <2>1, FollowingStarts DEF Current
<1>3. CASE Following(s)
  <2>1. s \notin harmed
    BY <1>1, <1>3, UnharmedStep
  <2>2. Current(s, f)
    BY <1>1, <1>3, <2>1 DEF LocationInv, CurrentInv
  <2>3. BackupNeverAhead'
    BY DEF TablesInv, AheadInv
  <2>4. QED
    BY <1>1, <1>3, <2>2, <2>3, CurrentStep DEF LocationInv
<1>4. QED
  BY <1>2, <1>3

----------------------------------------------------------------------------
(* The locations of a settled slave.                                       *)

\* A settled slave that no fault met names the worker the master names, for every
\* file no two reports changed at once: the copy of process_backup is stored before
\* the reports that waited in the backlog are handled.
THEOREM SettledLocationsAgree == Spec => []LocationsAgree
<1>1. Init => LocationInv
  BY ConstAssumption
     DEF Init, LocationInv, RaceInv, Races, NamedInv, Spreading, CurrentInv, Following, Nodes
<1>2. TypeOK /\ TablesInv /\ TablesInv' /\ LocationInv /\ [Next]_vars => LocationInv'
  BY RaceInvStep, NamedInvStep, CurrentInvStep DEF LocationInv
<1>3. Spec => []LocationInv
  BY <1>1, <1>2, TablesAlways, PTL DEF Spec
<1>4. TypeOK /\ TablesInv /\ LocationInv => LocationsAgree
  <2> SUFFICES ASSUME TypeOK, TablesInv, LocationInv, NEW s \in Slaves \ harmed, Settled(s),
                      NEW f \in Files \ raced
               PROVE  lookup[s][f] = lookup[Master][f]
    BY DEF LocationsAgree
  <2>1. sphase[s] = "serving" /\ \A r \in Reports : ~Coming(r, s)
    BY DEF Settled, Coming, WillForward
  <2>2. LookupGroup[f] \in 1..NumGroups
    BY ConstAssumption DEF NumGroups
  <2>3. ~ToFetch(s, LookupGroup[f])
    BY ConstAssumption, <2>1, <2>2 DEF TablesInv, ServingInv, ToFetch, TypeOK, NumGroups
  <2>4. reply[s].lookup[f] = NoWorker
    BY <2>1 DEF TablesInv, CompleteInv, FollowInv, NoReply, NoFiles
  <2>5. Current(s, f)
    BY <2>1 DEF LocationInv, CurrentInv, Following
  <2>6. QED
    BY <2>1, <2>3, <2>4, <2>5 DEF Current, Merged
<1>5. QED
  BY <1>3, <1>4, TablesAlways, PTL
=============================================================================
