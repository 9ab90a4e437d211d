--------------------------- MODULE IndexingProofs ---------------------------
(***************************************************************************)
(* Proofs about Indexing, for every number of files, uishell threads,      *)
(* workers, consumer threads and readers, and every set of faults.         *)
(***************************************************************************)
EXTENDS Indexing, SequenceTheorems, FiniteSetTheorems, TLAPS

(* What a queue holds, after each of its two operations.                   *)

LEMMA ToSetAppend ==
    ASSUME NEW S, NEW seq \in Seq(S), NEW e \in S
    PROVE  ToSet(Append(seq, e)) = ToSet(seq) \cup {e}
<1>1. /\ DOMAIN seq = 1 .. Len(seq) /\ Len(seq) \in Nat
      /\ DOMAIN Append(seq, e) = 1 .. (Len(seq) + 1)
  BY DEF ToSet
<1>2. /\ \A j \in 1 .. Len(seq) : Append(seq, e)[j] = seq[j]
      /\ Append(seq, e)[Len(seq) + 1] = e
  OBVIOUS
<1>3. QED
  BY <1>1, <1>2 DEF ToSet

LEMMA ToSetTail ==
    ASSUME NEW S, NEW seq \in Seq(S), seq # <<>>
    PROVE  ToSet(seq) = {Head(seq)} \cup ToSet(Tail(seq))
<1>1. /\ DOMAIN seq = 1 .. Len(seq) /\ Len(seq) \in Nat /\ Len(seq) > 0
      /\ DOMAIN Tail(seq) = 1 .. (Len(seq) - 1)
      /\ Head(seq) = seq[1]
      /\ \A j \in 1 .. (Len(seq) - 1) : Tail(seq)[j] = seq[j + 1]
  BY HeadTailProperties, LenProperties
<1>2. \A j \in 1 .. Len(seq) : j = 1 \/ (j - 1 \in 1 .. (Len(seq) - 1) /\ (j - 1) + 1 = j)
  BY <1>1
<1>3. \A j \in 1 .. (Len(seq) - 1) : j + 1 \in 1 .. Len(seq)
  BY <1>1
<1>4. ToSet(seq) \subseteq {Head(seq)} \cup ToSet(Tail(seq))
  <2>1. ASSUME NEW j \in 1 .. Len(seq), j # 1
        PROVE  j - 1 \in DOMAIN Tail(seq) /\ Tail(seq)[j - 1] = seq[j]
    BY <1>1, <1>2, <2>1
  <2>2. ASSUME NEW e \in ToSet(seq), e # Head(seq)
        PROVE  e \in ToSet(Tail(seq))
    <3>1. PICK j \in DOMAIN seq : e = seq[j]
      BY DEF ToSet
    <3>2. j - 1 \in DOMAIN Tail(seq) /\ Tail(seq)[j - 1] = e
      BY <1>1, <2>1, <2>2, <3>1
    <3>3. QED
      BY <3>2, Zenon DEF ToSet
  <2>3. QED
    BY <2>2
<1>5. {Head(seq)} \cup ToSet(Tail(seq)) \subseteq ToSet(seq)
  BY <1>1, <1>3 DEF ToSet
<1>6. QED
  BY <1>4, <1>5

----------------------------------------------------------------------------
(* Type correctness.                                                       *)

\* The counter of the files given to the index command keeps its bound.
LEMMA SentBounded ==
    ASSUME TypeOK, IndexCommand
    PROVE  sent' \in 0..MaxSent /\ pending' \in SUBSET Files
<1>1. PICK files \in SUBSET Files \ {{}} :
         sent + Cardinality(files) <= MaxSent /\ pending' = files
         /\ sent' = sent + Cardinality(files)
  BY DEF IndexCommand
<1>2. Cardinality(files) \in Nat
  BY <1>1, FS_Subset, FS_CardinalityType, ConstAssumption
<1>3. QED
  BY <1>1, <1>2, ConstAssumption DEF TypeOK

LEMMA QueueType ==
    ASSUME TypeOK, queue # <<>>
    PROVE  Head(queue) \in Files /\ Tail(queue) \in Seq(Files)
BY HeadTailProperties DEF TypeOK

\* A consumer has a file exactly while it is at a task, a reader while its request
\* is at a worker.
Carrying ==
    /\ \A c \in Consumers : cpc[c] = "idle" <=> cfile[c] = NoFile
    /\ \A q \in Readers : reader[q].worker = NoWorker <=> reader[q].file = NoFile

Typed == TypeOK /\ Carrying

LEMMA InitTyped == Init => Typed
BY ConstAssumption DEF Init, Typed, TypeOK, Carrying, NoRequest

LEMMA TypedStep ==
    ASSUME Typed, [Next]_vars
    PROVE  Typed'
<1> USE ConstAssumption DEF Typed, TypeOK, Carrying, Fault
<1>1. CASE IndexCommand
  BY <1>1, SentBounded DEF IndexCommand, consumerVars, tableVars, history
<1>2. ASSUME NEW p \in Putters, TakePath(p) PROVE Typed'
  BY <1>2 DEF TakePath, consumerVars, tableVars, history
<1>3. ASSUME NEW p \in Putters, Put(p) PROVE Typed'
  <2>1. putting[p] \in Files /\ Append(queue, putting[p]) \in Seq(Files)
    BY <1>3, AppendProperties DEF Put
  <2>2. QED
    BY <1>3, <2>1 DEF Put, ProcessPut, Enqueue, consumerVars, tableVars
<1>4. ASSUME NEW c \in Consumers, Poll(c) PROVE Typed'
  <2>1. queue' \in Seq(Files) /\ Head(queue) \in Files
    BY <1>4, QueueType DEF Poll, Dequeue
  <2>2. CASE Polled(c, Head(queue)) /\ UNCHANGED happened
    BY <1>4, <2>1, <2>2 DEF Poll, Polled, clientVars, tableVars
  <2>3. CASE Fault("loss") /\ UNCHANGED <<cpc, cfile>>
    BY <1>4, <2>1, <2>3 DEF Poll, clientVars, tableVars
  <2>4. QED
    BY <1>4, <2>2, <2>3 DEF Poll
<1>5. ASSUME NEW c \in Consumers, OpenFile(c) PROVE Typed'
  BY <1>5 DEF OpenFile, clientVars, tableVars, history
<1>6. ASSUME NEW c \in Consumers, WriteFile(c) PROVE Typed'
  BY <1>6 DEF WriteFile, clientVars, tableVars, history
<1>7. ASSUME NEW c \in Consumers, SaveFails(c) \/ WriteFails(c) PROVE Typed'
  <2>1. CASE SaveFails(c)
    BY <2>1 DEF SaveFails, clientVars, tableVars
  <2>2. CASE WriteFails(c)
    BY <2>2 DEF WriteFails, clientVars, tableVars
  <2>3. QED
    BY <1>7, <2>1, <2>2
<1>8. ASSUME NEW c \in Consumers, Report(c) PROVE Typed'
  <2>1. <<cfile[c], HomeOf[c]>> \in Reports
    BY <1>8 DEF Report, Reports
  <2>2. QED
    BY <1>8, <2>1 DEF Report, clientVars
<1>9. ASSUME NEW m \in Reports, SetFileInfo(m) PROVE Typed'
  BY <1>9 DEF SetFileInfo, clientVars, consumerVars, history, Reports
<1>10. ASSUME NEW m \in Reports, UpdateWords(m) PROVE Typed'
  BY <1>10 DEF UpdateWords, clientVars, consumerVars, history, Reports
<1>11. ASSUME NEW q \in Readers, NEW f \in Files, AskLocation(q, f) PROVE Typed'
  BY <1>11 DEF AskLocation, HasLocation, clientVars, consumerVars, tableVars, history
<1>12. ASSUME NEW q \in Readers, Load(q) PROVE Typed'
  <2>1. disk[reader[q].worker][reader[q].file] \in {"none", "torn", "whole"}
    <3>1. reader[q].worker \in Workers /\ reader[q].file \in Files
      BY <1>12 DEF Load
    <3>2. QED
      BY <3>1
  <2>2. QED
    BY <1>12, <2>1 DEF Load, NoRequest, clientVars, consumerVars, tableVars, history
<1>13. ASSUME NEW q \in Readers, RetrieveFails(q) PROVE Typed'
  BY <1>13 DEF RetrieveFails, NoRequest, clientVars, consumerVars, tableVars, history
<1>14. ASSUME NEW k \in Workers, StopWorker(k) \/ ExitWorker(k) \/ StartWorker(k)
       PROVE  Typed'
  BY <1>14 DEF StopWorker, ExitWorker, StartWorker, clientVars, tableVars, history
<1>15. ASSUME NEW k \in Workers, CrashWorker(k) PROVE Typed'
  BY <1>15 DEF CrashWorker, clientVars, tableVars
<1>16. CASE UNCHANGED vars
  BY <1>16 DEF vars, clientVars, consumerVars, tableVars, history
<1>17. QED
  BY <1>1, <1>2, <1>3, <1>4, <1>5, <1>6, <1>7, <1>8, <1>9, <1>10, <1>11, <1>12,
     <1>13, <1>14, <1>15, <1>16 DEF Next, Client, Consume, Retrieve, Process

THEOREM TypedAlways == Spec => []Typed
BY InitTyped, TypedStep, PTL DEF Spec

\* Every variable keeps its type: consumers, reports and requests only ever carry
\* files of the directory and addresses of workers.
THEOREM TypeCorrect == Spec => []TypeOK
BY TypedAlways, PTL DEF Typed

----------------------------------------------------------------------------
(* No accepted file is forgotten.                                          *)

\* The file a step of a consumer or of a handler takes out of one place is in the
\* next one.
LEMMA NothingLostStep ==
    ASSUME Typed, NothingLost, [Next]_vars
    PROVE  NothingLost'
<1> SUFFICES ASSUME happened' \cap {"loss", "crash"} = {},
                    NEW f \in accepted'
             PROVE  f \in indexed' \/ Underway(f)'
  BY DEF NothingLost
<1> USE ConstAssumption DEF Fault
<1>0. happened \subseteq happened'
  BY DEF Next, IndexCommand, Client, TakePath, Put, Consume, Poll, OpenFile, WriteFile,
         WriteFails, SaveFails, Report, SetFileInfo, UpdateWords, Retrieve, AskLocation,
         Load, RetrieveFails, Process, StopWorker, ExitWorker, CrashWorker, StartWorker,
         vars, history, ProcessPut
<1>1. f \in accepted => f \in indexed \/ Underway(f)
  BY <1>0 DEF NothingLost
<1>2. CASE UNCHANGED <<queue, cfile, inbox, updating, indexed, accepted>>
  BY <1>1, <1>2 DEF Underway
<1>3. ASSUME NEW p \in Putters, ProcessPut(putting[p]), putting[p] \in Files,
             UNCHANGED <<cfile, inbox, updating, indexed>>
      PROVE  f \in indexed' \/ Underway(f)'
  <2>1. ToSet(queue') = ToSet(queue) \cup {putting[p]}
    BY <1>3, ToSetAppend DEF ProcessPut, Enqueue, Typed, TypeOK
  <2>2. QED
    BY <1>1, <1>3, <2>1 DEF ProcessPut, Underway
<1>4. ASSUME NEW p \in Putters, Put(p) PROVE f \in indexed' \/ Underway(f)'
  BY <1>2, <1>3, <1>4 DEF Put, consumerVars, tableVars, Typed, TypeOK
<1>5. ASSUME NEW c \in Consumers, Poll(c) PROVE f \in indexed' \/ Underway(f)'
  <2>1. ToSet(queue) = {Head(queue)} \cup ToSet(queue')
    BY <1>5, ToSetTail DEF Poll, Dequeue, Typed, TypeOK
  <2>2. cfile[c] = NoFile /\ cfile' = [cfile EXCEPT ![c] = Head(queue)]
    BY <1>5 DEF Poll, Polled, Typed, Carrying
  <2>3. UNCHANGED <<inbox, updating, indexed, accepted>> /\ f # NoFile
    BY <1>5 DEF Poll, tableVars, Typed, TypeOK
  <2>4. ASSUME NEW d \in Consumers, cfile[d] = f PROVE cfile'[d] = f
    BY <2>2, <2>3, <2>4 DEF Typed, TypeOK
  <2>5. cfile'[c] = Head(queue)
    BY <2>2 DEF Typed, TypeOK
  <2>6. QED
    BY <1>1, <2>1, <2>3, <2>4, <2>5 DEF Underway
<1>6. ASSUME NEW c \in Consumers, Report(c) PROVE f \in indexed' \/ Underway(f)'
  <2>1. inbox' = inbox \cup {<<cfile[c], HomeOf[c]>>}
    BY <1>6 DEF Report
  <2>2. UNCHANGED <<queue, updating, indexed, accepted>>
    BY <1>6 DEF Report
  <2>3. ASSUME NEW d \in Consumers, cfile[d] = f, d # c PROVE cfile'[d] = f
    BY <1>6, <2>3 DEF Report, Typed, TypeOK
  <2>4. HomeOf[c] \in Workers
    OBVIOUS
  <2>5. QED
    BY <1>1, <2>1, <2>2, <2>3, <2>4 DEF Underway
<1>7. ASSUME NEW m \in Reports, SetFileInfo(m) PROVE f \in indexed' \/ Underway(f)'
  <2>1. inbox \cup updating \subseteq inbox' \cup updating'
    BY <1>7 DEF SetFileInfo
  <2>2. QED
    BY <1>1, <1>7, <2>1 DEF SetFileInfo, Underway, consumerVars, history
<1>8. ASSUME NEW m \in Reports, UpdateWords(m) PROVE f \in indexed' \/ Underway(f)'
  <2>1. ASSUME NEW k \in Workers, <<f, k>> \in inbox \cup updating
        PROVE  f \in indexed' \/ <<f, k>> \in inbox' \cup updating'
    BY <1>8, <2>1 DEF UpdateWords
  <2>2. QED
    BY <1>1, <1>8, <2>1 DEF UpdateWords, Underway, consumerVars, history
<1>9. ASSUME NEW k \in Workers, CrashWorker(k) PROVE f \in indexed' \/ Underway(f)'
  BY <1>9 DEF CrashWorker
<1>10. QED
  BY <1>2, <1>4, <1>5, <1>6, <1>7, <1>8, <1>9
     DEF Next, Client, Consume, Retrieve, Process, IndexCommand, TakePath, OpenFile,
         WriteFile, WriteFails, SaveFails, AskLocation, Load, RetrieveFails, StopWorker,
         ExitWorker, StartWorker, vars, consumerVars, tableVars, history

\* Unless a poll or a report was lost or a worker died, every file the master accepted
\* is in the index, in its queue, with a consumer, or in a report: for any number of
\* consumers and workers, with workers stopped and started and saves that fail.
THEOREM NothingForgotten == Spec => []NothingLost
<1>1. Init => NothingLost
  BY DEF Init, NothingLost
<1>2. QED
  BY <1>1, TypedAlways, NothingLostStep, PTL DEF Spec

----------------------------------------------------------------------------
(* A retrieve loads a file that is whole.                                  *)

\* A file is torn only as long as the consumer that opened it is in save().
TornWhileWriting ==
    happened \cap {"crash", "write_fails"} = {} =>
        \A k \in Workers, f \in Files : disk[k][f] = "torn" => Writing(k, f)

TornInv == TornWhileWriting /\ NeverTorn

\* A file whose lock is free is not being written.
LEMMA LockCovers ==
    ASSUME NEW k \in Workers, NEW f \in Files, ~Locked(k, f)
    PROVE  ~Writing(k, f)
BY DEF Locked

LEMMA TornStep ==
    ASSUME Typed, TornInv, [Next]_vars
    PROVE  TornInv'
<1> SUFFICES ASSUME happened' \cap {"crash", "write_fails"} = {}
             PROVE  /\ \A k \in Workers, f \in Files : disk'[k][f] = "torn" => Writing(k, f)'
                    /\ \A q \in Readers : reader'[q].got # "torn"
  BY DEF TornInv, TornWhileWriting, NeverTorn
<1> DEFINE Goal == /\ \A k \in Workers, f \in Files : disk'[k][f] = "torn" => Writing(k, f)'
                   /\ \A q \in Readers : reader'[q].got # "torn"
<1> USE ConstAssumption DEF Fault
<1>0. happened \subseteq happened'
  BY DEF Next, IndexCommand, Client, TakePath, Put, Consume, Poll, OpenFile, WriteFile,
         WriteFails, SaveFails, Report, SetFileInfo, UpdateWords, Retrieve, AskLocation,
         Load, RetrieveFails, Process, StopWorker, ExitWorker, CrashWorker, StartWorker,
         vars, history, ProcessPut
<1>1. /\ \A k \in Workers, f \in Files : disk[k][f] = "torn" => Writing(k, f)
      /\ \A q \in Readers : reader[q].got # "torn"
  BY <1>0 DEF TornInv, TornWhileWriting, NeverTorn
<1>2. CASE UNCHANGED <<disk, cpc, cfile, reader>>
  BY <1>1, <1>2 DEF Writing
<1>3. ASSUME NEW c \in Consumers, UNCHANGED <<disk, reader>>, cpc[c] # "writing",
             \A d \in Consumers \ {c} : cpc'[d] = cpc[d] /\ cfile'[d] = cfile[d]
      PROVE  Goal
  BY <1>1, <1>3 DEF Writing
<1>4. ASSUME NEW c \in Consumers, Poll(c) PROVE Goal
  BY <1>3, <1>4 DEF Poll, Polled, Typed, TypeOK
<1>5. ASSUME NEW c \in Consumers, SaveFails(c) PROVE Goal
  BY <1>3, <1>5 DEF SaveFails, Typed, TypeOK
<1>6. ASSUME NEW c \in Consumers, Report(c) PROVE Goal
  BY <1>3, <1>6 DEF Report, Typed, TypeOK
<1>7. ASSUME NEW c \in Consumers, OpenFile(c) PROVE Goal
  <2>1. cpc'[c] = "writing" /\ cfile' = cfile /\ reader' = reader
    BY <1>7 DEF OpenFile, Typed, TypeOK
  <2>2. \A d \in Consumers : cpc[d] = "writing" => cpc'[d] = "writing"
    BY <1>7 DEF OpenFile, Typed, TypeOK
  <2>3. ASSUME NEW k \in Workers, NEW f \in Files, ~(k = HomeOf[c] /\ f = cfile[c])
        PROVE  disk'[k][f] = disk[k][f]
    BY <1>7, <2>3 DEF OpenFile, Typed, TypeOK
  <2>4. QED
    BY <1>1, <2>1, <2>2, <2>3 DEF Writing
<1>8. ASSUME NEW c \in Consumers, WriteFile(c) PROVE Goal
  <2>1. cfile' = cfile /\ reader' = reader
    BY <1>8 DEF WriteFile
  <2>2. \A d \in Consumers : d # c => cpc'[d] = cpc[d]
    BY <1>8 DEF WriteFile, Typed, TypeOK
  <2>3. cfile[c] \in Files
    BY <1>8 DEF WriteFile, Typed, TypeOK, Carrying
  <2>4. disk'[HomeOf[c]][cfile[c]] = "whole"
    BY <1>8, <2>3 DEF WriteFile, Typed, TypeOK
  <2>5. ASSUME NEW k \in Workers, NEW f \in Files, ~(k = HomeOf[c] /\ f = cfile[c])
        PROVE  disk'[k][f] = disk[k][f]
    BY <1>8, <2>5 DEF WriteFile, Typed, TypeOK
  <2>6. QED
    BY <1>1, <2>1, <2>2, <2>4, <2>5 DEF Writing
<1>9. ASSUME NEW q \in Readers, NEW f \in Files, AskLocation(q, f) PROVE Goal
  BY <1>1, <1>9 DEF AskLocation, consumerVars, Writing, Typed, TypeOK
<1>10. ASSUME NEW q \in Readers, Load(q) PROVE Goal
  <2>1. reader[q].worker \in Workers /\ reader[q].file \in Files
    BY <1>10 DEF Load, Typed, TypeOK, Carrying
  <2>2. disk[reader[q].worker][reader[q].file] # "torn"
    BY <1>1, <1>10, <2>1, LockCovers DEF Load
  <2>3. \A r \in Readers : reader'[r].got # "torn"
    BY <1>1, <1>10, <2>2 DEF Load, NoRequest, Typed, TypeOK
  <2>4. QED
    BY <1>1, <1>10, <2>3 DEF Load, consumerVars, Writing
<1>11. ASSUME NEW q \in Readers, RetrieveFails(q) PROVE Goal
  BY <1>1, <1>11 DEF RetrieveFails, NoRequest, consumerVars, Writing, Typed, TypeOK
<1>12. ASSUME NEW k \in Workers, CrashWorker(k) PROVE Goal
  BY <1>12 DEF CrashWorker
<1>13. ASSUME NEW c \in Consumers, WriteFails(c) PROVE Goal
  BY <1>13 DEF WriteFails
<1>14. QED
  BY <1>2, <1>4, <1>5, <1>6, <1>7, <1>8, <1>9, <1>10, <1>11, <1>12, <1>13
     DEF Next, Client, Consume, Retrieve, Process, IndexCommand, TakePath, Put,
         SetFileInfo, UpdateWords, StopWorker, ExitWorker, StartWorker, vars,
         consumerVars, tableVars, history

\* No retrieve returns half of a file another consumer is writing, however files share
\* the locks of a worker; only a crash in the middle of a save, and a write that failed,
\* leave one.
THEOREM LoadedWhole == Spec => []NeverTorn
<1>1. Init => TornInv
  BY ConstAssumption DEF Init, TornInv, TornWhileWriting, NeverTorn, NoRequest
<1>2. TornInv => NeverTorn
  BY DEF TornInv
<1>3. QED
  BY <1>1, <1>2, TypedAlways, TornStep, PTL DEF Spec

----------------------------------------------------------------------------
(* The worker a retrieve is sent to has the file.                          *)

HasFile(k, f) == disk[k][f] # "none"

\* The way of a location: a consumer names its worker after save() only, and nothing
\* that is on disk goes away.
SavedHere ==
    /\ \A c \in Consumers : cpc[c] \in {"writing", "saved"} => HasFile(HomeOf[c], cfile[c])
    /\ \A m \in inbox : HasFile(m[2], m[1])
    /\ \A f \in Files : lookup[f] # NoWorker => HasFile(lookup[f], f)
    /\ \A q \in Readers :
          /\ reader[q].worker # NoWorker => HasFile(reader[q].worker, reader[q].file)
          /\ reader[q].got # "none"

FoundInv == "save_fails" \notin happened => SavedHere

LEMMA FilesStay ==
    ASSUME Typed, [Next]_vars, NEW k \in Workers, NEW f \in Files, HasFile(k, f)
    PROVE  HasFile(k, f)'
<1> USE ConstAssumption DEF HasFile, Typed, TypeOK
<1>1. CASE UNCHANGED disk
  BY <1>1
<1>2. ASSUME NEW c \in Consumers, OpenFile(c) PROVE HasFile(k, f)'
  BY <1>2 DEF OpenFile
<1>3. ASSUME NEW c \in Consumers, WriteFile(c) PROVE HasFile(k, f)'
  BY <1>3 DEF WriteFile
<1>4. QED
  BY <1>1, <1>2, <1>3
     DEF Next, IndexCommand, Client, TakePath, Put, Consume, Poll, WriteFails, SaveFails,
         Report, SetFileInfo, UpdateWords, Retrieve, AskLocation, Load, RetrieveFails, Process,
         StopWorker, ExitWorker, CrashWorker, StartWorker, vars, consumerVars

LEMMA FoundStep ==
    ASSUME Typed, FoundInv, [Next]_vars
    PROVE  FoundInv'
<1> SUFFICES ASSUME "save_fails" \notin happened'
             PROVE  SavedHere'
  BY DEF FoundInv
<1> USE ConstAssumption DEF Fault
<1>0. happened \subseteq happened'
  BY DEF Next, IndexCommand, Client, TakePath, Put, Consume, Poll, OpenFile, WriteFile,
         WriteFails, SaveFails, Report, SetFileInfo, UpdateWords, Retrieve, AskLocation,
         Load, RetrieveFails, Process, StopWorker, ExitWorker, CrashWorker, StartWorker,
         vars, history, ProcessPut
<1>1. SavedHere
  BY <1>0 DEF FoundInv
<1>2. \A k \in Workers, f \in Files : HasFile(k, f) => HasFile(k, f)'
  BY FilesStay
<1>3. \A c \in Consumers : cpc[c] \in {"writing", "saved"} => cfile[c] \in Files
  BY DEF Typed, TypeOK, Carrying
<1>4. \A q \in Readers : reader[q].worker # NoWorker =>
          reader[q].worker \in Workers /\ reader[q].file \in Files
  BY DEF Typed, TypeOK, Carrying
<1>5. CASE UNCHANGED <<cpc, cfile, inbox, lookup, reader, disk>>
  BY <1>1, <1>5 DEF SavedHere, HasFile
<1>6. ASSUME NEW c \in Consumers, OpenFile(c) PROVE SavedHere'
  <2>1. UNCHANGED <<cfile, inbox, lookup, reader>>
    BY <1>6 DEF OpenFile, tableVars
  <2>2. \A d \in Consumers : d # c => cpc'[d] = cpc[d]
    BY <1>6 DEF OpenFile, Typed, TypeOK
  <2>3. cfile[c] \in Files /\ HasFile(HomeOf[c], cfile[c])'
    BY <1>6 DEF OpenFile, HasFile, Typed, TypeOK, Carrying
  <2>4. \A d \in Consumers : cpc'[d] \in {"writing", "saved"} => HasFile(HomeOf[d], cfile[d])'
    BY <1>1, <1>2, <1>3, <2>1, <2>2, <2>3 DEF SavedHere
  <2>5. \A m \in inbox : m[2] \in Workers /\ m[1] \in Files
    BY DEF Typed, TypeOK, Reports
  <2>6. QED
    BY <1>1, <1>2, <1>4, <2>1, <2>4, <2>5 DEF SavedHere, HasFile, Typed, TypeOK
<1>7. ASSUME NEW c \in Consumers, WriteFile(c) PROVE SavedHere'
  <2>1. UNCHANGED <<cfile, inbox, lookup, reader>>
    BY <1>7 DEF WriteFile, tableVars
  <2>2. \A d \in Consumers : d # c => cpc'[d] = cpc[d]
    BY <1>7 DEF WriteFile, Typed, TypeOK
  <2>3. cfile[c] \in Files /\ HasFile(HomeOf[c], cfile[c])'
    BY <1>7 DEF WriteFile, HasFile, Typed, TypeOK, Carrying
  <2>4. \A d \in Consumers : cpc'[d] \in {"writing", "saved"} => HasFile(HomeOf[d], cfile[d])'
    BY <1>1, <1>2, <1>3, <2>1, <2>2, <2>3 DEF SavedHere
  <2>5. \A m \in inbox : m[2] \in Workers /\ m[1] \in Files
    BY DEF Typed, TypeOK, Reports
  <2>6. QED
    BY <1>1, <1>2, <1>4, <2>1, <2>4, <2>5 DEF SavedHere, HasFile, Typed, TypeOK
<1>8. ASSUME NEW c \in Consumers, UNCHANGED <<disk, inbox, lookup, reader>>,
             cpc'[c] \notin {"writing", "saved"},
             \A d \in Consumers \ {c} : cpc'[d] = cpc[d] /\ cfile'[d] = cfile[d]
      PROVE  SavedHere'
  BY <1>1, <1>8 DEF SavedHere, HasFile
<1>9. ASSUME NEW c \in Consumers, Poll(c) PROVE SavedHere'
  BY <1>8, <1>9 DEF Poll, Polled, tableVars, Typed, TypeOK
<1>10. ASSUME NEW c \in Consumers, Report(c) PROVE SavedHere'
  <2>1. \A m \in inbox' : HasFile(m[2], m[1])
    BY <1>1, <1>10 DEF Report, SavedHere
  <2>2. \A d \in Consumers : cpc'[d] \in {"writing", "saved"} =>
           cpc'[d] = cpc[d] /\ cfile'[d] = cfile[d]
    BY <1>10 DEF Report, Typed, TypeOK
  <2>3. QED
    BY <1>1, <1>10, <2>1, <2>2 DEF Report, SavedHere, HasFile
<1>11. ASSUME NEW m \in Reports, SetFileInfo(m) PROVE SavedHere'
  <2>1. HasFile(m[2], m[1])
    BY <1>1, <1>11 DEF SetFileInfo, SavedHere
  <2>2. \A f \in Files : lookup'[f] = IF f = m[1] THEN m[2] ELSE lookup[f]
    BY <1>11 DEF SetFileInfo, Typed, TypeOK
  <2>3. inbox' \subseteq inbox
    BY <1>11 DEF SetFileInfo
  <2>4. QED
    BY <1>1, <1>11, <2>1, <2>2, <2>3 DEF SetFileInfo, SavedHere, HasFile, consumerVars
<1>12. ASSUME NEW q \in Readers, NEW f \in Files, AskLocation(q, f) PROVE SavedHere'
  <2>1. HasFile(lookup[f], f)
    BY <1>1, <1>12 DEF AskLocation, HasLocation, SavedHere
  <2>2. \A r \in Readers : r # q => reader'[r] = reader[r]
    BY <1>12 DEF AskLocation, Typed, TypeOK
  <2>3. reader'[q] = [file |-> f, worker |-> lookup[f], got |-> "nothing"]
    BY <1>12 DEF AskLocation, Typed, TypeOK
  <2>4. UNCHANGED <<cpc, cfile, inbox, lookup, disk>>
    BY <1>12 DEF AskLocation, consumerVars, tableVars
  <2>5. QED
    BY <1>1, <2>1, <2>2, <2>3, <2>4 DEF SavedHere, HasFile
<1>13. ASSUME NEW q \in Readers, Load(q) PROVE SavedHere'
  <2>1. \A r \in Readers : r # q => reader'[r] = reader[r]
    BY <1>13 DEF Load, Typed, TypeOK
  <2>2. reader'[q].worker = NoWorker
        /\ reader'[q].got = disk[reader[q].worker][reader[q].file]
    BY <1>13 DEF Load, NoRequest, Typed, TypeOK
  <2>3. reader'[q].got # "none"
    BY <1>1, <1>13, <2>2 DEF Load, SavedHere, HasFile
  <2>4. UNCHANGED <<cpc, cfile, inbox, lookup, disk>>
    BY <1>13 DEF Load, consumerVars, tableVars
  <2>5. QED
    BY <1>1, <2>1, <2>2, <2>3, <2>4 DEF SavedHere, HasFile
<1>14. ASSUME NEW q \in Readers, RetrieveFails(q) PROVE SavedHere'
  <2>1. \A r \in Readers : r # q => reader'[r] = reader[r]
    BY <1>14 DEF RetrieveFails, Typed, TypeOK
  <2>2. reader'[q].worker = NoWorker /\ reader'[q].got = "nothing"
    BY <1>14 DEF RetrieveFails, NoRequest, Typed, TypeOK
  <2>3. UNCHANGED <<cpc, cfile, inbox, lookup, disk>>
    BY <1>14 DEF RetrieveFails, consumerVars, tableVars
  <2>4. QED
    BY <1>1, <2>1, <2>2, <2>3 DEF SavedHere, HasFile
<1>15. ASSUME NEW k \in Workers, CrashWorker(k) PROVE SavedHere'
  <2>1. \A c \in Consumers : cpc'[c] \in {"writing", "saved"} =>
           cpc'[c] = cpc[c] /\ cfile'[c] = cfile[c]
    BY <1>15 DEF CrashWorker
  <2>2. UNCHANGED <<inbox, lookup, disk, reader>>
    BY <1>15 DEF CrashWorker, tableVars
  <2>3. QED
    BY <1>1, <2>1, <2>2 DEF SavedHere, HasFile
<1>16. ASSUME NEW c \in Consumers, SaveFails(c) PROVE SavedHere'
  BY <1>16 DEF SaveFails
<1>17. ASSUME NEW c \in Consumers, WriteFails(c) PROVE SavedHere'
  <2>1. UNCHANGED <<cfile, inbox, lookup, reader, disk>>
    BY <1>17 DEF WriteFails, tableVars
  <2>2. \A d \in Consumers : cpc'[d] \in {"writing", "saved"} =>
           cpc[d] \in {"writing", "saved"}
    BY <1>17 DEF WriteFails, Typed, TypeOK
  <2>3. QED
    BY <1>1, <2>1, <2>2 DEF SavedHere, HasFile
<1>18. QED
  BY <1>5, <1>6, <1>7, <1>9, <1>10, <1>11, <1>12, <1>13, <1>14, <1>15, <1>16, <1>17
     DEF Next, Client, Consume, Retrieve, Process, IndexCommand, TakePath, Put,
         UpdateWords, StopWorker, ExitWorker, StartWorker, vars,
         consumerVars, tableVars, history

\* As long as no save failed, no retrieve is sent to a worker without the file,
\* whatever messages are lost and whenever workers stop, die and start.
THEOREM FileFound == Spec => []RetrieveFinds
<1>1. Init => FoundInv
  BY ConstAssumption DEF Init, FoundInv, SavedHere, HasFile, NoRequest
<1>2. FoundInv => RetrieveFinds
  BY DEF FoundInv, SavedHere, RetrieveFinds
<1>3. QED
  BY <1>1, <1>2, TypedAlways, FoundStep, PTL DEF Spec

----------------------------------------------------------------------------
(* What is available stays so: the safety of DocStore.                     *)

\* Only files the master accepted are on their way, and what is in the index, or next
\* to be, has a location.
ProvenanceInv ==
    /\ ToSet(queue) \subseteq accepted
    /\ \A c \in Consumers : cfile[c] \in accepted \cup {NoFile}
    /\ \A m \in inbox \cup updating : m[1] \in accepted
    /\ \A m \in updating : lookup[m[1]] # NoWorker
    /\ \A f \in indexed : f \in accepted /\ lookup[f] # NoWorker

LEMMA ProvenanceStep ==
    ASSUME Typed, ProvenanceInv, [Next]_vars
    PROVE  ProvenanceInv'
<1> USE ConstAssumption DEF ProvenanceInv
<1>1. CASE UNCHANGED <<queue, accepted, cfile, inbox, updating, lookup, indexed>>
  BY <1>1
<1>2. ASSUME NEW p \in Putters, ProcessPut(putting[p]), putting[p] \in Files,
             UNCHANGED <<cfile, inbox, updating, lookup, indexed>>
      PROVE  ProvenanceInv'
  <2>1. ToSet(queue') = ToSet(queue) \cup {putting[p]}
    BY <1>2, ToSetAppend DEF ProcessPut, Enqueue, Typed, TypeOK
  <2>2. QED
    BY <1>2, <2>1 DEF ProcessPut
<1>3. ASSUME NEW p \in Putters, Put(p) PROVE ProvenanceInv'
  BY <1>1, <1>2, <1>3 DEF Put, consumerVars, tableVars, Typed, TypeOK
<1>4. ASSUME NEW c \in Consumers, Poll(c) PROVE ProvenanceInv'
  <2>1. ToSet(queue) = {Head(queue)} \cup ToSet(queue')
    BY <1>4, ToSetTail DEF Poll, Dequeue, Typed, TypeOK
  <2>2. \A d \in Consumers : cfile'[d] = cfile[d] \/ cfile'[d] = Head(queue)
    BY <1>4 DEF Poll, Polled, Typed, TypeOK
  <2>3. QED
    BY <1>4, <2>1, <2>2 DEF Poll, tableVars
<1>5. ASSUME NEW c \in Consumers, Report(c) PROVE ProvenanceInv'
  <2>1. cfile[c] \in accepted
    BY <1>5 DEF Report, Typed, Carrying
  <2>2. \A d \in Consumers : cfile'[d] = cfile[d] \/ cfile'[d] = NoFile
    BY <1>5 DEF Report, Typed, TypeOK
  <2>3. QED
    BY <1>5, <2>1, <2>2 DEF Report
<1>6. ASSUME NEW m \in Reports, SetFileInfo(m) PROVE ProvenanceInv'
  <2>1. m[2] \in Workers /\ m[1] \in Files
    BY DEF Reports
  <2>2. \A f \in Files : lookup'[f] = IF f = m[1] THEN m[2] ELSE lookup[f]
    BY <1>6 DEF SetFileInfo, Typed, TypeOK
  <2>3. inbox' \cup updating' = inbox \cup updating /\ updating' = updating \cup {m}
    BY <1>6 DEF SetFileInfo
  <2>4. \A n \in updating : n[1] \in Files
    BY DEF Typed, TypeOK, Reports
  <2>5. \A n \in updating' : lookup'[n[1]] # NoWorker
    BY <2>1, <2>2, <2>3, <2>4
  <2>6. \A f \in indexed : f \in Files /\ lookup'[f] # NoWorker
    BY <2>1, <2>2 DEF Typed, TypeOK
  <2>7. QED
    BY <1>6, <2>3, <2>5, <2>6 DEF SetFileInfo, consumerVars, history
<1>7. ASSUME NEW m \in Reports, UpdateWords(m) PROVE ProvenanceInv'
  BY <1>7 DEF UpdateWords, consumerVars, history
<1>8. ASSUME NEW k \in Workers, CrashWorker(k) PROVE ProvenanceInv'
  BY <1>8 DEF CrashWorker, tableVars
<1>9. QED
  BY <1>1, <1>3, <1>4, <1>5, <1>6, <1>7, <1>8
     DEF Next, Client, Consume, Retrieve, Process, IndexCommand, TakePath, OpenFile,
         WriteFile, WriteFails, SaveFails, AskLocation, Load, RetrieveFails, StopWorker,
         ExitWorker, StartWorker, vars, consumerVars, tableVars, history

StoreInv == Typed /\ TornInv /\ FoundInv /\ ProvenanceInv

\* Without crashes and failing saves or writes, a file in the index is a file that can be fetched,
\* although its location changes and its file is written again.
LEMMA AvailableIsIndexed ==
    ASSUME StoreInv, happened \cap {"crash", "save_fails", "write_fails"} = {}
    PROVE  Available = indexed
<1>1. SUFFICES ASSUME NEW f \in indexed
               PROVE  lookup[f] # NoWorker
                      /\ (disk[lookup[f]][f] = "whole" \/ Writing(lookup[f], f))
  BY DEF Available
<1>2. f \in Files /\ lookup[f] \in Workers
  BY DEF StoreInv, Typed, TypeOK, ProvenanceInv
<1>3. disk[lookup[f]][f] \in {"torn", "whole"}
  BY <1>2, ConstAssumption DEF StoreInv, FoundInv, SavedHere, HasFile, Typed, TypeOK
<1>4. QED
  BY <1>2, <1>3, ConstAssumption DEF StoreInv, TornInv, TornWhileWriting

\* What a step does to the files that were accepted and to the index.
LEMMA IndexStep ==
    ASSUME StoreInv, [Next]_vars
    PROVE  \/ UNCHANGED <<accepted, indexed>>
           \/ \E f \in Files : accepted' = accepted \cup {f} /\ UNCHANGED indexed
           \/ \E f \in accepted : /\ f \in Files /\ indexed' = indexed \cup {f}
                                  /\ UNCHANGED accepted
<1>1. ASSUME NEW p \in Putters, Put(p)
      PROVE  UNCHANGED <<accepted, indexed>>
             \/ \E f \in Files : accepted' = accepted \cup {f} /\ UNCHANGED indexed
  BY <1>1 DEF Put, ProcessPut, tableVars, StoreInv, Typed, TypeOK
<1>2. ASSUME NEW m \in Reports, UpdateWords(m)
      PROVE  m[1] \in accepted /\ m[1] \in Files /\ indexed' = indexed \cup {m[1]}
             /\ UNCHANGED accepted
  BY <1>2 DEF UpdateWords, history, StoreInv, ProvenanceInv, Reports
<1>3. QED
  BY <1>1, <1>2
     DEF Next, Client, Consume, Retrieve, Process, IndexCommand, TakePath, Poll, OpenFile,
         WriteFile, WriteFails, SaveFails, Report, SetFileInfo, AskLocation, Load,
         RetrieveFails, StopWorker, ExitWorker, CrashWorker, StartWorker, vars, tableVars, history

\* Every step is a step of DocStore or leaves what is accepted and available alone: a
\* file becomes available once, after it was accepted, and never disappears, not even
\* while it is saved again or its location moves.  Messages may get lost and workers
\* stop; DocStore's liveness is left to the model checker.
THEOREM StoreSafety ==
    ASSUME Faults \cap {"crash", "save_fails", "write_fails"} = {}
    PROVE  Spec => Store!Init /\ [][Store!Next]_(Store!vars)
<1>1. Init => StoreInv /\ Store!Init
  <2>1. Init => TornInv /\ FoundInv
    BY ConstAssumption DEF Init, TornInv, TornWhileWriting, NeverTorn, NoRequest,
                           FoundInv, SavedHere, HasFile
  <2>2. Init => ProvenanceInv
    BY DEF Init, ProvenanceInv, ToSet
  <2>3. Init => Store!Init
    BY DEF Init, Store!Init, Available
  <2>4. QED
    BY <2>1, <2>2, <2>3, InitTyped DEF StoreInv
<1>2. StoreInv /\ [Next]_vars => StoreInv'
  BY TypedStep, TornStep, FoundStep, ProvenanceStep DEF StoreInv
<1>3. StoreInv => Available = indexed
  <2>1. StoreInv => happened \cap {"crash", "save_fails", "write_fails"} = {}
    BY DEF StoreInv, Typed, TypeOK
  <2>2. QED
    BY <2>1, AvailableIsIndexed
<1>4. StoreInv' => (Available = indexed)'
  BY <1>3, PTL
<1>5. StoreInv /\ StoreInv' /\ [Next]_vars => [Store!Next]_(Store!vars)
  BY <1>3, <1>4, IndexStep DEF Store!Next, Store!Accept, Store!Publish, Store!vars
<1>6. QED
  BY <1>1, <1>2, <1>5, PTL DEF Spec
=============================================================================
