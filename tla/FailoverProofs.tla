--------------------------- MODULE FailoverProofs ---------------------------
(***************************************************************************)
(* Proofs about Failover, for any number of slaves, with and without slow  *)
(* servers and workers that do not answer.                                 *)
(***************************************************************************)
EXTENDS Failover, SequenceTheorems, TLAPS

(* A list without repetitions, after each operation on it.                 *)

LEMMA AppendNew ==
    ASSUME NEW S, NEW seq \in Seq(S), IsInjective(seq), NEW e \in S, ~Contains(seq, e)
    PROVE  Append(seq, e) \in Seq(S) /\ IsInjective(Append(seq, e))
<1>1. /\ Append(seq, e) \in Seq(S)
      /\ DOMAIN seq = 1 .. Len(seq) /\ Len(seq) \in Nat
      /\ DOMAIN Append(seq, e) = 1 .. (Len(seq) + 1)
  BY AppendProperties, LenProperties
<1>2. /\ \A n \in 1 .. Len(seq) : Append(seq, e)[n] = seq[n]
      /\ Append(seq, e)[Len(seq) + 1] = e
  BY AppendProperties
<1>3. \A n \in 1 .. Len(seq) : seq[n] # e
  BY DEF Contains
<1>4. \A n \in 1 .. (Len(seq) + 1) : n \in 1 .. Len(seq) \/ n = Len(seq) + 1
  BY <1>1
<1>5. \A m, n \in 1 .. Len(seq) : seq[m] = seq[n] => m = n
  BY <1>1 DEF IsInjective
<1>6. \A m, n \in 1 .. (Len(seq) + 1) : Append(seq, e)[m] = Append(seq, e)[n] => m = n
  BY <1>2, <1>3, <1>4, <1>5
<1>7. QED
  BY <1>1, <1>6 DEF IsInjective

\* Leaving out one position of a list: which element is where.
LEMMA RemoveAtElements ==
    ASSUME NEW S, NEW seq \in Seq(S), NEW k \in 1 .. Len(seq)
    PROVE  /\ RemoveAt(seq, k) \in Seq(S)
           /\ Len(RemoveAt(seq, k)) = Len(seq) - 1
           /\ \A n \in 1 .. (Len(seq) - 1) :
                 RemoveAt(seq, k)[n] = IF n < k THEN seq[n] ELSE seq[n + 1]
<1> DEFINE a == SubSeq(seq, 1, k - 1)
           b == SubSeq(seq, k + 1, Len(seq))
<1>1. Len(seq) \in Nat /\ k \in Nat /\ k >= 1 /\ k <= Len(seq)
  BY LenProperties
<1>2. \A n \in 1 .. Len(seq) : seq[n] \in S
  BY ElementOfSeq
<1>3. /\ a \in Seq(S) /\ Len(a) = k - 1
      /\ \A n \in 1 .. (k - 1) : a[n] = seq[n]
  <2>1. \A n \in 1 .. (k - 1) : seq[n] \in S
    BY <1>1, <1>2
  <2>2. /\ a \in Seq(S) /\ Len(a) = IF 1 <= k - 1 THEN (k - 1) - 1 + 1 ELSE 0
        /\ \A n \in 1 .. ((k - 1) - 1 + 1) : a[n] = seq[1 + n - 1]
    BY <1>1, <2>1, SubSeqProperties
  <2>3. \A n \in 1 .. (k - 1) : 1 + n - 1 = n
    BY <1>1
  <2>4. QED
    BY <1>1, <2>2, <2>3
<1>4. /\ b \in Seq(S) /\ Len(b) = Len(seq) - k
      /\ \A n \in 1 .. (Len(seq) - k) : b[n] = seq[n + k]
  <2>1. \A n \in (k + 1) .. Len(seq) : seq[n] \in S
    BY <1>1, <1>2
  <2>2. /\ b \in Seq(S)
        /\ Len(b) = IF k + 1 <= Len(seq) THEN Len(seq) - (k + 1) + 1 ELSE 0
        /\ \A n \in 1 .. (Len(seq) - (k + 1) + 1) : b[n] = seq[(k + 1) + n - 1]
    BY <1>1, <2>1, SubSeqProperties
  <2>3. \A n \in 1 .. (Len(seq) - k) : (k + 1) + n - 1 = n + k
    BY <1>1
  <2>4. QED
    BY <1>1, <2>2, <2>3
<1>5. /\ a \o b \in Seq(S)
      /\ Len(a \o b) = Len(seq) - 1
      /\ \A n \in 1 .. (Len(seq) - 1) : (a \o b)[n] = IF n <= k - 1 THEN a[n] ELSE b[n - (k - 1)]
  <2> HIDE DEF a, b
  <2>1. /\ a \o b \in Seq(S)
        /\ Len(a \o b) = Len(a) + Len(b)
        /\ \A n \in 1 .. (Len(a) + Len(b)) :
              (a \o b)[n] = IF n <= Len(a) THEN a[n] ELSE b[n - Len(a)]
    BY <1>3, <1>4, ConcatProperties
  <2>2. Len(a) = k - 1 /\ Len(a) + Len(b) = Len(seq) - 1
    BY <1>1, <1>3, <1>4
  <2>3. QED
    BY <2>1, <2>2
<1>6. ASSUME NEW n \in 1 .. (Len(seq) - 1)
      PROVE  (a \o b)[n] = IF n < k THEN seq[n] ELSE seq[n + 1]
  <2>1. CASE n < k
    <3>1. n \in 1 .. (k - 1)
      BY <1>1, <2>1
    <3>2. n <= k - 1 /\ a[n] = seq[n]
      BY <1>1, <1>3, <3>1
    <3>3. QED
      BY <1>5, <2>1, <3>2
  <2>2. CASE ~(n < k)
    <3>1. n - (k - 1) \in 1 .. (Len(seq) - k) /\ (n - (k - 1)) + k = n + 1 /\ ~(n <= k - 1)
      BY <1>1, <2>2
    <3>2. b[n - (k - 1)] = seq[n + 1]
      BY <1>4, <3>1
    <3>3. QED
      BY <1>5, <2>2, <3>1, <3>2
  <2>3. QED
    BY <2>1, <2>2
<1>7. QED
  BY <1>5, <1>6 DEF RemoveAt

LEMMA RegisteredList ==
    ASSUME NEW s \in Slaves, slist \in Seq(Slaves), IsInjective(slist)
    PROVE  /\ Registered(s) \in Seq(Slaves) /\ IsInjective(Registered(s))
           /\ \A t \in Slaves : Contains(Registered(s), t) <=> Contains(slist, t) \/ t = s
<1>1. CASE Contains(slist, s)
  BY <1>1 DEF Registered
<1>2. CASE ~Contains(slist, s)
  <2>1. Registered(s) = Append(slist, s)
    BY <1>2 DEF Registered
  <2>2. /\ Len(slist) \in Nat /\ Len(Append(slist, s)) = Len(slist) + 1
        /\ \A n \in 1 .. Len(slist) : Append(slist, s)[n] = slist[n]
        /\ Append(slist, s)[Len(slist) + 1] = s
    BY AppendProperties, LenProperties
  <2>3. ASSUME NEW t \in Slaves
        PROVE  Contains(Append(slist, s), t) <=> Contains(slist, t) \/ t = s
    <3>1. \A n \in 1 .. (Len(slist) + 1) : n \in 1 .. Len(slist) \/ n = Len(slist) + 1
      BY <2>2
    <3>2. \A n \in 1 .. Len(slist) : n \in 1 .. (Len(slist) + 1)
      BY <2>2
    <3>3. Len(slist) + 1 \in 1 .. (Len(slist) + 1)
      BY <2>2
    <3>4. QED
      BY <2>2, <3>1, <3>2, <3>3 DEF Contains
  <2>4. QED
    BY <1>2, <2>1, <2>3, AppendNew
<1>3. QED
  BY <1>1, <1>2

LEMMA UnregisteredList ==
    ASSUME NEW s \in Slaves, slist \in Seq(Slaves), IsInjective(slist)
    PROVE  /\ Unregistered(s) \in Seq(Slaves) /\ IsInjective(Unregistered(s))
           /\ \A t \in Slaves : t # s /\ Contains(slist, t) => Contains(Unregistered(s), t)
<1>1. CASE ~Contains(slist, s)
  BY <1>1 DEF Unregistered
<1>2. CASE Contains(slist, s)
  <2> DEFINE k == CHOOSE n \in 1 .. Len(slist) : slist[n] = s
             rest == RemoveAt(slist, k)
  <2>1. k \in 1 .. Len(slist) /\ slist[k] = s
    BY <1>2 DEF Contains
  <2>2. Unregistered(s) = rest
    BY <1>2 DEF Unregistered
  <2> HIDE DEF k
  <2>3. Len(slist) \in Nat /\ DOMAIN slist = 1 .. Len(slist)
    BY LenProperties
  <2>4. /\ rest \in Seq(Slaves) /\ Len(rest) = Len(slist) - 1
        /\ \A n \in 1 .. (Len(slist) - 1) :
              rest[n] = IF n < k THEN slist[n] ELSE slist[n + 1]
    BY <2>1, RemoveAtElements
  <2> HIDE DEF rest
  <2>5. DOMAIN rest = 1 .. (Len(slist) - 1)
    BY <2>4, LenProperties
  <2>6. \A m, n \in 1 .. Len(slist) : slist[m] = slist[n] => m = n
    BY <2>3 DEF IsInjective
  <2>7. IsInjective(rest)
    <3>1. ASSUME NEW m \in 1 .. (Len(slist) - 1), NEW n \in 1 .. (Len(slist) - 1),
                 rest[m] = rest[n]
          PROVE  m = n
      <4>1. /\ m \in 1 .. Len(slist) /\ m + 1 \in 1 .. Len(slist)
            /\ n \in 1 .. Len(slist) /\ n + 1 \in 1 .. Len(slist)
        BY <2>3
      <4>2. (IF m < k THEN m ELSE m + 1) = (IF n < k THEN n ELSE n + 1)
        BY <2>4, <2>6, <3>1, <4>1
      <4>3. QED
        BY <2>1, <2>3, <4>1, <4>2
    <3>2. QED
      BY <2>5, <3>1 DEF IsInjective
  <2>8. ASSUME NEW t \in Slaves, t # s, Contains(slist, t)
        PROVE  Contains(rest, t)
    <3>1. PICK n \in 1 .. Len(slist) : slist[n] = t
      BY <2>8 DEF Contains
    <3>2. n # k
      BY <2>1, <2>8, <3>1
    <3>3. CASE n < k
      <4>1. n \in 1 .. (Len(slist) - 1)
        BY <2>1, <2>3, <3>3
      <4>2. QED
        BY <2>4, <3>1, <3>3, <4>1 DEF Contains
    <3>4. CASE n > k
      <4>1. n - 1 \in 1 .. (Len(slist) - 1) /\ ~(n - 1 < k) /\ (n - 1) + 1 = n
        BY <2>1, <2>3, <3>4
      <4>2. QED
        BY <2>4, <3>1, <4>1 DEF Contains
    <3>5. QED
      BY <2>1, <2>3, <3>2, <3>3, <3>4
  <2>9. QED
    BY <2>2, <2>4, <2>7, <2>8
<1>3. QED
  BY <1>1, <1>2

----------------------------------------------------------------------------
(* Type correctness.                                                       *)

\* What is in the answer, by how far the exchange and the command are.
ExchangeInv ==
    /\ IsInjective(reply.list)
    /\ reply = NoReply \/ reply.kind # "none"
    /\ stage \in {"none", "connect", "send"} => reply = NoReply
    /\ stage = "ok" => reply # NoReply
    /\ upc = "walk" => ret = "failed" /\ reply.kind \in {"none", "answer", "absent"}
    /\ upc \in {"idle", "refresh", "pick"} => i = 0 /\ ret = "failed"

Typed == TypeOK /\ ExchangeInv

LEMMA InitTyped == Init => Typed
<1> SUFFICES ASSUME Init PROVE Typed
  OBVIOUS
<1>1. /\ <<>> \in Seq(Slaves) /\ <<>> \in Seq(Servers) /\ IsInjective(<<>>)
      /\ Len(<<>>) = 0
  BY EmptySeq DEF IsInjective
<1>2. NoReply \in [kind : {"none", "list", "answer", "absent"}, list : Seq(Slaves)]
  BY <1>1 DEF NoReply
<1>3. TypeOK
  <2>1. Master \in Servers /\ Nobody \notin Servers /\ {} \subseteq Servers
    BY ConstAssumption DEF Servers
  <2>2. /\ status \in [Servers -> {"down", "starting", "copied", "serving"}]
        /\ status[Master] \in {"down", "serving"}
    BY <2>1 DEF Init
  <2>3. i \in 0 .. Len(cache) /\ ind \in Nat /\ upc = "idle"
    BY <1>1 DEF Init
  <2>4. reply \in [kind : {"none", "list", "answer", "absent"}, list : Seq(Slaves)]
    BY <1>2 DEF Init
  <2>5. QED
    BY <1>1, <2>1, <2>2, <2>3, <2>4 DEF Init, TypeOK
<1>4. ExchangeInv
  BY <1>1 DEF Init, ExchangeInv, NoReply
<1>5. QED
  BY <1>3, <1>4 DEF Typed

\* The end of a process changes no type, whoever it tells.
LEMMA EndTyped ==
    ASSUME Typed, NEW s \in Servers, End(s),
           slist' \in Seq(Slaves), IsInjective(slist'), lost' \in BOOLEAN
    PROVE  Typed'
BY ConstAssumption DEF End, Typed, TypeOK, ExchangeInv, walkVars, Servers

\* Whether or not the master is told, its list stays one without repetitions.
LEMMA TellTyped ==
    ASSUME Typed, NEW list \in Seq(Slaves), IsInjective(list), TellMaster(list)
    PROVE  slist' \in Seq(Slaves) /\ IsInjective(slist')
BY DEF TellMaster, Typed, TypeOK

LEMMA ServerTyped ==
    ASSUME Typed, NEW s \in Slaves,
           \/ StartSlave(s) \/ Copy(s) \/ CopyDone(s) \/ CopyFails(s)
           \/ Heartbeat(s) \/ StopSlave(s) \/ CrashSlave(s) \/ CheckTimeout(s)
    PROVE  Typed'
<1>1. s \in Servers /\ s # Master
  BY ConstAssumption DEF Servers
<1>2. /\ Registered(s) \in Seq(Slaves) /\ IsInjective(Registered(s))
      /\ Unregistered(s) \in Seq(Slaves) /\ IsInjective(Unregistered(s))
  BY RegisteredList, UnregisteredList DEF Typed, TypeOK
<1>3. slist \in Seq(Slaves) /\ IsInjective(slist) /\ lost \in BOOLEAN
  BY DEF Typed, TypeOK
<1>4. CASE StartSlave(s)
  <2>1. slist' \in Seq(Slaves) /\ IsInjective(slist')
    BY <1>2, <1>4, TellTyped DEF StartSlave
  <2>2. status' \in [Servers -> {"down", "starting", "copied", "serving"}]
        /\ status'[Master] \in {"down", "serving"} /\ harmed' \subseteq Slaves
    BY <1>1, <1>4 DEF StartSlave, Typed, TypeOK
  <2>3. QED
    BY <1>4, <2>1, <2>2 DEF StartSlave, Typed, TypeOK, ExchangeInv,
                            exchangeVars, walkVars, answerVars
<1>5. CASE Copy(s)
  BY <1>1, <1>5 DEF Copy, Typed, TypeOK, ExchangeInv, exchangeVars, walkVars, answerVars
<1>6. CASE CopyDone(s)
  BY <1>1, <1>6 DEF CopyDone, Typed, TypeOK, ExchangeInv, exchangeVars, walkVars, answerVars
<1>7. CASE CopyFails(s) \/ CrashSlave(s)
  BY <1>1, <1>3, <1>7, EndTyped DEF CopyFails, CrashSlave
<1>8. CASE Heartbeat(s)
  BY <1>1, <1>2, <1>8 DEF Heartbeat, Typed, TypeOK, ExchangeInv, exchangeVars, walkVars,
                          answerVars
<1>9. CASE StopSlave(s)
  BY <1>1, <1>2, <1>3, <1>9, EndTyped, TellTyped DEF StopSlave
<1>10. CASE CheckTimeout(s)
  <2>1. harmed' \subseteq Slaves
    BY <1>10 DEF CheckTimeout, Typed, TypeOK
  <2>2. QED
    BY <1>1, <1>2, <1>10, <2>1 DEF CheckTimeout, Typed, TypeOK, ExchangeInv, exchangeVars,
                                   walkVars, answerVars
<1>11. QED
  BY <1>4, <1>5, <1>6, <1>7, <1>8, <1>9, <1>10

LEMMA MasterTyped ==
    ASSUME Typed, CrashMaster \/ StartMaster \/ Report
    PROVE  Typed'
<1>1. CASE CrashMaster
  <2>1. <<>> \in Seq(Slaves) /\ IsInjective(<<>>)
    BY EmptySeq DEF IsInjective
  <2>2. QED
    BY <1>1, <2>1, EndTyped DEF CrashMaster, Servers
<1>2. CASE StartMaster
  BY <1>2, ConstAssumption DEF StartMaster, Typed, TypeOK, ExchangeInv, exchangeVars,
                               walkVars, answerVars, Servers
<1>3. CASE Report
  <2>1. PICK reached \in SUBSET Listening :
           /\ index' = [s \in Servers |-> index[s] \/ s = Master \/ s \in reached]
           /\ harmed' = harmed \cup (Listening \ reached)
    BY <1>3 DEF Report
  <2>2. index' \in [Servers -> BOOLEAN]
    BY <2>1 DEF Typed, TypeOK
  <2>3. harmed' \subseteq Slaves
    BY <2>1 DEF Typed, TypeOK, Listening
  <2>4. QED
    BY <1>3, <2>2, <2>3 DEF Report, Typed, TypeOK, ExchangeInv, exchangeVars, walkVars,
                            answerVars
<1>4. QED
  BY <1>1, <1>2, <1>3

LEMMA ExchangeTyped ==
    ASSUME Typed,
           \/ Connect \/ ConnectFails \/ Send \/ Serve \/ WorkerSilent \/ Receive
           \/ Broken \/ TimeOut
    PROVE  Typed'
<1> USE DEF Typed, TypeOK, ExchangeInv, ExchangeStep, serverVars, walkVars, answerVars
<1>1. CASE Connect \/ ConnectFails \/ Send \/ Receive \/ Broken \/ TimeOut
  <2>1. CASE Connect
    BY <2>1 DEF Connect
  <2>2. CASE ConnectFails
    BY <2>2 DEF ConnectFails
  <2>3. CASE Send
    BY <2>3 DEF Send
  <2>4. CASE Receive
    BY <2>4 DEF Receive
  <2>5. CASE Broken
    BY <2>5 DEF Broken
  <2>6. CASE TimeOut
    BY <2>6 DEF TimeOut
  <2>7. QED
    BY <1>1, <2>1, <2>2, <2>3, <2>4, <2>5, <2>6
<1>2. CASE Serve
  <2>1. CASE upc = "refresh"
    BY <1>2, <2>1 DEF Serve, QuerySlave, NoReply
  <2>2. CASE upc = "walk"
    <3>1. reply' = QueryOrRetrieve /\ IsInjective(NoReply.list)
      BY <1>2, <2>2 DEF Serve, IsInjective, NoReply
    <3>2. /\ QueryOrRetrieve \in [kind : {"answer", "absent"}, list : Seq(Slaves)]
          /\ QueryOrRetrieve.list = NoReply.list
      BY EmptySeq DEF QueryOrRetrieve, NoReply
    <3>3. reply' # NoReply /\ reply'.kind \in {"answer", "absent"}
      BY <3>1, <3>2 DEF NoReply
    <3>4. QED
      BY <1>2, <2>2, <3>1, <3>2, <3>3 DEF Serve
  <2>3. QED
    BY <1>2, <2>1, <2>2 DEF Serve
<1>3. CASE WorkerSilent
  <2>1. /\ reply' \in [kind : {"answer", "absent"}, list : Seq(Slaves)]
        /\ reply'.kind = "absent" /\ IsInjective(reply'.list) /\ reply' # NoReply
    BY <1>3, EmptySeq DEF WorkerSilent, NoReply, IsInjective
  <2>2. QED
    BY <1>3, <2>1 DEF WorkerSilent
<1>4. QED
  BY <1>1, <1>2, <1>3

LEMMA NoReplyTyped ==
    /\ NoReply \in [kind : {"none", "list", "answer", "absent"}, list : Seq(Slaves)]
    /\ IsInjective(NoReply.list) /\ NoReply.kind = "none"
BY EmptySeq DEF NoReply, IsInjective

\* The list the master sent, and the master behind it.
LEMMA RefreshTyped ==
    ASSUME Typed, Refresh
    PROVE  Typed'
<1> USE DEF Typed, TypeOK, ExchangeInv
<1>1. ~Contains(reply.list, Master) /\ reply.list \in Seq(Servers)
  <2>1. reply.list \in Seq(Slaves) /\ Slaves \subseteq Servers
    BY DEF Servers
  <2>2. \A n \in 1 .. Len(reply.list) : reply.list[n] \in Slaves
    BY <2>1, ElementOfSeq
  <2>3. QED
    BY <2>1, <2>2, SeqMonotonic, ConstAssumption DEF Contains
<1>2. cache' \in Seq(Servers) /\ IsInjective(cache') /\ cache' = Append(reply.list, Master)
  BY <1>1, AppendNew DEF Refresh, Servers
<1>3. Last(cache') = Master /\ Len(cache') \in Nat
  BY <1>1, <1>2, AppendProperties, LenProperties DEF Last, Servers
<1>4. i' \in 0 .. Len(cache') /\ upc' = "pick" /\ to' = Nobody /\ stage' = "none"
  BY <1>3 DEF Refresh, Close
<1>5. reply' \in [kind : {"none", "list", "answer", "absent"}, list : Seq(Slaves)]
  BY NoReplyTyped DEF Refresh, Close
<1>6. TypeOK'
  BY <1>2, <1>3, <1>4, <1>5 DEF Refresh, Close, serverVars, answerVars
<1>7. ExchangeInv'
  BY NoReplyTyped DEF Refresh, Close, serverVars
<1>8. QED
  BY <1>6, <1>7

LEMMA UishellTyped ==
    ASSUME Typed,
           \/ \E c \in {"query", "retrieve"} : Command(c)
           \/ RefreshFails \/ Pick \/ Try \/ TryAnswered \/ TryFails \/ Show
           \/ TwentySeconds
    PROVE  Typed'
<1> USE NoReplyTyped DEF Typed, TypeOK, ExchangeInv, answerVars
<1>1. ASSUME NEW c \in {"query", "retrieve"}, Command(c) PROVE Typed'
  <2>1. CASE due
    BY <1>1, <2>1, ConstAssumption DEF Command, Talk, serverVars, Servers
  <2>2. CASE ~due
    BY <1>1, <2>2 DEF Command, exchangeVars, serverVars
  <2>3. QED
    BY <2>1, <2>2
<1>2. CASE RefreshFails
  BY <1>2 DEF RefreshFails, Close, serverVars
<1>3. Len(cache) \in Nat /\ (cache # <<>> => Len(cache) > 0)
  BY LenProperties, EmptySeq
<1>4. CASE Pick
  BY <1>3, <1>4 DEF Pick, exchangeVars, serverVars
<1>5. CASE Try
  <2>1. ((i + ind) % Len(cache)) + 1 \in 1 .. Len(cache)
    BY <1>3, <1>5 DEF Try
  <2>2. cache[((i + ind) % Len(cache)) + 1] \in Servers
    BY <2>1, ElementOfSeq
  <2>3. QED
    BY <1>5, <2>2, ConstAssumption DEF Try, Talk, serverVars, walkVars, Servers
<1>6. CASE TryAnswered
  BY <1>6 DEF TryAnswered, Close, serverVars
<1>7. CASE TryFails
  <2>1. i' \in 0 .. Len(cache) /\ (upc' = "walk" => i' < Len(cache))
    BY <1>3, <1>7 DEF TryFails
  <2>2. TypeOK'
    BY <1>7, <2>1 DEF TryFails, Close, serverVars
  <2>3. ExchangeInv'
    BY <1>7 DEF TryFails, Close, serverVars
  <2>4. QED
    BY <2>2, <2>3
<1>8. CASE Show
  <2>1. i' \in 0 .. Len(cache') /\ ind' \in Nat
    BY <1>3, <1>8 DEF Show
  <2>2. TypeOK'
    BY <1>8, <2>1 DEF Show, exchangeVars, serverVars
  <2>3. ExchangeInv'
    BY <1>8 DEF Show, exchangeVars, serverVars
  <2>4. QED
    BY <2>2, <2>3
<1>9. CASE TwentySeconds
  BY <1>9 DEF TwentySeconds, exchangeVars, serverVars
<1>10. QED
  BY <1>1, <1>2, <1>4, <1>5, <1>6, <1>7, <1>8, <1>9

LEMMA TypedStep ==
    ASSUME Typed, [Next]_vars
    PROVE  Typed'
<1>1. CASE UNCHANGED vars
  BY <1>1 DEF vars, serverVars, exchangeVars, walkVars, answerVars, Typed, TypeOK, ExchangeInv
<1>2. QED
  BY <1>1, ServerTyped, MasterTyped, ExchangeTyped, RefreshTyped, UishellTyped
     DEF Next, Client

LEMMA TypedAlways == Spec => []Typed
BY InitTyped, TypedStep, PTL DEF Spec

\* Every variable keeps its type: the master's list and the cache never hold a server
\* twice, the master is the last of the cache, and a walk never passes its end.
THEOREM TypeCorrect == Spec => []TypeOK
BY TypedAlways, PTL DEF Typed

----------------------------------------------------------------------------
(* A command fails only if every server of the cache fails.                *)

\* The walk goes around the cache: what (j + ind) % Len(cache) is.
LEMMA AroundTheCache ==
    ASSUME NEW n \in Nat \ {0}, NEW a \in 0 .. (n - 1), NEW b \in 0 .. (n - 1)
    PROVE  (a + b) % n = IF a + b < n THEN a + b ELSE a + b - n
<1>1. CASE a + b < n
  BY <1>1
<1>2. CASE a + b >= n
  <2>1. a + b - n \in 0 .. (n - 1) /\ a + b = n + (a + b - n)
    BY <1>2
  <2>2. \A r \in 0 .. (n - 1) : (n + r) % n = r
    OBVIOUS
  <2>3. QED
    BY <1>2, <2>1, <2>2
<1>3. QED
  BY <1>1, <1>2

\* So a walk of Len(cache) tries passes every place of the cache.
LEMMA EveryPlace ==
    ASSUME NEW n \in Nat \ {0}, NEW b \in 0 .. (n - 1), NEW place \in 1 .. n
    PROVE  \E a \in 0 .. (n - 1) : ((a + b) % n) + 1 = place
<1> DEFINE a == IF place - 1 >= b THEN place - 1 - b ELSE place - 1 - b + n
<1>1. a \in 0 .. (n - 1)
  OBVIOUS
<1>2. (IF a + b < n THEN a + b ELSE a + b - n) = place - 1
  OBVIOUS
<1> HIDE DEF a
<1>3. (a + b) % n = place - 1
  BY <1>1, <1>2, AroundTheCache
<1>4. ((a + b) % n) + 1 = place
  BY <1>3
<1>5. QED
  BY <1>1, <1>4

\* The server the walk asks at its try j.
Tried(j) == cache[((j + ind) % Len(cache)) + 1]

\* Who has been asked does not count any more, whoever is being asked does as long as
\* the exchange stands.
WalkInv ==
    upc = "walk" =>
        /\ ind \in 0 .. (Len(cache) - 1)
        /\ \A j \in 0 .. (i - 1) : Tried(j) \notin owed
        /\ to # Nobody => to = Tried(i)
        /\ stage = "failed" => to \notin owed
        /\ stage \in {"send", "recv"} /\ ~conn => to \notin owed

FailInv == WalkInv /\ FailsOnlyIfAllFail

\* Servers leave the walk's account, and a connection ends only with its server.
LEMMA FailFrame ==
    ASSUME FailInv, UNCHANGED <<upc, cache, ind, i, to, stage, ret>>, owed' \subseteq owed,
           conn' = conn \/ to \notin owed'
    PROVE  FailInv'
<1>1. WalkInv'
  BY DEF FailInv, WalkInv, Tried
<1>2. FailsOnlyIfAllFail'
  BY DEF FailInv, FailsOnlyIfAllFail
<1>3. QED
  BY <1>1, <1>2 DEF FailInv

LEMMA ServerFailInv ==
    ASSUME Typed, FailInv,
           \/ \E s \in Slaves : \/ StartSlave(s) \/ Copy(s) \/ CopyDone(s) \/ CopyFails(s)
                                \/ Heartbeat(s) \/ StopSlave(s) \/ CrashSlave(s)
                                \/ CheckTimeout(s)
           \/ CrashMaster \/ StartMaster \/ Report \/ Serve \/ WorkerSilent \/ TwentySeconds
    PROVE  FailInv'
<1>1. ASSUME NEW s, End(s) PROVE FailInv'
  <2>1. conn' = conn \/ to \notin owed'
    BY <1>1 DEF End, Typed, TypeOK
  <2>2. QED
    BY <1>1, <2>1, FailFrame DEF End, walkVars
<1>2. CASE UNCHANGED <<to, stage, conn, walkVars, owed>>
  BY <1>2, FailFrame DEF walkVars
<1>3. CASE UNCHANGED <<exchangeVars, cache, upc, ind, i, ret, owed>>
  BY <1>3, FailFrame DEF exchangeVars
<1>4. QED
  BY <1>1, <1>2, <1>3
     DEF StartSlave, Copy, CopyDone, CopyFails, Heartbeat, StopSlave, CrashSlave,
         CheckTimeout, CrashMaster, StartMaster, Report, Serve, WorkerSilent,
         TwentySeconds, ExchangeStep, exchangeVars, walkVars, answerVars

\* An exchange that fails, for whatever reason, is one its server is not owed for.
LEMMA ExchangeFailInv ==
    ASSUME Typed, FailInv, Connect \/ ConnectFails \/ Send \/ Receive \/ Broken \/ TimeOut
    PROVE  FailInv'
<1>1. WalkInv'
  <2> SUFFICES ASSUME upc' = "walk" PROVE WalkInv'
    BY DEF WalkInv
  <2>1. UNCHANGED <<upc, cache, ind, i, to>> /\ owed' \subseteq owed
    BY DEF Connect, ConnectFails, Send, Receive, Broken, TimeOut, ExchangeStep, walkVars,
           answerVars
  <2>2. /\ ind' \in 0 .. (Len(cache') - 1)
        /\ \A j \in 0 .. (i' - 1) : Tried(j)' \notin owed'
        /\ to' # Nobody => to' = Tried(i)'
    BY <2>1 DEF FailInv, WalkInv, Tried
  <2>3. stage' = "failed" => to' \notin owed'
    BY <2>1 DEF FailInv, WalkInv, Connect, ConnectFails, Send, Receive, Broken, TimeOut
  <2>4. stage' \in {"send", "recv"} /\ ~conn' => to' \notin owed'
    BY <2>1 DEF FailInv, WalkInv, Connect, ConnectFails, Send, Receive, Broken, TimeOut
  <2>5. QED
    BY <2>2, <2>3, <2>4 DEF WalkInv
<1>2. FailsOnlyIfAllFail'
  <2>1. UNCHANGED <<upc, cache, ret>> /\ owed' \subseteq owed
    BY DEF Connect, ConnectFails, Send, Receive, Broken, TimeOut, ExchangeStep, walkVars,
           answerVars
  <2>2. QED
    BY <2>1 DEF FailInv, FailsOnlyIfAllFail
<1>3. QED
  BY <1>1, <1>2 DEF FailInv

\* A try that fails is one more server that is done with; behind the last one the whole
\* cache is.
LEMMA TryFailsInv ==
    ASSUME Typed, FailInv, TryFails
    PROVE  FailInv'
<1>1. Len(cache) \in Nat \ {0} /\ i \in Nat /\ i < Len(cache) /\ DOMAIN cache = 1 .. Len(cache)
  BY LenProperties DEF TryFails, Typed, TypeOK
<1>2. ind \in 0 .. (Len(cache) - 1) /\ UNCHANGED <<cache, ind, owed>>
  BY DEF TryFails, FailInv, WalkInv, answerVars
<1>3. \A j \in 0 .. i : Tried(j) \notin owed
  <2>1. to = Tried(i) /\ to \notin owed
    BY DEF TryFails, FailInv, WalkInv, Typed, TypeOK
  <2>2. \A j \in 0 .. i : j \in 0 .. (i - 1) \/ j = i
    BY <1>1
  <2>3. QED
    BY <2>1, <2>2 DEF TryFails, FailInv, WalkInv
<1>4. CASE i + 1 < Len(cache)
  <2>1. /\ upc' = "walk" /\ i' = i + 1 /\ to' = Nobody /\ stage' = "none"
    BY <1>4 DEF TryFails, Close
  <2>2. \A j \in 0 .. (i' - 1) : Tried(j)' \notin owed'
    <3>1. i' - 1 = i
      BY <1>1, <2>1
    <3>2. QED
      BY <1>2, <1>3, <3>1 DEF Tried
  <2>3. QED
    BY <1>2, <2>1, <2>2 DEF FailInv, WalkInv, FailsOnlyIfAllFail
<1>5. CASE ~(i + 1 < Len(cache))
  <2>1. upc' = "end" /\ i = Len(cache) - 1
    <3>1. ASSUME NEW n \in Nat, NEW m \in Nat, m < n, ~(m + 1 < n)
          PROVE  m = n - 1
      BY <3>1
    <3>2. i = Len(cache) - 1
      BY <1>1, <1>5, <3>1
    <3>3. QED
      BY <1>5, <3>2 DEF TryFails
  <2>2. ASSUME NEW s \in Range(cache) PROVE s \notin owed
    <3>1. PICK place \in 1 .. Len(cache) : s = cache[place]
      BY <1>1 DEF Range
    <3>2. PICK j \in 0 .. (Len(cache) - 1) : ((j + ind) % Len(cache)) + 1 = place
      BY <1>1, <1>2, EveryPlace
    <3>3. QED
      BY <1>3, <2>1, <3>1, <3>2 DEF Tried
  <2>3. QED
    BY <1>2, <2>1, <2>2 DEF FailInv, WalkInv, FailsOnlyIfAllFail
<1>6. QED
  BY <1>4, <1>5

LEMMA UishellFailInv ==
    ASSUME Typed, FailInv,
           \/ \E c \in {"query", "retrieve"} : Command(c)
           \/ Refresh \/ RefreshFails \/ Pick \/ Try \/ TryAnswered \/ Show
    PROVE  FailInv'
<1>1. CASE upc' \notin {"walk", "end"}
  BY <1>1 DEF FailInv, WalkInv, FailsOnlyIfAllFail
<1>2. CASE Pick
  <2>1. CASE cache = <<>>
    <3>1. upc' = "end" /\ cache' = <<>>
      BY <1>2, <2>1 DEF Pick
    <3>2. Range(<<>>) = {}
      BY DEF Range
    <3>3. QED
      BY <3>1, <3>2 DEF FailInv, WalkInv, FailsOnlyIfAllFail
  <2>2. CASE cache # <<>>
    <3>1. /\ upc' = "walk" /\ ind' \in 0 .. (Len(cache') - 1) /\ i' = 0
          /\ to' = Nobody /\ stage' = "none"
      BY <1>2, <2>2 DEF Pick, exchangeVars, Typed, TypeOK
    <3>2. QED
      BY <3>1 DEF FailInv, WalkInv, FailsOnlyIfAllFail
  <2>3. QED
    BY <2>1, <2>2
<1>3. CASE Try
  <2>1. /\ UNCHANGED <<upc, cache, ind, i, owed>> /\ upc = "walk"
        /\ to' = Tried(i) /\ stage' = "connect"
    BY <1>3 DEF Try, Talk, walkVars, answerVars, Tried
  <2>2. QED
    BY <2>1 DEF FailInv, WalkInv, FailsOnlyIfAllFail, Tried
<1>4. CASE TryAnswered
  <2>1. upc' = "end" /\ ret' # "failed"
    BY <1>4 DEF TryAnswered, Typed, ExchangeInv
  <2>2. QED
    BY <2>1 DEF FailInv, WalkInv, FailsOnlyIfAllFail
<1>5. QED
  BY <1>1, <1>2, <1>3, <1>4 DEF Command, Refresh, RefreshFails, Show

LEMMA FailStep ==
    ASSUME Typed, FailInv, [Next]_vars
    PROVE  FailInv'
<1>1. CASE UNCHANGED vars
  BY <1>1, FailFrame DEF vars, exchangeVars, walkVars, answerVars
<1>2. QED
  BY <1>1, ServerFailInv, ExchangeFailInv, TryFailsInv, UishellFailInv DEF Next, Client

\* A command fails only when no server of the cache could have answered it, however
\* many there are and wherever the walk starts, whoever stops, crashes or comes back
\* during the walk.
THEOREM FailsWithAll == Spec => []FailsOnlyIfAllFail
<1>1. Init => FailInv
  BY DEF Init, FailInv, WalkInv, FailsOnlyIfAllFail
<1>2. FailInv => FailsOnlyIfAllFail
  BY DEF FailInv
<1>3. QED
  BY <1>1, <1>2, TypedAlways, FailStep, PTL DEF Spec

----------------------------------------------------------------------------
(* Only faults deny a file that is indexed.                                *)

\* As long as the master lives it serves, and knows every slave that runs and met no
\* fault; such a slave, when it has copied, has what the master has.
CoveredInv ==
    ~lost =>
        /\ Up(Master)
        /\ \A s \in Slaves \ harmed : status[s] # "down" => Contains(slist, s)
        /\ index[Master] =>
              \A s \in Slaves \ harmed : status[s] \in {"copied", "serving"} => index[s]

KnownInv ==
    ~lost /\ known =>
        /\ index[Master] /\ cmd = "retrieve"
        /\ upc = "walk" /\ ~excused => reply.kind # "absent"
        /\ upc = "end" /\ ~excused => ret # "absent"

AbsentInv == CoveredInv /\ KnownInv

LEMMA SlaveCovered ==
    ASSUME Typed, CoveredInv, NEW s \in Slaves,
           \/ StartSlave(s) \/ Copy(s) \/ CopyDone(s) \/ CopyFails(s)
           \/ Heartbeat(s) \/ StopSlave(s) \/ CrashSlave(s) \/ CheckTimeout(s)
    PROVE  CoveredInv' /\ lost' = lost /\ index'[Master] = index[Master]
<1> USE ConstAssumption DEF CoveredInv, Up, Servers
<1>1. /\ status \in [Servers -> {"down", "starting", "copied", "serving"}]
      /\ index \in [Servers -> BOOLEAN]
  BY DEF Typed, TypeOK
<1>2. /\ \A t \in Slaves : Contains(Registered(s), t) <=> Contains(slist, t) \/ t = s
      /\ \A t \in Slaves : t # s /\ Contains(slist, t) => Contains(Unregistered(s), t)
  BY RegisteredList, UnregisteredList DEF Typed, TypeOK
<1>3. CASE StartSlave(s)
  <2>1. \A t \in Slaves : Contains(slist, t) => Contains(slist', t)
    BY <1>2, <1>3 DEF StartSlave, TellMaster
  <2>2. s \notin harmed' => Contains(slist', s)
    BY <1>3 DEF StartSlave
  <2>3. harmed \subseteq harmed'
    BY <1>3 DEF StartSlave
  <2>4. QED
    BY <1>1, <1>3, <2>1, <2>2, <2>3 DEF StartSlave
<1>4. CASE Copy(s)
  BY <1>1, <1>4 DEF Copy
<1>5. CASE CopyDone(s)
  BY <1>1, <1>5 DEF CopyDone
<1>6. CASE CopyFails(s) \/ CrashSlave(s)
  BY <1>1, <1>6 DEF CopyFails, CrashSlave, End
<1>7. CASE Heartbeat(s)
  BY <1>1, <1>2, <1>7 DEF Heartbeat
<1>8. CASE StopSlave(s)
  <2>1. \A t \in Slaves : t # s /\ Contains(slist, t) => Contains(slist', t)
    BY <1>2, <1>8 DEF StopSlave, TellMaster
  <2>2. QED
    BY <1>1, <1>8, <2>1 DEF StopSlave, End
<1>9. CASE CheckTimeout(s)
  BY <1>1, <1>2, <1>9 DEF CheckTimeout
<1>10. QED
  BY <1>3, <1>4, <1>5, <1>6, <1>7, <1>8, <1>9

\* A report reaches every slave in the list, or harms it.
LEMMA MasterCovered ==
    ASSUME Typed, CoveredInv, CrashMaster \/ StartMaster \/ Report
    PROVE  CoveredInv' /\ (~lost' => ~lost /\ (index[Master] => index'[Master]))
<1> USE ConstAssumption DEF CoveredInv, Up, Servers
<1>1. CASE CrashMaster
  BY <1>1 DEF CrashMaster
<1>2. CASE StartMaster
  BY <1>2 DEF StartMaster
<1>3. CASE Report
  <2>1. PICK reached \in SUBSET Listening :
           /\ index' = [s \in Servers |-> index[s] \/ s = Master \/ s \in reached]
           /\ harmed' = harmed \cup (Listening \ reached)
    BY <1>3 DEF Report
  <2>2. index'[Master]
    BY <2>1
  <2>3. ASSUME ~lost, NEW s \in Slaves \ harmed', status[s] # "down" PROVE index'[s]
    BY <2>1, <2>3 DEF Listening
  <2>4. QED
    BY <1>3, <2>1, <2>2, <2>3 DEF Report
<1>4. QED
  BY <1>1, <1>2, <1>3

\* A server that serves and met no fault does not deny a file the master has.
LEMMA ServeKnown ==
    ASSUME Typed, AbsentInv, Serve, upc = "walk", ~lost, known, ~excused'
    PROVE  reply'.kind # "absent"
<1>1. to \in Servers /\ Up(to) /\ to # Nobody /\ to \notin harmed
  BY ConstAssumption DEF Serve, Typed, TypeOK
<1>2. index[to]
  BY <1>1 DEF AbsentInv, CoveredInv, KnownInv, Up, Servers
<1>3. reply' = [NoReply EXCEPT !.kind = "answer"]
  BY <1>2 DEF Serve, QueryOrRetrieve
<1>4. QED
  BY <1>3 DEF NoReply

LEMMA AbsentStep ==
    ASSUME Typed, AbsentInv, [Next]_vars
    PROVE  AbsentInv'
<1>1. CASE \E s \in Slaves : \/ StartSlave(s) \/ Copy(s) \/ CopyDone(s) \/ CopyFails(s)
                             \/ Heartbeat(s) \/ StopSlave(s) \/ CrashSlave(s)
                             \/ CheckTimeout(s)
  <2>1. CoveredInv' /\ lost' = lost /\ index'[Master] = index[Master]
    BY <1>1, SlaveCovered DEF AbsentInv
  <2>2. UNCHANGED <<known, cmd, upc, reply, ret, excused>>
    BY <1>1 DEF StartSlave, Copy, CopyDone, CopyFails, Heartbeat, StopSlave, CrashSlave,
                CheckTimeout, End, exchangeVars, walkVars, answerVars
  <2>3. QED
    BY <2>1, <2>2 DEF AbsentInv, KnownInv
<1>2. CASE CrashMaster \/ StartMaster \/ Report
  <2>1. CoveredInv' /\ (~lost' => ~lost /\ (index[Master] => index'[Master]))
    BY <1>2, MasterCovered DEF AbsentInv
  <2>2. UNCHANGED <<known, cmd, upc, reply, ret, excused>>
    BY <1>2 DEF CrashMaster, StartMaster, Report, End, exchangeVars, walkVars, answerVars
  <2>3. QED
    BY <2>1, <2>2 DEF AbsentInv, KnownInv
<1>3. ASSUME UNCHANGED serverVars PROVE CoveredInv'
  BY <1>3 DEF serverVars, AbsentInv, CoveredInv, Up
<1>4. CASE Serve \/ WorkerSilent
  <2>1. UNCHANGED <<serverVars, walkVars>>
    BY <1>4 DEF Serve, WorkerSilent, ExchangeStep
  <2>2. upc = "walk" /\ ~lost /\ known /\ ~excused' => reply'.kind # "absent"
    BY <1>4, ServeKnown DEF WorkerSilent
  <2>3. upc # "end"
    BY <1>4 DEF Serve, WorkerSilent, Typed, TypeOK
  <2>4. QED
    BY <1>3, <2>1, <2>2, <2>3 DEF AbsentInv, KnownInv, serverVars, walkVars
<1>5. CASE Connect \/ ConnectFails \/ Send \/ Receive \/ Broken \/ TimeOut
  <2>1. UNCHANGED <<serverVars, walkVars, reply, excused>>
    BY <1>5 DEF Connect, ConnectFails, Send, Receive, Broken, TimeOut, ExchangeStep,
                answerVars
  <2>2. QED
    BY <1>3, <2>1 DEF AbsentInv, KnownInv, serverVars, walkVars
<1>6. ASSUME NEW c \in {"query", "retrieve"}, Command(c) PROVE AbsentInv'
  <2>1. KnownInv'
    BY <1>6 DEF Command, KnownInv, serverVars
  <2>2. QED
    BY <1>3, <1>6, <2>1 DEF Command, AbsentInv
<1>7. CASE Refresh \/ RefreshFails \/ Pick
  <2>1. KnownInv'
    BY <1>7, NoReplyTyped DEF Refresh, RefreshFails, Pick, Close, AbsentInv, KnownInv, serverVars,
                exchangeVars, answerVars, Typed, TypeOK, ExchangeInv
  <2>2. QED
    BY <1>3, <1>7, <2>1 DEF Refresh, RefreshFails, Pick, AbsentInv
<1>8. CASE Try \/ TryAnswered \/ TryFails
  <2>1. KnownInv'
    BY <1>8, NoReplyTyped DEF Try, TryAnswered, TryFails, Talk, Close, AbsentInv, KnownInv,
                serverVars, walkVars, answerVars, Typed, ExchangeInv
  <2>2. QED
    BY <1>3, <1>8, <2>1 DEF Try, TryAnswered, TryFails, AbsentInv
<1>9. CASE Show \/ TwentySeconds
  <2>1. KnownInv'
    BY <1>9 DEF Show, TwentySeconds, AbsentInv, KnownInv, serverVars, exchangeVars
  <2>2. QED
    BY <1>3, <1>9, <2>1 DEF Show, TwentySeconds, AbsentInv
<1>10. CASE UNCHANGED vars
  BY <1>3, <1>10 DEF vars, exchangeVars, walkVars, answerVars, serverVars, AbsentInv, KnownInv
<1>11. QED
  BY <1>1, <1>2, <1>4, <1>5, <1>6, <1>7, <1>8, <1>9, <1>10 DEF Next, Client

\* A file that was indexed when the user asked for it is denied only after the master
\* lost its index in a crash, by a slave that a fault met, or for want of the worker's
\* answer: a slave serves only after it copied, and a report goes to the slaves that
\* are starting, too.
THEOREM AbsentMeansFault == Spec => []AbsentOnlyByFault
<1>1. Init => AbsentInv
  BY ConstAssumption DEF Init, AbsentInv, CoveredInv, KnownInv, Up, Servers
<1>2. AbsentInv => AbsentOnlyByFault
  BY DEF AbsentInv, KnownInv, AbsentOnlyByFault
<1>3. QED
  BY <1>1, <1>2, TypedAlways, AbsentStep, PTL DEF Spec
=============================================================================
