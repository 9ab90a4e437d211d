----------------------------- MODULE WireProofs -----------------------------
(***************************************************************************)
(* Proofs about Wire: its invariants, for all reports, contents, uris and  *)
(* answers and all sizes of the buffers.                                   *)
(***************************************************************************)
EXTENDS Wire, CodecProofs

----------------------------------------------------------------------------
(* Bytes as cells.                                                         *)

LEMMA AsCellsType ==
    ASSUME NEW bytes \in Seq(Nat)
    PROVE  /\ AsCells(bytes) \in Texts /\ Len(AsCells(bytes)) = Len(bytes)
           /\ AsBytes(AsCells(bytes)) = bytes
<1> DEFINE n == Len(bytes)
           cells == AsCells(bytes)
<1>1. n \in Nat /\ (\A i \in 1..n : bytes[i] \in Nat) /\ bytes \in [1..n -> Nat]
  BY LenProperties, ElementOfSeq
<1>2. \A k \in Nat : <<"byte", k>> \in Cells /\ <<"byte", k>>[2] = k
  <2>1. "byte" \in STRING
    BY KindAssumption DEF Kinds
  <2>2. QED
    BY <2>1 DEF Cells
<1>3. cells \in [1..n -> Cells] /\ \A i \in 1..n : cells[i] = <<"byte", bytes[i]>>
  BY <1>1, <1>2 DEF AsCells
<1> HIDE DEF n, cells
<1>4. cells \in Seq(Cells) /\ Len(cells) = n
  BY <1>1, <1>3, IsSequence
<1>5. \A i \in 1..n : cells[i][2] = bytes[i]
  BY <1>1, <1>2, <1>3
<1>6. AsBytes(cells) = [i \in 1..n |-> bytes[i]]
  BY <1>4, <1>5 DEF AsBytes
<1>7. AsBytes(cells) = bytes
  BY <1>1, <1>6
<1>8. QED
  BY <1>4, <1>7 DEF Texts, n, cells

LEMMA AsBytesType ==
    ASSUME NEW text \in Texts
    PROVE  AsBytes(text) \in Seq(Nat)
<1>1. Len(text) \in Nat /\ \A i \in 1..Len(text) : text[i][2] \in Nat
  <2>1. Len(text) \in Nat /\ \A i \in 1..Len(text) : text[i] \in Cells
    BY TextLength
  <2>2. \A c \in Cells : c[2] \in Nat
    BY DEF Cells
  <2>3. QED
    BY <2>1, <2>2
<1>2. AsBytes(text) \in [1..Len(text) -> Nat]
  BY <1>1 DEF AsBytes
<1>3. QED
  BY <1>1, <1>2, IsSequence

----------------------------------------------------------------------------
(* The requests.                                                           *)

\* What the parser of the server needs of a request.
CallFits(c) ==
    /\ c.body \in Texts /\ c.tries \in Nat \ {0}
    /\ Requests(c.head, c.uri, Len(c.body))
    /\ ContentLength \in ToSet(c.uri) => c.body = <<>>

\* A report is what the body of its request holds.
Carries(c) ==
    c.report.ok => /\ c.uri = ReportUri /\ c.body = AsCells(PackReport(c.report.report))
                   /\ c.report = [ok |-> TRUE, report |-> c.report.report]
                   /\ c.report.report \in EncodedReports

LEMMA OwnUris ==
    ASSUME NEW kind \in {"/report", "/put"}
    PROVE  IsUri(<<Token(kind)>>) /\ ContentLength \notin ToSet(<<Token(kind)>>)
<1>1. Token(kind) \in Cells
  <2>1. kind \in STRING
    BY KindAssumption DEF Kinds
  <2>2. QED
    BY <2>1, TokenCells
<1>2. Token(kind) \notin {Cr, Space, ContentLength}
  BY DEF Token, Cr, Space, ContentLength
<1>3. <<Token(kind)>> \in Texts /\ ToSet(<<Token(kind)>>) = {Token(kind)}
  BY <1>1, OneCell
<1>4. QED
  BY <1>2, <1>3 DEF IsUri

LEMMA PostFits ==
    ASSUME NEW uri, IsUri(uri), NEW content \in Texts, NEW tries \in {1, 2},
           ContentLength \in ToSet(uri) => content = <<>>
    PROVE  CallFits(Post(uri, content, tries)) /\ Carries(Post(uri, content, tries))
<1> DEFINE c == Post(uri, content, tries)
<1>1. /\ c.uri = uri /\ c.body = content /\ c.tries = tries
      /\ c.head = PostHead(uri, Len(content)) /\ c.report.ok = FALSE
  BY DEF Post, NoReport
<1>2. Requests(PostHead(uri, Len(content)), uri, Len(content))
  BY TextLength, PostHeadRead
<1> HIDE DEF c
<1>3. QED
  BY <1>1, <1>2 DEF CallFits, Carries, c

LEMMA CallsFit == \A c \in Calls : CallFits(c) /\ Carries(c)
<1> TAKE c \in Calls
<1>1. CASE \E report \in Reports : c = ReportCall(report)
  <2>1. PICK report \in Reports : c = ReportCall(report)
    BY <1>1
  <2> DEFINE content == AsCells(PackReport(report))
             p == Post(ReportUri, content, 1)
  <2>2. report \in EncodedReports
    BY ConstAssumption
  <2>3. PackReport(report) \in Seq(Nat)
    <3>1. PackReport(report) \in Seq(0..255)
      BY <2>2, UnpackedAsPacked DEF Bytes
    <3>2. 0..255 \subseteq Nat
      OBVIOUS
    <3>3. QED
      BY <3>1, <3>2, SeqMonotonic
  <2>4. content \in Texts
    BY <2>3, AsCellsType
  <2>5. IsUri(ReportUri) /\ ContentLength \notin ToSet(ReportUri)
    BY OwnUris DEF ReportUri
  <2> HIDE DEF content
  <2>6. CallFits(p)
    BY <2>4, <2>5, PostFits
  <2>7. /\ c.uri = p.uri /\ c.head = p.head /\ c.body = p.body /\ c.tries = p.tries
        /\ c.report = [ok |-> TRUE, report |-> report]
        /\ p.uri = ReportUri /\ p.body = content
    BY <2>1 DEF ReportCall, Post, content
  <2> HIDE DEF p
  <2>8. CallFits(c)
    BY <2>6, <2>7 DEF CallFits
  <2>9. Carries(c)
    BY <2>2, <2>7 DEF Carries, content
  <2>10. QED
    BY <2>8, <2>9
<1>2. CASE \E content \in Contents : c = Post(<<Token("/put")>>, content, 1)
  <2>1. PICK content \in Contents : c = Post(<<Token("/put")>>, content, 1)
    BY <1>2
  <2>2. content \in Texts
    BY ConstAssumption
  <2>3. QED
    BY <2>1, <2>2, OwnUris, PostFits
<1>3. CASE \E uri \in Uris : c = [Post(uri, <<>>, 1) EXCEPT !.head = GetHead(uri)]
  <2>1. PICK uri \in Uris : c = [Post(uri, <<>>, 1) EXCEPT !.head = GetHead(uri)]
    BY <1>3
  <2>2. IsUri(uri)
    BY ConstAssumption
  <2>3. /\ c.uri = uri /\ c.body = <<>> /\ c.tries = 1 /\ c.head = GetHead(uri)
        /\ c.report.ok = FALSE
    BY <2>1 DEF Post, NoReport
  <2>4. Requests(GetHead(uri), uri, 0)
    BY <2>2, GetHeadRead
  <2>5. <<>> \in Texts /\ Len(<<>>) = 0
    BY JoinedEmpty
  <2>6. QED
    BY <2>3, <2>4, <2>5 DEF CallFits, Carries
<1>4. CASE c = Post(GroupUri, <<>>, 2)
  <2>1. IsUri(GroupUri)
    BY ConstAssumption
  <2>2. <<>> \in Texts
    BY JoinedEmpty
  <2>3. QED
    BY <1>4, <2>1, <2>2, PostFits
<1>5. QED
  BY <1>1, <1>2, <1>3, <1>4 DEF Calls

\* No length that is read is less than that of the body, and it is that of the body
\* unless the uri has the name of one.
LEMMA LengthOfCall ==
    ASSUME NEW c \in Calls
    PROVE  /\ LengthIn(FrontOf(c.head)) \in Nat /\ LengthIn(FrontOf(c.head)) >= Len(c.body)
           /\ ContentLength \notin ToSet(c.uri) => LengthIn(FrontOf(c.head)) = Len(c.body)
<1>1. CallFits(c)
  BY CallsFit
<1>2. c.head \in Texts /\ Len(c.head) \in Nat /\ Len(c.head) >= 4 /\ Len(c.body) \in Nat
  BY <1>1, TextLength DEF CallFits, Requests, IsHead
<1>3. FrontOf(c.head) \in Texts
  <2>1. Len(c.head) - 4 \in 0..Len(c.head)
    BY <1>2
  <2>2. QED
    BY <1>2, <2>1, CutText DEF FrontOf
<1>4. LengthIn(FrontOf(c.head)) \in Nat
  BY <1>3, LengthType
<1>5. ContentLength \notin ToSet(c.uri) => LengthIn(FrontOf(c.head)) = Len(c.body)
  BY <1>1 DEF CallFits, Requests
<1>6. ContentLength \in ToSet(c.uri) => Len(c.body) = 0
  BY <1>1, JoinedEmpty DEF CallFits
<1>7. QED
  BY <1>2, <1>4, <1>5, <1>6

----------------------------------------------------------------------------
(* Texts under way.                                                        *)

LEMMA UpToLeast ==
    ASSUME NEW b \in Nat, NEW s \in Texts, NEW n \in 1..Least(b, Len(s))
    PROVE  n \in 0..Len(s) /\ n \in 1..b /\ n >= 1
<1>1. Len(s) \in Nat
  BY TextLength
<1>2. QED
  BY <1>1 DEF Least

\* n cells leave s, in front of rest, for the end of x.
Moves(x, s, rest, n) ==
    /\ First(s, n) \in Texts /\ Len(First(s, n)) = n
    /\ Without(s, n) \in Texts /\ Len(Without(s, n)) = Len(s) - n
    /\ x \o First(s, n) \in Texts /\ Len(x \o First(s, n)) = Len(x) + n
    /\ Without(s, n) \o rest \in Texts
    /\ ((x \o First(s, n)) \o Without(s, n)) \o rest = (x \o s) \o rest
    /\ (x \o First(s, n)) \o (Without(s, n) \o rest) = (x \o s) \o rest

LEMMA Moved ==
    ASSUME NEW x \in Texts, NEW s \in Texts, NEW rest \in Texts, NEW n \in 0..Len(s)
    PROVE  Moves(x, s, rest, n)
<1> DEFINE f == First(s, n)
           w == Without(s, n)
<1>1. f \in Texts /\ Len(f) = n /\ w \in Texts /\ Len(w) = Len(s) - n /\ f \o w = s
  BY CutText DEF First, Without
<1> HIDE DEF f, w
<1>2. x \o f \in Texts /\ Len(x \o f) = Len(x) + Len(f)
  BY <1>1, Joined
<1>3. w \o rest \in Texts
  BY <1>1, Joined
<1>4. (x \o f) \o w = x \o (f \o w)
  BY <1>1, Regroup
<1>5. ((x \o f) \o w) \o rest = (x \o f) \o (w \o rest)
  BY <1>1, <1>2, Regroup
<1>6. ((x \o f) \o w) \o rest = (x \o s) \o rest
  BY <1>1, <1>4
<1>7. QED
  BY <1>1, <1>2, <1>3, <1>5, <1>6 DEF f, w, Moves

\* n cells leave u for the end of s, which is behind x.
MovesBehind(x, s, u, n) ==
    /\ s \o First(u, n) \in Texts /\ Without(u, n) \in Texts
    /\ (x \o (s \o First(u, n))) \o Without(u, n) = (x \o s) \o u

LEMMA MovedFrom ==
    ASSUME NEW x \in Texts, NEW s \in Texts, NEW u \in Texts, NEW n \in 0..Len(u)
    PROVE  MovesBehind(x, s, u, n)
<1> DEFINE f == First(u, n)
           w == Without(u, n)
<1>1. f \in Texts /\ w \in Texts /\ f \o w = u
  BY CutText DEF First, Without
<1> HIDE DEF f, w
<1>2. s \o f \in Texts /\ x \o s \in Texts
  BY <1>1, Joined
<1>3. (x \o s) \o f = x \o (s \o f)
  BY <1>1, Regroup
<1>4. ((x \o s) \o f) \o w = (x \o s) \o (f \o w)
  <2> DEFINE z == x \o s
  <2>1. z \in Texts
    BY <1>2
  <2> HIDE DEF z
  <2>2. (z \o f) \o w = z \o (f \o w)
    BY <1>1, <2>1, Regroup
  <2>3. QED
    BY <2>2 DEF z
<1>5. QED
  BY <1>1, <1>2, <1>3, <1>4 DEF f, w, MovesBehind

\* A text that goes on to nothing is not shorter.
LEMMA NotShorter ==
    ASSUME NEW x \in Texts, NEW more \in Texts, NEW whole, x \o more = whole
    PROVE  /\ Len(x) \in Nat /\ Len(more) \in Nat /\ Len(whole) = Len(x) + Len(more)
           /\ Len(x) >= Len(whole) => x = whole /\ more = <<>>
<1>1. Len(x) \in Nat /\ Len(more) \in Nat /\ Len(whole) = Len(x) + Len(more)
  BY TextLength, Joined
<1>2. ASSUME Len(x) >= Len(whole)
      PROVE  x = whole /\ more = <<>>
  <2>1. Len(more) = 0
    BY <1>1, <1>2
  <2>2. more = <<>>
    BY <2>1, EmptySeq DEF Texts
  <2>3. x \o <<>> = x
    BY JoinedEmpty
  <2>4. QED
    BY <2>2, <2>3
<1>3. QED
  BY <1>1, <1>2

\* The beginning of a text, in the words of the community modules.
LEMMA Begins ==
    ASSUME NEW x \in Texts, NEW more \in Texts
    PROVE  IsPrefix(x, x \o more)
<1>1. SubSeq(x \o more, 1, Len(x)) = x
  BY CutJoined
<1>2. SubSeq(x, 1, Len(x)) = x
  BY SubSeqFull DEF Texts
<1>3. Len(x) <= Len(x \o more)
  BY Joined, TextLength
<1>4. QED
  BY <1>1, <1>2, <1>3 DEF IsPrefix

\* Behind a head its end is still found.
LEMMA EndStays ==
    ASSUME NEW h, IsHead(h), NEW rest \in Texts
    PROVE  HeadEnds(h \o rest) # {}
<1> DEFINE i == Len(h) - 3
           t == h \o rest
<1>1. h \in Texts /\ Len(h) \in Nat /\ Len(h) >= 4 /\ HeadEnds(h) = {i}
  BY TextLength DEF IsHead
<1>2. /\ t \in Texts /\ Len(t) = Len(h) + Len(rest) /\ Len(rest) \in Nat
      /\ \A k \in 1..Len(h) : t[k] = h[k]
  <2>1. Len(rest) \in Nat
    BY TextLength
  <2>2. QED
    BY <1>1, <2>1, Joined
<1> HIDE DEF t
<1>3. /\ i \in 1..(Len(h) - 3) /\ i \in 1..(Len(t) - 3)
      /\ \A k \in i..(i + 3) : k \in 1..Len(h)
  BY <1>1, <1>2
<1>4. \A k \in i..(i + 3) : t[k] = h[k]
  BY <1>2, <1>3
<1> HIDE DEF i
<1>5. i \in HeadEnds(t)
  BY <1>1, <1>2, <1>3, <1>4, SameEnds
<1>6. QED
  BY <1>5 DEF t

----------------------------------------------------------------------------
(* The invariant: every text is somewhere between the two ends.            *)

\* What the server has of a text, what is under way, and what is still to come are
\* the whole of it; while the client is connected, what is to come is unsent.
ToCome(x, whole) ==
    \E rest \in Texts : (x \o toServer) \o rest = whole /\ (Connected => rest = unsent)

\* How far the server is with the request.
RequestInv ==
    /\ state = "read_head" => HeadEnds(head) = {} /\ ToCome(head, call.head \o call.body)
    /\ state = "read_body" =>
          /\ head = FrontOf(call.head) /\ contentLen = LengthIn(FrontOf(call.head))
          /\ Len(body) < contentLen /\ ToCome(body, call.body)
    /\ state \in {"compute", "write"} => head = FrontOf(call.head) /\ body = call.body

\* When there is an answer, and what it means for the report.
AnswerInv ==
    /\ answer = NoAnswer => toClient = <<>> /\ response = <<>>
    /\ state \in {"read_head", "read_body", "compute"} => answer = NoAnswer
    /\ state = "write" => answer # NoAnswer
    /\ Connected /\ state = "closed" => response = <<>> /\ answer # NoAnswer
    /\ cstate \in {"body", "ok"} => answer # NoAnswer
    /\ answer # NoAnswer /\ call.report.ok => unpacked = call.report

\* How far the client is.
TurnInv ==
    /\ cstate = "connect" \/ Connected => tried < call.tries
    /\ cstate \in {"head", "body"} => unsent = <<>>
    /\ cstate = "body" => missing > 0

\* The answer as it is written, if there is one.
HeadOf(a) == ReplyHead(a.code, a.type, Len(a.body))
Reply(a) == IF a = NoAnswer THEN <<>> ELSE HeadOf(a) \o a.body

\* How far the client is with the reply: it comes behind what a try before it left
\* in the caller's string.
ReplyInv ==
    /\ HeadEnds(rspHead) = {}
    /\ cstate \in {"send", "head"} =>
          \E old \in Texts : /\ HeadEnds(old) = {} /\ (fresh => old = <<>>)
                             /\ (rspHead \o toClient) \o response = old \o Reply(answer)
    /\ cstate = "body" =>
          /\ (rspBody \o toClient) \o response = answer.body
          /\ fresh => /\ rspHead \o EndOfHead = HeadOf(answer)
                      /\ missing = Len(answer.body) - Len(rspBody)
    /\ cstate = "ok" =>
          /\ IsPrefix(rspBody, answer.body)
          /\ fresh => rspHead \o EndOfHead = HeadOf(answer) /\ rspBody = answer.body

Inv == TypeOK /\ RequestInv /\ AnswerInv /\ TurnInv /\ ReplyInv

LEMMA AnswerFacts ==
    ASSUME NEW a \in Answers
    PROVE  /\ a.code \in Names /\ a.type \in Names /\ a.body \in Texts /\ Len(a.body) \in Nat
           /\ a # NoAnswer /\ Replies(HeadOf(a), Len(a.body))
           /\ HeadOf(a) \in Texts /\ IsHead(HeadOf(a))
<1>1. a.code \in Names /\ a.type \in Names /\ a.body \in Texts /\ a # NoAnswer
  BY ConstAssumption
<1>2. Len(a.body) \in Nat
  BY <1>1, TextLength
<1>3. Replies(HeadOf(a), Len(a.body))
  BY <1>1, <1>2, ReplyHeadRead DEF HeadOf
<1>4. QED
  BY <1>1, <1>2, <1>3 DEF Replies, IsHead

LEMMA ReplyType ==
    ASSUME NEW a \in Answers \cup {NoAnswer}
    PROVE  Reply(a) \in Texts
<1>1. CASE a = NoAnswer
  BY <1>1, JoinedEmpty DEF Reply
<1>2. CASE a \in Answers
  <2>1. HeadOf(a) \in Texts /\ a.body \in Texts /\ a # NoAnswer
    BY <1>2, AnswerFacts
  <2>2. QED
    BY <2>1, Joined DEF Reply
<1>3. QED
  BY <1>1, <1>2

LEMMA EmptyHasNoEnd == HeadEnds(<<>>) = {}
<1>1. Len(<<>>) = 0
  BY JoinedEmpty
<1>2. QED
  BY <1>1 DEF HeadEnds

LEMMA InitInv == Init => Inv
<1> SUFFICES ASSUME Init PROVE Inv
  OBVIOUS
<1> USE DEF Init
<1>1. <<>> \in Texts /\ HeadEnds(<<>>) = {} /\ call.tries \in Nat \ {0}
  BY JoinedEmpty, EmptyHasNoEnd, CallsFit DEF CallFits
<1>2. TypeOK
  <2>1. NoReport.report.port \in Nat
    BY DEF NoReport
  <2>2. QED
    BY <1>1, <2>1 DEF TypeOK
<1>3. RequestInv
  BY DEF RequestInv
<1>4. AnswerInv
  BY DEF AnswerInv, Connected
<1>5. TurnInv
  BY <1>1 DEF TurnInv, Connected
<1>6. ReplyInv
  BY <1>1 DEF ReplyInv
<1>7. QED
  BY <1>2, <1>3, <1>4, <1>5, <1>6 DEF Inv

----------------------------------------------------------------------------
(* The steps of the client.                                                *)

\* What the steps that leave the server alone do to the request: nothing.
LEMMA RequestStays ==
    /\ RequestInv /\ UNCHANGED <<call, state, head, body, contentLen, toServer>>
    /\ Connected' => Connected /\ unsent' = unsent
    => RequestInv'
<1> SUFFICES ASSUME RequestInv, UNCHANGED <<call, state, head, body, contentLen, toServer>>,
                    Connected' => Connected /\ unsent' = unsent
             PROVE  RequestInv'
  OBVIOUS
<1>1. /\ call' = call /\ state' = state /\ head' = head /\ body' = body
      /\ contentLen' = contentLen /\ toServer' = toServer
  OBVIOUS
<1>2. ToCome(head, call.head \o call.body) => ToCome(head, call.head \o call.body)'
  BY <1>1 DEF ToCome
<1>3. ToCome(body, call.body) => ToCome(body, call.body)'
  BY <1>1 DEF ToCome
<1>4. QED
  BY <1>1, <1>2, <1>3 DEF RequestInv

LEMMA ConnectKeeps == Inv /\ Connect => Inv'
<1> SUFFICES ASSUME Inv, Connect PROVE Inv'
  OBVIOUS
<1>1. TypeOK /\ TurnInv /\ ReplyInv
  BY DEF Inv
<1>2. /\ cstate = "connect" /\ cstate' = "send" /\ unsent' = call.head \o call.body
      /\ fresh' = (rspHead = <<>>) /\ missing' = 0 /\ toServer' = <<>> /\ toClient' = <<>>
      /\ call' = call /\ tried' = tried /\ rspHead' = rspHead /\ rspBody' = rspBody
  BY DEF Connect
<1>3. /\ state' = "read_head" /\ head' = <<>> /\ body' = <<>> /\ contentLen' = 0
      /\ response' = <<>> /\ answer' = NoAnswer /\ unpacked' = NoReport
  BY DEF Connect, ServerIs, NewEvent
<1>4. <<>> \in Texts /\ HeadEnds(<<>>) = {} /\ (\A t \in Texts : t \o <<>> = t /\ <<>> \o t = t)
  BY JoinedEmpty, EmptyHasNoEnd
<1>5. call.head \o call.body \in Texts
  <2>1. call.head \in Texts /\ call.body \in Texts
    BY <1>1, CallsFit DEF TypeOK, CallFits, Requests, IsHead
  <2>2. QED
    BY <2>1, Joined
<1>6. TypeOK'
  <2>1. NoReport.report.port \in Nat
    BY DEF NoReport
  <2>2. QED
    BY <1>1, <1>2, <1>3, <1>4, <1>5, <2>1 DEF TypeOK
<1>7. RequestInv'
  <2> DEFINE whole == call.head \o call.body
  <2>1. (<<>> \o <<>>) \o whole = whole /\ whole \in Texts /\ unsent' = whole
    BY <1>2, <1>4, <1>5
  <2> HIDE DEF whole
  <2>2. \E rest \in Texts : (head' \o toServer') \o rest = whole /\ rest = unsent'
    BY <1>2, <1>3, <2>1
  <2>3. ToCome(head, call.head \o call.body)'
    BY <1>2, <2>2 DEF ToCome, whole
  <2>4. QED
    BY <1>3, <1>4, <2>3 DEF RequestInv
<1>8. AnswerInv'
  BY <1>2, <1>3 DEF AnswerInv
<1>9. TurnInv'
  BY <1>1, <1>2 DEF TurnInv
<1>10. ReplyInv'
  <2>1. HeadEnds(rspHead) = {} /\ rspHead \in Texts
    BY <1>1 DEF ReplyInv, TypeOK
  <2>2. Reply(answer') = <<>>
    BY <1>3 DEF Reply
  <2>3. (rspHead \o <<>>) \o <<>> = rspHead \o <<>>
    BY <1>4, <2>1
  <2>4. \E old \in Texts :
           /\ HeadEnds(old) = {} /\ (fresh' => old = <<>>)
           /\ (rspHead' \o toClient') \o response' = old \o Reply(answer')
    BY <1>2, <1>3, <2>1, <2>2, <2>3
  <2>5. QED
    BY <1>2, <2>1, <2>4 DEF ReplyInv
<1>11. QED
  BY <1>6, <1>7, <1>8, <1>9, <1>10 DEF Inv

LEMMA SendKeeps == Inv /\ Send => Inv'
<1> SUFFICES ASSUME Inv, Send PROVE Inv'
  OBVIOUS
<1>1. TypeOK /\ RequestInv /\ AnswerInv /\ TurnInv /\ ReplyInv
  BY DEF Inv
<1>2. PICK n \in 1..Len(unsent) :
         toServer' = toServer \o First(unsent, n) /\ unsent' = Without(unsent, n)
  BY DEF Send
<1>3. /\ cstate = "send" /\ cstate' = IF unsent' = <<>> THEN "head" ELSE "send"
      /\ call' = call /\ tried' = tried /\ rspHead' = rspHead /\ rspBody' = rspBody
      /\ missing' = missing /\ fresh' = fresh /\ toClient' = toClient
      /\ state' = state /\ head' = head /\ body' = body /\ contentLen' = contentLen
      /\ response' = response /\ answer' = answer /\ unpacked' = unpacked
  BY DEF Send, serverVars
<1>4. n \in 0..Len(unsent) /\ unsent \in Texts /\ toServer \in Texts
  <2>1. unsent \in Texts /\ toServer \in Texts
    BY <1>1 DEF TypeOK
  <2>2. Len(unsent) \in Nat
    BY <2>1, TextLength
  <2>3. QED
    BY <2>1, <2>2
<1>5. \A x \in Texts : /\ toServer' \in Texts /\ unsent' \in Texts
                       /\ (x \o toServer') \o unsent' = (x \o toServer) \o unsent
  <2> TAKE x \in Texts
  <2>1. MovesBehind(x, toServer, unsent, n)
    BY <1>4, MovedFrom
  <2>2. QED
    BY <1>2, <2>1 DEF MovesBehind
<1>6. toServer' \in Texts /\ unsent' \in Texts
  BY <1>4, <1>5
<1>7. TypeOK'
  BY <1>1, <1>3, <1>6 DEF TypeOK
<1>8. RequestInv'
  <2>1. ASSUME NEW x \in Texts, NEW whole, ToCome(x, whole)
        PROVE  (x \o toServer') \o unsent' = whole
    <3>1. (x \o toServer) \o unsent = whole
      BY <1>3, <2>1 DEF ToCome, Connected
    <3>2. QED
      BY <1>5, <3>1
  <2>2. head \in Texts /\ body \in Texts
    BY <1>1 DEF TypeOK
  <2>3. ToCome(head, call.head \o call.body) => ToCome(head, call.head \o call.body)'
    <3> HAVE ToCome(head, call.head \o call.body)
    <3>1. (head \o toServer') \o unsent' = call.head \o call.body
      BY <2>1, <2>2
    <3>2. QED
      BY <1>3, <1>6, <3>1 DEF ToCome
  <2>4. ToCome(body, call.body) => ToCome(body, call.body)'
    <3> HAVE ToCome(body, call.body)
    <3>1. (body \o toServer') \o unsent' = call.body
      BY <2>1, <2>2
    <3>2. QED
      BY <1>3, <1>6, <3>1 DEF ToCome
  <2>5. QED
    BY <1>1, <1>3, <2>3, <2>4 DEF RequestInv
<1>9. AnswerInv'
  BY <1>1, <1>3 DEF AnswerInv, Connected
<1>10. TurnInv'
  BY <1>1, <1>3 DEF TurnInv, Connected
<1>11. ReplyInv'
  BY <1>1, <1>3 DEF ReplyInv
<1>12. QED
  BY <1>7, <1>8, <1>9, <1>10, <1>11 DEF Inv

\* text is cut at the end of the head of an answer, which is behind old.
AnswerCut(a, old, text, more) ==
    /\ HeadIn(text) \in Texts /\ HeadEnds(HeadIn(text)) = {}
    /\ RestOf(text) \in Texts /\ RestOf(text) \o more = a.body
    /\ ReplyLength(text) \in Nat
    /\ old = <<>> => /\ HeadIn(text) \o EndOfHead = HeadOf(a)
                     /\ ReplyLength(text) = Len(a.body)

\* Where a read brings the end of the head of an answer, behind what a try before
\* left, the body begins behind it.
LEMMA HeadCut ==
    ASSUME NEW a \in Answers, NEW old \in Texts, HeadEnds(old) = {},
           NEW text \in Texts, NEW more \in Texts, text \o more = old \o Reply(a),
           HeadEnds(text) # {}
    PROVE  AnswerCut(a, old, text, more)
<1> DEFINE H == HeadOf(a)
           h == old \o H
<1>1. /\ a.body \in Texts /\ a # NoAnswer /\ Replies(H, Len(a.body)) /\ H \in Texts
      /\ IsHead(H)
  BY AnswerFacts
<1>2. Reply(a) = H \o a.body
  BY <1>1 DEF Reply
<1> HIDE DEF H
<1>3. h \in Texts /\ HeadEnds(h) = {Len(h) - 3} /\ Len(h) >= 4
  <2>1. h \in Texts /\ Len(h) = Len(old) + Len(H)
    BY <1>1, Joined
  <2>2. Len(old) \in Nat /\ Len(H) \in Nat /\ Len(H) >= 4
    BY <1>1, TextLength DEF IsHead
  <2>3. HeadEnds(h) = {Len(h) - 3}
    BY <1>1, EndBehind
  <2> HIDE DEF h
  <2>4. QED
    BY <2>1, <2>2, <2>3
<1>4. h \o a.body = old \o (H \o a.body)
  BY <1>1, Regroup
<1>5. text \o more = h \o a.body
  BY <1>2, <1>4
<1> HIDE DEF h
<1>6. /\ HeadIn(text) = SubSeq(h, 1, Len(h) - 4)
      /\ HeadIn(text) \in Texts /\ HeadEnds(HeadIn(text)) = {}
      /\ RestOf(text) \in Texts /\ RestOf(text) \o more = a.body
  <2> DEFINE b == a.body
  <2>1. h \in Texts /\ b \in Texts /\ Len(h) >= 4 /\ HeadEnds(h) = {Len(h) - 3}
        /\ text \o more = h \o b
    BY <1>1, <1>3, <1>5
  <2> HIDE DEF b
  <2>2. CutAt(text, more, h, b)
    BY <2>1, CutAtEnd
  <2>3. QED
    BY <2>2 DEF b, CutAt
<1>7. ReplyLength(text) \in Nat
  <2>1. LengthIn(HeadIn(text)) \in Nat
    BY <1>6, LengthType
  <2>2. Len(RestOf(text)) \in Nat
    BY <1>6, TextLength
  <2>3. QED
    BY <2>1, <2>2 DEF ReplyLength
<1>8. ASSUME old = <<>>
      PROVE  /\ HeadIn(text) \o EndOfHead = H
             /\ ReplyLength(text) = Len(a.body)
  <2>1. h = H
    BY <1>1, <1>8, JoinedEmpty DEF h
  <2>2. HeadIn(text) = FrontOf(H)
    BY <1>6, <2>1 DEF FrontOf
  <2>3. QED
    BY <1>1, <2>2 DEF Replies, ReplyLength
<1>9. QED
  BY <1>6, <1>7, <1>8 DEF H, AnswerCut

LEMMA ReceiveHeadKeeps == Inv /\ ReceiveHead => Inv'
<1> SUFFICES ASSUME Inv, ReceiveHead PROVE Inv'
  OBVIOUS
<1>1. TypeOK /\ RequestInv /\ AnswerInv /\ TurnInv /\ ReplyInv
  BY DEF Inv
<1>2. /\ cstate = "head" /\ call' = call /\ tried' = tried /\ unsent' = unsent
      /\ fresh' = fresh /\ toServer' = toServer
      /\ state' = state /\ head' = head /\ body' = body /\ contentLen' = contentLen
      /\ response' = response /\ answer' = answer /\ unpacked' = unpacked
  BY DEF ReceiveHead, serverVars
<1>3. PICK n \in 1..Least(ClientBuf, Len(toClient)) :
         LET text == rspHead \o First(toClient, n)
         IN  /\ toClient' = Without(toClient, n)
             /\ IF HeadEnds(text) = {}
                THEN rspHead' = text /\ UNCHANGED <<cstate, rspBody, missing>>
                ELSE /\ rspHead' = HeadIn(text)
                     /\ rspBody' = BodyStart(text, rspBody)
                     /\ missing' = ReplyLength(text) - Least(ReplyLength(text), Len(RestOf(text)))
                     /\ cstate' = IF missing' > 0 THEN "body" ELSE "ok"
  BY DEF ReceiveHead
<1> DEFINE text == rspHead \o First(toClient, n)
<1>4. /\ toClient' = Without(toClient, n)
      /\ HeadEnds(text) = {} => /\ rspHead' = text /\ cstate' = cstate
                                /\ rspBody' = rspBody /\ missing' = missing
      /\ HeadEnds(text) # {} =>
            /\ rspHead' = HeadIn(text) /\ rspBody' = BodyStart(text, rspBody)
            /\ missing' = ReplyLength(text) - Least(ReplyLength(text), Len(RestOf(text)))
            /\ cstate' = IF missing' > 0 THEN "body" ELSE "ok"
  BY <1>3
<1>5. PICK old \in Texts : /\ HeadEnds(old) = {} /\ (fresh => old = <<>>)
                           /\ (rspHead \o toClient) \o response = old \o Reply(answer)
  BY <1>1, <1>2 DEF ReplyInv
<1>6. rspHead \in Texts /\ toClient \in Texts /\ response \in Texts
  BY <1>1 DEF TypeOK
<1>7. n \in 0..Len(toClient) /\ n >= 1 /\ toClient # <<>>
  <2>1. n \in 0..Len(toClient) /\ n >= 1
    BY <1>6, ConstAssumption, UpToLeast
  <2>2. QED
    BY <2>1, JoinedEmpty
<1>8. answer \in Answers /\ answer # NoAnswer
  BY <1>1, <1>7 DEF TypeOK, AnswerInv
<1> DEFINE more == toClient' \o response
<1>9. /\ text \in Texts /\ toClient' \in Texts /\ more \in Texts
      /\ (text \o toClient') \o response = old \o Reply(answer)
      /\ text \o more = old \o Reply(answer)
  <2> DEFINE f == First(toClient, n)
             w == Without(toClient, n)
  <2>1. /\ w \in Texts /\ rspHead \o f \in Texts /\ w \o response \in Texts
        /\ ((rspHead \o f) \o w) \o response = (rspHead \o toClient) \o response
        /\ (rspHead \o f) \o (w \o response) = (rspHead \o toClient) \o response
    <3>1. Moves(rspHead, toClient, response, n)
      BY <1>6, <1>7, Moved
    <3>2. QED
      BY <3>1 DEF Moves
  <2> HIDE DEF f, w
  <2>2. toClient' = w /\ text = rspHead \o f
    BY <1>4 DEF f, w
  <2> HIDE DEF text
  <2>3. QED
    BY <1>5, <2>1, <2>2
<1> HIDE DEF text, more
<1>10. CASE HeadEnds(text) = {}
  <2>1. /\ rspHead' = text /\ cstate' = cstate /\ rspBody' = rspBody /\ missing' = missing
    BY <1>4, <1>10
  <2>2. TypeOK'
    BY <1>1, <1>2, <1>9, <2>1 DEF TypeOK
  <2>3. RequestInv'
    BY <1>1, <1>2, <2>1, RequestStays DEF Connected
  <2>4. AnswerInv'
    BY <1>1, <1>2, <1>8, <2>1 DEF AnswerInv, Connected
  <2>5. TurnInv'
    BY <1>1, <1>2, <2>1 DEF TurnInv, Connected
  <2>6. ReplyInv'
    <3>1. \E o \in Texts : /\ HeadEnds(o) = {} /\ (fresh' => o = <<>>)
                           /\ (rspHead' \o toClient') \o response' = o \o Reply(answer')
      BY <1>2, <1>5, <1>9, <2>1
    <3>2. QED
      BY <1>2, <1>10, <2>1, <3>1 DEF ReplyInv
  <2>7. QED
    BY <2>2, <2>3, <2>4, <2>5, <2>6 DEF Inv
<1>11. CASE HeadEnds(text) # {}
  <2> DEFINE rest == RestOf(text)
             L == ReplyLength(text)
             k == Least(L, Len(rest))
  <2>1. /\ HeadIn(text) \in Texts /\ HeadEnds(HeadIn(text)) = {}
        /\ rest \in Texts /\ rest \o more = answer.body /\ L \in Nat
        /\ old = <<>> => HeadIn(text) \o EndOfHead = HeadOf(answer) /\ L = Len(answer.body)
    <3> DEFINE a == answer
    <3>1. a \in Answers /\ HeadEnds(old) = {} /\ text \in Texts /\ more \in Texts
          /\ text \o more = old \o Reply(a)
      BY <1>5, <1>8, <1>9
    <3> HIDE DEF a
    <3>2. AnswerCut(a, old, text, more)
      BY <1>11, <3>1, HeadCut
    <3>3. QED
      BY <3>2 DEF a, AnswerCut
  <2>2. /\ rspHead' = HeadIn(text) /\ rspBody' = First(rest, k) /\ missing' = L - k
        /\ cstate' = IF missing' > 0 THEN "body" ELSE "ok"
    BY <1>4, <1>11 DEF BodyStart
  <2> HIDE DEF rest, L
  <2>3. Len(rest) \in Nat /\ k \in 0..Len(rest) /\ k <= L
        /\ (k < L => k = Len(rest))
    <3>1. Len(rest) \in Nat
      BY <2>1, TextLength
    <3>2. QED
      BY <2>1, <3>1 DEF Least
  <2> HIDE DEF k
  <2>4. /\ First(rest, k) \in Texts /\ Len(First(rest, k)) = k
        /\ First(rest, k) \o Without(rest, k) = rest /\ Without(rest, k) \in Texts
    BY <2>1, <2>3, CutText DEF First, Without
  <2>5. missing' \in Nat /\ (missing' > 0 => k = Len(rest)) /\ (missing' = 0 => k = L)
    BY <2>1, <2>2, <2>3
  <2>6. k = Len(rest) => First(rest, k) = rest
    BY <2>1, SubSeqFull DEF First, Texts
  <2>7. TypeOK'
    BY <1>1, <1>2, <1>9, <2>1, <2>2, <2>4, <2>5 DEF TypeOK
  <2>8. RequestInv'
    BY <1>1, <1>2, RequestStays DEF Connected
  <2>9. AnswerInv'
    BY <1>1, <1>2, <1>8, <2>2 DEF AnswerInv, Connected
  <2>10. TurnInv'
    BY <1>1, <1>2, <2>2 DEF TurnInv, Connected
  <2>11. fresh' => rspHead' \o EndOfHead = HeadOf(answer') /\ L = Len(answer.body)
    BY <1>2, <1>5, <2>1, <2>2
  <2>12. CASE missing' > 0
    <3>1. rspBody' = rest /\ Len(rest) = k
      BY <2>2, <2>5, <2>6, <2>12
    <3>2. (rest \o toClient') \o response = rest \o (toClient' \o response)
      <4>1. toClient' \in Texts /\ response \in Texts /\ rest \in Texts
        BY <1>6, <1>9, <2>1
      <4>2. QED
        BY <4>1, Regroup
    <3>3. (rspBody' \o toClient') \o response' = answer'.body
      BY <1>2, <2>1, <3>1, <3>2 DEF more
    <3>4. fresh' => missing' = Len(answer'.body) - Len(rspBody')
      BY <1>2, <2>2, <2>11, <3>1
    <3>5. ReplyInv'
      BY <2>1, <2>2, <2>11, <2>12, <3>3, <3>4 DEF ReplyInv
    <3>6. QED
      BY <2>7, <2>8, <2>9, <2>10, <3>5 DEF Inv
  <2>13. CASE ~(missing' > 0)
    <3>1. k = L /\ cstate' = "ok"
      BY <2>2, <2>5, <2>13
    <3>2. IsPrefix(rspBody', answer'.body)
      <4>1. First(rest, k) \o (Without(rest, k) \o more) = answer.body
        <5>1. (First(rest, k) \o Without(rest, k)) \o more
                 = First(rest, k) \o (Without(rest, k) \o more)
          BY <1>9, <2>4, Regroup
        <5>2. QED
          BY <2>1, <2>4, <5>1
      <4>2. Without(rest, k) \o more \in Texts
        BY <1>9, <2>4, Joined
      <4>3. IsPrefix(First(rest, k), answer.body)
        BY <2>4, <4>1, <4>2, Begins
      <4>4. QED
        BY <1>2, <2>2, <4>3
    <3>3. fresh' => rspBody' = answer'.body
      <4> HAVE fresh'
      <4>1. k = Len(answer.body)
        BY <2>11, <3>1
      <4>2. Len(rest) \in Nat /\ Len(rest) >= Len(answer.body)
        BY <2>3, <4>1
      <4>3. rest = answer.body
        BY <1>9, <2>1, <4>2, NotShorter
      <4>4. First(rest, k) = rest
        BY <2>6, <4>1, <4>3
      <4>5. QED
        BY <1>2, <2>2, <4>3, <4>4
    <3>4. ReplyInv'
      BY <2>1, <2>2, <2>11, <3>1, <3>2, <3>3 DEF ReplyInv
    <3>5. QED
      BY <2>7, <2>8, <2>9, <2>10, <3>4 DEF Inv
  <2>14. QED
    BY <2>12, <2>13
<1>12. QED
  BY <1>10, <1>11

LEMMA ReceiveBodyKeeps == Inv /\ ReceiveBody => Inv'
<1> SUFFICES ASSUME Inv, ReceiveBody PROVE Inv'
  OBVIOUS
<1>1. TypeOK /\ RequestInv /\ AnswerInv /\ TurnInv /\ ReplyInv
  BY DEF Inv
<1>2. /\ cstate = "body" /\ cstate' = (IF missing' = 0 THEN "ok" ELSE "body")
      /\ call' = call /\ tried' = tried /\ unsent' = unsent /\ rspHead' = rspHead
      /\ fresh' = fresh /\ toServer' = toServer
      /\ state' = state /\ head' = head /\ body' = body /\ contentLen' = contentLen
      /\ response' = response /\ answer' = answer /\ unpacked' = unpacked
  BY DEF ReceiveBody, serverVars
<1>3. PICK n \in 1..Least(missing, Len(toClient)) :
         /\ toClient' = Without(toClient, n) /\ rspBody' = rspBody \o First(toClient, n)
         /\ missing' = missing - n
  BY DEF ReceiveBody
<1>4. rspBody \in Texts /\ toClient \in Texts /\ response \in Texts /\ missing \in Nat
  BY <1>1 DEF TypeOK
<1>5. n \in 0..Len(toClient) /\ n \in 1..missing
  BY <1>4, UpToLeast
<1>6. answer \in Answers /\ answer # NoAnswer
  BY <1>1, <1>2 DEF TypeOK, AnswerInv
<1>7. missing' \in Nat /\ (missing' # 0 => missing' > 0)
  BY <1>3, <1>4, <1>5
<1>8. (rspBody \o toClient) \o response = answer.body
  BY <1>1, <1>2 DEF ReplyInv
<1>9. Moves(rspBody, toClient, response, n)
  BY <1>4, <1>5, Moved
<1> DEFINE more == toClient' \o response
<1>10. /\ rspBody' \in Texts /\ toClient' \in Texts /\ more \in Texts
       /\ Len(rspBody') = Len(rspBody) + n
       /\ (rspBody' \o toClient') \o response = answer.body
       /\ rspBody' \o more = answer.body
  BY <1>3, <1>8, <1>9 DEF Moves
<1> HIDE DEF more
<1>11. TypeOK'
  BY <1>1, <1>2, <1>7, <1>10 DEF TypeOK
<1>12. RequestInv'
  BY <1>1, <1>2, RequestStays DEF Connected
<1>13. AnswerInv'
  BY <1>1, <1>2, <1>6 DEF AnswerInv, Connected
<1>14. TurnInv'
  BY <1>1, <1>2, <1>7 DEF TurnInv, Connected
<1>15. HeadEnds(rspHead') = {} /\ (fresh' => rspHead' \o EndOfHead = HeadOf(answer'))
  BY <1>1, <1>2 DEF ReplyInv
<1>16. fresh' => missing' = Len(answer'.body) - Len(rspBody')
  <2> HAVE fresh'
  <2>1. missing = Len(answer.body) - Len(rspBody)
    BY <1>1, <1>2 DEF ReplyInv
  <2>2. Len(rspBody) \in Nat /\ Len(answer.body) \in Nat
    BY <1>4, <1>6, TextLength, AnswerFacts
  <2>3. QED
    BY <1>2, <1>3, <1>5, <1>10, <2>1, <2>2
<1>17. IsPrefix(rspBody', answer'.body)
  BY <1>2, <1>10, Begins
<1>18. fresh' /\ missing' = 0 => rspBody' = answer'.body
  <2> SUFFICES ASSUME fresh', missing' = 0 PROVE rspBody' = answer'.body
    OBVIOUS
  <2>1. Len(rspBody') \in Nat /\ Len(answer.body) \in Nat
    BY <1>6, <1>10, TextLength, AnswerFacts
  <2>2. Len(rspBody') >= Len(answer.body)
    BY <1>2, <1>16, <2>1
  <2>3. QED
    BY <1>2, <1>10, <2>2, NotShorter
<1>19. ReplyInv'
  <2>1. CASE missing' = 0
    BY <1>2, <1>15, <1>17, <1>18, <2>1 DEF ReplyInv
  <2>2. CASE missing' # 0
    BY <1>2, <1>10, <1>15, <1>16, <2>2 DEF ReplyInv
  <2>3. QED
    BY <2>1, <2>2
<1>20. QED
  BY <1>11, <1>12, <1>13, <1>14, <1>19 DEF Inv

LEMMA TryFailsKeeps == Inv /\ TryFails => Inv'
<1> SUFFICES ASSUME Inv, TryFails PROVE Inv'
  OBVIOUS
<1>1. TypeOK /\ RequestInv /\ AnswerInv /\ TurnInv /\ ReplyInv
  BY DEF Inv
<1>2. /\ cstate = "connect" \/ Connected
      /\ tried' = tried + 1
      /\ cstate' = IF tried' < call.tries THEN "connect" ELSE "failed"
      /\ unsent' = <<>> /\ missing' = 0 /\ call' = call /\ rspHead' = rspHead
      /\ rspBody' = rspBody /\ fresh' = fresh /\ toServer' = toServer /\ toClient' = toClient
      /\ state' = state /\ head' = head /\ body' = body /\ contentLen' = contentLen
      /\ response' = response /\ answer' = answer /\ unpacked' = unpacked
  BY DEF TryFails, serverVars
<1>3. tried < call.tries /\ call.tries \in Nat /\ tried \in Nat
  BY <1>1, <1>2, CallsFit DEF TurnInv, TypeOK, CallFits
<1>4. cstate' \in {"connect", "failed"} /\ ~Connected'
      /\ tried' \in 0..call.tries /\ (cstate' = "connect" => tried' < call.tries)
  BY <1>2, <1>3 DEF Connected
<1>5. TypeOK'
  <2>1. <<>> \in Texts
    BY JoinedEmpty
  <2>2. QED
    BY <1>1, <1>2, <1>4, <2>1 DEF TypeOK
<1>6. RequestInv'
  BY <1>1, <1>2, <1>4, RequestStays
<1>7. AnswerInv'
  BY <1>1, <1>2, <1>4 DEF AnswerInv
<1>8. TurnInv'
  BY <1>2, <1>4 DEF TurnInv
<1>9. ReplyInv'
  BY <1>1, <1>2, <1>4 DEF ReplyInv
<1>10. QED
  BY <1>5, <1>6, <1>7, <1>8, <1>9 DEF Inv

\* What TakeBody makes of the beginning of the body, in both of its calls.
LEMMA BodyTaken ==
    ASSUME call \in Calls, call' = call, head' = FrontOf(call.head), toServer' \in Texts,
           NEW t \in Texts, NEW rest \in Texts, (t \o toServer') \o rest = call.body,
           Connected' => rest = unsent',
           TakeBody(t, LengthIn(FrontOf(call.head)))
    PROVE  /\ RequestInv' /\ body' \in Texts /\ contentLen' \in Nat
           /\ state' \in {"read_body", "compute"}
<1> DEFINE L == LengthIn(FrontOf(call.head))
<1>1. L \in Nat /\ L >= Len(call.body)
  BY LengthOfCall
<1>2. Len(t) \in Nat
  BY TextLength
<1>3. /\ contentLen' = L
      /\ Len(t) < L => state' = "read_body" /\ body' = t
      /\ ~(Len(t) < L) => state' = "compute" /\ body' = First(t, L)
  BY DEF TakeBody
<1> HIDE DEF L
<1>4. CASE Len(t) < L
  <2>1. state' = "read_body" /\ body' = t
    BY <1>3, <1>4
  <2>2. ToCome(body, call.body)'
    BY <2>1 DEF ToCome
  <2>3. RequestInv'
    BY <1>3, <1>4, <2>1, <2>2 DEF RequestInv, L
  <2>4. QED
    BY <1>1, <1>3, <2>1, <2>3
<1>5. CASE ~(Len(t) < L)
  <2>1. state' = "compute" /\ body' = First(t, L)
    BY <1>3, <1>5
  <2>2. toServer' \o rest \in Texts /\ t \o (toServer' \o rest) = call.body
    <3> DEFINE s == toServer'
    <3>1. s \in Texts /\ (t \o s) \o rest = call.body
      OBVIOUS
    <3> HIDE DEF s
    <3>2. s \o rest \in Texts
      BY <3>1, Joined
    <3>3. (t \o s) \o rest = t \o (s \o rest)
      BY <3>1, Regroup
    <3>4. QED
      BY <3>1, <3>2, <3>3 DEF s
  <2>3. Len(t) >= Len(call.body)
    <3>1. Len(call.body) \in Nat
      BY CallsFit, TextLength DEF CallFits
    <3>2. QED
      BY <1>1, <1>2, <1>5, <3>1
  <2>4. t = call.body
    BY <2>2, <2>3, NotShorter
  <2>5. L = Len(t)
    BY <1>1, <1>2, <1>5, <2>4
  <2>6. First(t, L) = t
    BY <2>5, SubSeqFull DEF First, Texts
  <2>7. RequestInv'
    BY <2>1, <2>4, <2>6 DEF RequestInv
  <2>8. QED
    BY <1>1, <1>3, <2>1, <2>6, <2>7
<1>6. QED
  BY <1>4, <1>5

LEMMA ReadHeadKeeps == Inv /\ ReadHead => Inv'
<1> SUFFICES ASSUME Inv, ReadHead PROVE Inv'
  OBVIOUS
<1>1. TypeOK /\ RequestInv /\ AnswerInv /\ TurnInv /\ ReplyInv
  BY DEF Inv
<1>2. /\ state = "read_head" /\ toClient' = toClient /\ response' = response
      /\ answer' = answer /\ unpacked' = unpacked
      /\ call' = call /\ cstate' = cstate /\ tried' = tried /\ unsent' = unsent
      /\ rspHead' = rspHead /\ rspBody' = rspBody /\ missing' = missing /\ fresh' = fresh
  BY DEF ReadHead, clientVars
<1>3. PICK n \in 1..Least(ServerBuf, Len(toServer)) :
         LET text == head \o First(toServer, n)
         IN  /\ toServer' = Without(toServer, n)
             /\ IF HeadEnds(text) = {}
                THEN head' = text /\ UNCHANGED <<state, body, contentLen>>
                ELSE head' = HeadIn(text) /\ TakeBody(WithHead(text), LengthIn(HeadIn(text)))
  BY DEF ReadHead
<1> DEFINE text == head \o First(toServer, n)
<1>4. /\ toServer' = Without(toServer, n)
      /\ HeadEnds(text) = {} => /\ head' = text /\ state' = state /\ body' = body
                                /\ contentLen' = contentLen
      /\ HeadEnds(text) # {} =>
            head' = HeadIn(text) /\ TakeBody(RestOf(text), LengthIn(HeadIn(text)))
  BY <1>3 DEF WithHead
<1>5. head \in Texts /\ toServer \in Texts /\ call \in Calls
  BY <1>1 DEF TypeOK
<1>6. n \in 0..Len(toServer)
  BY <1>5, ConstAssumption, UpToLeast
<1>7. PICK rest \in Texts : /\ (head \o toServer) \o rest = call.head \o call.body
                            /\ Connected => rest = unsent
  BY <1>1, <1>2 DEF RequestInv, ToCome
<1>8. Moves(head, toServer, rest, n)
  BY <1>5, <1>6, <1>7, Moved
<1> DEFINE s == toServer'
           more == s \o rest
<1>9. /\ text \in Texts /\ s \in Texts /\ more \in Texts
      /\ (text \o s) \o rest = call.head \o call.body
      /\ text \o more = call.head \o call.body
  BY <1>4, <1>7, <1>8 DEF Moves
<1> HIDE DEF text, more, s
<1>10. Connected' => rest = unsent'
  BY <1>2, <1>7 DEF Connected
<1>11. TypeOK' /\ RequestInv' /\ state' \in {"read_head", "read_body", "compute"}
  <2>1. CASE HeadEnds(text) = {}
    <3>1. head' = text /\ state' = state /\ body' = body /\ contentLen' = contentLen
      BY <1>4, <2>1
    <3>2. (head' \o toServer') \o rest = call.head \o call.body
      BY <1>9, <3>1 DEF s
    <3>3. ToCome(head, call.head \o call.body)'
      BY <1>2, <1>7, <1>10, <3>2 DEF ToCome
    <3>4. RequestInv'
      BY <1>2, <2>1, <3>1, <3>3 DEF RequestInv
    <3>5. TypeOK'
      BY <1>1, <1>2, <1>9, <3>1 DEF TypeOK, s
    <3>6. QED
      BY <1>2, <3>1, <3>4, <3>5
  <2>2. CASE HeadEnds(text) # {}
    <3> DEFINE h == call.head
               b == call.body
               t == RestOf(text)
    <3>1. /\ h \in Texts /\ b \in Texts /\ Len(h) >= 4 /\ HeadEnds(h) = {Len(h) - 3}
      BY <1>5, CallsFit DEF CallFits, Requests, IsHead
    <3>2. text \o more = h \o b
      BY <1>9
    <3> HIDE DEF h, b
    <3>3. CutAt(text, more, h, b)
      BY <1>9, <2>2, <3>1, <3>2, CutAtEnd
    <3>4. HeadIn(text) = FrontOf(call.head) /\ t \in Texts /\ t \o more = call.body
      BY <3>3 DEF CutAt, FrontOf, h, b
    <3>5. head' = FrontOf(call.head) /\ TakeBody(t, LengthIn(FrontOf(call.head)))
      BY <1>4, <2>2, <3>4
    <3> HIDE DEF t
    <3>6. (t \o s) \o rest = call.body
      <4>1. (t \o s) \o rest = t \o (s \o rest)
        BY <1>7, <1>9, <3>4, Regroup
      <4>2. QED
        BY <3>4, <4>1 DEF more
    <3>7. /\ RequestInv' /\ body' \in Texts /\ contentLen' \in Nat
          /\ state' \in {"read_body", "compute"}
      <4>1. toServer' \in Texts /\ (t \o toServer') \o rest = call.body
        BY <1>9, <3>6 DEF s
      <4>2. QED
        BY <1>2, <1>5, <1>7, <1>10, <3>4, <3>5, <4>1, BodyTaken
    <3>8. head' \in Texts
      <4>1. HeadIn(text) \in Texts
        BY <3>3 DEF CutAt
      <4>2. QED
        BY <3>4, <3>5, <4>1
    <3>9. TypeOK'
      BY <1>1, <1>2, <1>9, <3>7, <3>8 DEF TypeOK, s
    <3>10. QED
      BY <3>7, <3>9
  <2>3. QED
    BY <2>1, <2>2
<1>12. AnswerInv'
  BY <1>1, <1>2, <1>11 DEF AnswerInv, Connected
<1>13. TurnInv'
  BY <1>1, <1>2 DEF TurnInv, Connected
<1>14. ReplyInv'
  BY <1>1, <1>2 DEF ReplyInv
<1>15. QED
  BY <1>11, <1>12, <1>13, <1>14 DEF Inv

LEMMA ReadBodyKeeps == Inv /\ ReadBody => Inv'
<1> SUFFICES ASSUME Inv, ReadBody PROVE Inv'
  OBVIOUS
<1>1. TypeOK /\ RequestInv /\ AnswerInv /\ TurnInv /\ ReplyInv
  BY DEF Inv
<1>2. /\ state = "read_body" /\ toClient' = toClient /\ response' = response
      /\ head' = head /\ answer' = answer /\ unpacked' = unpacked
      /\ call' = call /\ cstate' = cstate /\ tried' = tried /\ unsent' = unsent
      /\ rspHead' = rspHead /\ rspBody' = rspBody /\ missing' = missing /\ fresh' = fresh
  BY DEF ReadBody, clientVars
<1>3. PICK n \in 1..Least(contentLen - Len(body), Len(toServer)) :
         toServer' = Without(toServer, n) /\ TakeBody(body \o First(toServer, n), contentLen)
  BY DEF ReadBody
<1>4. body \in Texts /\ toServer \in Texts /\ call \in Calls /\ contentLen \in Nat
  BY <1>1 DEF TypeOK
<1>5. /\ head = FrontOf(call.head) /\ contentLen = LengthIn(FrontOf(call.head))
      /\ Len(body) < contentLen /\ ToCome(body, call.body)
  BY <1>1, <1>2 DEF RequestInv
<1>6. n \in 0..Len(toServer)
  <2> DEFINE b == contentLen - Len(body)
  <2>1. b \in Nat
    BY <1>4, <1>5, TextLength
  <2>2. n \in 1..Least(b, Len(toServer))
    BY <1>3
  <2> HIDE DEF b
  <2>3. QED
    BY <1>4, <2>1, <2>2, UpToLeast
<1>7. PICK rest \in Texts : /\ (body \o toServer) \o rest = call.body
                            /\ Connected => rest = unsent
  BY <1>5 DEF ToCome
<1>8. Moves(body, toServer, rest, n)
  BY <1>4, <1>6, <1>7, Moved
<1> DEFINE t == body \o First(toServer, n)
<1>9. t \in Texts /\ toServer' \in Texts /\ (t \o toServer') \o rest = call.body
  BY <1>3, <1>7, <1>8 DEF Moves
<1>10. TakeBody(t, LengthIn(FrontOf(call.head)))
  BY <1>3, <1>5
<1> HIDE DEF t
<1>11. Connected' => rest = unsent'
  BY <1>2, <1>7 DEF Connected
<1>12. /\ RequestInv' /\ body' \in Texts /\ contentLen' \in Nat
       /\ state' \in {"read_body", "compute"}
  BY <1>2, <1>4, <1>5, <1>7, <1>9, <1>10, <1>11, BodyTaken
<1>13. TypeOK'
  BY <1>1, <1>2, <1>9, <1>12 DEF TypeOK
<1>14. AnswerInv'
  BY <1>1, <1>2, <1>12 DEF AnswerInv, Connected
<1>15. TurnInv'
  BY <1>1, <1>2 DEF TurnInv, Connected
<1>16. ReplyInv'
  BY <1>1, <1>2 DEF ReplyInv
<1>17. QED
  BY <1>12, <1>13, <1>14, <1>15, <1>16 DEF Inv

\* What process_report reads in the body is what the client packed.
LEMMA ReportRead ==
    ASSUME NEW c \in Calls, c.report.ok
    PROVE  UriIn(FrontOf(c.head)) = ReportUri /\ UnpackReport(AsBytes(c.body)) = c.report
<1> DEFINE r == c.report.report
           p == PackReport(r)
<1>1. /\ c.uri = ReportUri /\ c.body = AsCells(p) /\ c.report = [ok |-> TRUE, report |-> r]
      /\ r \in EncodedReports
  BY CallsFit DEF Carries
<1>2. UriIn(FrontOf(c.head)) = c.uri
  BY CallsFit DEF CallFits, Requests
<1> HIDE DEF r
<1>3. p \in Bytes /\ UnpackReport(p) = [ok |-> TRUE, report |-> r]
  BY <1>1, UnpackedAsPacked
<1> HIDE DEF p
<1>4. p \in Seq(Nat)
  <2>1. 0..255 \subseteq Nat
    OBVIOUS
  <2>2. QED
    BY <1>3, <2>1, SeqMonotonic DEF Bytes
<1>5. AsBytes(AsCells(p)) = p
  BY <1>4, AsCellsType
<1>6. QED
  BY <1>1, <1>2, <1>3, <1>5

LEMMA ProcessKeeps == Inv /\ Process => Inv'
<1> SUFFICES ASSUME Inv, Process PROVE Inv'
  OBVIOUS
<1>1. TypeOK /\ RequestInv /\ AnswerInv /\ TurnInv /\ ReplyInv
  BY DEF Inv
<1>2. /\ state = "compute" /\ state' = "write" /\ toServer' = toServer
      /\ toClient' = toClient /\ head' = head /\ body' = body /\ contentLen' = contentLen
      /\ call' = call /\ cstate' = cstate /\ tried' = tried /\ unsent' = unsent
      /\ rspHead' = rspHead /\ rspBody' = rspBody /\ missing' = missing /\ fresh' = fresh
      /\ unpacked' = IF UriIn(head) = ReportUri THEN UnpackReport(AsBytes(body)) ELSE NoReport
  BY DEF Process, clientVars
<1>3. PICK a \in Answers :
         answer' = a /\ response' = ReplyHead(a.code, a.type, Len(a.body)) \o a.body
  BY DEF Process
<1>4. a # NoAnswer /\ Reply(a) \in Texts /\ response' = Reply(a)
  <2>1. a # NoAnswer /\ Reply(a) \in Texts
    BY AnswerFacts, ReplyType
  <2>2. QED
    BY <1>3, <2>1 DEF Reply, HeadOf
<1>5. answer = NoAnswer /\ toClient = <<>> /\ response = <<>>
  BY <1>1, <1>2 DEF AnswerInv
<1>6. call \in Calls /\ body \in Texts /\ rspHead \in Texts
  BY <1>1 DEF TypeOK
<1>7. head = FrontOf(call.head) /\ body = call.body
  BY <1>1, <1>2 DEF RequestInv
<1>8. unpacked'.report.port \in Nat
  <2>1. UnpackReport(AsBytes(body)).report.port \in Nat
    BY <1>6, AsBytesType, UnpackedPort
  <2>2. NoReport.report.port \in Nat
    BY DEF NoReport
  <2>3. QED
    BY <1>2, <2>1, <2>2
<1>9. TypeOK'
  BY <1>1, <1>2, <1>3, <1>4, <1>8 DEF TypeOK
<1>10. RequestInv'
  BY <1>2, <1>7 DEF RequestInv
<1>11. call.report.ok => unpacked' = call.report
  BY <1>2, <1>6, <1>7, ReportRead
<1>12. AnswerInv'
  BY <1>1, <1>2, <1>3, <1>4, <1>11 DEF AnswerInv, Connected
<1>13. TurnInv'
  BY <1>1, <1>2 DEF TurnInv, Connected
<1>14. cstate \notin {"body", "ok"}
  BY <1>1, <1>5 DEF AnswerInv
<1>15. ASSUME cstate \in {"send", "head"}
       PROVE  \E old \in Texts :
                 /\ HeadEnds(old) = {} /\ (fresh' => old = <<>>)
                 /\ (rspHead' \o toClient') \o response' = old \o Reply(answer')
  <2>1. PICK old \in Texts : /\ HeadEnds(old) = {} /\ (fresh => old = <<>>)
                             /\ (rspHead \o toClient) \o response = old \o Reply(answer)
    BY <1>1, <1>15 DEF ReplyInv
  <2>2. rspHead = old
    <3>1. Reply(answer) = <<>>
      BY <1>5 DEF Reply
    <3>2. old \o <<>> = old /\ rspHead \o <<>> = rspHead
      BY <1>6, JoinedEmpty
    <3>3. QED
      BY <1>5, <2>1, <3>1, <3>2
  <2>3. rspHead \o toClient = rspHead
    BY <1>5, <1>6, JoinedEmpty
  <2>4. QED
    BY <1>2, <1>3, <1>4, <2>1, <2>2, <2>3
<1>16. ReplyInv'
  BY <1>1, <1>2, <1>14, <1>15 DEF ReplyInv
<1>17. QED
  BY <1>9, <1>10, <1>12, <1>13, <1>16 DEF Inv

LEMMA WriteKeeps == Inv /\ Write => Inv'
<1> SUFFICES ASSUME Inv, Write PROVE Inv'
  OBVIOUS
<1>1. TypeOK /\ RequestInv /\ AnswerInv /\ TurnInv /\ ReplyInv
  BY DEF Inv
<1>2. /\ state = "write" /\ state' = (IF response' = <<>> THEN "closed" ELSE "write")
      /\ toServer' = toServer /\ head' = head /\ body' = body /\ contentLen' = contentLen
      /\ answer' = answer /\ unpacked' = unpacked
      /\ call' = call /\ cstate' = cstate /\ tried' = tried /\ unsent' = unsent
      /\ rspHead' = rspHead /\ rspBody' = rspBody /\ missing' = missing /\ fresh' = fresh
  BY DEF Write, clientVars
<1>3. PICK n \in 1..Len(response) :
         toClient' = toClient \o First(response, n) /\ response' = Without(response, n)
  BY DEF Write
<1>4. toClient \in Texts /\ response \in Texts
  BY <1>1 DEF TypeOK
<1>5. n \in 0..Len(response)
  BY <1>4, TextLength
<1>6. answer # NoAnswer
  BY <1>1, <1>2 DEF AnswerInv
<1>7. \A x \in Texts : /\ toClient' \in Texts /\ response' \in Texts
                       /\ (x \o toClient') \o response' = (x \o toClient) \o response
  <2> TAKE x \in Texts
  <2>1. MovesBehind(x, toClient, response, n)
    BY <1>4, <1>5, MovedFrom
  <2>2. QED
    BY <1>3, <2>1 DEF MovesBehind
<1>8. toClient' \in Texts /\ response' \in Texts
  BY <1>4, <1>7
<1>9. TypeOK'
  BY <1>1, <1>2, <1>8 DEF TypeOK
<1>10. RequestInv'
  BY <1>1, <1>2 DEF RequestInv
<1>11. AnswerInv'
  BY <1>1, <1>2, <1>6 DEF AnswerInv, Connected
<1>12. TurnInv'
  BY <1>1, <1>2 DEF TurnInv, Connected
<1>13. ReplyInv'
  <2>1. /\ (rspHead \o toClient') \o response' = (rspHead \o toClient) \o response
        /\ (rspBody \o toClient') \o response' = (rspBody \o toClient) \o response
    BY <1>1, <1>7 DEF TypeOK
  <2>2. QED
    BY <1>1, <1>2, <2>1 DEF ReplyInv
<1>14. QED
  BY <1>9, <1>10, <1>11, <1>12, <1>13 DEF Inv

LEMMA DropKeeps == Inv /\ Drop => Inv'
<1> SUFFICES ASSUME Inv, Drop PROVE Inv'
  OBVIOUS
<1>1. TypeOK /\ RequestInv /\ AnswerInv /\ TurnInv /\ ReplyInv
  BY DEF Inv
<1>2. /\ state' = "dropped" /\ toServer' = toServer /\ toClient' = toClient
      /\ head' = head /\ body' = body /\ contentLen' = contentLen /\ response' = response
      /\ answer' = answer /\ unpacked' = unpacked
      /\ call' = call /\ cstate' = cstate /\ tried' = tried /\ unsent' = unsent
      /\ rspHead' = rspHead /\ rspBody' = rspBody /\ missing' = missing /\ fresh' = fresh
  BY DEF Drop, clientVars
<1>3. TypeOK'
  BY <1>1, <1>2 DEF TypeOK
<1>4. RequestInv'
  BY <1>2 DEF RequestInv
<1>5. AnswerInv'
  BY <1>1, <1>2 DEF AnswerInv
<1>6. TurnInv'
  BY <1>1, <1>2 DEF TurnInv, Connected
<1>7. ReplyInv'
  BY <1>1, <1>2 DEF ReplyInv
<1>8. QED
  BY <1>3, <1>4, <1>5, <1>6, <1>7 DEF Inv

LEMMA StutterKeeps == Inv /\ UNCHANGED vars => Inv'
<1> SUFFICES ASSUME Inv, UNCHANGED vars PROVE Inv'
  OBVIOUS
<1>1. TypeOK /\ RequestInv /\ AnswerInv /\ TurnInv /\ ReplyInv
  BY DEF Inv
<1>2. /\ call' = call /\ cstate' = cstate /\ tried' = tried /\ unsent' = unsent
      /\ rspHead' = rspHead /\ rspBody' = rspBody /\ missing' = missing /\ fresh' = fresh
      /\ toServer' = toServer /\ toClient' = toClient /\ state' = state /\ head' = head
      /\ body' = body /\ contentLen' = contentLen /\ response' = response
      /\ answer' = answer /\ unpacked' = unpacked
  BY DEF vars, clientVars, serverVars
<1>3. TypeOK'
  BY <1>1, <1>2 DEF TypeOK
<1>4. RequestInv'
  BY <1>1, <1>2, RequestStays DEF Connected
<1>5. AnswerInv'
  BY <1>1, <1>2 DEF AnswerInv, Connected
<1>6. TurnInv'
  BY <1>1, <1>2 DEF TurnInv, Connected
<1>7. ReplyInv'
  BY <1>1, <1>2 DEF ReplyInv
<1>8. QED
  BY <1>3, <1>4, <1>5, <1>6, <1>7 DEF Inv

----------------------------------------------------------------------------
(* The theorems.                                                           *)

\* Each of the steps of the two ends, whatever it reads or writes, keeps every text
\* between its two ends.
THEOREM InvHolds == Spec => []Inv
<1>1. Inv /\ [Next]_vars => Inv'
  <2> SUFFICES ASSUME Inv, [Next]_vars PROVE Inv'
    OBVIOUS
  <2>1. CASE Connect \/ Send \/ ReceiveHead \/ ReceiveBody \/ TryFails
    BY <2>1, ConnectKeeps, SendKeeps, ReceiveHeadKeeps, ReceiveBodyKeeps, TryFailsKeeps
  <2>2. CASE ReadHead \/ ReadBody \/ Process \/ Write \/ Drop
    BY <2>2, ReadHeadKeeps, ReadBodyKeeps, ProcessKeeps, WriteKeeps, DropKeeps
  <2>3. CASE UNCHANGED vars
    BY <2>3, StutterKeeps
  <2>4. QED
    BY <2>1, <2>2, <2>3 DEF Next
<1>2. QED
  BY <1>1, InitInv, PTL DEF Spec

\* The strings of both ends are texts, the counters are natural numbers and the
\* states are those of the code.
THEOREM TypeCorrect == Spec => []TypeOK
<1>1. Inv => TypeOK
  BY DEF Inv
<1>2. QED
  BY <1>1, InvHolds, PTL

\* The handler that http_event calls gets the method, the uri and the body that the
\* client's http_talk wrote, however the reads of on_read_head and on_read_body cut
\* them.
THEOREM RequestsWhole == Spec => []RequestWhole
<1>1. Inv => RequestWhole
  <2> SUFFICES ASSUME Inv, state \in {"compute", "write"}
               PROVE  /\ MethodIn(head) = <<call.head[1]>> /\ UriIn(head) = call.uri
                      /\ body = call.body
    BY DEF RequestWhole
  <2>1. call \in Calls /\ head = FrontOf(call.head) /\ body = call.body
    BY DEF Inv, TypeOK, RequestInv
  <2>2. QED
    BY <2>1, CallsFit DEF CallFits, Requests
<1>2. QED
  BY <1>1, InvHolds, PTL

\* A first try of http_talk that returns 0 has brought the head and the body that the
\* handler answered with.
THEOREM RepliesWhole == Spec => []ReplyWhole
<1>1. Inv => ReplyWhole
  BY DEF Inv, ReplyInv, ReplyWhole, HeadOf
<1>2. QED
  BY <1>1, InvHolds, PTL

\* A later try of http_talk that returns 0, with the texts of the try before it still in
\* the strings of the caller, has brought a beginning of the body of its own answer.
THEOREM RepliesBegin == Spec => []ReplyBegins
<1>1. Inv => ReplyBegins
  BY DEF Inv, ReplyInv, ReplyBegins
<1>2. QED
  BY <1>1, InvHolds, PTL

\* With nothing under way, http_talk does not wait for an http_event that waits for it,
\* nor, in a first try, for more than on_write has written: with the whole of the
\* request the server has its head, and with the head the length of its body.
THEOREM NeverWaiting == Spec => []NeverBothWait
<1>1. Inv => NeverBothWait
  <2> SUFFICES ASSUME Inv, cstate \in {"head", "body"}, toServer = <<>>, toClient = <<>>
               PROVE  /\ state \in {"read_head", "read_body"} => Misread
                      /\ state = "closed" => ~fresh
    BY DEF NeverBothWait
  <2>1. TypeOK /\ RequestInv /\ AnswerInv /\ TurnInv /\ ReplyInv /\ Connected
    BY DEF Inv, Connected
  <2>2. /\ call \in Calls /\ {unsent, rspHead, rspBody, head, body} \subseteq Texts
        /\ answer \in Answers \cup {NoAnswer} /\ fresh \in BOOLEAN
    BY <2>1 DEF TypeOK
  <2>3. \A x \in Texts : x \o <<>> = x /\ <<>> \o x = x
    BY JoinedEmpty
  <2>4. \A x \in Texts : \A whole : ToCome(x, whole) => x = whole
    <3> TAKE x \in Texts
    <3> TAKE whole
    <3> HAVE ToCome(x, whole)
    <3>1. PICK rest \in Texts : (x \o toServer) \o rest = whole /\ rest = unsent
      BY <2>1 DEF ToCome
    <3>2. rest = <<>>
      BY <2>1, <3>1 DEF TurnInv
    <3>3. QED
      BY <2>3, <3>1, <3>2
  <2>5. CallFits(call)
    BY <2>2, CallsFit
  <2>6. state # "read_head"
    <3> SUFFICES ASSUME state = "read_head" PROVE FALSE
      OBVIOUS
    <3>1. HeadEnds(head) = {} /\ head = call.head \o call.body
      BY <2>1, <2>2, <2>4 DEF RequestInv
    <3>2. IsHead(call.head) /\ call.body \in Texts
      BY <2>5 DEF CallFits, Requests
    <3>3. QED
      BY <3>1, <3>2, EndStays
  <2>7. state = "read_body" => Misread
    <3> SUFFICES ASSUME state = "read_body", ~Misread PROVE FALSE
      OBVIOUS
    <3>1. /\ contentLen = LengthIn(FrontOf(call.head)) /\ Len(body) < contentLen
          /\ body = call.body
      BY <2>1, <2>2, <2>4 DEF RequestInv
    <3>2. LengthIn(FrontOf(call.head)) = Len(call.body)
      BY <2>2, LengthOfCall DEF Misread
    <3>3. Len(body) \in Nat
      BY <2>2, TextLength
    <3>4. QED
      BY <3>1, <3>2, <3>3
  <2>8. state = "closed" => ~fresh
    <3> SUFFICES ASSUME state = "closed", fresh PROVE FALSE
      BY <2>2
    <3>1. response = <<>> /\ answer # NoAnswer
      BY <2>1 DEF AnswerInv
    <3>2. answer \in Answers
      BY <2>2, <3>1
    <3>3. IsHead(HeadOf(answer)) /\ HeadOf(answer) \in Texts /\ answer.body \in Texts
      BY <3>2, AnswerFacts
    <3>4. CASE cstate = "head"
      <4>1. (rspHead \o <<>>) \o <<>> = <<>> \o Reply(answer)
        BY <2>1, <3>1, <3>4 DEF ReplyInv
      <4>2. Reply(answer) \in Texts /\ Reply(answer) = HeadOf(answer) \o answer.body
        BY <2>2, <3>1, ReplyType DEF Reply
      <4>3. rspHead = HeadOf(answer) \o answer.body
        BY <2>2, <2>3, <4>1, <4>2
      <4>4. HeadEnds(rspHead) = {}
        BY <2>1 DEF ReplyInv
      <4>5. QED
        BY <3>3, <4>3, <4>4, EndStays
    <3>5. CASE cstate = "body"
      <4>1. (rspBody \o <<>>) \o <<>> = answer.body /\ missing = Len(answer.body) - Len(rspBody)
        BY <2>1, <3>1, <3>5 DEF ReplyInv
      <4>2. rspBody = answer.body /\ Len(rspBody) \in Nat
        BY <2>2, <2>3, <4>1, TextLength
      <4>3. missing > 0
        BY <2>1, <3>5 DEF TurnInv
      <4>4. QED
        BY <4>1, <4>2, <4>3
    <3>6. QED
      BY <3>4, <3>5
  <2>9. QED
    BY <2>6, <2>7, <2>8
<1>2. QED
  BY <1>1, InvHolds, PTL

\* A report that reaches process_report is read as the worker packed it, whatever its
\* words and their number.
THEOREM ReportsWhole == Spec => []ReportWhole
<1>1. Inv => ReportWhole
  BY DEF Inv, AnswerInv, ReportWhole
<1>2. QED
  BY <1>1, InvHolds, PTL
=============================================================================
