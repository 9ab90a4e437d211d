-------------------------------- MODULE Wire --------------------------------
(***************************************************************************)
(* One call between two programs, byte by byte: the client's http_talk     *)
(* (rpc_http.cpp, rpc_net.cpp) against the server's http_event.  Neither   *)
(* side knows how much of a text a read brings; each finds the end of the  *)
(* head and the length of the body in what it has so far.  A call for a    *)
(* group of a backup is tried twice, with the texts of the first try still *)
(* in its strings.                                                         *)
(*                                                                         *)
(* Kept: every read and write with whatever number of bytes it takes, the  *)
(* strings of both sides, every way a wait ends (bytes, the other end      *)
(* closes, a timeout, an error).  Abstracted: the words of a head are      *)
(* cells (Http), the handler of a request answers with any of Answers, the *)
(* threads of the server are in EventLoop.  The server's end of a try the  *)
(* client gave up is followed until the next try begins.                   *)
(***************************************************************************)
EXTENDS Proto, Http

CONSTANTS Reports,     \* reports a worker sends
          Contents,    \* bodies of a put
          Uris,        \* of requests without a body: poll, query, retrieve
          GroupUri,    \* of the request for a group of a backup
          Answers,     \* what handlers answer: code, type, body
          ClientBuf,   \* how much http_recv reads at once: 32 bytes
          ServerBuf    \* how much on_read_head reads at once: 128 bytes

NoAnswer == [code |-> "none", type |-> "none", body |-> <<>>]

ASSUME ConstAssumption ==
    /\ Reports \subseteq EncodedReports
    /\ Contents \subseteq Texts
    /\ \A uri \in Uris \cup {GroupUri} : IsUri(uri)
    /\ ContentLength \notin ToSet(GroupUri)
    /\ Answers \subseteq [code : Names, type : Names, body : Texts]
    /\ NoAnswer \notin Answers
    /\ ClientBuf \in Nat \ {0} /\ ServerBuf \in Nat \ {0}

VARIABLES call,       \* the request
          cstate,     \* where the client is in http_talk
          tried,      \* tries that failed
          unsent,     \* what send_ex has still to send
          rspHead, rspBody, \* the strings of the caller
          missing,    \* bytes recv_ex has still to receive
          fresh,      \* history: rsp_head was empty when the try began
          toServer, toClient, \* bytes under way
          state,      \* m_state, "dropped" or "closed"
          head, body, \* m_head, m_body
          contentLen, \* m_content_len
          response,   \* m_resp_data
          answer,     \* history: the answer of the handler
          unpacked    \* what process_report read in the body

clientVars == <<call, cstate, tried, unsent, rspHead, rspBody, missing, fresh>>
serverVars == <<state, head, body, contentLen, response, answer, unpacked>>
vars == <<clientVars, toServer, toClient, serverVars>>

AsCells(bytes) == [i \in 1..Len(bytes) |-> <<"byte", bytes[i]>>]
AsBytes(cells) == [i \in 1..Len(cells) |-> cells[i][2]]
ReportUri == <<Token("/report")>>
NoReport ==
    [ok |-> FALSE, report |-> [id |-> <<>>, ip |-> <<>>, port |-> 0, words |-> <<>>]]

Post(uri, content, tries) ==
    [uri |-> uri, head |-> PostHead(uri, Len(content)), body |-> content,
     tries |-> tries, report |-> NoReport]

ReportCall(report) ==
    [Post(ReportUri, AsCells(PackReport(report)), 1) EXCEPT
        !.report = [ok |-> TRUE, report |-> report]]

Calls ==
    {ReportCall(report) : report \in Reports}
    \cup {Post(<<Token("/put")>>, content, 1) : content \in Contents}
    \cup {[Post(uri, <<>>, 1) EXCEPT !.head = GetHead(uri)] : uri \in Uris}
    \cup {Post(GroupUri, <<>>, 2)}

\* What a new http_event holds (create_event).
NewEvent == [state |-> "read_head", head |-> <<>>, body |-> <<>>, contentLen |-> 0,
             response |-> <<>>, answer |-> NoAnswer, unpacked |-> NoReport]

ServerIs(evt) ==
    /\ state' = evt.state /\ head' = evt.head /\ body' = evt.body
    /\ contentLen' = evt.contentLen /\ response' = evt.response
    /\ answer' = evt.answer /\ unpacked' = evt.unpacked

Init ==
    /\ call \in Calls
    /\ cstate = "connect" /\ tried = 0
    /\ unsent = <<>> /\ rspHead = <<>> /\ rspBody = <<>>
    /\ missing = 0 /\ fresh = TRUE
    /\ toServer = <<>> /\ toClient = <<>>
    /\ state = "closed" /\ head = <<>> /\ body = <<>> /\ contentLen = 0
    /\ response = <<>> /\ answer = NoAnswer /\ unpacked = NoReport

\* n cells of a text leave it at its front.
First(text, n) == SubSeq(text, 1, n)
Without(text, n) == SubSeq(text, n + 1, Len(text))
Least(m, n) == IF m < n THEN m ELSE n

----------------------------------------------------------------------------
(* The client.                                                             *)

Connected == cstate \in {"send", "head", "body"}

\* connect_ex; the server accepts with a new event.
Connect ==
    /\ cstate = "connect"
    /\ cstate' = "send" /\ unsent' = call.head \o call.body
    /\ fresh' = (rspHead = <<>>) /\ missing' = 0
    /\ toServer' = <<>> /\ toClient' = <<>>
    /\ ServerIs(NewEvent)
    /\ UNCHANGED <<call, tried, rspHead, rspBody>>

\* One turn of send_ex.
Send ==
    /\ cstate = "send" /\ state \notin {"closed", "dropped"}
    /\ \E n \in 1..Len(unsent) :
          /\ toServer' = toServer \o First(unsent, n)
          /\ unsent' = Without(unsent, n)
    /\ cstate' = IF unsent' = <<>> THEN "head" ELSE "send"
    /\ UNCHANGED <<call, tried, rspHead, rspBody, missing, fresh, toClient, serverVars>>

\* How long the body of a reply is: its length is in the head, or it is what came.
ReplyLength(text) ==
    IF HasLength(HeadIn(text)) THEN LengthIn(HeadIn(text)) ELSE Len(RestOf(text))

\* Mutant: what comes with the head is no part of the body.
BodyStartEmpty(text, old) == <<>>

\* Mutant: the body is appended to what the caller's string holds.
BodyStartAppended(text, old) ==
    old \o First(RestOf(text), Least(ReplyLength(text), Len(RestOf(text))))

\* The body is what is behind the head, resized to the length the head names;
\* rsp_body's old value is gone.  (The part resize() fills up is not kept.)
BodyStart(text, old) ==
    First(RestOf(text), Least(ReplyLength(text), Len(RestOf(text))))

\* One turn of http_recv's loop: what is read goes behind what rsp_head holds.
ReceiveHead ==
    /\ cstate = "head"
    /\ \E n \in 1..Least(ClientBuf, Len(toClient)) :
          LET text == rspHead \o First(toClient, n)
          IN  /\ toClient' = Without(toClient, n)
              /\ IF HeadEnds(text) = {}
                 THEN rspHead' = text /\ UNCHANGED <<cstate, rspBody, missing>>
                 ELSE /\ rspHead' = HeadIn(text)
                      /\ rspBody' = BodyStart(text, rspBody)
                      /\ missing' = ReplyLength(text) - Least(ReplyLength(text), Len(RestOf(text)))
                      /\ cstate' = IF missing' > 0 THEN "body" ELSE "ok"
    /\ UNCHANGED <<call, tried, unsent, fresh, toServer, serverVars>>

\* Mutant: a read for the body takes whatever is there.
ReceiveBodyAll ==
    /\ cstate = "body"
    /\ \E n \in 1..Least(ClientBuf, Len(toClient)) :
          /\ toClient' = Without(toClient, n)
          /\ rspBody' = rspBody \o First(toClient, n)
          /\ missing' = missing - n
    /\ cstate' = IF missing' <= 0 THEN "ok" ELSE "body"
    /\ UNCHANGED <<call, tried, unsent, rspHead, fresh, toServer, serverVars>>

\* One turn of recv_ex for the rest of the body.
ReceiveBody ==
    /\ cstate = "body"
    /\ \E n \in 1..Least(missing, Len(toClient)) :
          /\ toClient' = Without(toClient, n)
          /\ rspBody' = rspBody \o First(toClient, n)
          /\ missing' = missing - n
    /\ cstate' = IF missing' = 0 THEN "ok" ELSE "body"
    /\ UNCHANGED <<call, tried, unsent, rspHead, fresh, toServer, serverVars>>

\* The connection is refused or breaks, the other end closes, or 500 ms pass:
\* http_talk closes the socket and returns -1.  The caller's strings keep what
\* they hold; the loop around the call of a backup tries again.
TryFails ==
    /\ cstate = "connect" \/ Connected
    /\ tried' = tried + 1
    /\ cstate' = IF tried' < call.tries THEN "connect" ELSE "failed"
    /\ unsent' = <<>> /\ missing' = 0
    /\ UNCHANGED <<call, rspHead, rspBody, fresh, toServer, toClient, serverVars>>

----------------------------------------------------------------------------
(* The server.                                                             *)

\* The body is there: it goes to a computing thread, cut to its length.
TakeBody(text, len) ==
    /\ contentLen' = len
    /\ IF Len(text) < len THEN state' = "read_body" /\ body' = text
                          ELSE state' = "compute" /\ body' = First(text, len)

\* Mutant: the body is only what later reads bring.
WithHeadNothing(text) == <<>>

\* What follows the head is the beginning of the body.
WithHead(text) == RestOf(text)

\* on_read_head, with parse_http_head.
ReadHead ==
    /\ state = "read_head"
    /\ \E n \in 1..Least(ServerBuf, Len(toServer)) :
          LET text == head \o First(toServer, n)
          IN  /\ toServer' = Without(toServer, n)
              /\ IF HeadEnds(text) = {}
                 THEN head' = text /\ UNCHANGED <<state, body, contentLen>>
                 ELSE head' = HeadIn(text) /\ TakeBody(WithHead(text), LengthIn(HeadIn(text)))
    /\ UNCHANGED <<clientVars, toClient, response, answer, unpacked>>

\* Mutant: one read is taken for the body.
ReadBodyOnce ==
    /\ state = "read_body"
    /\ \E n \in 1..Least(contentLen - Len(body), Len(toServer)) :
          /\ toServer' = Without(toServer, n)
          /\ body' = body \o First(toServer, n)
    /\ state' = "compute"
    /\ UNCHANGED <<clientVars, toClient, head, contentLen, response, answer, unpacked>>

\* on_read_body
ReadBody ==
    /\ state = "read_body"
    /\ \E n \in 1..Least(contentLen - Len(body), Len(toServer)) :
          /\ toServer' = Without(toServer, n)
          /\ TakeBody(body \o First(toServer, n), contentLen)
    /\ UNCHANGED <<clientVars, toClient, head, response, answer, unpacked>>

\* on_process: the handler the uri selects answers with a head and a body.
Process ==
    /\ state = "compute"
    /\ \E a \in Answers :
          /\ answer' = a
          /\ response' = ReplyHead(a.code, a.type, Len(a.body)) \o a.body
    /\ unpacked' = IF UriIn(head) = ReportUri THEN UnpackReport(AsBytes(body)) ELSE NoReport
    /\ state' = "write"
    /\ UNCHANGED <<clientVars, toServer, toClient, head, body, contentLen>>

\* on_write: the socket takes a part of the response.
Write ==
    /\ state = "write"
    /\ \E n \in 1..Len(response) :
          /\ toClient' = toClient \o First(response, n)
          /\ response' = Without(response, n)
    /\ state' = IF response' = <<>> THEN "closed" ELSE "write"
    /\ UNCHANGED <<clientVars, toServer, head, body, contentLen, answer, unpacked>>

\* recv or send fails, the client has closed, or the deadline passed: the event
\* is released, which closes the connection.
Drop ==
    /\ state \in {"read_head", "read_body", "write"}
    /\ state' = "dropped"
    /\ UNCHANGED <<clientVars, toServer, toClient, head, body, contentLen, response,
                   answer, unpacked>>

Next ==
    \/ Connect \/ Send \/ ReceiveHead \/ ReceiveBody \/ TryFails
    \/ ReadHead \/ ReadBody \/ Process \/ Write \/ Drop

Spec == Init /\ [][Next]_vars

----------------------------------------------------------------------------
TypeOK ==
    /\ call \in Calls
    /\ cstate \in {"connect", "send", "head", "body", "ok", "failed"}
    /\ tried \in 0..call.tries /\ missing \in Nat /\ fresh \in BOOLEAN
    /\ {unsent, rspHead, rspBody, toServer, toClient} \subseteq Texts
    /\ state \in {"read_head", "read_body", "compute", "write", "closed", "dropped"}
    /\ {head, body, response} \subseteq Texts
    /\ contentLen \in Nat
    /\ answer \in Answers \cup {NoAnswer}
    /\ unpacked.report.port \in Nat

\* A request that has no length of its own, but a word in its uri that the
\* server's parser takes for the name of one: the length is then read off the
\* host's address, and the server waits for a body that never comes.
Misread == ContentLength \in ToSet(call.uri)

\* The request a handler gets is the one the client wrote: the same method and
\* uri, the same body to the byte, however the bytes were split into reads, also
\* when a body looks like the end of a head.  It is never a part of it, also when
\* the client gave up in the middle.
RequestWhole ==
    state \in {"compute", "write"} =>
        /\ MethodIn(head) = <<call.head[1]>> /\ UriIn(head) = call.uri
        /\ body = call.body

\* A first try that succeeds brings the answer to the byte.
ReplyWhole ==
    cstate = "ok" /\ fresh =>
        /\ rspHead \o EndOfHead = ReplyHead(answer.code, answer.type, Len(answer.body))
        /\ rspBody = answer.body

\* A try that succeeds after one that broke off anywhere may cut the body short
\* (it takes the first length in the string), but brings nothing except a
\* beginning of this try's answer.
ReplyBegins == cstate = "ok" => IsPrefix(rspBody, answer.body)

\* The two ends agree on who is to write: with nothing under way the client does
\* not wait for a server that waits for the client, and on a first try it does
\* not wait for more than the server has written.
NeverBothWait ==
    cstate \in {"head", "body"} /\ toServer = <<>> /\ toClient = <<>> =>
        /\ state \in {"read_head", "read_body"} => Misread
        /\ state = "closed" => ~fresh

\* A report that reaches the handler is read as it was packed: the same file,
\* address, words and counts, whatever their lengths and wherever a field meets
\* the end of the buffer it was written to.
ReportWhole ==
    state \in {"write", "closed"} /\ call.report.ok /\ answer # NoAnswer =>
        unpacked = call.report
=============================================================================
