-------------------------------- MODULE Http --------------------------------
(***************************************************************************)
(* The head of a request or a reply as it is written (gen_http_head and    *)
(* the formats of mini_google_common.cpp) and as it is read                *)
(* (http_event::parse_http_head, http_recv).  A text is a sequence of      *)
(* cells: a digit, a byte of a body, or one of the words and separators a  *)
(* parser looks for.  A word that arrives in part is like one that has not *)
(* arrived: nothing is found in it.                                        *)
(***************************************************************************)
EXTENDS Integers, Sequences, SequencesExt

Cells == STRING \X Nat
Texts == Seq(Cells)

\* The kinds of cells the programs write themselves are strings like any other.
Kinds == {"digit", "byte", "cr", "lf", "space", "colon", "content-length", "content-type",
          "version", "host", "address", "POST", "GET", "/report", "/put"}

ASSUME KindAssumption == Kinds \subseteq STRING

Token(kind) == <<kind, 0>>
Cr == Token("cr")
Lf == Token("lf")
Space == Token("space")
Colon == Token("colon")
ContentLength == Token("content-length")
Version == Token("version")
Host == Token("host")
EndOfLine == <<Cr, Lf>>
EndOfHead == EndOfLine \o EndOfLine

\* %d
Digits(n) ==
    LET digits[k \in 0..n] == IF k < 10 THEN <<<<"digit", k>>>>
                             ELSE Append(digits[k \div 10], <<"digit", k % 10>>)
    IN  digits[n]

\* The line with the server's address: digits, then dots and more.
HostLine == <<Host, Colon, <<"digit", 9>>, Token("address")>> \o EndOfLine
LengthLine(n) == <<ContentLength, Colon>> \o Digits(n) \o EndOfLine
RequestLine(method, uri) == <<Token(method), Space>> \o uri \o <<Space, Version>> \o EndOfLine

PostHead(uri, n) == RequestLine("POST", uri) \o HostLine \o LengthLine(n) \o EndOfLine
GetHead(uri) == RequestLine("GET", uri) \o HostLine \o EndOfLine

\* With the type of the content in front of its length, or without.
ReplyHead(code, type, n) ==
    <<Version, Space, Token(code)>> \o EndOfLine
    \o (IF type = "none" THEN <<>>
        ELSE <<Token("content-type"), Colon, Token(type)>> \o EndOfLine)
    \o LengthLine(n) \o EndOfLine

\* The separators around a uri are not in it; a code or a type is one cell, which
\* is neither the end of its line nor the name of the length.
IsUri(uri) == uri \in Texts /\ {Cr, Space} \cap ToSet(uri) = {}
Names == STRING \ {"cr", "content-length"}

----------------------------------------------------------------------------
PlaceOf(text, cell) == SelectInSeq(text, LAMBDA c : c = cell)

\* What follows the first such cell, and what is before it.
Behind(text, cell) ==
    IF PlaceOf(text, cell) = 0 THEN <<>> ELSE SubSeq(text, PlaceOf(text, cell) + 1, Len(text))
Until(text, cell) ==
    IF PlaceOf(text, cell) = 0 THEN text ELSE SubSeq(text, 1, PlaceOf(text, cell) - 1)

\* The places where an empty line ends a head.
HeadEnds(text) ==
    {i \in 1..(Len(text) - 3) : SubSeq(text, i, i + 3) = EndOfHead}

\* The first of them cuts the text in two.
HeadIn(text) == LET i == Min(HeadEnds(text)) IN SubSeq(text, 1, i - 1)
RestOf(text) == LET i == Min(HeadEnds(text)) IN SubSeq(text, i + 4, Len(text))

\* atoi of what follows: the digits up to the first other cell, 0 without one.
Atoi(text) ==
    LET stop == SelectInSeq(text, LAMBDA c : c[1] # "digit")
        last == IF stop = 0 THEN Len(text) ELSE stop - 1
        value[k \in 0..last] == IF k = 0 THEN 0 ELSE 10 * value[k - 1] + text[k][2]
    IN  value[last]

\* strcasestr for the name, then for a colon: wherever in the head they are.
HasLength(head) == Colon \in ToSet(Behind(head, ContentLength))
LengthIn(head) == Atoi(Behind(Behind(head, ContentLength), Colon))

\* The first line of a request: method, uri, version.
MethodIn(head) == Until(Until(head, Cr), Space)
UriIn(head) == Until(Behind(Until(head, Cr), Space), Space)
=============================================================================
