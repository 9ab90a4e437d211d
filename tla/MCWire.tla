------------------------------- MODULE MCWire -------------------------------
(* Small instances of Wire for TLC.                                        *)
EXTENDS Wire

Word(n, byte) == [i \in 1..n |-> byte]

\* With a buffer of 8 bytes at first: no word; fields that end where the buffer
\* ends (16 bytes before the number of words); an id that makes the buffer
\* double twice at once; a number of more than one byte.
MCReports ==
    {[id |-> Word(1, 97), ip |-> Word(1, 49), port |-> 80, words |-> <<>>],
     [id |-> Word(3, 97), ip |-> Word(1, 49), port |-> 8080,
      words |-> <<[word |-> <<98>>, count |-> 1]>>],
     [id |-> Word(14, 97), ip |-> Word(2, 49), port |-> 80,
      words |-> <<[word |-> <<13>>, count |-> 300], [word |-> <<98, 99>>, count |-> 2]>>]}

\* An empty file, and one with an empty line and the name of a length in it.
MCContents ==
    {<<>>, EndOfHead \o <<ContentLength, Colon, <<"digit", 1>>, <<"byte", 97>>>>}

MCUris == {<<Token("/query")>>, <<Token("/query"), ContentLength>>}
MCGroupUri == <<Token("/backup")>>

\* Refused; no body; a group, and the group when it has grown past ten bytes.
MCAnswers ==
    {[code |-> "404", type |-> "none", body |-> <<>>],
     [code |-> "200", type |-> "text/xml", body |-> AsCells(<<1, 2>>)],
     [code |-> "200", type |-> "text/xml", body |-> AsCells([i \in 1..11 |-> i])]}
=============================================================================
