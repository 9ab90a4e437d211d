------------------------------- MODULE Proto -------------------------------
(***************************************************************************)
(* basic_proto: the buffer a report is written to field by field and read  *)
(* from again.  Numbers are four bytes, the high one first; a string is    *)
(* its length and its bytes.  The buffer doubles as long as a field does   *)
(* not fit.                                                                *)
(***************************************************************************)
EXTENDS Integers, Sequences, SequencesExt

CONSTANT InitBuf    \* the size of a new buffer

ASSUME InitBufAssumption == InitBuf \in Nat \ {0}

\* The high byte of a number of four bytes.
HighByte(n) == ((n \div 256) \div 256) \div 256

\* What the programs encode: numbers that are an int of theirs, 2^31 - 1 at most,
\* and strings whose length is one.
Ints == {n \in Nat : HighByte(n) < 128}
ByteStrings == {str \in Seq(0..255) : Len(str) \in Ints}
Entries == [word : ByteStrings, count : Ints]
EncodedReports == [id : ByteStrings, ip : ByteStrings, port : Ints,
                   words : {list \in Seq(Entries) : Len(list) \in Ints}]

Zeros(n) == [i \in 1..n |-> 0]

\* A byte from outside the buffer.
Stray == 256

NewProto == [buf |-> Zeros(InitBuf), len |-> 0]

\* Mutant: the buffer doubles once.
EnlargedOnce(bp, need) ==
    IF need <= Len(bp.buf) THEN bp ELSE [bp EXCEPT !.buf = @ \o Zeros(Len(@))]

\* The loop before every write: resize to the double until the field fits.
Enlarged(bp, need) ==
    LET size[s \in Nat \ {0}] == IF need <= s THEN s ELSE size[2 * s]
    IN  [bp EXCEPT !.buf = @ \o Zeros(size[Len(@)] - Len(@))]

\* The bytes go behind what is written; what is past the buffer is not in it.
AddBinary(bp, bin) ==
    LET need == bp.len + Len(bin)
        big  == Enlarged(bp, need).buf
    IN  [buf |-> [i \in 1..Len(big) |-> IF i \in (bp.len + 1)..need THEN bin[i - bp.len]
                                        ELSE big[i]],
         len |-> need]

\* htonl
AddInt(bp, n) ==
    AddBinary(bp, <<HighByte(n), ((n \div 256) \div 256) % 256, (n \div 256) % 256, n % 256>>)

AddString(bp, str) == AddBinary(AddInt(bp, Len(str)), str)

\* get_buf and get_buf_len
Encoded(bp) == [i \in 1..bp.len |-> IF i <= Len(bp.buf) THEN bp.buf[i] ELSE Stray]

\* A report: the file's id, the worker's address, the words with their counts.
PackFile(report) ==
    LET address == AddInt(AddString(AddString(NewProto, report.id), report.ip), report.port)
    IN  AddInt(address, Len(report.words))

PackWord(bp, entry) == AddInt(AddString(bp, entry.word), entry.count)

PackReport(report) ==
    LET packed[n \in 0..Len(report.words)] ==
            IF n = 0 THEN PackFile(report) ELSE PackWord(packed[n - 1], report.words[n])
    IN  Encoded(packed[Len(report.words)])

----------------------------------------------------------------------------
\* A read yields the value and the place behind it, or fails and stays.
ReadBinary(buf, at, n) ==
    LET ok == at + n <= Len(buf)
    IN  [ok  |-> ok,
         at  |-> IF ok THEN at + n ELSE at,
         val |-> IF ok THEN SubSeq(buf, at + 1, at + n) ELSE <<>>]

\* ntohl
ReadInt(buf, at) ==
    LET read == ReadBinary(buf, at, 4)
        ok   == read.ok /\ Stray \notin ToSet(read.val)
    IN  [ok  |-> ok, at |-> read.at,
         val |-> IF ok THEN 256 * (256 * (256 * read.val[1] + read.val[2]) + read.val[3])
                            + read.val[4]
                 ELSE 0]

ReadString(buf, at) ==
    LET len == ReadInt(buf, at)
    IN  IF len.ok THEN ReadBinary(buf, len.at, len.val) ELSE [len EXCEPT !.val = <<>>]

\* One turn of process_report's loop over the words.
ReadWord(body, acc) ==
    LET word  == ReadString(body, acc.at)
        count == ReadInt(body, word.at)
    IN  [ok    |-> acc.ok /\ word.ok /\ count.ok, at |-> count.at,
         words |-> Append(acc.words, [word |-> word.val, count |-> count.val])]

\* The reads of process_report, in its order.  It does not look at their
\* results: where one fails ("ok" is false) it goes on with what nobody set.
UnpackReport(body) ==
    LET id   == ReadString(body, 0)
        ip   == ReadString(body, id.at)
        port == ReadInt(body, ip.at)
        size == ReadInt(body, port.at)
        read[n \in 0..size.val] ==
            IF n = 0
            THEN [ok |-> id.ok /\ ip.ok /\ port.ok /\ size.ok, at |-> size.at, words |-> <<>>]
            ELSE ReadWord(body, read[n - 1])
        all == read[size.val]
    IN  [ok |-> all.ok,
         report |-> [id |-> id.val, ip |-> ip.val, port |-> port.val, words |-> all.words]]
=============================================================================
