------------------------------- MODULE Query --------------------------------
(***************************************************************************)
(* Queries and searches (process_query, process_search) on a server whose  *)
(* index grows meanwhile: workers report pages word by word, a request     *)
(* looks up one word at a time, ranks what it found and answers.           *)
(*                                                                         *)
(* Kept: every critical section of the two tables, the folding of the      *)
(* posting lists, the order of the ranking and the freedom std::sort has   *)
(* among equals, the cut to the files with all words, the cut of a search, *)
(* the pages a search fetches and where it puts their sentences.  One      *)
(* request at a time is enough: requests only read the tables.  The        *)
(* response is the data it carries.                                        *)
(***************************************************************************)
EXTENDS Text

CONSTANTS Pages,       \* the files; the id of a file is the md5 of its content
          Requests,    \* what the clients ask: sequences of Words and Empty
          Limit,       \* a search answers with at most so many files (20)
          ErrorPage    \* the body of a "404 Not Found"

ASSUME QueryAssumption ==
    /\ IsFiniteSet(Pages)
    /\ \A p \in Pages \cup {ErrorPage} : IsPage(p)
    /\ \A q \in Requests : q \in Seq(Words \cup {Empty}) /\ q # <<>>
    /\ Limit \in Nat

VARIABLES located,   \* m_lookup_table
          left,      \* the words of each report its handler has still to update
          index,     \* m_invert_table: word to file to frequency, 0 is no entry
          pc, kind,  \* where the request's handler is, and what was asked
          words,     \* split_string's result
          ffls,      \* the posting lists found so far
          rank,      \* res_rank, as the answer lists it
          texts,     \* res_file
          fetched,   \* how many files of the ranking a search has fetched
          known      \* history: files whose report was done when it was asked

\* What the report of each page says.
Frequency == [p \in Pages |-> WordDict(p)]

tableVars == <<located, left, index>>
vars == <<tableVars, pc, kind, words, ffls, rank, texts, fetched, known>>

Postings == [Pages -> Nat]
NoPostings == [f \in Pages |-> 0]
Ranks == [file : Pages, num : Nat, freq : Nat]

TypeOK ==
    /\ located \subseteq Pages
    /\ left \in [Pages -> SUBSET Runs]
    /\ \A f \in Pages \ located : left[f] = {}
    /\ index \in [Runs -> Postings]
    /\ \A w \in Runs, f \in Pages : index[w][f] \in {0, Frequency[f][w]}
    /\ pc \in {"idle", "search", "fetch", "answered", "refused", "dead"}
    /\ kind \in {"query", "terms", "search"}
    /\ words \in Seq(Words \cup {Empty})
    /\ ffls \in Seq(Postings) /\ Len(ffls) <= Len(words)
    /\ rank \in Seq(Ranks)
    /\ texts \in Seq(Seq(Seq(Tokens))) /\ Len(texts) \in {0, Len(rank)}
    /\ fetched \in 0 .. Len(rank)
    /\ known \subseteq located

Init ==
    /\ located = {}
    /\ left = [f \in Pages |-> {}]
    /\ index = [w \in Runs |-> NoPostings]
    /\ pc = "idle" /\ kind = "query"
    /\ words = <<>> /\ ffls = <<>> /\ rank = <<>> /\ texts = <<>>
    /\ fetched = 0 /\ known = {}

-----------------------------------------------------------------------------
\* MUTANT of SetFileInfo: the words are handled before the location is known.
SetFileInfoLast(f) ==
    /\ pc # "dead" /\ f \notin located /\ left[f] = {}
    /\ left' = [left EXCEPT ![f] = {w \in Runs : Frequency[f][w] > 0}]
    /\ UNCHANGED <<located, index, pc, kind, words, ffls, rank, texts, fetched, known>>

\* process_report: the location, then each word under the lock of its group.
SetFileInfo(f) ==
    /\ pc # "dead" /\ f \notin located
    /\ located' = located \cup {f}
    /\ left' = [left EXCEPT ![f] = {w \in Runs : Frequency[f][w] > 0}]
    /\ UNCHANGED <<index, pc, kind, words, ffls, rank, texts, fetched, known>>

UpdateWord(f, w) ==
    /\ pc # "dead" /\ w \in left[f]
    /\ index' = [index EXCEPT ![w][f] = Frequency[f][w]]
    /\ left' = [left EXCEPT ![f] = @ \ {w}]
    /\ UNCHANGED <<located, pc, kind, words, ffls, rank, texts, fetched, known>>

-----------------------------------------------------------------------------
(* A client asks: "query" is /query as the uishell sends it, "terms" the same  *)
(* with merge=0, "search" is /search.  Without a character there is no answer. *)
Ask(k, request) ==
    /\ pc = "idle"
    /\ kind' = k
    /\ known' = {f \in located : left[f] = {}}
    /\ IF request = <<Empty>> THEN pc' = "refused" /\ words' = <<>>
       ELSE pc' = "search" /\ words' = SplitString(request)
    /\ UNCHANGED <<tableVars, ffls, rank, texts, fetched>>

\* invert_table::search for the next word: the list as it is now.
SearchWord ==
    /\ pc = "search" /\ Len(ffls) < Len(words)
    /\ LET w == words[Len(ffls) + 1]
       IN ffls' = Append(ffls, IF w \in Runs THEN index[w] ELSE NoPostings)
    /\ UNCHANGED <<tableVars, pc, kind, words, rank, texts, fetched, known>>

\* res_stat: in how many of the lists a file is, and its least frequency there.
Stat(lists) ==
    LET Hits(f) == {i \in DOMAIN lists : lists[i][f] > 0}
    IN {[file |-> f, num |-> Cardinality(Hits(f)),
         freq |-> Min({lists[i][f] : i \in Hits(f)})] :
            f \in {g \in Pages : Hits(g) # {}}}

\* MUTANT of Precedes: the frequency decides first.
PrecedesByFreq(a, b) == a.freq > b.freq \/ (a.freq = b.freq /\ a.num > b.num)

\* compare()
Precedes(a, b) == a.num > b.num \/ (a.num = b.num /\ a.freq > b.freq)

\* std::sort: any order in which nothing stands behind what it precedes.
Sorted(stat) ==
    {s \in SetToSeqs(stat) : \A j \in DOMAIN s : \A i \in 1 .. j - 1 : ~Precedes(s[j], s[i])}

\* MUTANT of WithAllWords: the loop over the ranking has no break.
WithAnyWord(s) == s

\* The answer ends with the first file that is not in every list.
WithAllWords(s) ==
    SubSeq(s, 1, Max({n \in 0 .. Len(s) : \A i \in 1 .. n : s[i].num = Len(words)}))

RankQuery ==
    /\ pc = "search" /\ kind = "query" /\ Len(ffls) = Len(words)
    /\ \E s \in Sorted(Stat(ffls)) : rank' = WithAllWords(s)
    /\ pc' = "answered"
    /\ UNCHANGED <<tableVars, kind, words, ffls, texts, fetched, known>>

\* merge=0: the answer is the lists.
AnswerTerms ==
    /\ pc = "search" /\ kind = "terms" /\ Len(ffls) = Len(words)
    /\ pc' = "answered"
    /\ UNCHANGED <<tableVars, kind, words, ffls, rank, texts, fetched, known>>

-----------------------------------------------------------------------------
\* The answer to a search has at most Limit files.
Cut(s) == SubSeq(s, 1, Min({Limit, Len(s)}))

\* MUTANT of RankSearch: the files are cut before they are sorted.
RankSearchCutFirst ==
    /\ pc = "search" /\ kind = "search" /\ Len(ffls) = Len(words)
    /\ \E s \in SetToSeqs(Stat(ffls)) : \E t \in Sorted(Range(Cut(s))) :
          rank' = t /\ texts' = [i \in DOMAIN t |-> <<>>]
    /\ pc' = "fetch"
    /\ UNCHANGED <<tableVars, kind, words, ffls, fetched, known>>

RankSearch ==
    /\ pc = "search" /\ kind = "search" /\ Len(ffls) = Len(words)
    /\ \E s \in Sorted(Stat(ffls)) :
          rank' = Cut(s) /\ texts' = [i \in DOMAIN Cut(s) |-> <<>>]
    /\ pc' = "fetch"
    /\ UNCHANGED <<tableVars, kind, words, ffls, fetched, known>>

\* html_to_sentences of everything retrieve_file can leave behind.
Sentences == [content \in (UNION {Prefixes(p) : p \in Pages}) \cup {<<>>, ErrorPage} |->
                 HtmlToSentences(content)]

(* What retrieve_file leaves of a file: all of it, the part that came before  *)
(* the worker's connection broke, or the text of the worker's refusal, since  *)
(* process_search does not look at the result.                                *)
Fetched(f) ==
    IF f \in located THEN Prefixes(f) \cup {ErrorPage} ELSE {<<>>}

(* The inner loop's own i hides the outer one: sentence j of every file goes  *)
(* to res_file[j].  A file with more sentences than there are results writes  *)
(* behind the end of the vector: the process may die of it or go on.          *)
FetchFile ==
    /\ pc = "fetch" /\ fetched < Len(rank)
    /\ \E content \in Fetched(rank[fetched + 1].file) :
          LET sentences == Sentences[content]
          IN /\ texts' = [j \in DOMAIN texts |->
                            IF j <= Len(sentences) THEN Append(texts[j], sentences[j])
                            ELSE texts[j]]
             /\ pc' \in IF Len(sentences) <= Len(rank) THEN {"fetch"} ELSE {"fetch", "dead"}
    /\ fetched' = fetched + 1
    /\ UNCHANGED <<tableVars, kind, words, ffls, rank, known>>

AnswerSearch ==
    /\ pc = "fetch" /\ fetched = Len(rank)
    /\ pc' = "answered"
    /\ UNCHANGED <<tableVars, kind, words, ffls, rank, texts, fetched, known>>

\* The client has the answer and shows it.
Show ==
    /\ pc \in {"answered", "refused"}
    /\ pc' = "idle" /\ kind' = "query"
    /\ words' = <<>> /\ ffls' = <<>> /\ rank' = <<>> /\ texts' = <<>>
    /\ fetched' = 0 /\ known' = {}
    /\ UNCHANGED tableVars

\* Once the process has died nothing happens.
Next ==
    \/ \E f \in Pages : SetFileInfo(f)
    \/ \E f \in Pages, w \in Runs : UpdateWord(f, w)
    \/ \E k \in {"query", "terms", "search"}, request \in Requests : Ask(k, request)
    \/ SearchWord
    \/ RankQuery
    \/ AnswerTerms
    \/ RankSearch
    \/ FetchFile
    \/ AnswerSearch
    \/ Show

Spec == Init /\ [][Next]_vars

-----------------------------------------------------------------------------
(* The reference the answers are compared with, from the pages alone: a word *)
(* counts where it stands outside of every tag, is followed by something,    *)
(* and the last tag before it does not have "style" or "script" in it.       *)
Number(p, ch, i) == Cardinality({k \in 1 .. i - 1 : p[k] = ch})

InTag(p, i) == Number(p, Open, i) # Number(p, Close, i)

Counts(p, i) ==
    /\ i < Len(p) /\ ~InTag(p, i)
    /\ \A k \in 1 .. i - 1 :
          p[k] = Style /\ InTag(p, k) => \E j \in k + 1 .. i - 1 : p[j] = Open

Count == [p \in Pages |-> [w \in Runs \cup {Empty} |->
              Cardinality({i \in DOMAIN p : p[i] = w /\ Counts(p, i)})]]

Asked(f) == {i \in DOMAIN words : Count[f][words[i]] > 0}

Deserved(f) == [file |-> f, num |-> Cardinality(Asked(f)),
                freq |-> Min({Count[f][words[i]] : i \in Asked(f)})]

ListedFiles == {rank[i].file : i \in DOMAIN rank}

(* Every file in the answer to a query contains every word asked for, as      *)
(* often as the answer says, also when its report was half done while the     *)
(* words were looked up one by one; no file is listed twice.                  *)
HitsHaveAllWords ==
    pc = "answered" /\ kind = "query" =>
        /\ \A i \in DOMAIN rank :
              /\ Asked(rank[i].file) = DOMAIN words
              /\ rank[i] = Deserved(rank[i].file)
        /\ Cardinality(ListedFiles) = Len(rank)

(* A file whose report was done before the request came is not missed: a      *)
(* query lists it if it has all the words, and with merge=0 it is in the list *)
(* of each of its words, with its frequency.  (No file has the empty word     *)
(* that split_string makes of two separators in a row.)                       *)
NoKnownFileMissed ==
    pc = "answered" =>
        \A f \in known :
            /\ kind = "query" /\ words # <<>> /\ Asked(f) = DOMAIN words => f \in ListedFiles
            /\ kind = "terms" => \A i \in DOMAIN words : ffls[i][f] = Count[f][words[i]]

(* A search answers best first, each file once and at most Limit, and a known *)
(* file with the rank its content deserves; a known file that is left out has *)
(* none of the words, or the answer is full with files it does not precede.   *)
SearchBest ==
    pc = "answered" /\ kind = "search" =>
        /\ Len(rank) <= Limit /\ Cardinality(ListedFiles) = Len(rank)
        /\ \A j \in DOMAIN rank : \A i \in 1 .. j - 1 : ~Precedes(rank[j], rank[i])
        /\ \A i \in DOMAIN rank :
              rank[i].file \in known => rank[i] = Deserved(rank[i].file)
        /\ \A f \in known \ ListedFiles :
              Asked(f) # {} =>
                  Len(rank) = Limit /\ \A i \in DOMAIN rank : ~Precedes(Deserved(f), rank[i])
=============================================================================
