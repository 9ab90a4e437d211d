-------------------------------- MODULE Text --------------------------------
(***************************************************************************)
(* The text functions of mini_google_common.cpp: what a page is indexed    *)
(* under, what a search shows of it, and how a request is cut into words.  *)
(*                                                                         *)
(* A page is a sequence of tokens.  A token of Runs stands for a maximal   *)
(* run of letters and digits, so two of them are never adjacent; Open and  *)
(* Close are '<' and '>', Space stands for any whitespace, Mark for any    *)
(* other character.  A request is the sequence of the pieces between its   *)
(* separators "%20"; Empty is a piece without a character.                 *)
(***************************************************************************)
EXTENDS Integers, Sequences, FiniteSets, SequencesExt

CONSTANTS Words,        \* runs with no meaning in a tag
          Style,        \* the run "style" or "script"
          Open, Close, Space, Mark,
          Empty         \* the empty piece of a request

Runs == Words \cup {Style}
Tokens == Runs \cup {Open, Close, Space, Mark}

IsPage(page) ==
    /\ page \in Seq(Tokens)
    /\ \A i \in 1 .. Len(page) - 1 : ~(page[i] \in Runs /\ page[i + 1] \in Runs)

ASSUME TokenAssumption ==
    /\ Words \cap {Style, Open, Close, Space, Mark, Empty} = {}
    /\ Style \notin {Open, Close, Space, Mark, Empty}
    /\ Open \notin {Close, Space, Mark, Empty} /\ Close \notin {Space, Mark, Empty}
    /\ Space \notin {Mark, Empty} /\ Mark # Empty

-----------------------------------------------------------------------------
\* How many tags are open after ch; a '>' too many makes it negative for good.
Nesting(left, ch) == left + (IF ch = Open THEN 1 ELSE 0) - (IF ch = Close THEN 1 ELSE 0)

(* html_to_words: one round of its loop for a character that ends a run.  The *)
(* run before it is listed outside of tags; inside, "style" and "script" mean *)
(* that what follows is not text, up to the next '<'.                         *)
WordStep(s, ch) ==
    IF ch \in Runs THEN [left |-> s.left, word |-> <<ch>>, skip |-> s.skip, list |-> s.list]
    ELSE [left |-> Nesting(s.left, ch),
          word |-> <<>>,
          skip |-> ch # Open /\ (s.skip \/ (s.left # 0 /\ s.word = <<Style>>)),
          list |-> IF s.left = 0 /\ ~s.skip THEN s.list \o s.word ELSE s.list]

\* A run that nothing follows stays in s.word: it is not listed.
HtmlToWords(page) ==
    LET After[n \in 0 .. Len(page)] ==
            IF n = 0 THEN [left |-> 0, word |-> <<>>, skip |-> FALSE, list |-> <<>>]
            ELSE WordStep(After[n - 1], page[n])
    IN After[Len(page)].list

\* consume(): word_dict, the number of times each word is listed.
WordDict(page) ==
    LET list == HtmlToWords(page)
    IN [w \in Runs |-> Cardinality({i \in DOMAIN list : list[i] = w})]

-----------------------------------------------------------------------------
\* Leading whitespace is dropped, any other becomes one space.
Squeeze(text) ==
    LET After[n \in 0 .. Len(text)] ==
            IF n = 0 THEN <<>>
            ELSE LET str == After[n - 1]
                 IN IF text[n] = Space /\ (str = <<>> \/ Last(str) = Space) THEN str
                    ELSE Append(str, text[n])
    IN After[Len(text)]

ListSentence(s) ==
    IF s.left = 0 /\ ~s.skip /\ Squeeze(s.text) # <<>>
    THEN Append(s.list, Squeeze(s.text)) ELSE s.list

\* html_to_sentences: a sentence is what stands between two tags.
SentenceStep(s, ch) ==
    IF ch \notin {Open, Close}
    THEN [left |-> s.left, text |-> Append(s.text, ch), skip |-> s.skip, list |-> s.list]
    ELSE [left |-> Nesting(s.left, ch),
          text |-> <<>>,
          skip |-> ch # Open /\ (s.skip \/ (s.left # 0 /\ s.text # <<>> /\ Head(s.text) = Style)),
          list |-> ListSentence(s)]

HtmlToSentences(page) ==
    LET After[n \in 0 .. Len(page)] ==
            IF n = 0 THEN [left |-> 0, text |-> <<>>, skip |-> FALSE, list |-> <<>>]
            ELSE SentenceStep(After[n - 1], page[n])
    IN ListSentence(After[Len(page)])

-----------------------------------------------------------------------------
(* split_string: it tests the length of substr(start, pos), not of the piece, *)
(* so an empty piece is only dropped at either end of the request.            *)
SplitString(request) ==
    SubSeq(request, IF Head(request) = Empty THEN 2 ELSE 1,
           IF Last(request) = Empty THEN Len(request) - 1 ELSE Len(request))
=============================================================================
