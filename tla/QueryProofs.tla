---------------------------- MODULE QueryProofs ----------------------------
(***************************************************************************)
(* Proofs about Text and Query, for every set of pages and requests.  The  *)
(* first part shows by induction over a page that its word_dict counts     *)
(* what the reference counts; the second, that the answers follow.         *)
(***************************************************************************)
EXTENDS Query, Recursion

----------------------------------------------------------------------------
(* Numbers of elements.                                                    *)

\* The indices of a sequence with a given property are finitely many.
LEMMA IndicesFinite ==
    ASSUME NEW n \in Nat, NEW I \in SUBSET (1..n)
    PROVE  IsFiniteSet(I) /\ Cardinality(I) \in Nat
<1>1. IsFiniteSet(1..n)
  BY FS_Interval
<1>2. QED
  BY <1>1, FS_Subset, FS_CardinalityType

LEMMA OneTo ==
    ASSUME NEW n \in Nat
    PROVE  IsFiniteSet(1..n) /\ Cardinality(1..n) = n
<1>1. /\ IsFiniteSet(1..n)
      /\ Cardinality(1..n) = IF 1 > n THEN 0 ELSE n - 1 + 1
  BY FS_Interval
<1>2. (IF 1 > n THEN 0 ELSE n - 1 + 1) = n
  OBVIOUS
<1>3. QED
  BY <1>1, <1>2

\* One more character is counted if it is the one asked for.
LEMMA NumberStep ==
    ASSUME NEW p, NEW ch, NEW n \in Nat \ {0}
    PROVE  /\ Number(p, ch, n) \in Nat
           /\ Number(p, ch, n + 1) = Number(p, ch, n) + (IF p[n] = ch THEN 1 ELSE 0)
<1> DEFINE I == {k \in 1..(n - 1) : p[k] = ch}
           J == {k \in 1..((n + 1) - 1) : p[k] = ch}
<1>0. n - 1 \in Nat /\ I \in SUBSET (1..(n - 1))
  OBVIOUS
<1> HIDE DEF I
<1>1. IsFiniteSet(I) /\ Cardinality(I) \in Nat
  BY <1>0, IndicesFinite
<1> USE DEF I
<1>2. CASE p[n] = ch
  <2>1. J = I \cup {n} /\ n \notin I
    BY <1>2
  <2> HIDE DEF I, J
  <2>2. Cardinality(J) = Cardinality(I) + 1
    BY <1>1, <2>1, FS_AddElement
  <2>3. QED
    BY <1>1, <1>2, <2>2 DEF Number, I, J
<1>3. CASE p[n] # ch
  <2>1. J = I
    BY <1>3
  <2>2. QED
    BY <1>1, <1>3, <2>1 DEF Number
<1>4. QED
  BY <1>2, <1>3

LEMMA NumberZero == \A p, ch : Number(p, ch, 1) = 0
<1> TAKE p, ch
<1>1. {k \in 1..(1 - 1) : p[k] = ch} = {}
  OBVIOUS
<1>2. QED
  BY <1>1, FS_EmptySet DEF Number

----------------------------------------------------------------------------
(* html_to_words as a recursion over the page.                             *)

WordStates == [left : Int, word : Seq(Runs), skip : BOOLEAN, list : Seq(Runs)]
NoWords == [left |-> 0, word |-> <<>>, skip |-> FALSE, list |-> <<>>]

LEMMA WordStepType ==
    ASSUME NEW s \in WordStates, NEW ch \in Tokens
    PROVE  WordStep(s, ch) \in WordStates
<1>0. s.left \in Int /\ s.list \in Seq(Runs) /\ s.word \in Seq(Runs) /\ s.skip \in BOOLEAN
  BY DEF WordStates
<1>1. CASE ch \in Runs
  <2>1. <<ch>> \in Seq(Runs)
    BY <1>1
  <2>2. QED
    BY <1>0, <1>1, <2>1 DEF WordStep, WordStates
<1>2. CASE ch \notin Runs
  <2>1. Nesting(s.left, ch) \in Int
    BY <1>0 DEF Nesting
  <2>2. (IF s.left = 0 /\ ~s.skip THEN s.list \o s.word ELSE s.list) \in Seq(Runs)
    BY <1>0
  <2>3. (ch # Open /\ (s.skip \/ (s.left # 0 /\ s.word = <<Style>>))) \in BOOLEAN
    OBVIOUS
  <2>4. <<>> \in Seq(Runs)
    OBVIOUS
  <2>5. QED
    BY <1>2, <2>1, <2>2, <2>3, <2>4 DEF WordStep, WordStates
<1>3. QED
  BY <1>1, <1>2

\* The states of the parser, one for each beginning of the page.
LEMMA WordsFold ==
    ASSUME NEW page \in Seq(Tokens)
    PROVE  \E After \in [0..Len(page) -> WordStates] :
              /\ After[0] = NoWords
              /\ \A n \in 1..Len(page) : After[n] = WordStep(After[n - 1], page[n])
              /\ HtmlToWords(page) = After[Len(page)].list
<1> DEFINE N == Len(page)
           Solves(f) == f = [n \in 0..N |-> IF n = 0 THEN NoWords
                                            ELSE WordStep(f[n - 1], page[n])]
           After == CHOOSE f : Solves(f)
           step == [x \in (1..N) \X WordStates |-> WordStep(x[2], page[x[1]])]
<1>1. N \in Nat /\ NoWords \in WordStates /\ \A n \in 1..N : page[n] \in Tokens
  BY DEF NoWords, WordStates
<1>2. step \in Steps(N, WordStates)
  BY <1>1, WordStepType DEF Steps
<1>3. \A n \in 1..N, s \in WordStates : step[<<n, s>>] = WordStep(s, page[n])
  OBVIOUS
<1>4. HtmlToWords(page) = After[N].list
  BY DEF HtmlToWords, NoWords
<1> HIDE DEF step, N
<1>5. \E f : Solves(f)
  <2>0. Solutions(NoWords, N, WordStates, step) # {}
    BY <1>1, <1>2, RecursionExists
  <2>1. PICK f \in [0..N -> WordStates] :
           f[0] = NoWords /\ \A n \in 1..N : f[n] = step[<<n, f[n - 1]>>]
    BY <2>0 DEF Solutions
  <2>2. \A n \in 1..N : f[n] = WordStep(f[n - 1], page[n])
    <3> TAKE n \in 1..N
    <3>1. n - 1 \in 0..N
      BY <1>1
    <3>2. QED
      BY <1>3, <2>1, <3>1
  <2>3. \A n \in 0..N : f[n] = IF n = 0 THEN NoWords ELSE WordStep(f[n - 1], page[n])
    <3> TAKE n \in 0..N
    <3>1. n = 0 \/ n \in 1..N
      BY <1>1
    <3>2. QED
      BY <2>1, <2>2, <3>1
  <2>4. Solves(f)
    BY <2>1, <2>3
  <2>5. QED
    BY <2>4
<1>6. Solves(After)
  BY <1>5
<1> HIDE DEF After
<1>7. After[0] = NoWords /\ \A n \in 1..N : After[n] = WordStep(After[n - 1], page[n])
  BY <1>1, <1>6
<1>8. \A n \in 0..N : After[n] \in WordStates
  <2>1. \A n \in 1..N : After[n - 1] \in WordStates => After[n] \in WordStates
    BY <1>1, <1>7, WordStepType
  <2>2. QED
    BY <1>1, <1>7, <2>1, RecursionType
<1>9. After \in [0..N -> WordStates]
  BY <1>6, <1>8
<1>10. QED
  BY <1>4, <1>7, <1>9 DEF N

----------------------------------------------------------------------------
(* What html_to_words knows after n characters, in terms of the page.       *)

\* A style or script in a tag is behind us, and no tag was opened since.
Skips(p, n) ==
    \E k \in 1..(n - 1) : p[k] = Style /\ InTag(p, k) /\ \A j \in (k + 1)..n : p[j] # Open

\* Where w stands among the first n - 1 characters and is text.
Listed(p, n, w) == {i \in 1..(n - 1) : p[i] = w /\ ~InTag(p, i) /\ ~Skips(p, i)}

Times(list, w) == Cardinality({i \in DOMAIN list : list[i] = w})

ParseInv(p, n, s) ==
    /\ s.left = Number(p, Open, n + 1) - Number(p, Close, n + 1)
    /\ s.word = IF n > 0 /\ p[n] \in Runs THEN <<p[n]>> ELSE <<>>
    /\ s.skip = Skips(p, n)
    /\ \A w \in Runs : Times(s.list, w) = Cardinality(Listed(p, n, w))

\* The next character ends the stretch without text or lets it go on.
LEMMA SkipStep ==
    ASSUME NEW p, NEW n \in Nat \ {0}
    PROVE  Skips(p, n) <=>
              /\ p[n] # Open
              /\ Skips(p, n - 1) \/ (n > 1 /\ p[n - 1] = Style /\ InTag(p, n - 1))
<1>1. ASSUME Skips(p, n)
      PROVE  /\ p[n] # Open
             /\ Skips(p, n - 1) \/ (n > 1 /\ p[n - 1] = Style /\ InTag(p, n - 1))
  <2>1. PICK k \in 1..(n - 1) :
           p[k] = Style /\ InTag(p, k) /\ \A j \in (k + 1)..n : p[j] # Open
    BY <1>1 DEF Skips
  <2>2. n \in (k + 1)..n /\ n > 1 /\ \A j \in (k + 1)..(n - 1) : j \in (k + 1)..n
    OBVIOUS
  <2>3. k = n - 1 \/ k \in 1..((n - 1) - 1)
    OBVIOUS
  <2>4. QED
    BY <2>1, <2>2, <2>3 DEF Skips
<1>2. ASSUME p[n] # Open, Skips(p, n - 1)
      PROVE  Skips(p, n)
  <2>1. PICK k \in 1..((n - 1) - 1) :
           p[k] = Style /\ InTag(p, k) /\ \A j \in (k + 1)..(n - 1) : p[j] # Open
    BY <1>2 DEF Skips
  <2>2. k \in 1..(n - 1) /\ \A j \in (k + 1)..n : j = n \/ j \in (k + 1)..(n - 1)
    OBVIOUS
  <2>3. QED
    BY <1>2, <2>1, <2>2 DEF Skips
<1>3. ASSUME p[n] # Open, n > 1, p[n - 1] = Style, InTag(p, n - 1)
      PROVE  Skips(p, n)
  <2>1. n - 1 \in 1..(n - 1) /\ \A j \in ((n - 1) + 1)..n : j = n
    BY <1>3
  <2>2. QED
    BY <1>3, <2>1 DEF Skips
<1>4. QED
  BY <1>1, <1>2, <1>3

\* The last character but one joins the listed ones if it is w and text.
LEMMA ListedStep ==
    ASSUME NEW p, NEW n \in Nat \ {0}, NEW w
    PROVE  /\ Cardinality(Listed(p, n - 1, w)) \in Nat
           /\ Cardinality(Listed(p, n, w)) = Cardinality(Listed(p, n - 1, w))
                + (IF n > 1 /\ p[n - 1] = w /\ ~InTag(p, n - 1) /\ ~Skips(p, n - 1)
                   THEN 1 ELSE 0)
<1> DEFINE I == Listed(p, n - 1, w)
           New == n > 1 /\ p[n - 1] = w /\ ~InTag(p, n - 1) /\ ~Skips(p, n - 1)
<1>1. IsFiniteSet(I) /\ Cardinality(I) \in Nat
  <2>1. n \in Nat /\ I \in SUBSET (1..n)
    BY DEF Listed
  <2> HIDE DEF I
  <2>2. QED
    BY <2>1, IndicesFinite
<1>2. \A i : i \in 1..(n - 1) <=> i \in 1..((n - 1) - 1) \/ (n > 1 /\ i = n - 1)
  OBVIOUS
<1>3. CASE New
  <2>1. Listed(p, n, w) = I \cup {n - 1} /\ n - 1 \notin I
    BY <1>2, <1>3 DEF Listed
  <2> HIDE DEF I
  <2>2. Cardinality(Listed(p, n, w)) = Cardinality(I) + 1
    BY <1>1, <2>1, FS_AddElement
  <2>3. QED
    BY <1>1, <1>3, <2>2 DEF I
<1>4. CASE ~New
  <2>1. Listed(p, n, w) = I
    BY <1>2, <1>4 DEF Listed
  <2> HIDE DEF New
  <2>2. QED
    BY <1>1, <1>4, <2>1 DEF New
<1>5. QED
  BY <1>3, <1>4

\* A word that is added to a list is there once more.
LEMMA TimesStep ==
    ASSUME NEW list \in Seq(Runs), NEW x \in Runs, NEW w
    PROVE  /\ Times(list, w) \in Nat
           /\ Times(list \o <<x>>, w) = Times(list, w) + (IF x = w THEN 1 ELSE 0)
<1> DEFINE I == {i \in DOMAIN list : list[i] = w}
           J == {i \in DOMAIN (list \o <<x>>) : (list \o <<x>>)[i] = w}
           l == Len(list)
<1>0. l \in Nat /\ I \in SUBSET (1..l)
  OBVIOUS
<1> HIDE DEF I
<1>1. IsFiniteSet(I) /\ Cardinality(I) \in Nat
  BY <1>0, IndicesFinite
<1> USE DEF I
<1>2. /\ DOMAIN (list \o <<x>>) = 1..(l + 1) /\ DOMAIN list = 1..l
      /\ (list \o <<x>>)[l + 1] = x /\ \A i \in 1..l : (list \o <<x>>)[i] = list[i]
  OBVIOUS
<1>3. CASE x = w
  <2>1. J = I \cup {l + 1} /\ l + 1 \notin I
    BY <1>0, <1>2, <1>3
  <2> HIDE DEF I, J
  <2>2. Cardinality(J) = Cardinality(I) + 1
    BY <1>1, <2>1, FS_AddElement
  <2>3. QED
    BY <1>1, <1>3, <2>2 DEF Times, I, J
<1>4. CASE x # w
  <2>1. J = I
    BY <1>0, <1>2, <1>4
  <2>2. Times(list \o <<x>>, w) = Cardinality(J) /\ Times(list, w) = Cardinality(I)
    BY DEF Times
  <2> HIDE DEF I, J
  <2>3. QED
    BY <1>1, <1>4, <2>1, <2>2
<1>5. QED
  BY <1>3, <1>4

\* Facts about characters that the parser's case distinctions rest on.
LEMMA Characters ==
    /\ Open \notin Runs /\ Close \notin Runs /\ Open # Close
    /\ Style \in Runs /\ Empty \notin Runs
BY TokenAssumption DEF Runs

LEMMA ParseStep ==
    ASSUME NEW p, IsPage(p), NEW n \in 1..Len(p), NEW s \in WordStates,
           ParseInv(p, n - 1, s)
    PROVE  ParseInv(p, n, WordStep(s, p[n]))
<1> DEFINE ch == p[n]
           Before == n > 1 /\ p[n - 1] \in Runs
           t == WordStep(s, ch)
<1>0. /\ n \in Nat /\ n - 1 \in Nat /\ (n - 1) + 1 = n /\ n \in Nat \ {0}
      /\ s.left \in Int /\ s.list \in Seq(Runs) /\ s.skip \in BOOLEAN
  BY DEF IsPage, WordStates
<1>1. /\ s.left = Number(p, Open, n) - Number(p, Close, n)
      /\ s.word = IF Before THEN <<p[n - 1]>> ELSE <<>>
      /\ s.skip = Skips(p, n - 1)
      /\ \A w \in Runs : Times(s.list, w) = Cardinality(Listed(p, n - 1, w))
  <2>1. n - 1 > 0 <=> n > 1
    BY <1>0
  <2>2. QED
    BY <1>0, <2>1 DEF ParseInv
<1>2. /\ Number(p, Open, n) \in Nat /\ Number(p, Close, n) \in Nat
      /\ Number(p, Open, n + 1) = Number(p, Open, n) + (IF ch = Open THEN 1 ELSE 0)
      /\ Number(p, Close, n + 1) = Number(p, Close, n) + (IF ch = Close THEN 1 ELSE 0)
  BY <1>0, NumberStep
<1>3. ASSUME Before
      PROVE  ch \notin Runs /\ (InTag(p, n - 1) <=> s.left # 0)
  <2>1. n - 1 \in 1..(Len(p) - 1) /\ (n - 1) + 1 = n /\ n - 1 \in Nat \ {0}
    BY <1>0, <1>3 DEF IsPage
  <2>2. ch \notin Runs
    BY <1>3, <2>1 DEF IsPage
  <2>3. p[n - 1] # Open /\ p[n - 1] # Close
    BY <1>3, Characters
  <2>4. /\ Number(p, Open, n - 1) \in Nat /\ Number(p, Close, n - 1) \in Nat
        /\ Number(p, Open, n) = Number(p, Open, n - 1)
        /\ Number(p, Close, n) = Number(p, Close, n - 1)
    <3>1. /\ Number(p, Open, n - 1) \in Nat /\ Number(p, Close, n - 1) \in Nat
          /\ Number(p, Open, (n - 1) + 1)
                = Number(p, Open, n - 1) + (IF p[n - 1] = Open THEN 1 ELSE 0)
          /\ Number(p, Close, (n - 1) + 1)
                = Number(p, Close, n - 1) + (IF p[n - 1] = Close THEN 1 ELSE 0)
      BY <2>1, NumberStep
    <3>2. QED
      BY <2>1, <2>3, <3>1
  <2>5. QED
    BY <1>1, <2>2, <2>4 DEF InTag
<1>4. Skips(p, n) <=>
         ch # Open /\ (Skips(p, n - 1) \/ (n > 1 /\ p[n - 1] = Style /\ InTag(p, n - 1)))
  BY <1>0, SkipStep
<1>5. \A w : /\ Cardinality(Listed(p, n - 1, w)) \in Nat
             /\ Cardinality(Listed(p, n, w)) = Cardinality(Listed(p, n - 1, w))
                + (IF n > 1 /\ p[n - 1] = w /\ ~InTag(p, n - 1) /\ ~Skips(p, n - 1)
                   THEN 1 ELSE 0)
  BY <1>0, ListedStep
<1> HIDE DEF Before, ch
<1>6. t.left = Number(p, Open, n + 1) - Number(p, Close, n + 1)
  <2>1. CASE ch \in Runs
    BY <1>1, <1>2, <2>1, Characters DEF WordStep
  <2>2. CASE ch \notin Runs
    <3>1. t.left = Nesting(s.left, ch)
      BY <2>2 DEF WordStep
    <3>2. QED
      BY <1>1, <1>2, <3>1 DEF Nesting
  <2>3. QED
    BY <2>1, <2>2
<1>7. t.word = IF n > 0 /\ p[n] \in Runs THEN <<p[n]>> ELSE <<>>
  BY <1>0 DEF WordStep, ch
<1>8. t.skip = Skips(p, n)
  <2>1. CASE ch \in Runs
    <3>1. ~Before /\ ch # Open /\ t.skip = s.skip
      BY <1>3, <2>1, Characters DEF WordStep
    <3>2. ~(n > 1 /\ p[n - 1] = Style)
      BY <3>1, Characters DEF Before
    <3>3. Skips(p, n) <=> Skips(p, n - 1)
      BY <1>4, <3>1, <3>2
    <3>4. Skips(p, n) \in BOOLEAN /\ Skips(p, n - 1) \in BOOLEAN
      BY DEF Skips
    <3>5. QED
      BY <1>1, <3>1, <3>3, <3>4
  <2>2. CASE ch \notin Runs
    <3>1. t.skip = (ch # Open /\ (s.skip \/ (s.left # 0 /\ s.word = <<Style>>)))
      BY <2>2 DEF WordStep
    <3>2. s.word = <<Style>> <=> n > 1 /\ p[n - 1] = Style
      BY <1>1, Characters DEF Before
    <3>3. n > 1 /\ p[n - 1] = Style => (InTag(p, n - 1) <=> s.left # 0)
      BY <1>3, Characters DEF Before
    <3>4. Skips(p, n) \in BOOLEAN
      BY DEF Skips
    <3>5. QED
      BY <1>0, <1>1, <1>4, <3>1, <3>2, <3>3, <3>4
  <2>3. QED
    BY <2>1, <2>2
<1>9. ASSUME NEW w \in Runs
      PROVE  Times(t.list, w) = Cardinality(Listed(p, n, w))
  <2>0. Times(s.list, w) = Cardinality(Listed(p, n - 1, w))
    BY <1>1
  <2>1. CASE ~Before
    <3>1. t.list = s.list
      <4>1. s.word = <<>>
        BY <1>1, <2>1
      <4>2. s.list \o <<>> = s.list
        BY <1>0
      <4>3. QED
        BY <4>1, <4>2 DEF WordStep
    <3>2. ~(n > 1 /\ p[n - 1] = w)
      BY <2>1 DEF Before
    <3>3. QED
      BY <1>5, <2>0, <3>1, <3>2
  <2>2. CASE Before
    <3>1. p[n - 1] \in Runs /\ n > 1 /\ ch \notin Runs /\ s.word = <<p[n - 1]>>
          /\ (InTag(p, n - 1) <=> s.left # 0)
      BY <1>1, <1>3, <2>2 DEF Before
    <3>2. t.list = IF s.left = 0 /\ ~s.skip THEN s.list \o <<p[n - 1]>> ELSE s.list
      BY <3>1 DEF WordStep
    <3>3. /\ Times(s.list, w) \in Nat
          /\ Times(s.list \o <<p[n - 1]>>, w)
                = Times(s.list, w) + (IF p[n - 1] = w THEN 1 ELSE 0)
      BY <1>0, <3>1, TimesStep
    <3>4. QED
      BY <1>1, <1>5, <2>0, <3>1, <3>2, <3>3
  <2>3. QED
    BY <2>1, <2>2
<1>10. QED
  BY <1>6, <1>7, <1>8, <1>9 DEF ParseInv, ch

\* The words that html_to_words lists are those the reference counts.
LEMMA WordsListed ==
    ASSUME NEW p, IsPage(p)
    PROVE  /\ HtmlToWords(p) \in Seq(Runs)
           /\ \A w \in Runs : Times(HtmlToWords(p), w) = Cardinality(Listed(p, Len(p), w))
<1>1. p \in Seq(Tokens) /\ Len(p) \in Nat /\ \A n \in 1..Len(p) : p[n] \in Tokens
  BY DEF IsPage
<1>2. PICK After \in [0..Len(p) -> WordStates] :
         /\ After[0] = NoWords
         /\ \A n \in 1..Len(p) : After[n] = WordStep(After[n - 1], p[n])
         /\ HtmlToWords(p) = After[Len(p)].list
  BY <1>1, WordsFold
<1> DEFINE T == {n \in 0..Len(p) : ParseInv(p, n, After[n])}
<1>3. 0 \in T
  <2>1. 0 + 1 = 1 /\ ~(0 > 0)
    OBVIOUS
  <2>2. Number(p, Open, 1) = 0 /\ Number(p, Close, 1) = 0
    BY NumberZero
  <2>3. ~Skips(p, 0) /\ Skips(p, 0) \in BOOLEAN
    BY DEF Skips
  <2>4. \A w : Times(<<>>, w) = 0 /\ Cardinality(Listed(p, 0, w)) = 0
    <3> TAKE w
    <3>1. {i \in DOMAIN <<>> : <<>>[i] = w} = {} /\ Listed(p, 0, w) = {}
      BY DEF Listed
    <3>2. QED
      BY <3>1, FS_EmptySet DEF Times
  <2>5. ParseInv(p, 0, NoWords)
    BY <2>1, <2>2, <2>3, <2>4 DEF ParseInv, NoWords
  <2>6. QED
    BY <1>1, <1>2, <2>5
<1>4. ASSUME NEW n \in 1..Len(p), n - 1 \in T
      PROVE  n \in T
  <2>1. n - 1 \in 0..Len(p) /\ n \in 0..Len(p) /\ ParseInv(p, n - 1, After[n - 1])
    BY <1>1, <1>4
  <2>2. After[n - 1] \in WordStates /\ After[n] = WordStep(After[n - 1], p[n])
    BY <1>2, <2>1
  <2>3. ParseInv(p, n, After[n])
    BY <2>1, <2>2, ParseStep
  <2>4. QED
    BY <2>1, <2>3
<1> HIDE DEF T
<1>5. 0..Len(p) \subseteq T
  BY <1>1, <1>3, <1>4, UpTo
<1>6. ParseInv(p, Len(p), After[Len(p)]) /\ After[Len(p)] \in WordStates
  BY <1>1, <1>2, <1>5 DEF T
<1>7. QED
  BY <1>2, <1>6 DEF ParseInv, WordStates

(* A report says of every word how often it stands in the text of its page.   *)
THEOREM DictCounts ==
    \A p \in Pages :
        /\ \A w \in Runs : Frequency[p][w] = Count[p][w] /\ Count[p][w] \in Nat
        /\ Count[p][Empty] = 0
<1> TAKE p \in Pages
<1>1. IsPage(p) /\ p \in Seq(Tokens) /\ Len(p) \in Nat /\ \A n \in 1..Len(p) : p[n] \in Tokens
  BY QueryAssumption DEF IsPage
<1>2. Empty \notin Tokens /\ Open \notin Runs
  BY TokenAssumption DEF Tokens, Runs
<1> DEFINE Counted(w) == {i \in DOMAIN p : p[i] = w /\ Counts(p, i)}
<1>3. \A w \in Runs \cup {Empty} : Count[p][w] = Cardinality(Counted(w))
  BY DEF Count
<1>4. ASSUME NEW w \in Runs
      PROVE  Frequency[p][w] = Count[p][w] /\ Count[p][w] \in Nat
  <2>1. Frequency[p][w] = Times(HtmlToWords(p), w)
    BY DEF Frequency, WordDict, Times
  <2>2. Frequency[p][w] = Cardinality(Listed(p, Len(p), w))
    BY <1>1, <2>1, WordsListed
  <2>3. ASSUME NEW i \in 1..(Len(p) - 1), p[i] = w, ~InTag(p, i)
        PROVE  ~Skips(p, i) <=> Counts(p, i)
    <3>1. i < Len(p) /\ i \in Nat /\ p[i] # Open
      BY <1>1, <1>2, <2>3
    <3>2. ASSUME NEW k \in 1..(i - 1)
          PROVE  (\A j \in (k + 1)..i : p[j] # Open)
                    <=> ~ \E j \in (k + 1)..(i - 1) : p[j] = Open
      <4>1. \A j \in (k + 1)..i : j = i \/ j \in (k + 1)..(i - 1)
        BY <3>1
      <4>2. \A j \in (k + 1)..(i - 1) : j \in (k + 1)..i
        BY <3>1
      <4>3. QED
        BY <3>1, <4>1, <4>2
    <3>3. QED
      BY <2>3, <3>1, <3>2 DEF Skips, Counts
  <2>4. Listed(p, Len(p), w) = Counted(w)
    <3>1. \A i \in Listed(p, Len(p), w) : i \in Counted(w)
      BY <1>1, <2>3 DEF Listed
    <3>2. \A i \in Counted(w) : i \in 1..(Len(p) - 1) /\ p[i] = w /\ ~InTag(p, i) /\ Counts(p, i)
      BY <1>1 DEF Counts
    <3>3. \A i \in Counted(w) : i \in Listed(p, Len(p), w)
      BY <2>3, <3>2 DEF Listed
    <3>4. QED
      BY <3>1, <3>3
  <2>5. Cardinality(Counted(w)) \in Nat
    <3>1. Counted(w) \in SUBSET (1..Len(p))
      BY <1>1
    <3> HIDE DEF Counted
    <3>2. QED
      BY <1>1, <3>1, IndicesFinite
  <2>6. QED
    BY <1>3, <2>2, <2>4, <2>5
<1>5. Count[p][Empty] = 0
  <2>1. Counted(Empty) = {}
    BY <1>1, <1>2
  <2> HIDE DEF Counted
  <2>2. QED
    BY <1>3, <2>1, FS_EmptySet
<1>6. QED
  BY <1>4, <1>5

----------------------------------------------------------------------------
(* html_to_sentences lists sequences of characters.                        *)

SqueezeStep(str, ch) ==
    IF ch = Space /\ (str = <<>> \/ Last(str) = Space) THEN str ELSE Append(str, ch)

LEMMA SqueezeType ==
    ASSUME NEW text \in Seq(Tokens)
    PROVE  Squeeze(text) \in Seq(Tokens)
<1> DEFINE N == Len(text)
           V == Seq(Tokens)
           Solves(f) == f = [n \in 0..N |-> IF n = 0 THEN <<>>
                                            ELSE SqueezeStep(f[n - 1], text[n])]
           After == CHOOSE f : Solves(f)
           step == [x \in (1..N) \X V |-> SqueezeStep(x[2], text[x[1]])]
<1>1. N \in Nat /\ <<>> \in V /\ \A n \in 1..N : text[n] \in Tokens
  OBVIOUS
<1>2. \A str \in V, ch \in Tokens : SqueezeStep(str, ch) \in V
  BY DEF SqueezeStep
<1>3. Squeeze(text) = After[N]
  BY DEF Squeeze, SqueezeStep
<1> HIDE DEF V
<1>4. step \in Steps(N, V)
  BY <1>1, <1>2 DEF Steps
<1>5. \A n \in 1..N, str \in V : step[<<n, str>>] = SqueezeStep(str, text[n])
  OBVIOUS
<1> HIDE DEF step, N
<1>6. \E f : Solves(f)
  <2>1. Solutions(<<>>, N, V, step) # {}
    BY <1>1, <1>4, RecursionExists
  <2>2. PICK f \in [0..N -> V] :
           f[0] = <<>> /\ \A n \in 1..N : f[n] = step[<<n, f[n - 1]>>]
    BY <2>1 DEF Solutions
  <2>3. \A n \in 0..N : f[n] = IF n = 0 THEN <<>> ELSE SqueezeStep(f[n - 1], text[n])
    <3> TAKE n \in 0..N
    <3>1. n = 0 \/ (n \in 1..N /\ n - 1 \in 0..N)
      BY <1>1
    <3>2. QED
      BY <1>5, <2>2, <3>1
  <2>4. Solves(f)
    BY <2>2, <2>3
  <2>5. QED
    BY <2>4
<1>7. Solves(After)
  BY <1>6
<1> HIDE DEF After
<1>8. After[0] = <<>> /\ \A n \in 1..N : After[n - 1] \in V => After[n] \in V
  BY <1>1, <1>2, <1>7
<1>9. \A n \in 0..N : After[n] \in V
  BY <1>1, <1>8, RecursionType
<1>10. QED
  BY <1>1, <1>3, <1>9 DEF V

SentenceStates == [left : Int, text : Seq(Tokens), skip : BOOLEAN, list : Seq(Seq(Tokens))]
NoSentences == [left |-> 0, text |-> <<>>, skip |-> FALSE, list |-> <<>>]

LEMMA SentenceStepType ==
    ASSUME NEW s \in SentenceStates
    PROVE  /\ ListSentence(s) \in Seq(Seq(Tokens))
           /\ \A ch \in Tokens : SentenceStep(s, ch) \in SentenceStates
<1>1. s.left \in Int /\ s.text \in Seq(Tokens) /\ s.skip \in BOOLEAN /\ s.list \in Seq(Seq(Tokens))
  BY DEF SentenceStates
<1>2. ListSentence(s) \in Seq(Seq(Tokens))
  BY <1>1, SqueezeType DEF ListSentence
<1>3. ASSUME NEW ch \in Tokens
      PROVE  SentenceStep(s, ch) \in SentenceStates
  <2>1. CASE ch \notin {Open, Close}
    <3>1. Append(s.text, ch) \in Seq(Tokens)
      BY <1>1
    <3>2. QED
      BY <1>1, <2>1, <3>1 DEF SentenceStep, SentenceStates
  <2>2. CASE ch \in {Open, Close}
    <3>1. Nesting(s.left, ch) \in Int /\ <<>> \in Seq(Tokens)
      BY <1>1 DEF Nesting
    <3>2. (ch # Open /\ (s.skip \/ (s.left # 0 /\ s.text # <<>> /\ Head(s.text) = Style)))
             \in BOOLEAN
      OBVIOUS
    <3>3. QED
      BY <1>2, <2>2, <3>1, <3>2 DEF SentenceStep, SentenceStates
  <2>3. QED
    BY <2>1, <2>2
<1>4. QED
  BY <1>2, <1>3

LEMMA SentencesType ==
    ASSUME NEW page \in Seq(Tokens)
    PROVE  HtmlToSentences(page) \in Seq(Seq(Tokens))
<1> DEFINE N == Len(page)
           V == SentenceStates
           Solves(f) == f = [n \in 0..N |-> IF n = 0 THEN NoSentences
                                            ELSE SentenceStep(f[n - 1], page[n])]
           After == CHOOSE f : Solves(f)
           step == [x \in (1..N) \X V |-> SentenceStep(x[2], page[x[1]])]
<1>1. N \in Nat /\ NoSentences \in V /\ \A n \in 1..N : page[n] \in Tokens
  BY DEF NoSentences, SentenceStates
<1>3. HtmlToSentences(page) = ListSentence(After[N])
  BY DEF HtmlToSentences, NoSentences
<1> HIDE DEF V
<1>2. \A s \in V, ch \in Tokens : SentenceStep(s, ch) \in V
  BY SentenceStepType DEF V
<1>4. step \in Steps(N, V)
  BY <1>1, <1>2 DEF Steps
<1>5. \A n \in 1..N, s \in V : step[<<n, s>>] = SentenceStep(s, page[n])
  OBVIOUS
<1> HIDE DEF step, N
<1>6. \E f : Solves(f)
  <2>1. Solutions(NoSentences, N, V, step) # {}
    BY <1>1, <1>4, RecursionExists
  <2>2. PICK f \in [0..N -> V] :
           f[0] = NoSentences /\ \A n \in 1..N : f[n] = step[<<n, f[n - 1]>>]
    BY <2>1 DEF Solutions
  <2>3. \A n \in 0..N : f[n] = IF n = 0 THEN NoSentences ELSE SentenceStep(f[n - 1], page[n])
    <3> TAKE n \in 0..N
    <3>1. n = 0 \/ (n \in 1..N /\ n - 1 \in 0..N)
      BY <1>1
    <3>2. QED
      BY <1>5, <2>2, <3>1
  <2>4. Solves(f)
    BY <2>2, <2>3
  <2>5. QED
    BY <2>4
<1>7. Solves(After)
  BY <1>6
<1> HIDE DEF After
<1>8. After[0] = NoSentences /\ \A n \in 1..N : After[n - 1] \in V => After[n] \in V
  <2>1. After[0] = NoSentences /\ \A n \in 1..N : After[n] = SentenceStep(After[n - 1], page[n])
    BY <1>1, <1>7
  <2>2. QED
    BY <1>1, <1>2, <2>1
<1>9. \A n \in 0..N : After[n] \in V
  BY <1>1, <1>8, RecursionType
<1>10. QED
  BY <1>1, <1>3, <1>9, SentenceStepType DEF V

----------------------------------------------------------------------------
(* Least and greatest numbers, beginnings of sequences.                    *)

LEMMA MinOfNumbers ==
    ASSUME NEW T \in SUBSET Nat, T # {}
    PROVE  Min(T) \in T /\ \A y \in T : Min(T) <= y
BY LeastNumber DEF Min

LEMMA MaxOfNumbers ==
    ASSUME NEW N \in Nat, NEW T \in SUBSET (0..N), T # {}
    PROVE  Max(T) \in T /\ \A y \in T : y <= Max(T)
<1>1. Max(T) = Greatest(T)
  BY DEF Max, Greatest
<1>2. Greatest(T) \in T /\ \A y \in T : Greatest(T) >= y
  BY GreatestNumber
<1>3. QED
  BY <1>1, <1>2

LEMMA Beginning ==
    ASSUME NEW S, NEW s \in Seq(S), NEW n \in 0..Len(s)
    PROVE  /\ SubSeq(s, 1, n) \in Seq(S) /\ Len(SubSeq(s, 1, n)) = n
           /\ \A i \in 1..n : SubSeq(s, 1, n)[i] = s[i]
OBVIOUS

LEMMA SplitStringType ==
    ASSUME NEW S, NEW q \in Seq(S), q # <<>>
    PROVE  SplitString(q) \in Seq(S)
<1>1. Len(q) \in Nat /\ Len(q) > 0
  OBVIOUS
<1>2. \A a \in {1, 2}, b \in {Len(q) - 1, Len(q)} : SubSeq(q, a, b) \in Seq(S)
  BY <1>1
<1>3. QED
  BY <1>2 DEF SplitString

----------------------------------------------------------------------------
(* What is in the table of the ranks and in its orders.                    *)

Hits(lists, f) == {i \in DOMAIN lists : lists[i][f] > 0}

RankOf(lists, f) ==
    [file |-> f, num |-> Cardinality(Hits(lists, f)),
     freq |-> Min({lists[i][f] : i \in Hits(lists, f)})]

LEMMA StatIs ==
    ASSUME NEW lists
    PROVE  Stat(lists) = {RankOf(lists, f) : f \in {g \in Pages : Hits(lists, g) # {}}}
BY DEF Stat, RankOf, Hits

LEMMA RankOfType ==
    ASSUME NEW lists \in Seq(Postings), NEW f \in Pages, Hits(lists, f) # {}
    PROVE  RankOf(lists, f) \in Ranks
<1>1. Hits(lists, f) \in SUBSET (1..Len(lists)) /\ Len(lists) \in Nat
  BY DEF Hits
<1>2. Cardinality(Hits(lists, f)) \in Nat
  BY <1>1, IndicesFinite
<1> DEFINE T == {lists[i][f] : i \in Hits(lists, f)}
<1>3. T \in SUBSET Nat /\ T # {}
  <2>1. \A i \in Hits(lists, f) : lists[i] \in Postings
    BY <1>1
  <2>2. \A i \in Hits(lists, f) : lists[i][f] \in Nat
    BY <2>1 DEF Postings
  <2>3. QED
    BY <2>2
<1> HIDE DEF T
<1>4. Min(T) \in Nat
  BY <1>3, MinOfNumbers
<1>5. QED
  BY <1>2, <1>4 DEF RankOf, Ranks, T

LEMMA StatType ==
    ASSUME NEW lists \in Seq(Postings)
    PROVE  /\ Stat(lists) \in SUBSET Ranks /\ IsFiniteSet(Stat(lists))
           /\ \A r \in Stat(lists) : r = RankOf(lists, r.file) /\ Hits(lists, r.file) # {}
<1> DEFINE S == {g \in Pages : Hits(lists, g) # {}}
           map == [g \in S |-> RankOf(lists, g)]
<1>1. Stat(lists) \in SUBSET Ranks
  BY StatIs, RankOfType
<1>2. \A r \in Stat(lists) : r = RankOf(lists, r.file) /\ Hits(lists, r.file) # {}
  <2> TAKE r \in Stat(lists)
  <2>1. PICK f \in S : r = RankOf(lists, f)
    BY StatIs
  <2>2. r.file = f
    BY <2>1 DEF RankOf
  <2>3. QED
    BY <2>1, <2>2
<1>3. IsFiniteSet(S)
  <2>1. S \in SUBSET Pages
    OBVIOUS
  <2> HIDE DEF S
  <2>2. QED
    BY <2>1, QueryAssumption, FS_Subset
<1>4. map \in Surjection(S, Stat(lists))
  <2>1. Stat(lists) = {RankOf(lists, f) : f \in S}
    BY StatIs
  <2> HIDE DEF S
  <2>2. QED
    BY <2>1 DEF Surjection
<1> HIDE DEF map, S
<1>5. IsFiniteSet(Stat(lists))
  BY <1>3, <1>4, FS_Surjection
<1>6. QED
  BY <1>1, <1>2, <1>5

LEMMA SortedFacts ==
    ASSUME NEW lists \in Seq(Postings), NEW s \in Sorted(Stat(lists))
    PROVE  /\ s \in Seq(Ranks)
           /\ \A i \in DOMAIN s : s[i] \in Stat(lists)
           /\ \A r \in Stat(lists) : \E i \in DOMAIN s : s[i] = r
           /\ \A i, j \in DOMAIN s : s[i].file = s[j].file => i = j
           /\ \A j \in DOMAIN s : \A i \in 1..j - 1 : ~Precedes(s[j], s[i])
<1> DEFINE S == Stat(lists)
           D == 1..Cardinality(S)
<1>1. IsFiniteSet(S) /\ Cardinality(S) \in Nat /\ S \in SUBSET Ranks
  BY StatType, FS_CardinalityType
<1>2. /\ s \in [D -> S] /\ \A i, j \in D : i # j => s[i] # s[j]
      /\ \A j \in DOMAIN s : \A i \in 1..j - 1 : ~Precedes(s[j], s[i])
  BY DEF Sorted, SetToSeqs
<1> HIDE DEF S
<1>3. s \in Injection(D, S)
  BY <1>2 DEF Injection, IsInjective
<1>4. IsFiniteSet(D) /\ Cardinality(D) = Cardinality(S)
  BY <1>1, FS_Interval
<1> HIDE DEF D
<1>5. s \in Surjection(D, S)
  BY <1>1, <1>3, <1>4, FS_Injection
<1>6. \A r \in S : \E i \in D : s[i] = r
  BY <1>5 DEF Surjection
<1>7. DOMAIN s = D /\ \A i \in D : s[i] \in S
  BY <1>2
<1>8. \A i, j \in D : s[i].file = s[j].file => i = j
  <2>1. \A r \in S : r = RankOf(lists, r.file)
    BY StatType DEF S
  <2>2. \A i, j \in D : s[i].file = s[j].file => s[i] = s[j]
    BY <1>7, <2>1
  <2>3. QED
    BY <1>2, <2>2
<1>9. s \in Seq(Ranks)
  BY <1>1, <1>7, <1>2 DEF D
<1>10. QED
  BY <1>2, <1>6, <1>7, <1>8, <1>9 DEF S

\* No file twice: as many files as entries.
LEMMA FilesListed ==
    ASSUME NEW r \in Seq(Ranks), \A i, j \in DOMAIN r : r[i].file = r[j].file => i = j
    PROVE  Cardinality({r[i].file : i \in DOMAIN r}) = Len(r)
<1> DEFINE D == DOMAIN r
           F == {r[i].file : i \in D}
           file == [i \in D |-> r[i].file]
<1>1. D = 1..Len(r) /\ Len(r) \in Nat
  OBVIOUS
<1>2. IsFiniteSet(D) /\ Cardinality(D) = Len(r)
  <2> HIDE DEF D
  <2>1. IsFiniteSet(1..Len(r)) /\ Cardinality(1..Len(r)) = Len(r)
    BY <1>1, FS_Interval
  <2>2. QED
    BY <1>1, <2>1
<1>3. file \in Bijection(D, F)
  BY DEF Bijection, Injection, IsInjective, Surjection
<1>4. ExistsBijection(D, F)
  BY <1>3 DEF ExistsBijection
<1> HIDE DEF D, F
<1>5. Cardinality(F) = Cardinality(D)
  BY <1>2, <1>4, FS_Bijection
<1>6. QED
  BY <1>2, <1>5 DEF D, F

----------------------------------------------------------------------------
(* The inductive invariant.                                                *)

\* What a request has at each stage of its handler.
StageInv ==
    /\ pc = "idle" => words = <<>> /\ ffls = <<>>
    /\ pc \in {"idle", "search", "refused"} => rank = <<>> /\ texts = <<>> /\ fetched = 0
    /\ pc = "fetch" => kind = "search"
    /\ pc \in {"fetch", "answered"} => Len(ffls) = Len(words)

\* The answer is cut out of an order of the lists' files.
RankInv ==
    /\ pc = "answered" /\ kind = "query" =>
          \E s \in Sorted(Stat(ffls)) : rank = WithAllWords(s)
    /\ pc \in {"fetch", "answered"} /\ kind = "search" =>
          \E s \in Sorted(Stat(ffls)) : rank = Cut(s)

\* A word that is not waiting for its update is indexed.
IndexedInv ==
    \A f \in located, w \in Runs : w \notin left[f] => index[w][f] = Frequency[f][w]

\* A list is right about each file in it, and complete for the known ones.
ListsInv ==
    \A i \in DOMAIN ffls :
        /\ \A f \in Pages : ffls[i][f] \in {0, Count[f][words[i]]}
        /\ \A f \in known : ffls[i][f] = Count[f][words[i]]

KnownInv == \A f \in known : left[f] = {}

QueryInv == TypeOK /\ StageInv /\ RankInv /\ IndexedInv /\ ListsInv /\ KnownInv

requestVars == <<pc, kind, words, ffls, rank, texts, fetched, known>>

LEMMA SameRequest ==
    ASSUME StageInv, RankInv, ListsInv, UNCHANGED requestVars
    PROVE  StageInv' /\ RankInv' /\ ListsInv'
<1>1. StageInv'
  BY DEF StageInv, requestVars
<1>2. RankInv'
  BY DEF RankInv, requestVars, WithAllWords
<1>3. ListsInv'
  BY DEF ListsInv, requestVars
<1>4. QED
  BY <1>1, <1>2, <1>3

LEMMA SameTables ==
    ASSUME IndexedInv, UNCHANGED tableVars
    PROVE  IndexedInv'
BY DEF IndexedInv, tableVars

LEMMA InitInv == Init => QueryInv
<1> SUFFICES ASSUME Init PROVE QueryInv
  OBVIOUS
<1>1. TypeOK
  <2>1. NoPostings \in Postings
    BY DEF NoPostings, Postings
  <2>2. \A f \in Pages : NoPostings[f] = 0
    BY DEF NoPostings
  <2>3. /\ words \in Seq(Words \cup {Empty}) /\ ffls \in Seq(Postings) /\ rank \in Seq(Ranks)
        /\ texts \in Seq(Seq(Seq(Tokens)))
        /\ Len(words) = 0 /\ Len(ffls) = 0 /\ Len(rank) = 0 /\ Len(texts) = 0
    BY DEF Init
  <2>4. index \in [Runs -> Postings] /\ \A w \in Runs, f \in Pages : index[w][f] = 0
    BY <2>1, <2>2 DEF Init
  <2>5. left \in [Pages -> SUBSET Runs] /\ \A f \in Pages : left[f] = {}
    BY DEF Init
  <2>6. QED
    BY <2>3, <2>4, <2>5 DEF Init, TypeOK
<1>2. StageInv /\ RankInv
  BY DEF Init, StageInv, RankInv
<1>3. IndexedInv /\ ListsInv /\ KnownInv
  BY DEF Init, IndexedInv, ListsInv, KnownInv
<1>4. QED
  BY <1>1, <1>2, <1>3 DEF QueryInv

LEMMA SetFileInfoInv ==
    ASSUME QueryInv, NEW f \in Pages, SetFileInfo(f)
    PROVE  QueryInv'
<1> DEFINE Ws == {w \in Runs : Frequency[f][w] > 0}
<1>0. /\ f \notin located /\ located' = located \cup {f} /\ left' = [left EXCEPT ![f] = Ws]
      /\ UNCHANGED index /\ UNCHANGED requestVars
  BY DEF SetFileInfo, requestVars
<1>1. /\ left \in [Pages -> SUBSET Runs] /\ \A g \in Pages \ located : left[g] = {}
      /\ index \in [Runs -> Postings] /\ \A w \in Runs, g \in Pages : index[w][g] \in {0, Frequency[g][w]}
      /\ known \subseteq located /\ located \subseteq Pages
  BY DEF QueryInv, TypeOK
<1>2. TypeOK'
  <2>1. Ws \in SUBSET Runs
    OBVIOUS
  <2>2. left' \in [Pages -> SUBSET Runs] /\ \A g \in Pages \ located' : left'[g] = {}
    BY <1>0, <1>1, <2>1
  <2> HIDE DEF Ws
  <2>3. QED
    BY <1>0, <1>1, <2>2 DEF QueryInv, TypeOK, requestVars
<1>3. StageInv' /\ RankInv' /\ ListsInv'
  BY <1>0, SameRequest DEF QueryInv
<1>4. IndexedInv'
  <2> SUFFICES ASSUME NEW g \in located', NEW w \in Runs, w \notin left'[g]
               PROVE  index'[w][g] = Frequency[g][w]
    BY DEF IndexedInv
  <2>1. CASE g = f
    <3>1. w \notin Ws
      BY <1>0, <1>1, <2>1
    <3>2. Frequency[f][w] \in Nat
      BY DictCounts
    <3>3. QED
      BY <1>0, <1>1, <2>1, <3>1, <3>2
  <2>2. CASE g # f
    <3>1. g \in located /\ left'[g] = left[g]
      BY <1>0, <1>1, <2>2
    <3>2. QED
      BY <1>0, <3>1 DEF QueryInv, IndexedInv
  <2>3. QED
    BY <2>1, <2>2
<1>5. KnownInv'
  BY <1>0, <1>1 DEF QueryInv, KnownInv, requestVars
<1>6. QED
  BY <1>2, <1>3, <1>4, <1>5 DEF QueryInv

LEMMA UpdateWordInv ==
    ASSUME QueryInv, NEW f \in Pages, NEW w \in Runs, UpdateWord(f, w)
    PROVE  QueryInv'
<1>0. /\ w \in left[f] /\ index' = [index EXCEPT ![w][f] = Frequency[f][w]]
      /\ left' = [left EXCEPT ![f] = @ \ {w}]
      /\ UNCHANGED located /\ UNCHANGED requestVars
  BY DEF UpdateWord, requestVars
<1>1. /\ left \in [Pages -> SUBSET Runs] /\ \A g \in Pages \ located : left[g] = {}
      /\ index \in [Runs -> Postings] /\ \A v \in Runs, g \in Pages : index[v][g] \in {0, Frequency[g][v]}
      /\ known \subseteq located /\ located \subseteq Pages
  BY DEF QueryInv, TypeOK
<1>2. Frequency[f][w] \in Nat
  BY DictCounts
<1>3. /\ index' \in [Runs -> Postings] /\ index'[w][f] = Frequency[f][w]
      /\ \A v \in Runs, g \in Pages : v # w \/ g # f => index'[v][g] = index[v][g]
  <2>1. /\ index[w] \in [Pages -> Nat]
        /\ index' = [index EXCEPT ![w] = [index[w] EXCEPT ![f] = Frequency[f][w]]]
    BY <1>0, <1>1 DEF Postings
  <2>2. [index[w] EXCEPT ![f] = Frequency[f][w]] \in [Pages -> Nat]
    BY <1>2, <2>1
  <2>3. QED
    BY <1>1, <2>1, <2>2 DEF Postings
<1>4. /\ left' \in [Pages -> SUBSET Runs] /\ \A g \in Pages : left'[g] \subseteq left[g]
      /\ \A g \in Pages, v \in Runs : v \in left[g] /\ v \notin left'[g] => g = f /\ v = w
  BY <1>0, <1>1
<1>5. TypeOK'
  <2>1. \A v \in Runs, g \in Pages : index'[v][g] \in {0, Frequency[g][v]}
    BY <1>1, <1>3
  <2>2. \A g \in Pages \ located' : left'[g] = {}
    BY <1>0, <1>1, <1>4
  <2>3. QED
    BY <1>0, <1>1, <1>3, <1>4, <2>1, <2>2 DEF QueryInv, TypeOK, requestVars
<1>6. StageInv' /\ RankInv' /\ ListsInv'
  BY <1>0, SameRequest DEF QueryInv
<1>7. IndexedInv'
  <2> SUFFICES ASSUME NEW g \in located, NEW v \in Runs, v \notin left'[g]
               PROVE  index'[v][g] = Frequency[g][v]
    BY <1>0 DEF IndexedInv
  <2>1. CASE g = f /\ v = w
    BY <1>3, <2>1
  <2>2. CASE g # f \/ v # w
    <3>1. g \in Pages /\ v \notin left[g] /\ index'[v][g] = index[v][g]
      BY <1>1, <1>3, <1>4, <2>2
    <3>2. QED
      BY <3>1 DEF QueryInv, IndexedInv
  <2>3. QED
    BY <2>1, <2>2
<1>8. KnownInv'
  <2>1. \A g \in known : g \in Pages /\ left[g] = {}
    BY <1>1 DEF QueryInv, KnownInv
  <2>2. QED
    BY <1>0, <1>4, <2>1 DEF KnownInv, requestVars
<1>9. QED
  BY <1>5, <1>6, <1>7, <1>8 DEF QueryInv

LEMMA AskInv ==
    ASSUME QueryInv, NEW k \in {"query", "terms", "search"}, NEW request \in Requests,
           Ask(k, request)
    PROVE  QueryInv'
<1>0. /\ pc = "idle" /\ kind' = k /\ known' = {f \in located : left[f] = {}}
      /\ UNCHANGED <<located, left, index, ffls, rank, texts, fetched>>
  BY DEF Ask, tableVars
<1>1. words' \in Seq(Words \cup {Empty}) /\ pc' \in {"search", "refused"}
  <2>1. request \in Seq(Words \cup {Empty}) /\ request # <<>>
    BY QueryAssumption
  <2>2. SplitString(request) \in Seq(Words \cup {Empty})
    BY <2>1, SplitStringType
  <2>3. \/ pc' = "refused" /\ words' = <<>>
        \/ pc' = "search" /\ words' = SplitString(request)
    BY DEF Ask
  <2>4. <<>> \in Seq(Words \cup {Empty})
    OBVIOUS
  <2>5. QED
    BY <2>2, <2>3, <2>4
<1>2. ffls = <<>> /\ rank = <<>> /\ texts = <<>> /\ fetched = 0
  BY <1>0 DEF QueryInv, StageInv
<1>3. TypeOK'
  <2>1. Len(ffls') <= Len(words')
    BY <1>0, <1>1, <1>2
  <2>2. QED
    BY <1>0, <1>1, <2>1 DEF QueryInv, TypeOK
<1>4. StageInv' /\ RankInv'
  BY <1>0, <1>1, <1>2 DEF StageInv, RankInv
<1>5. IndexedInv'
  BY <1>0, SameTables DEF QueryInv, tableVars
<1>6. ListsInv'
  BY <1>0, <1>2 DEF ListsInv
<1>7. KnownInv'
  BY <1>0 DEF KnownInv
<1>8. QED
  BY <1>3, <1>4, <1>5, <1>6, <1>7 DEF QueryInv

LEMMA SearchWordInv ==
    ASSUME QueryInv, SearchWord
    PROVE  QueryInv'
<1> DEFINE n == Len(ffls) + 1
           w == words[n]
           list == IF w \in Runs THEN index[w] ELSE NoPostings
<1>0. /\ pc = "search" /\ Len(ffls) < Len(words) /\ ffls' = Append(ffls, list)
      /\ UNCHANGED <<located, left, index, pc, kind, words, rank, texts, fetched, known>>
  BY DEF SearchWord, tableVars
<1>1. /\ words \in Seq(Words \cup {Empty}) /\ ffls \in Seq(Postings) /\ Len(ffls) \in Nat
      /\ index \in [Runs -> Postings] /\ \A v \in Runs, f \in Pages : index[v][f] \in {0, Frequency[f][v]}
      /\ known \subseteq located /\ located \subseteq Pages
  BY DEF QueryInv, TypeOK
<1>2. w \in Words \cup {Empty}
  BY <1>0, <1>1
<1>3. list \in Postings /\ \A f \in Pages : list[f] \in {0, Count[f][w]}
  <2>1. CASE w \in Runs
    BY <1>1, <2>1, DictCounts
  <2>2. CASE w \notin Runs
    BY <2>2 DEF NoPostings, Postings
  <2>3. QED
    BY <2>1, <2>2
<1>4. \A f \in known : list[f] = Count[f][w]
  <2> TAKE f \in known
  <2>1. f \in Pages /\ f \in located /\ left[f] = {}
    BY <1>1 DEF QueryInv, KnownInv
  <2>2. CASE w \in Runs
    BY <2>1, <2>2, DictCounts DEF QueryInv, IndexedInv
  <2>3. CASE w \notin Runs
    <3>1. w = Empty
      BY <1>2, <2>3 DEF Runs
    <3>2. QED
      BY <2>1, <2>3, <3>1, DictCounts DEF NoPostings
  <2>4. QED
    BY <2>2, <2>3
<1> HIDE DEF list
<1>5. /\ ffls' \in Seq(Postings) /\ Len(ffls') = n /\ DOMAIN ffls' = 1..n
      /\ ffls'[n] = list /\ \A i \in DOMAIN ffls : ffls'[i] = ffls[i]
      /\ \A i \in 1..n : i = n \/ i \in DOMAIN ffls
  BY <1>0, <1>1, <1>3
<1>6. TypeOK'
  <2>1. Len(ffls') <= Len(words')
    BY <1>0, <1>1, <1>5
  <2>2. QED
    BY <1>0, <1>5, <2>1 DEF QueryInv, TypeOK
<1>7. StageInv' /\ RankInv'
  BY <1>0 DEF QueryInv, StageInv, RankInv
<1>8. IndexedInv'
  BY <1>0, SameTables DEF QueryInv, tableVars
<1>9. ListsInv'
  <2> SUFFICES ASSUME NEW i \in 1..n
               PROVE  /\ \A f \in Pages : ffls'[i][f] \in {0, Count[f][words[i]]}
                      /\ \A f \in known : ffls'[i][f] = Count[f][words[i]]
    BY <1>0, <1>5 DEF ListsInv
  <2>1. CASE i = n
    BY <1>3, <1>4, <1>5, <2>1
  <2>2. CASE i # n
    BY <1>5, <2>2 DEF QueryInv, ListsInv
  <2>3. QED
    BY <2>1, <2>2
<1>10. KnownInv'
  BY <1>0 DEF QueryInv, KnownInv
<1>11. QED
  BY <1>6, <1>7, <1>8, <1>9, <1>10 DEF QueryInv

\* The steps that change neither the tables nor what the request has found.
LEMMA SameFound ==
    ASSUME QueryInv, UNCHANGED <<tableVars, words, ffls, known>>
    PROVE  IndexedInv' /\ ListsInv' /\ KnownInv'
<1>1. IndexedInv'
  BY SameTables DEF QueryInv
<1>2. ListsInv' /\ KnownInv'
  BY DEF QueryInv, ListsInv, KnownInv, tableVars
<1>3. QED
  BY <1>1, <1>2

\* The length to which the answer to a query is cut.
LEMMA AllWordsLength ==
    ASSUME NEW s \in Seq(Ranks)
    PROVE  \E n \in 0..Len(s) :
              /\ WithAllWords(s) = SubSeq(s, 1, n)
              /\ \A i \in 1..n : s[i].num = Len(words)
              /\ n < Len(s) => s[n + 1].num # Len(words)
<1> DEFINE T == {n \in 0..Len(s) : \A i \in 1..n : s[i].num = Len(words)}
           m == Max(T)
<1>1. Len(s) \in Nat /\ T \in SUBSET (0..Len(s)) /\ 0 \in T
  OBVIOUS
<1>2. m \in T /\ \A n \in T : n <= m
  <2> HIDE DEF T
  <2>1. T # {}
    BY <1>1
  <2>2. QED
    BY <1>1, <2>1, MaxOfNumbers
<1>3. WithAllWords(s) = SubSeq(s, 1, m)
  BY DEF WithAllWords
<1> HIDE DEF m
<1>4. m < Len(s) => s[m + 1].num # Len(words)
  <2> SUFFICES ASSUME m < Len(s), s[m + 1].num = Len(words) PROVE FALSE
    OBVIOUS
  <2>1. m + 1 \in 0..Len(s) /\ \A i \in 1..(m + 1) : i = m + 1 \/ i \in 1..m
    BY <1>1, <1>2
  <2>2. m + 1 \in T
    BY <1>2, <2>1
  <2>3. QED
    BY <1>1, <1>2, <2>2
<1>5. QED
  BY <1>2, <1>3, <1>4

LEMMA CutLength ==
    ASSUME NEW s \in Seq(Ranks)
    PROVE  \E n \in 0..Len(s) :
              Cut(s) = SubSeq(s, 1, n) /\ n <= Limit /\ (n < Len(s) => n = Limit)
<1>1. Limit \in Nat /\ Len(s) \in Nat
  BY QueryAssumption
<1>2. /\ Min({Limit, Len(s)}) \in {Limit, Len(s)}
      /\ Min({Limit, Len(s)}) <= Limit /\ Min({Limit, Len(s)}) <= Len(s)
  <2>1. {Limit, Len(s)} \in SUBSET Nat /\ {Limit, Len(s)} # {}
    BY <1>1
  <2>2. /\ Min({Limit, Len(s)}) \in {Limit, Len(s)}
        /\ \A y \in {Limit, Len(s)} : Min({Limit, Len(s)}) <= y
    BY <2>1, MinOfNumbers
  <2>3. QED
    BY <2>2
<1> DEFINE n == Min({Limit, Len(s)})
<1>3. Cut(s) = SubSeq(s, 1, n)
  BY DEF Cut
<1> HIDE DEF n
<1>4. n \in 0..Len(s) /\ n <= Limit /\ (n < Len(s) => n = Limit)
  BY <1>1, <1>2 DEF n
<1>5. QED
  BY <1>3, <1>4

LEMMA RankQueryInv ==
    ASSUME QueryInv, RankQuery
    PROVE  QueryInv'
<1>0. /\ pc = "search" /\ kind = "query" /\ Len(ffls) = Len(words) /\ pc' = "answered"
      /\ UNCHANGED <<located, left, index, kind, words, ffls, texts, fetched, known>>
      /\ \E s \in Sorted(Stat(ffls)) : rank' = WithAllWords(s)
  BY DEF RankQuery, tableVars
<1>1. PICK s \in Sorted(Stat(ffls)) : rank' = WithAllWords(s)
  BY <1>0
<1>2. s \in Seq(Ranks)
  BY SortedFacts DEF QueryInv, TypeOK
<1>3. rank' \in Seq(Ranks)
  BY <1>1, <1>2, AllWordsLength, Beginning
<1>4. texts = <<>> /\ fetched = 0
  BY <1>0 DEF QueryInv, StageInv
<1>5. TypeOK'
  BY <1>0, <1>3, <1>4 DEF QueryInv, TypeOK
<1>6. StageInv'
  BY <1>0 DEF StageInv
<1>7. RankInv'
  <2>1. WithAllWords(s)' = WithAllWords(s)
    BY <1>0 DEF WithAllWords
  <2>2. ffls' = ffls
    BY <1>0
  <2>3. pc' = "answered" /\ kind' = "query"
    BY <1>0
  <2>4. \E t \in Sorted(Stat(ffls')) : rank' = WithAllWords(t)'
    BY <1>1, <2>1, <2>2
  <2>5. QED
    BY <2>3, <2>4 DEF RankInv
<1>8. IndexedInv' /\ ListsInv' /\ KnownInv'
  BY <1>0, SameFound DEF tableVars
<1>9. QED
  BY <1>5, <1>6, <1>7, <1>8 DEF QueryInv

LEMMA AnswerTermsInv ==
    ASSUME QueryInv, AnswerTerms
    PROVE  QueryInv'
<1>0. /\ pc = "search" /\ kind = "terms" /\ Len(ffls) = Len(words) /\ pc' = "answered"
      /\ UNCHANGED <<located, left, index, kind, words, ffls, rank, texts, fetched, known>>
  BY DEF AnswerTerms, tableVars
<1>1. TypeOK'
  BY <1>0 DEF QueryInv, TypeOK
<1>2. StageInv' /\ RankInv'
  BY <1>0 DEF StageInv, RankInv
<1>3. IndexedInv' /\ ListsInv' /\ KnownInv'
  BY <1>0, SameFound DEF tableVars
<1>4. QED
  BY <1>1, <1>2, <1>3 DEF QueryInv

LEMMA RankSearchInv ==
    ASSUME QueryInv, RankSearch
    PROVE  QueryInv'
<1>0. /\ pc = "search" /\ kind = "search" /\ Len(ffls) = Len(words) /\ pc' = "fetch"
      /\ UNCHANGED <<located, left, index, kind, words, ffls, fetched, known>>
  BY DEF RankSearch, tableVars
<1>1. PICK s \in Sorted(Stat(ffls)) :
         rank' = Cut(s) /\ texts' = [i \in DOMAIN Cut(s) |-> <<>>]
  BY DEF RankSearch
<1>2. s \in Seq(Ranks)
  BY SortedFacts DEF QueryInv, TypeOK
<1>3. rank' \in Seq(Ranks)
  BY <1>1, <1>2, CutLength, Beginning
<1>4. texts' \in Seq(Seq(Seq(Tokens))) /\ Len(texts') = Len(rank')
  <2>1. texts' = [i \in 1..Len(rank') |-> <<>>] /\ Len(rank') \in Nat
    BY <1>1, <1>3
  <2>2. <<>> \in Seq(Seq(Tokens))
    OBVIOUS
  <2>3. QED
    BY <2>1, <2>2
<1>5. fetched = 0
  BY <1>0 DEF QueryInv, StageInv
<1>6. TypeOK'
  BY <1>0, <1>3, <1>4, <1>5 DEF QueryInv, TypeOK
<1>7. StageInv' /\ RankInv'
  BY <1>0, <1>1 DEF StageInv, RankInv
<1>8. IndexedInv' /\ ListsInv' /\ KnownInv'
  BY <1>0, SameFound DEF tableVars
<1>9. QED
  BY <1>6, <1>7, <1>8 DEF QueryInv

\* Whatever retrieve_file leaves of a file has sentences.
LEMMA FetchedSentences ==
    ASSUME NEW f \in Pages, NEW content \in Fetched(f)
    PROVE  Sentences[content] \in Seq(Seq(Tokens))
<1>0. \A p \in Pages \cup {ErrorPage} : IsPage(p)
  BY QueryAssumption
<1>1. \A p \in Pages \cup {ErrorPage} : p \in Seq(Tokens)
  BY <1>0 DEF IsPage
<1>2. \A p \in Pages : \A c \in Prefixes(p) : c \in Seq(Tokens)
  <2> TAKE p \in Pages
  <2> TAKE c \in Prefixes(p)
  <2>1. PICK l \in 0..Len(p) : c = SubSeq(p, 1, l)
    BY DEF Prefixes
  <2>2. QED
    BY <1>1, <2>1, Beginning
<1>3. /\ content \in (UNION {Prefixes(p) : p \in Pages}) \cup {<<>>, ErrorPage}
      /\ content \in Seq(Tokens)
  <2>1. CASE content \in Prefixes(f)
    BY <1>2, <2>1
  <2>2. CASE content = ErrorPage
    BY <1>1, <2>2
  <2>3. CASE content = <<>>
    BY <2>3
  <2>4. QED
    BY <2>1, <2>2, <2>3 DEF Fetched
<1>4. Sentences[content] = HtmlToSentences(content)
  BY <1>3 DEF Sentences
<1>5. QED
  BY <1>3, <1>4, SentencesType

LEMMA FetchFileInv ==
    ASSUME QueryInv, FetchFile
    PROVE  QueryInv'
<1>0. /\ pc = "fetch" /\ fetched < Len(rank) /\ fetched' = fetched + 1
      /\ UNCHANGED <<located, left, index, kind, words, ffls, rank, known>>
  BY DEF FetchFile, tableVars
<1>1. PICK content \in Fetched(rank[fetched + 1].file) :
         LET sentences == Sentences[content]
         IN /\ texts' = [j \in DOMAIN texts |->
                            IF j <= Len(sentences) THEN Append(texts[j], sentences[j])
                            ELSE texts[j]]
            /\ pc' \in IF Len(sentences) <= Len(rank) THEN {"fetch"} ELSE {"fetch", "dead"}
  BY DEF FetchFile
<1> DEFINE sentences == Sentences[content]
<1>2. /\ rank \in Seq(Ranks) /\ Len(rank) \in Nat /\ fetched \in 0..Len(rank)
      /\ texts \in Seq(Seq(Seq(Tokens))) /\ Len(texts) \in {0, Len(rank)}
  BY DEF QueryInv, TypeOK
<1>3. sentences \in Seq(Seq(Tokens)) /\ Len(sentences) \in Nat
  <2>1. rank[fetched + 1] \in Ranks
    BY <1>0, <1>2
  <2>2. rank[fetched + 1].file \in Pages
    BY <2>1 DEF Ranks
  <2>3. QED
    BY <2>2, FetchedSentences
<1> HIDE DEF sentences
<1>4. texts' \in Seq(Seq(Seq(Tokens))) /\ Len(texts') = Len(texts)
  <2>1. texts' = [j \in 1..Len(texts) |->
                     IF j <= Len(sentences) THEN Append(texts[j], sentences[j])
                     ELSE texts[j]]
    BY <1>1, <1>2 DEF sentences
  <2>2. ASSUME NEW j \in 1..Len(texts)
        PROVE  (IF j <= Len(sentences) THEN Append(texts[j], sentences[j]) ELSE texts[j])
                  \in Seq(Seq(Tokens))
    <3>1. texts[j] \in Seq(Seq(Tokens)) /\ j \in Nat /\ j > 0
      BY <1>2
    <3>2. j <= Len(sentences) => sentences[j] \in Seq(Tokens)
      BY <1>3, <3>1
    <3>3. QED
      BY <3>1, <3>2
  <2>3. texts' \in [1..Len(texts) -> Seq(Seq(Tokens))] /\ Len(texts) \in Nat
    BY <1>2, <2>1, <2>2
  <2>4. QED
    BY <2>3
<1>5. pc' \in {"fetch", "dead"}
  BY <1>1
<1>6. fetched' \in 0..Len(rank)
  BY <1>0, <1>2
<1>7. TypeOK'
  BY <1>0, <1>2, <1>4, <1>5, <1>6 DEF QueryInv, TypeOK
<1>8. StageInv' /\ RankInv'
  BY <1>0, <1>5 DEF QueryInv, StageInv, RankInv
<1>9. IndexedInv' /\ ListsInv' /\ KnownInv'
  BY <1>0, SameFound DEF tableVars
<1>10. QED
  BY <1>7, <1>8, <1>9 DEF QueryInv

LEMMA AnswerSearchInv ==
    ASSUME QueryInv, AnswerSearch
    PROVE  QueryInv'
<1>0. /\ pc = "fetch" /\ pc' = "answered"
      /\ UNCHANGED <<located, left, index, kind, words, ffls, rank, texts, fetched, known>>
  BY DEF AnswerSearch, tableVars
<1>1. TypeOK'
  BY <1>0 DEF QueryInv, TypeOK
<1>2. StageInv' /\ RankInv'
  BY <1>0 DEF QueryInv, StageInv, RankInv
<1>3. IndexedInv' /\ ListsInv' /\ KnownInv'
  BY <1>0, SameFound DEF tableVars
<1>4. QED
  BY <1>1, <1>2, <1>3 DEF QueryInv

LEMMA ShowInv ==
    ASSUME QueryInv, Show
    PROVE  QueryInv'
<1>0. /\ pc' = "idle" /\ kind' = "query" /\ words' = <<>> /\ ffls' = <<>> /\ rank' = <<>>
      /\ texts' = <<>> /\ fetched' = 0 /\ known' = {}
      /\ UNCHANGED <<located, left, index>>
  BY DEF Show, tableVars
<1>1. TypeOK'
  <2>1. /\ words' \in Seq(Words \cup {Empty}) /\ ffls' \in Seq(Postings) /\ rank' \in Seq(Ranks)
        /\ texts' \in Seq(Seq(Seq(Tokens)))
        /\ Len(words') = 0 /\ Len(ffls') = 0 /\ Len(rank') = 0 /\ Len(texts') = 0
    BY <1>0
  <2>2. QED
    BY <1>0, <2>1 DEF QueryInv, TypeOK
<1>2. StageInv' /\ RankInv'
  BY <1>0 DEF StageInv, RankInv
<1>3. IndexedInv'
  BY <1>0, SameTables DEF QueryInv, tableVars
<1>4. ListsInv' /\ KnownInv'
  BY <1>0 DEF ListsInv, KnownInv
<1>5. QED
  BY <1>1, <1>2, <1>3, <1>4 DEF QueryInv

LEMMA StutterInv ==
    ASSUME QueryInv, UNCHANGED vars
    PROVE  QueryInv'
<1>1. TypeOK'
  BY DEF QueryInv, TypeOK, vars, tableVars
<1>2. StageInv' /\ RankInv' /\ ListsInv'
  BY SameRequest DEF QueryInv, vars, requestVars
<1>3. IndexedInv' /\ KnownInv'
  BY SameFound DEF vars
<1>4. QED
  BY <1>1, <1>2, <1>3 DEF QueryInv

THEOREM Invariant == Spec => []QueryInv
<1>1. ASSUME QueryInv, [Next]_vars PROVE QueryInv'
  <2>1. CASE Next
    BY <1>1, <2>1, SetFileInfoInv, UpdateWordInv, AskInv, SearchWordInv, RankQueryInv,
       AnswerTermsInv, RankSearchInv, FetchFileInv, AnswerSearchInv, ShowInv DEF Next
  <2>2. CASE UNCHANGED vars
    BY <1>1, <2>2, StutterInv
  <2>3. QED
    BY <1>1, <2>1, <2>2
<1>2. QED
  BY <1>1, InitInv, PTL DEF Spec

----------------------------------------------------------------------------
(* What follows for the answers.                                           *)

LEMMA FullHits ==
    ASSUME NEW lists \in Seq(Postings), NEW f, Cardinality(Hits(lists, f)) = Len(lists)
    PROVE  Hits(lists, f) = DOMAIN lists
<1> DEFINE D == 1..Len(lists)
           H == Hits(lists, f)
<1>1. Len(lists) \in Nat /\ D = DOMAIN lists /\ H \in SUBSET D
  BY DEF Hits
<1>2. IsFiniteSet(D) /\ Cardinality(D) = Len(lists)
  BY <1>1, OneTo
<1> HIDE DEF D, H
<1>3. Cardinality(D) = Cardinality(H)
  BY <1>2 DEF H
<1>4. D = H
  BY <1>1, <1>2, <1>3, FS_Subset
<1>5. QED
  BY <1>1, <1>4 DEF H

\* Once every word is looked up, the lists show no hit that the content does
\* not have, and of a known file every hit it has.
LEMMA HitsAsked ==
    ASSUME QueryInv, Len(ffls) = Len(words), NEW f \in Pages
    PROVE  /\ DOMAIN ffls = DOMAIN words
           /\ Hits(ffls, f) \subseteq Asked(f) /\ Asked(f) \subseteq DOMAIN words
           /\ f \in known => Hits(ffls, f) = Asked(f)
           /\ Hits(ffls, f) = Asked(f) => RankOf(ffls, f) = Deserved(f)
<1>1. DOMAIN ffls = DOMAIN words
  <2>1. ffls \in Seq(Postings) /\ words \in Seq(Words \cup {Empty})
    BY DEF QueryInv, TypeOK
  <2>2. QED
    BY <2>1
<1>2. \A i \in DOMAIN ffls : /\ ffls[i][f] \in {0, Count[f][words[i]]}
                             /\ f \in known => ffls[i][f] = Count[f][words[i]]
  BY DEF QueryInv, ListsInv
<1>3. \A i \in Hits(ffls, f) : i \in DOMAIN ffls /\ ffls[i][f] = Count[f][words[i]]
  BY <1>2 DEF Hits
<1>4. Hits(ffls, f) \subseteq Asked(f) /\ Asked(f) \subseteq DOMAIN words
  BY <1>1, <1>3 DEF Hits, Asked
<1>5. f \in known => Hits(ffls, f) = Asked(f)
  BY <1>1, <1>2 DEF Hits, Asked
<1>6. Hits(ffls, f) = Asked(f) => RankOf(ffls, f) = Deserved(f)
  <2>1. {ffls[i][f] : i \in Hits(ffls, f)} = {Count[f][words[i]] : i \in Hits(ffls, f)}
    BY <1>3
  <2>2. QED
    BY <2>1 DEF RankOf, Deserved
<1>7. QED
  BY <1>1, <1>4, <1>5, <1>6

\* A known file with a word that was asked for is ranked as it deserves.
LEMMA KnownRanked ==
    ASSUME QueryInv, Len(ffls) = Len(words), NEW f \in known, Asked(f) # {}
    PROVE  Deserved(f) \in Stat(ffls) /\ f \in Pages
<1>1. f \in Pages
  BY DEF QueryInv, TypeOK
<1>2. Hits(ffls, f) # {} /\ RankOf(ffls, f) = Deserved(f)
  BY <1>1, HitsAsked
<1>3. QED
  BY <1>1, <1>2, StatIs

\* The beginning of an order lists no file twice.
LEMMA RankDistinct ==
    ASSUME NEW s \in Seq(Ranks), NEW n \in 0..Len(s),
           \A i, j \in DOMAIN s : s[i].file = s[j].file => i = j,
           rank = SubSeq(s, 1, n)
    PROVE  /\ Len(rank) = n /\ DOMAIN rank = 1..n /\ \A i \in 1..n : rank[i] = s[i]
           /\ \A i \in 1..n : i \in DOMAIN s
           /\ Cardinality(ListedFiles) = Len(rank)
<1>1. /\ rank \in Seq(Ranks) /\ Len(rank) = n /\ \A i \in 1..n : rank[i] = s[i]
  BY Beginning
<1>2. n \in Nat /\ DOMAIN rank = 1..n /\ \A i \in 1..n : i \in DOMAIN s
  BY <1>1
<1>3. \A i, j \in DOMAIN rank : rank[i].file = rank[j].file => i = j
  BY <1>1, <1>2
<1>4. Cardinality(ListedFiles) = Len(rank)
  BY <1>1, <1>3, FilesListed DEF ListedFiles
<1>5. QED
  BY <1>1, <1>2, <1>4

LEMMA HitsFollow == QueryInv => HitsHaveAllWords
<1> SUFFICES ASSUME QueryInv, pc = "answered", kind = "query"
             PROVE  /\ \A i \in DOMAIN rank :
                          /\ Asked(rank[i].file) = DOMAIN words
                          /\ rank[i] = Deserved(rank[i].file)
                    /\ Cardinality(ListedFiles) = Len(rank)
  BY DEF HitsHaveAllWords
<1>1. Len(ffls) = Len(words) /\ ffls \in Seq(Postings)
  BY DEF QueryInv, StageInv, TypeOK
<1>2. PICK s \in Sorted(Stat(ffls)) : rank = WithAllWords(s)
  BY DEF QueryInv, RankInv
<1>3. /\ s \in Seq(Ranks) /\ \A i \in DOMAIN s : s[i] \in Stat(ffls)
      /\ \A i, j \in DOMAIN s : s[i].file = s[j].file => i = j
  BY <1>1, SortedFacts
<1>4. PICK n \in 0..Len(s) :
         WithAllWords(s) = SubSeq(s, 1, n) /\ \A i \in 1..n : s[i].num = Len(words)
  BY <1>3, AllWordsLength
<1>5. /\ DOMAIN rank = 1..n /\ \A i \in 1..n : rank[i] = s[i] /\ i \in DOMAIN s
      /\ Cardinality(ListedFiles) = Len(rank)
  BY <1>2, <1>3, <1>4, RankDistinct
<1>6. ASSUME NEW i \in DOMAIN rank
      PROVE  Asked(rank[i].file) = DOMAIN words /\ rank[i] = Deserved(rank[i].file)
  <2> DEFINE f == rank[i].file
  <2>1. rank[i] \in Stat(ffls) /\ rank[i].num = Len(ffls)
    BY <1>1, <1>3, <1>4, <1>5
  <2>2. rank[i] = RankOf(ffls, f) /\ f \in Pages
    BY <1>1, <2>1, StatType DEF Ranks
  <2>3. Cardinality(Hits(ffls, f)) = Len(ffls)
    <3>1. RankOf(ffls, f).num = Cardinality(Hits(ffls, f))
      BY DEF RankOf
    <3>2. QED
      BY <2>1, <2>2, <3>1
  <2> HIDE DEF f
  <2>4. Hits(ffls, f) = DOMAIN ffls
    BY <1>1, <2>3, FullHits
  <2>5. Asked(f) = DOMAIN words /\ RankOf(ffls, f) = Deserved(f)
    BY <1>1, <2>2, <2>4, HitsAsked
  <2>6. QED
    BY <2>2, <2>5 DEF f
<1>7. QED
  BY <1>5, <1>6

LEMMA NoneMissed == QueryInv => NoKnownFileMissed
<1> SUFFICES ASSUME QueryInv, pc = "answered", NEW f \in known
             PROVE  /\ kind = "query" /\ words # <<>> /\ Asked(f) = DOMAIN words
                          => f \in ListedFiles
                    /\ kind = "terms" => \A i \in DOMAIN words : ffls[i][f] = Count[f][words[i]]
  BY DEF NoKnownFileMissed
<1>1. /\ Len(ffls) = Len(words) /\ ffls \in Seq(Postings) /\ words \in Seq(Words \cup {Empty})
      /\ f \in Pages
  BY DEF QueryInv, StageInv, TypeOK
<1>2. ASSUME kind = "query", words # <<>>, Asked(f) = DOMAIN words
      PROVE  f \in ListedFiles
  <2>1. PICK s \in Sorted(Stat(ffls)) : rank = WithAllWords(s)
    BY <1>2 DEF QueryInv, RankInv
  <2>2. /\ s \in Seq(Ranks) /\ \A i \in DOMAIN s : s[i] \in Stat(ffls)
        /\ \A r \in Stat(ffls) : \E i \in DOMAIN s : s[i] = r
        /\ \A i, j \in DOMAIN s : s[i].file = s[j].file => i = j
        /\ \A j \in DOMAIN s : \A i \in 1..j - 1 : ~Precedes(s[j], s[i])
    BY <1>1, SortedFacts
  <2>3. PICK n \in 0..Len(s) :
           /\ WithAllWords(s) = SubSeq(s, 1, n) /\ \A i \in 1..n : s[i].num = Len(words)
           /\ n < Len(s) => s[n + 1].num # Len(words)
    BY <2>2, AllWordsLength
  <2>4. DOMAIN rank = 1..n /\ \A i \in 1..n : rank[i] = s[i]
    BY <2>1, <2>2, <2>3, RankDistinct
  <2>5. Asked(f) # {}
    <3>1. 1 \in DOMAIN words
      BY <1>1, <1>2
    <3>2. QED
      BY <1>2, <3>1
  <2>6. PICK j \in DOMAIN s : s[j] = Deserved(f)
    BY <1>1, <2>2, <2>5, KnownRanked
  <2>7. s[j].num = Len(words) /\ s[j].file = f
    <3>1. Cardinality(DOMAIN words) = Len(words)
      <4>1. DOMAIN words = 1..Len(words) /\ Len(words) \in Nat
        BY <1>1
      <4>2. QED
        BY <4>1, OneTo
    <3>2. QED
      BY <1>2, <2>6, <3>1 DEF Deserved
  <2>8. CASE j <= n
    <3>1. j \in 1..n
      BY <2>2, <2>8
    <3>2. rank[j].file = f /\ j \in DOMAIN rank
      BY <2>4, <2>7, <3>1
    <3>3. QED
      BY <3>2 DEF ListedFiles
  <2>9. CASE ~(j <= n)
    <3>1. n + 1 \in DOMAIN s /\ n < Len(s) /\ (n + 1 = j \/ n + 1 \in 1..j - 1)
      BY <2>2, <2>9
    <3>2. s[n + 1].num # Len(words)
      BY <2>3, <3>1
    <3>3. n + 1 \in 1..j - 1
      BY <2>7, <3>1, <3>2
    <3>4. ~Precedes(s[j], s[n + 1])
      BY <2>2, <3>3
    <3>5. s[n + 1].num <= Len(words) /\ s[n + 1].num \in Nat
      <4>1. /\ s[n + 1] \in Stat(ffls) /\ s[n + 1] \in Ranks
        BY <1>1, <2>2, <3>1
      <4>2. s[n + 1].num = Cardinality(Hits(ffls, s[n + 1].file))
        <5>1. s[n + 1] = RankOf(ffls, s[n + 1].file)
          BY <1>1, <4>1, StatType
        <5>2. RankOf(ffls, s[n + 1].file).num = Cardinality(Hits(ffls, s[n + 1].file))
          BY DEF RankOf
        <5>3. QED
          BY <5>1, <5>2
      <4>3. Cardinality(Hits(ffls, s[n + 1].file)) <= Len(ffls)
        <5> DEFINE H == Hits(ffls, s[n + 1].file)
        <5>1. Len(ffls) \in Nat /\ H \in SUBSET (1..Len(ffls))
          BY <1>1 DEF Hits
        <5>2. IsFiniteSet(1..Len(ffls)) /\ Cardinality(1..Len(ffls)) = Len(ffls)
          BY <5>1, OneTo
        <5> HIDE DEF H
        <5>3. Cardinality(H) <= Cardinality(1..Len(ffls))
          BY <5>1, <5>2, FS_Subset
        <5>4. QED
          BY <5>2, <5>3 DEF H
      <4>4. QED
        BY <1>1, <4>1, <4>2, <4>3 DEF Ranks
    <3>6. Len(words) \in Nat
      BY <1>1
    <3>7. s[j].num > s[n + 1].num
      BY <2>7, <3>2, <3>5, <3>6
    <3>8. QED
      BY <3>4, <3>7 DEF Precedes
  <2>10. QED
    BY <2>8, <2>9
<1>3. \A i \in DOMAIN words : ffls[i][f] = Count[f][words[i]]
  BY <1>1, HitsAsked DEF QueryInv, ListsInv
<1>4. QED
  BY <1>2, <1>3

LEMMA BestFollows == QueryInv => SearchBest
<1> SUFFICES ASSUME QueryInv, pc = "answered", kind = "search"
             PROVE  /\ Len(rank) <= Limit /\ Cardinality(ListedFiles) = Len(rank)
                    /\ \A j \in DOMAIN rank : \A i \in 1 .. j - 1 : ~Precedes(rank[j], rank[i])
                    /\ \A i \in DOMAIN rank :
                          rank[i].file \in known => rank[i] = Deserved(rank[i].file)
                    /\ \A f \in known \ ListedFiles :
                          Asked(f) # {} =>
                              /\ Len(rank) = Limit
                              /\ \A i \in DOMAIN rank : ~Precedes(Deserved(f), rank[i])
  BY DEF SearchBest
<1>1. Len(ffls) = Len(words) /\ ffls \in Seq(Postings)
  BY DEF QueryInv, StageInv, TypeOK
<1>2. PICK s \in Sorted(Stat(ffls)) : rank = Cut(s)
  BY DEF QueryInv, RankInv
<1>3. /\ s \in Seq(Ranks) /\ \A i \in DOMAIN s : s[i] \in Stat(ffls)
      /\ \A r \in Stat(ffls) : \E i \in DOMAIN s : s[i] = r
      /\ \A i, j \in DOMAIN s : s[i].file = s[j].file => i = j
      /\ \A j \in DOMAIN s : \A i \in 1..j - 1 : ~Precedes(s[j], s[i])
  BY <1>1, SortedFacts
<1>4. PICK n \in 0..Len(s) :
         Cut(s) = SubSeq(s, 1, n) /\ n <= Limit /\ (n < Len(s) => n = Limit)
  BY <1>3, CutLength
<1>5. /\ Len(rank) = n /\ DOMAIN rank = 1..n /\ \A i \in 1..n : rank[i] = s[i] /\ i \in DOMAIN s
      /\ Cardinality(ListedFiles) = Len(rank)
  BY <1>2, <1>3, <1>4, RankDistinct
<1>6. ASSUME NEW j \in DOMAIN rank, NEW i \in 1..j - 1
      PROVE  ~Precedes(rank[j], rank[i])
  <2>1. i \in 1..n /\ j \in 1..n /\ j \in DOMAIN s
    BY <1>5
  <2>2. QED
    BY <1>3, <1>5, <2>1
<1>7. ASSUME NEW i \in DOMAIN rank, rank[i].file \in known
      PROVE  rank[i] = Deserved(rank[i].file)
  <2>1. rank[i] \in Stat(ffls)
    BY <1>3, <1>5
  <2>2. rank[i] = RankOf(ffls, rank[i].file) /\ rank[i].file \in Pages
    BY <1>1, <2>1, StatType DEF Ranks
  <2>3. QED
    BY <1>1, <1>7, <2>2, HitsAsked
<1>8. ASSUME NEW f \in known \ ListedFiles, Asked(f) # {}
      PROVE  Len(rank) = Limit /\ \A i \in DOMAIN rank : ~Precedes(Deserved(f), rank[i])
  <2>1. PICK j \in DOMAIN s : s[j] = Deserved(f)
    BY <1>1, <1>3, <1>8, KnownRanked
  <2>2. j \notin 1..n
    <3>1. s[j].file = f
      BY <2>1 DEF Deserved
    <3>2. QED
      BY <1>5, <1>8, <3>1 DEF ListedFiles
  <2>3. n < Len(s) /\ \A i \in 1..n : i \in 1..j - 1
    BY <1>3, <2>2
  <2>4. QED
    BY <1>3, <1>4, <1>5, <2>1, <2>3
<1>9. Len(rank) <= Limit
  BY <1>4, <1>5
<1>10. QED
  BY <1>5, <1>6, <1>7, <1>8, <1>9

(* The handler's variables stay within their types, for all pages and requests. *)
THEOREM TypeCorrect == Spec => []TypeOK
<1>1. QueryInv => TypeOK
  BY DEF QueryInv
<1>2. QED
  BY <1>1, Invariant, PTL

(* A query's answer lists files that have every word, as often as it says, each *)
(* once, although process_report may be half way through any of them.           *)
THEOREM AnswersHaveAllWords == Spec => []HitsHaveAllWords
BY HitsFollow, Invariant, PTL

(* process_query finds every file with all the words whose report was done when *)
(* the request came; with merge=0 it gives every such file's frequencies.       *)
THEOREM KnownFilesFound == Spec => []NoKnownFileMissed
BY NoneMissed, Invariant, PTL

(* process_search answers best first, each file once, at most Limit of them, and *)
(* leaves out a known file with one of the words only for files it does not      *)
(* precede.                                                                      *)
THEOREM SearchesBest == Spec => []SearchBest
BY BestFollows, Invariant, PTL
=============================================================================
