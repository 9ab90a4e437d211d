----------------------------- MODULE CodecProofs ----------------------------
(***************************************************************************)
(* Proofs about Http and Proto: what the parsers find in the heads the     *)
(* programs write, for every length, uri and code, and what is read in a   *)
(* report that was packed, for every report.                               *)
(***************************************************************************)
EXTENDS Proto, Http, Recursion, SequenceTheorems

DigitCell == {"digit"} \X (0..9)

LEMMA OneElement ==
    ASSUME NEW S, NEW e \in S
    PROVE  <<e>> \in Seq(S) /\ Len(<<e>>) = 1 /\ <<e>>[1] = e /\ <<e>> # <<>>
OBVIOUS

----------------------------------------------------------------------------
(* Numbers.                                                                *)

\* n is what the digits say, read from the left.
Reads(ds, n) ==
    \E f \in [0..Len(ds) -> Nat] :
        f[0] = 0 /\ f[Len(ds)] = n /\ \A k \in 1..Len(ds) : f[k] = 10 * f[k - 1] + ds[k][2]

LEMMA ReadsOne == \A k \in 0..9 : Reads(<< <<"digit", k>> >>, k)
<1> TAKE k \in 0..9
<1> DEFINE ds == << <<"digit", k>> >>
           f == [i \in 0..1 |-> IF i = 0 THEN 0 ELSE k]
<1>1. Len(ds) = 1 /\ ds[1][2] = k /\ \A i \in 1..1 : i = 1
  OBVIOUS
<1>2. f \in [0..1 -> Nat] /\ f[0] = 0 /\ f[1] = k
  OBVIOUS
<1> HIDE DEF f, ds
<1>3. f[1] = 10 * f[1 - 1] + ds[1][2]
  BY <1>1, <1>2
<1>4. QED
  BY <1>1, <1>2, <1>3 DEF Reads

LEMMA ReadsMore ==
    ASSUME NEW ds \in Seq(DigitCell), NEW q \in Nat, NEW r \in 0..9, Reads(ds, q)
    PROVE  Reads(Append(ds, <<"digit", r>>), 10 * q + r)
<1> DEFINE L == Len(ds)
           more == Append(ds, <<"digit", r>>)
<1>1. PICK f \in [0..L -> Nat] :
         f[0] = 0 /\ f[L] = q /\ \A k \in 1..L : f[k] = 10 * f[k - 1] + ds[k][2]
  BY DEF Reads
<1> DEFINE g == [k \in 0..(L + 1) |-> IF k = L + 1 THEN 10 * q + r ELSE f[k]]
<1>2. L \in Nat /\ Len(more) = L + 1 /\ more[L + 1] = <<"digit", r>> /\ more[L + 1][2] = r
      /\ \A k \in 1..L : more[k] = ds[k]
  OBVIOUS
<1>3. /\ g \in [0..(L + 1) -> Nat] /\ g[L + 1] = 10 * q + r
      /\ \A k \in 0..L : g[k] = f[k] /\ k # L + 1
  BY <1>2
<1> HIDE DEF g, L, more
<1>4. ASSUME NEW k \in 1..(L + 1)
      PROVE  g[k] = 10 * g[k - 1] + more[k][2]
  <2>1. CASE k = L + 1
    <3>1. k - 1 = L /\ L \in 0..L
      BY <1>2, <2>1
    <3>2. g[k - 1] = q
      BY <1>1, <1>3, <3>1
    <3>3. QED
      BY <1>2, <1>3, <2>1, <3>2
  <2>2. CASE k # L + 1
    <3>1. k \in 1..L /\ k \in 0..L /\ k - 1 \in 0..L
      BY <1>2, <2>2
    <3>2. QED
      BY <1>1, <1>2, <1>3, <3>1
  <2>3. QED
    BY <2>1, <2>2
<1>5. 0 \in 0..L /\ g[0] = 0
  BY <1>1, <1>2, <1>3
<1>6. QED
  BY <1>2, <1>3, <1>4, <1>5 DEF Reads, more

\* The digits of n say n.
LEMMA DigitsRead ==
    ASSUME NEW n \in Nat
    PROVE  Digits(n) \in Seq(DigitCell) /\ Digits(n) # <<>> /\ Reads(Digits(n), n)
<1> DEFINE D == 0..n
           V == Seq(DigitCell)
           One(k) == << <<"digit", k>> >>
           Solves(f) == f = [k \in D |-> IF k < 10 THEN << <<"digit", k>> >>
                                         ELSE Append(f[k \div 10], <<"digit", k % 10>>)]
           digits == CHOOSE f : Solves(f)
           rank == [k \in D |-> IF k < 10 THEN 0 ELSE k]
           base == [k \in D |-> IF k < 10 THEN One(k) ELSE <<>>]
           jump == [k \in D |-> k \div 10]
           step == [x \in D \X V |-> Append(x[2], <<"digit", x[1] % 10>>)]
<1>1. Digits(n) = digits[n]
  BY DEF Digits
<1>2. \A k \in Nat : /\ k \div 10 \in Nat /\ k \div 10 <= k /\ k % 10 \in 0..9
                     /\ 10 * (k \div 10) + (k % 10) = k
                     /\ k >= 10 => k \div 10 < k
  OBVIOUS
<1>0. \A k \in 0..9 : <<"digit", k>> \in DigitCell
  BY DEF DigitCell
<1>3. \A k \in 0..9 : One(k) \in V /\ One(k) # <<>>
  BY <1>0, OneElement
<1>4. \A v \in V, r \in 0..9 :
         Append(v, <<"digit", r>>) \in V /\ Append(v, <<"digit", r>>) # <<>>
  BY <1>0, AppendProperties
<1>5. rank \in [D -> 0..n] /\ base \in [D -> V] /\ jump \in [D -> D] /\ step \in [D \X V -> V]
  <2>1. rank \in [D -> 0..n]
    OBVIOUS
  <2>2. base \in [D -> V]
    <3>1. \A k \in D : k < 10 => k \in 0..9
      OBVIOUS
    <3>2. <<>> \in V
      OBVIOUS
    <3> HIDE DEF V, One
    <3>3. QED
      BY <1>3, <3>1, <3>2
  <2>3. jump \in [D -> D]
    BY <1>2
  <2>4. step \in [D \X V -> V]
    <3>1. \A k \in D : k % 10 \in 0..9
      BY <1>2
    <3> HIDE DEF V, D
    <3>2. QED
      BY <1>4, <3>1
  <2>5. QED
    BY <2>1, <2>2, <2>3, <2>4
<1>6. \A k \in D : rank[k] # 0 => rank[jump[k]] < rank[k]
  <2> TAKE k \in D
  <2>1. k \div 10 \in D /\ rank[k \div 10] = IF k \div 10 < 10 THEN 0 ELSE k \div 10
    BY <1>2
  <2>2. k >= 10 => k \div 10 < k
    BY <1>2
  <2>3. QED
    BY <2>1, <2>2
<1>7. \A k \in D : /\ rank[k] = 0 <=> k < 10
                   /\ k < 10 => base[k] = << <<"digit", k>> >>
                   /\ jump[k] = k \div 10 /\ k \div 10 \in D
                   /\ \A v \in V : step[<<k, v>>] = Append(v, <<"digit", k % 10>>)
  BY <1>2
<1> HIDE DEF D, V, rank, base, jump, step
<1>8. PICK f \in [D -> V] : IsRanked(f, D, rank, base, jump, step)
  <2>1. n \in Nat
    OBVIOUS
  <2>2. QED
    BY <1>5, <1>6, <2>1, RankedRecursion
<1>9. Solves(f)
  <2>1. \A k \in D : f[k] = IF rank[k] = 0 THEN base[k] ELSE step[<<k, f[jump[k]]>>]
    BY <1>8 DEF IsRanked
  <2>2. \A k \in D : f[k] = IF k < 10 THEN << <<"digit", k>> >>
                            ELSE Append(f[k \div 10], <<"digit", k % 10>>)
    <3> TAKE k \in D
    <3>1. CASE k < 10
      <4>1. rank[k] = 0 /\ base[k] = << <<"digit", k>> >>
        BY <1>7, <3>1
      <4>2. QED
        BY <2>1, <3>1, <4>1
    <3>2. CASE ~(k < 10)
      <4>1. rank[k] # 0 /\ jump[k] = k \div 10 /\ f[jump[k]] \in V
        BY <1>5, <1>7, <1>8, <3>2
      <4>2. f[k] = step[<<k, f[jump[k]]>>]
        BY <2>1, <4>1
      <4>3. QED
        BY <1>7, <3>2, <4>1, <4>2
    <3>3. QED
      BY <3>1, <3>2
  <2>3. QED
    BY <1>8, <2>2
<1>10. Solves(digits)
  BY <1>9
<1> HIDE DEF digits
<1>11. \A k \in D : digits[k] = IF k < 10 THEN << <<"digit", k>> >>
                                ELSE Append(digits[k \div 10], <<"digit", k % 10>>)
  BY <1>10
<1> DEFINE Good(k) == digits[k] \in V /\ digits[k] # <<>> /\ Reads(digits[k], k)
           T == {m \in 0..n : \A k \in 0..m : Good(k)}
<1>12. ASSUME NEW k \in D, k < 10
       PROVE  Good(k)
  <2>1. k \in 0..9 /\ digits[k] = One(k)
    <3>1. k \in 0..9
      BY <1>12 DEF D
    <3>2. QED
      BY <1>11, <1>12, <3>1
  <2>2. QED
    BY <1>3, <2>1, ReadsOne
<1>13. ASSUME NEW k \in D, k >= 10, Good(k \div 10)
       PROVE  Good(k)
  <2>1. digits[k] = Append(digits[k \div 10], <<"digit", k % 10>>)
    <3>1. ~(k < 10)
      BY <1>13 DEF D
    <3>2. QED
      BY <1>11, <3>1
  <2>2. k \div 10 \in Nat /\ k % 10 \in 0..9 /\ 10 * (k \div 10) + (k % 10) = k
    BY <1>2 DEF D
  <2>3. digits[k \div 10] \in V /\ Reads(digits[k \div 10], k \div 10)
    BY <1>13
  <2>4. Reads(Append(digits[k \div 10], <<"digit", k % 10>>), 10 * (k \div 10) + (k % 10))
    BY <2>2, <2>3, ReadsMore DEF V
  <2>5. Append(digits[k \div 10], <<"digit", k % 10>>) \in V
        /\ Append(digits[k \div 10], <<"digit", k % 10>>) # <<>>
    BY <1>4, <2>2, <2>3
  <2>6. QED
    BY <2>1, <2>2, <2>4, <2>5
<1> HIDE DEF Good
<1>14. 0 \in T
  <2>1. 0 \in D /\ \A k \in 0..0 : k = 0
    BY DEF D
  <2>2. QED
    BY <1>12, <2>1
<1>15. ASSUME NEW m \in 1..n, m - 1 \in T
       PROVE  m \in T
  <2>1. m \in D /\ m \in 0..n
    BY DEF D
  <2>2. Good(m)
    <3>1. CASE m < 10
      BY <1>12, <2>1, <3>1
    <3>2. CASE m >= 10
      <4>1. m \div 10 \in 0..(m - 1)
        BY <1>2, <3>2
      <4>2. QED
        BY <1>13, <1>15, <2>1, <3>2, <4>1
    <3>3. QED
      BY <3>1, <3>2
  <2>3. \A k \in 0..m : k = m \/ k \in 0..(m - 1)
    OBVIOUS
  <2>4. QED
    BY <1>15, <2>1, <2>2, <2>3
<1> HIDE DEF T
<1>16. 0..n \subseteq T
  BY <1>14, <1>15, UpTo
<1>17. Good(n)
  BY <1>16 DEF T
<1>18. QED
  BY <1>1, <1>17 DEF Good, V

\* atoi goes from the front of a text to the first cell that is no digit.
LEMMA AtoiValue ==
    ASSUME NEW text \in Texts
    PROVE  \E last \in 0..Len(text) :
              /\ (\A k \in 1..Len(text) : text[k][1] = "digit") => last = Len(text)
              /\ \E f \in [0..last -> Nat] :
                    /\ f[0] = 0 /\ f[last] = Atoi(text)
                    /\ \A k \in 1..last : f[k] = 10 * f[k - 1] + text[k][2]
<1> DEFINE I == {k \in 1..Len(text) : text[k][1] # "digit"}
           stop == IF I # {} THEN Min(I) ELSE 0
           last == IF stop = 0 THEN Len(text) ELSE stop - 1
           Solves(f) == f = [k \in 0..last |-> IF k = 0 THEN 0
                                               ELSE 10 * f[k - 1] + text[k][2]]
           value == CHOOSE f : Solves(f)
           step == [x \in (1..last) \X Nat |-> 10 * x[2] + text[x[1]][2]]
<1>1. Atoi(text) = value[last]
  BY DEF Atoi, SelectInSeq
<1>2. Len(text) \in Nat /\ \A k \in 1..Len(text) : text[k][2] \in Nat
  BY LenProperties, ElementOfSeq DEF Texts, Cells
<1>3. I # {} => Min(I) \in I
  <2>1. I \in SUBSET Nat
    OBVIOUS
  <2> HIDE DEF I
  <2>2. QED
    BY <2>1, LeastNumber DEF Min
<1>4. last \in 0..Len(text) /\ (I = {} => last = Len(text))
  BY <1>2, <1>3
<1> HIDE DEF last
<1>5. step \in Steps(last, Nat)
  <2>1. \A k \in 1..last : text[k][2] \in Nat
    BY <1>2, <1>4
  <2>2. \A k \in 1..last, v \in Nat : 10 * v + text[k][2] \in Nat
    BY <2>1
  <2>3. QED
    BY <2>2 DEF Steps
<1>6. \A k \in 1..last, v \in Nat : step[<<k, v>>] = 10 * v + text[k][2]
  OBVIOUS
<1> HIDE DEF step
<1>7. PICK f \in [0..last -> Nat] :
         f[0] = 0 /\ \A k \in 1..last : f[k] = step[<<k, f[k - 1]>>]
  <2>1. last \in Nat
    BY <1>4
  <2>2. Solutions(0, last, Nat, step) # {}
    BY <1>5, <2>1, RecursionExists
  <2>3. QED
    BY <2>2 DEF Solutions
<1>8. \A k \in 1..last : f[k] = 10 * f[k - 1] + text[k][2]
  <2> TAKE k \in 1..last
  <2>1. k - 1 \in 0..last
    BY <1>4
  <2>2. QED
    BY <1>6, <1>7, <2>1
<1>9. Solves(f)
  <2>1. \A k \in 0..last : k = 0 \/ k \in 1..last
    BY <1>4
  <2>2. \A k \in 0..last : f[k] = IF k = 0 THEN 0 ELSE 10 * f[k - 1] + text[k][2]
    BY <1>4, <1>7, <1>8, <2>1
  <2>3. QED
    BY <1>7, <2>2
<1>10. Solves(value)
  BY <1>9
<1> HIDE DEF value
<1>11. \A k \in 1..last : value[k] = 10 * value[k - 1] + text[k][2]
  <2> TAKE k \in 1..last
  <2>1. k \in 0..last /\ k # 0
    BY <1>4
  <2>2. QED
    BY <1>10, <2>1
<1>12. value[0] = 0
  BY <1>4, <1>10
<1>13. \A k \in 0..last : value[k] \in Nat
  <2>1. last \in Nat
    BY <1>4
  <2>2. \A k \in 1..last : value[k - 1] \in Nat => value[k] \in Nat
    <3> TAKE k \in 1..last
    <3>1. text[k][2] \in Nat /\ value[k] = 10 * value[k - 1] + text[k][2]
      BY <1>2, <1>4, <1>11
    <3>2. QED
      BY <3>1
  <2>3. QED
    BY <1>12, <2>1, <2>2, RecursionType
<1>14. value \in [0..last -> Nat]
  BY <1>10, <1>13
<1>15. QED
  BY <1>1, <1>4, <1>11, <1>12, <1>14

LEMMA AtoiType == \A text \in Texts : Atoi(text) \in Nat
<1> TAKE text \in Texts
<1>1. PICK last \in 0..Len(text) :
         \E f \in [0..last -> Nat] : f[last] = Atoi(text)
  BY AtoiValue
<1>2. last \in 0..last
  OBVIOUS
<1>3. QED
  BY <1>1, <1>2

\* atoi of the digits of n is n.
LEMMA AtoiDigits ==
    ASSUME NEW n \in Nat
    PROVE  Digits(n) \in Texts /\ Atoi(Digits(n)) = n
<1> DEFINE ds == Digits(n)
           N == Len(ds)
<1>1. ds \in Seq(DigitCell) /\ Reads(ds, n)
  BY DigitsRead
<1>2. ds \in Texts
  <2>1. DigitCell \subseteq Cells
    <3>1. {"digit"} \subseteq STRING /\ 0..9 \subseteq Nat
      BY KindAssumption DEF Kinds
    <3>2. QED
      BY <3>1 DEF DigitCell, Cells
  <2>2. QED
    BY <1>1, <2>1, SeqMonotonic DEF Texts
<1>3. \A k \in 1..N : ds[k][1] = "digit"
  BY <1>1, ElementOfSeq DEF DigitCell
<1> HIDE DEF ds
<1>4. PICK f \in [0..N -> Nat] :
         f[0] = 0 /\ f[N] = Atoi(ds) /\ \A k \in 1..N : f[k] = 10 * f[k - 1] + ds[k][2]
  BY <1>2, <1>3, AtoiValue
<1>5. PICK g \in [0..N -> Nat] :
         g[0] = 0 /\ g[N] = n /\ \A k \in 1..N : g[k] = 10 * g[k - 1] + ds[k][2]
  BY <1>1 DEF Reads
<1>6. N \in Nat
  BY <1>2, LenProperties DEF Texts
<1> DEFINE T == {k \in 0..N : f[k] = g[k]}
<1>7. 0 \in T /\ \A k \in 1..N : k - 1 \in T => k \in T
  BY <1>4, <1>5, <1>6
<1> HIDE DEF T
<1>8. 0..N \subseteq T
  BY <1>6, <1>7, UpTo
<1>9. N \in 0..N
  BY <1>6
<1>10. f[N] = g[N]
  BY <1>8, <1>9 DEF T
<1>11. QED
  BY <1>2, <1>4, <1>5, <1>10 DEF ds

----------------------------------------------------------------------------
(* Texts.                                                                   *)

LEMMA TextLength == \A a \in Texts : Len(a) \in Nat /\ \A i \in 1..Len(a) : a[i] \in Cells
BY LenProperties, ElementOfSeq DEF Texts

LEMMA Joined ==
    ASSUME NEW a \in Texts, NEW b \in Texts
    PROVE  /\ a \o b \in Texts
           /\ Len(a \o b) = Len(a) + Len(b)
           /\ \A i \in 1..Len(a) : (a \o b)[i] = a[i]
           /\ \A i \in 1..Len(b) : (a \o b)[Len(a) + i] = b[i]
<1>1. /\ a \o b \in Seq(Cells)
      /\ Len(a \o b) = Len(a) + Len(b)
      /\ \A i \in 1 .. Len(a) + Len(b) :
            (a \o b)[i] = IF i <= Len(a) THEN a[i] ELSE b[i - Len(a)]
  BY ConcatProperties DEF Texts
<1>2. Len(a) \in Nat /\ Len(b) \in Nat
  BY TextLength
<1>3. ASSUME NEW i \in 1..Len(b)
      PROVE  (a \o b)[Len(a) + i] = b[i]
  <2>1. Len(a) + i \in 1 .. Len(a) + Len(b) /\ ~(Len(a) + i <= Len(a))
        /\ (Len(a) + i) - Len(a) = i
    BY <1>2
  <2>2. QED
    BY <1>1, <2>1
<1>4. \A i \in 1..Len(a) : i \in 1 .. Len(a) + Len(b) /\ i <= Len(a)
  BY <1>2
<1>5. QED
  BY <1>1, <1>3, <1>4 DEF Texts

LEMMA Regroup ==
    ASSUME NEW a \in Texts, NEW b \in Texts, NEW c \in Texts
    PROVE  (a \o b) \o c = a \o (b \o c)
BY ConcatAssociative DEF Texts

LEMMA JoinedEmpty == <<>> \in Texts /\ \A a \in Texts : a \o <<>> = a /\ <<>> \o a = a
BY ConcatEmptySeq, EmptySeq DEF Texts

\* Texts of one length that begin two equal texts are equal, and so is what follows.
LEMMA SameFront ==
    ASSUME NEW a \in Texts, NEW b \in Texts, NEW c \in Texts, NEW d \in Texts,
           a \o b = c \o d, Len(a) = Len(c)
    PROVE  a = c /\ b = d
<1>1. /\ Len(a) \in Nat /\ Len(b) \in Nat /\ Len(d) \in Nat
      /\ Len(a \o b) = Len(a) + Len(b) /\ Len(c \o d) = Len(c) + Len(d)
  BY TextLength, Joined
<1>2. Len(b) = Len(d)
  BY <1>1
<1>3. \A i \in 1..Len(a) : a[i] = c[i]
  BY Joined
<1>4. \A i \in 1..Len(b) : b[i] = d[i]
  <2> TAKE i \in 1..Len(b)
  <2>1. (a \o b)[Len(a) + i] = b[i]
    BY Joined
  <2>2. i \in 1..Len(d)
    BY <1>2
  <2>3. (c \o d)[Len(c) + i] = d[i]
    BY <2>2, Joined
  <2>4. QED
    BY <2>1, <2>3
<1>5. QED
  BY <1>2, <1>3, <1>4, SeqEqual DEF Texts

LEMMA SameBeginning ==
    ASSUME NEW a \in Texts, NEW b \in Texts, NEW s \in Texts,
           NEW c \in Texts, NEW d \in Texts, NEW t \in Texts,
           (a \o b) \o s = (c \o d) \o t, Len(a) = Len(c)
    PROVE  a = c
<1>1. b \o s \in Texts /\ d \o t \in Texts
  BY Joined
<1>2. (a \o b) \o s = a \o (b \o s)
  BY Regroup
<1>3. (c \o d) \o t = c \o (d \o t)
  BY Regroup
<1>4. a \o (b \o s) = c \o (d \o t)
  BY <1>2, <1>3
<1>5. QED
  BY <1>1, <1>4, SameFront

\* A text cut in two.
LEMMA CutText ==
    ASSUME NEW t \in Texts, NEW n \in 0..Len(t)
    PROVE  /\ SubSeq(t, 1, n) \in Texts /\ Len(SubSeq(t, 1, n)) = n
           /\ SubSeq(t, n + 1, Len(t)) \in Texts
           /\ Len(SubSeq(t, n + 1, Len(t))) = Len(t) - n
           /\ SubSeq(t, 1, n) \o SubSeq(t, n + 1, Len(t)) = t
<1>1. Len(t) \in Nat /\ \A i \in 1..Len(t) : t[i] \in Cells
  BY TextLength
<1>2. \A i \in 1..n : t[i] \in Cells
  BY <1>1
<1>3. \A i \in (n + 1)..Len(t) : t[i] \in Cells
  BY <1>1
<1>4. /\ SubSeq(t, 1, n) \in Seq(Cells)
      /\ Len(SubSeq(t, 1, n)) = IF 1 <= n THEN n - 1 + 1 ELSE 0
  BY <1>2, SubSeqProperties
<1>5. /\ SubSeq(t, n + 1, Len(t)) \in Seq(Cells)
      /\ Len(SubSeq(t, n + 1, Len(t))) = IF n + 1 <= Len(t) THEN Len(t) - (n + 1) + 1 ELSE 0
  <2>1. n + 1 \in Int /\ Len(t) \in Int
    BY <1>1
  <2>2. QED
    BY <1>3, <2>1, SubSeqProperties
<1>6. SubSeq(t, 1, n) \o SubSeq(t, n + 1, Len(t)) = t
  <2>1. 1 \in 1..(Len(t) + 1) /\ n \in (1 - 1)..Len(t) /\ Len(t) \in n..Len(t)
    BY <1>1
  <2>2. SubSeq(t, 1, n) \o SubSeq(t, n + 1, Len(t)) = SubSeq(t, 1, Len(t))
    BY <2>1, ConcatAdjacentSubSeq DEF Texts
  <2>3. QED
    BY <2>2, SubSeqFull DEF Texts
<1>7. (IF 1 <= n THEN n - 1 + 1 ELSE 0) = n
  OBVIOUS
<1>8. (IF n + 1 <= Len(t) THEN Len(t) - (n + 1) + 1 ELSE 0) = Len(t) - n
  BY <1>1
<1> DEFINE p == SubSeq(t, 1, n)
           q == SubSeq(t, n + 1, Len(t))
<1> HIDE DEF p, q
<1>9. p \in Seq(Cells) /\ Len(p) = n
  BY <1>4, <1>7 DEF p
<1>10. q \in Seq(Cells) /\ Len(q) = Len(t) - n
  BY <1>5, <1>8 DEF q
<1>11. QED
  BY <1>6, <1>9, <1>10 DEF Texts, p, q

LEMMA TwoParts ==
    ASSUME NEW t \in Texts, NEW n \in 0..Len(t)
    PROVE  \E a, b \in Texts : /\ a = SubSeq(t, 1, n) /\ b = SubSeq(t, n + 1, Len(t))
                               /\ a \o b = t /\ Len(a) = n
BY CutText

\* What the front of a concatenation is, and its rest.
LEMMA CutJoined ==
    ASSUME NEW a \in Texts, NEW b \in Texts
    PROVE  /\ SubSeq(a \o b, 1, Len(a)) = a
           /\ SubSeq(a \o b, Len(a) + 1, Len(a \o b)) = b
<1>1. a \o b \in Texts /\ Len(a) \in 0..Len(a \o b)
  BY Joined, TextLength
<1>2. /\ SubSeq(a \o b, 1, Len(a)) \in Texts /\ Len(SubSeq(a \o b, 1, Len(a))) = Len(a)
      /\ SubSeq(a \o b, Len(a) + 1, Len(a \o b)) \in Texts
      /\ SubSeq(a \o b, 1, Len(a)) \o SubSeq(a \o b, Len(a) + 1, Len(a \o b)) = a \o b
  BY <1>1, CutText
<1> DEFINE p == SubSeq(a \o b, 1, Len(a))
           q == SubSeq(a \o b, Len(a) + 1, Len(a \o b))
<1>3. p \in Texts /\ q \in Texts /\ p \o q = a \o b /\ Len(p) = Len(a)
  BY <1>2
<1> HIDE DEF p, q
<1>4. p = a /\ q = b
  BY <1>3, SameFront
<1>5. QED
  BY <1>4 DEF p, q

\* The cells of a text.
LEMMA CellsOfJoined ==
    ASSUME NEW a \in Texts, NEW b \in Texts
    PROVE  ToSet(a \o b) = ToSet(a) \cup ToSet(b)
<1>1. /\ Len(a) \in Nat /\ Len(b) \in Nat /\ Len(a \o b) = Len(a) + Len(b)
      /\ DOMAIN a = 1..Len(a) /\ DOMAIN b = 1..Len(b) /\ DOMAIN (a \o b) = 1..Len(a \o b)
  <2>1. a \o b \in Texts
    BY Joined
  <2>2. QED
    BY <2>1, Joined, TextLength, LenProperties DEF Texts
<1>2. /\ \A i \in 1..Len(a) : (a \o b)[i] = a[i]
      /\ \A i \in 1..Len(b) : (a \o b)[Len(a) + i] = b[i]
  BY Joined
<1>3. \A i \in 1..Len(a) : i \in 1..(Len(a) + Len(b))
  BY <1>1
<1>4. \A i \in 1..Len(b) : Len(a) + i \in 1..(Len(a) + Len(b))
  BY <1>1
<1>5. \A i \in 1..(Len(a) + Len(b)) :
         i \in 1..Len(a) \/ (i - Len(a) \in 1..Len(b) /\ Len(a) + (i - Len(a)) = i)
  BY <1>1
<1>6. ToSet(a) \subseteq ToSet(a \o b)
  BY <1>1, <1>2, <1>3 DEF ToSet
<1>7. ToSet(b) \subseteq ToSet(a \o b)
  BY <1>1, <1>2, <1>4 DEF ToSet
<1>8. ToSet(a \o b) \subseteq ToSet(a) \cup ToSet(b)
  <2> SUFFICES ASSUME NEW i \in 1..(Len(a) + Len(b))
               PROVE  (a \o b)[i] \in ToSet(a) \cup ToSet(b)
    BY <1>1 DEF ToSet
  <2>1. CASE i \in 1..Len(a)
    BY <1>1, <1>2, <2>1 DEF ToSet
  <2>2. CASE i - Len(a) \in 1..Len(b) /\ Len(a) + (i - Len(a)) = i
    <3>1. (a \o b)[i] = b[i - Len(a)]
      BY <1>2, <2>2
    <3>2. QED
      BY <1>1, <2>2, <3>1 DEF ToSet
  <2>3. QED
    BY <1>5, <2>1, <2>2
<1>9. QED
  BY <1>6, <1>7, <1>8

LEMMA OneCell ==
    ASSUME NEW e \in Cells
    PROVE  <<e>> \in Texts /\ Len(<<e>>) = 1 /\ <<e>>[1] = e /\ ToSet(<<e>>) = {e}
<1>1. <<e>> \in Texts /\ Len(<<e>>) = 1 /\ <<e>>[1] = e
  BY OneElement DEF Texts
<1>2. DOMAIN <<e>> = {1}
  OBVIOUS
<1>3. QED
  BY <1>1, <1>2 DEF ToSet

LEMMA TwoCells ==
    ASSUME NEW d \in Cells, NEW e \in Cells
    PROVE  /\ <<d, e>> \in Texts /\ Len(<<d, e>>) = 2
           /\ <<d, e>>[1] = d /\ <<d, e>>[2] = e
           /\ <<d, e>> = <<d>> \o <<e>> /\ ToSet(<<d, e>>) = {d, e}
<1>0. Append(<<d>>, e) = <<d>> \o <<e>>
  BY OneElement, AppendIsConcat
<1>1. <<d, e>> = <<d>> \o <<e>>
  <2>1. <<d, e>> = Append(<<d>>, e)
    OBVIOUS
  <2>2. QED
    BY <1>0, <2>1
<1>2. ToSet(<<d>> \o <<e>>) = {d} \cup {e}
  BY OneCell, CellsOfJoined
<1>3. <<d>> \o <<e>> \in Texts
  BY OneCell, Joined
<1>4. QED
  BY <1>1, <1>2, <1>3

----------------------------------------------------------------------------
(* What a parser looks for.                                                 *)

LEMMA InToSet ==
    ASSUME NEW t \in Texts, NEW e
    PROVE  e \in ToSet(t) <=> \E i \in 1..Len(t) : t[i] = e
<1>1. DOMAIN t = 1..Len(t)
  BY LenProperties DEF Texts
<1>2. QED
  BY <1>1 DEF ToSet

LEMMA MinIs ==
    ASSUME NEW I \in SUBSET Nat, NEW m \in I, \A i \in I : m <= i
    PROVE  Min(I) = m
<1>1. Min(I) \in I /\ \A i \in I : Min(I) <= i
  BY DEF Min
<1>0. Min(I) \in Nat /\ m \in Nat
  BY <1>1
<1> DEFINE n == Min(I)
<1>2. n <= m /\ m <= n
  BY <1>1
<1> HIDE DEF n
<1>3. n = m
  BY <1>0, <1>2 DEF n
<1>4. QED
  BY <1>3 DEF n

\* The first such cell is found, with what is before it and behind it.
LEMMA PlaceFound ==
    ASSUME NEW a \in Texts, NEW e \in Cells, NEW b \in Texts, e \notin ToSet(a)
    PROVE  /\ Until(a \o <<e>> \o b, e) = a
           /\ Behind(a \o <<e>> \o b, e) = b
<1> DEFINE t == (a \o <<e>>) \o b
           I == {i \in 1..Len(t) : t[i] = e}
           n == Len(a)
<1>1. /\ t \in Texts /\ a \o <<e>> \in Texts /\ Len(a \o <<e>>) = n + 1 /\ n \in Nat
      /\ Len(t) = n + 1 + Len(b) /\ Len(b) \in Nat
  BY OneCell, Joined, TextLength
<1>2. t[n + 1] = e
  <2>1. (a \o <<e>>)[n + 1] = e
    <3>1. 1 \in 1..Len(<<e>>) /\ <<e>>[1] = e
      BY OneCell
    <3>2. QED
      BY <3>1, OneCell, Joined
  <2>2. n + 1 \in 1..Len(a \o <<e>>)
    BY <1>1
  <2>3. QED
    BY <1>1, <2>1, <2>2, Joined
<1>3. \A i \in 1..n : t[i] # e
  <2> TAKE i \in 1..n
  <2>1. t[i] = (a \o <<e>>)[i]
    BY <1>1, Joined
  <2>2. (a \o <<e>>)[i] = a[i]
    BY OneCell, Joined
  <2>3. a[i] # e
    BY InToSet
  <2>4. QED
    BY <2>1, <2>2, <2>3
<1> HIDE DEF t
<1>4. n + 1 \in I /\ \A i \in I : n + 1 <= i
  BY <1>1, <1>2, <1>3
<1>5. Min(I) = n + 1
  <2>1. I \in SUBSET Nat
    OBVIOUS
  <2> HIDE DEF I
  <2>2. QED
    BY <1>4, <2>1, MinIs
<1>6. PlaceOf(t, e) = n + 1
  BY <1>4, <1>5 DEF PlaceOf, SelectInSeq
<1>7. Until(t, e) = SubSeq(t, 1, n)
  BY <1>1, <1>6 DEF Until
<1>8. Behind(t, e) = SubSeq(t, (n + 1) + 1, Len(t))
  BY <1>1, <1>6 DEF Behind
<1>9. SubSeq(t, 1, n) = a
  <2>1. t = a \o (<<e>> \o b) /\ <<e>> \o b \in Texts
    BY OneCell, Regroup, Joined DEF t
  <2>2. QED
    BY <2>1, CutJoined
<1>10. SubSeq(t, (n + 1) + 1, Len(t)) = b
  <2>1. SubSeq((a \o <<e>>) \o b, Len(a \o <<e>>) + 1, Len((a \o <<e>>) \o b)) = b
    BY <1>1, CutJoined
  <2>2. QED
    BY <1>1, <2>1 DEF t
<1>11. QED
  BY <1>7, <1>8, <1>9, <1>10 DEF t

LEMMA PlaceMissing ==
    ASSUME NEW t \in Texts, NEW e, e \notin ToSet(t)
    PROVE  Until(t, e) = t /\ Behind(t, e) = <<>>
<1>1. \A i \in 1..Len(t) : t[i] # e
  BY InToSet
<1>2. PlaceOf(t, e) = 0
  BY <1>1 DEF PlaceOf, SelectInSeq
<1>3. QED
  BY <1>2 DEF Until, Behind

LEMMA BehindType ==
    ASSUME NEW t \in Texts, NEW e
    PROVE  Behind(t, e) \in Texts
<1> DEFINE I == {i \in 1..Len(t) : t[i] = e}
<1>1. CASE I = {}
  <2>1. PlaceOf(t, e) = 0
    BY <1>1 DEF PlaceOf, SelectInSeq
  <2>2. QED
    BY <2>1, JoinedEmpty DEF Behind
<1>2. CASE I # {}
  <2>1. Min(I) \in I
    <3>1. I \in SUBSET Nat
      OBVIOUS
    <3> HIDE DEF I
    <3>2. QED
      BY <1>2, <3>1, LeastNumber DEF Min
  <2>2. PlaceOf(t, e) = Min(I)
    BY <1>2 DEF PlaceOf, SelectInSeq
  <2>3. PlaceOf(t, e) \in 0..Len(t) /\ PlaceOf(t, e) # 0
    BY <2>1, <2>2
  <2>4. SubSeq(t, PlaceOf(t, e) + 1, Len(t)) \in Texts
    BY <2>3, CutText
  <2>5. QED
    BY <2>3, <2>4 DEF Behind
<1>3. QED
  BY <1>1, <1>2

\* Whatever the head, its length is a number.
LEMMA LengthType == \A t \in Texts : LengthIn(t) \in Nat
BY BehindType, AtoiType DEF LengthIn

----------------------------------------------------------------------------
(* The end of a head.                                                       *)

\* A text of whole lines, none of them empty.
Lines(t) ==
    /\ t \in Texts /\ Len(t) >= 2
    /\ t[1] # Cr /\ t[Len(t) - 1] = Cr /\ t[Len(t)] = Lf
    /\ \A i \in 1..(Len(t) - 2) : t[i] # Cr \/ t[i + 2] # Cr

LEMMA LineEnd ==
    /\ Cr \in Cells /\ Lf \in Cells /\ Cr # Lf
    /\ EndOfLine \in Texts /\ Len(EndOfLine) = 2 /\ EndOfLine[1] = Cr /\ EndOfLine[2] = Lf
    /\ EndOfHead \in Texts /\ Len(EndOfHead) = 4
    /\ EndOfHead[1] = Cr /\ EndOfHead[2] = Lf /\ EndOfHead[3] = Cr /\ EndOfHead[4] = Lf
<1>1. Cr \in Cells /\ Lf \in Cells /\ Cr # Lf
  BY KindAssumption DEF Cr, Lf, Token, Kinds, Cells
<1>2. EndOfLine \in Texts /\ Len(EndOfLine) = 2 /\ EndOfLine[1] = Cr /\ EndOfLine[2] = Lf
  BY <1>1, TwoCells DEF EndOfLine
<1>3. 1 \in 1..Len(EndOfLine) /\ 2 \in 1..Len(EndOfLine)
  BY <1>2
<1> DEFINE e == EndOfLine \o EndOfLine
           n == Len(EndOfLine)
<1>4. /\ e \in Texts /\ Len(e) = n + n
      /\ e[1] = Cr /\ e[2] = Lf /\ e[n + 1] = Cr /\ e[n + 2] = Lf
  <2>1. e[1] = EndOfLine[1] /\ e[2] = EndOfLine[2]
    BY <1>2, <1>3, Joined
  <2>2. e[n + 1] = EndOfLine[1] /\ e[n + 2] = EndOfLine[2]
    BY <1>2, <1>3, Joined
  <2>3. e \in Texts /\ Len(e) = n + n
    BY <1>2, Joined
  <2>4. QED
    BY <1>2, <2>1, <2>2, <2>3
<1>5. n = 2 /\ 2 + 2 = 4 /\ 2 + 1 = 3 /\ EndOfHead = e
  BY <1>2 DEF EndOfHead
<1> HIDE DEF e, n
<1>6. EndOfHead \in Texts /\ Len(EndOfHead) = 4
      /\ EndOfHead[1] = Cr /\ EndOfHead[2] = Lf /\ EndOfHead[3] = Cr /\ EndOfHead[4] = Lf
  BY <1>4, <1>5
<1>7. QED
  BY <1>1, <1>2, <1>6

LEMMA LineJoined ==
    ASSUME NEW x \in Texts
    PROVE  /\ x \o EndOfLine \in Texts /\ Len(x \o EndOfLine) = Len(x) + 2
           /\ \A i \in 1..Len(x) : (x \o EndOfLine)[i] = x[i]
           /\ (x \o EndOfLine)[Len(x) + 1] = Cr /\ (x \o EndOfLine)[Len(x) + 2] = Lf
<1> DEFINE t == x \o EndOfLine
<1>1. /\ t \in Texts /\ Len(t) = Len(x) + Len(EndOfLine)
      /\ \A i \in 1..Len(x) : t[i] = x[i]
      /\ \A i \in 1..Len(EndOfLine) : t[Len(x) + i] = EndOfLine[i]
  BY LineEnd, Joined
<1>2. 1 \in 1..Len(EndOfLine) /\ 2 \in 1..Len(EndOfLine) /\ Len(EndOfLine) = 2
  BY LineEnd
<1> HIDE DEF t
<1>3. t[Len(x) + 1] = Cr /\ t[Len(x) + 2] = Lf
  BY <1>1, <1>2, LineEnd
<1>4. QED
  BY <1>1, <1>2, <1>3 DEF t

LEMMA OneLine ==
    ASSUME NEW x \in Texts, x # <<>>, Cr \notin ToSet(x)
    PROVE  Lines(x \o EndOfLine)
<1> DEFINE t == x \o EndOfLine
           n == Len(x)
<1>1. n \in Nat /\ n >= 1 /\ t \in Texts /\ Len(t) = n + 2
  <2>1. n \in Nat \ {0}
    BY EmptySeq DEF Texts
  <2>2. QED
    BY <2>1, LineJoined
<1>2. t[n + 1] = Cr /\ t[n + 2] = Lf
  BY LineJoined
<1>3. \A i \in 1..n : t[i] # Cr
  BY LineJoined, InToSet
<1> HIDE DEF t, n
<1>4. 1 \in 1..n /\ Len(t) - 1 = n + 1 /\ Len(t) - 2 = n
  BY <1>1
<1>5. Lines(t)
  BY <1>1, <1>2, <1>3, <1>4 DEF Lines
<1>6. QED
  BY <1>5 DEF t

LEMMA MoreLines ==
    ASSUME NEW a, NEW b, Lines(a), Lines(b)
    PROVE  Lines(a \o b) /\ (a \o b)[1] = a[1]
<1> DEFINE t == a \o b
           m == Len(a)
           n == Len(b)
<1>1. a \in Texts /\ b \in Texts /\ m \in Nat /\ n \in Nat /\ m >= 2 /\ n >= 2
  BY TextLength DEF Lines
<1>2. /\ t \in Texts /\ Len(t) = m + n
      /\ \A i \in 1..m : t[i] = a[i]
      /\ \A i \in 1..n : t[m + i] = b[i]
  BY <1>1, Joined
<1>3. /\ a[1] # Cr /\ a[m] = Lf /\ \A i \in 1..(m - 2) : a[i] # Cr \/ a[i + 2] # Cr
      /\ b[1] # Cr /\ b[n - 1] = Cr /\ b[n] = Lf
      /\ \A i \in 1..(n - 2) : b[i] # Cr \/ b[i + 2] # Cr
  BY DEF Lines
<1> HIDE DEF t, m, n
<1>4. t[1] = a[1] /\ t[m] = Lf /\ t[m + 1] # Cr
  <2>1. 1 \in 1..m /\ m \in 1..m /\ 1 \in 1..n
    BY <1>1
  <2>2. QED
    BY <1>2, <1>3, <2>1
<1>5. t[Len(t) - 1] = Cr /\ t[Len(t)] = Lf
  <2>1. Len(t) - 1 = m + (n - 1) /\ n - 1 \in 1..n /\ n \in 1..n
    BY <1>1, <1>2
  <2>2. QED
    BY <1>2, <1>3, <2>1
<1>6. ASSUME NEW i \in 1..(Len(t) - 2), t[i] = Cr
      PROVE  t[i + 2] # Cr
  <2>1. CASE i \in 1..(m - 2)
    <3>1. i \in 1..m /\ i + 2 \in 1..m
      BY <1>1, <2>1
    <3>2. QED
      BY <1>2, <1>3, <1>6, <2>1, <3>1
  <2>2. CASE i = m - 1
    <3>1. i + 2 = m + 1
      BY <1>1, <2>2
    <3>2. QED
      BY <1>4, <3>1
  <2>3. CASE i = m
    BY <1>4, <1>6, <2>3, LineEnd
  <2>4. CASE i > m
    <3>1. /\ i - m \in 1..(n - 2) /\ i - m \in 1..n /\ (i - m) + 2 \in 1..n
          /\ m + (i - m) = i /\ m + ((i - m) + 2) = i + 2
      BY <1>1, <1>2, <2>4
    <3>2. t[i] = b[i - m] /\ t[i + 2] = b[(i - m) + 2]
      BY <1>2, <3>1
    <3>3. QED
      BY <1>3, <1>6, <3>1, <3>2
  <2>5. QED
    BY <1>1, <1>2, <2>1, <2>2, <2>3, <2>4
<1>7. Len(t) >= 2
  BY <1>1, <1>2
<1>8. Lines(t)
  BY <1>2, <1>3, <1>4, <1>5, <1>6, <1>7 DEF Lines
<1>9. QED
  BY <1>4, <1>8 DEF t

\* Where four cells of a text are the end of a head.
LEMMA EndsAt ==
    ASSUME NEW t \in Texts, NEW i \in 1..(Len(t) - 3)
    PROVE  i \in HeadEnds(t) <=> /\ t[i] = Cr /\ t[i + 1] = Lf
                                 /\ t[i + 2] = Cr /\ t[i + 3] = Lf
<1>1. Len(t) \in Nat
  BY TextLength
<1> DEFINE e == SubSeq(t, i, i + 3)
<1>2. e \in Seq(Cells) /\ Len(e) = 4 /\ \A k \in 1..4 : e[k] = t[i + k - 1]
  <2>1. \A k \in i..(i + 3) : t[k] \in Cells
    <3>1. \A k \in i..(i + 3) : k \in 1..Len(t)
      BY <1>1
    <3>2. QED
      BY <3>1, TextLength
  <2>2. i \in Int /\ i + 3 \in Int /\ (i + 3) - i + 1 = 4 /\ i <= i + 3
    OBVIOUS
  <2>3. QED
    BY <2>1, <2>2, SubSeqProperties
<1>3. e[1] = t[i] /\ e[2] = t[i + 1] /\ e[3] = t[i + 2] /\ e[4] = t[i + 3]
  <2>1. i + 1 - 1 = i /\ i + 2 - 1 = i + 1 /\ i + 3 - 1 = i + 2 /\ i + 4 - 1 = i + 3
    OBVIOUS
  <2> HIDE DEF e
  <2>2. e[1] = t[i + 1 - 1] /\ e[2] = t[i + 2 - 1] /\ e[3] = t[i + 3 - 1] /\ e[4] = t[i + 4 - 1]
    BY <1>2
  <2>3. QED
    BY <2>1, <2>2
<1>4. i \in HeadEnds(t) <=> e = EndOfHead
  BY DEF HeadEnds
<1> HIDE DEF e
<1>5. e = EndOfHead <=> e[1] = Cr /\ e[2] = Lf /\ e[3] = Cr /\ e[4] = Lf
  <2>1. ASSUME e[1] = Cr /\ e[2] = Lf /\ e[3] = Cr /\ e[4] = Lf
        PROVE  e = EndOfHead
    <3>1. \A k \in 1..4 : k = 1 \/ k = 2 \/ k = 3 \/ k = 4
      OBVIOUS
    <3>2. \A k \in 1..4 : e[k] = EndOfHead[k]
      BY <2>1, <3>1, LineEnd
    <3>3. QED
      BY <1>2, <3>2, LineEnd, SeqEqual DEF Texts
  <2>2. QED
    BY <2>1, LineEnd
<1>6. QED
  BY <1>3, <1>4, <1>5

\* What a head is to a parser: its end is where it ends, and nowhere before.
IsHead(h) ==
    /\ h \in Texts /\ Len(h) >= 4 /\ HeadEnds(h) = {Len(h) - 3}
    /\ h[1] # Cr /\ h[1] # Lf

\* Lines and an empty line are a head.
LEMMA LinesHead ==
    ASSUME NEW t, Lines(t), t[1] # Lf
    PROVE  IsHead(t \o EndOfLine) /\ (t \o EndOfLine)[1] = t[1]
<1> DEFINE h == t \o EndOfLine
           n == Len(t)
<1>1. t \in Texts /\ n \in Nat /\ n >= 2
  BY TextLength DEF Lines
<1>2. /\ h \in Texts /\ Len(h) = n + 2 /\ \A i \in 1..n : h[i] = t[i]
      /\ h[n + 1] = Cr /\ h[n + 2] = Lf
  BY <1>1, LineJoined
<1>3. /\ t[1] # Cr /\ t[n - 1] = Cr /\ t[n] = Lf
      /\ \A i \in 1..(n - 2) : t[i] # Cr \/ t[i + 2] # Cr
  BY DEF Lines
<1> HIDE DEF h, n
<1>4. h[1] = t[1] /\ h[n - 1] = Cr /\ h[n] = Lf
  <2>1. 1 \in 1..n /\ n - 1 \in 1..n /\ n \in 1..n
    BY <1>1
  <2>2. QED
    BY <1>2, <1>3, <2>1
<1>5. n - 1 \in HeadEnds(h)
  <2>1. n - 1 \in 1..(Len(h) - 3) /\ (n - 1) + 1 = n /\ (n - 1) + 2 = n + 1
        /\ (n - 1) + 3 = n + 2
    BY <1>1, <1>2
  <2>2. QED
    BY <1>2, <1>4, <2>1, EndsAt
<1>6. ASSUME NEW i \in HeadEnds(h)
      PROVE  i = n - 1
  <2>1. i \in 1..(Len(h) - 3)
    BY DEF HeadEnds
  <2>2. h[i] = Cr /\ h[i + 2] = Cr
    BY <1>2, <2>1, EndsAt
  <2>3. CASE i \in 1..(n - 2)
    <3>1. i \in 1..n /\ i + 2 \in 1..n
      BY <1>1, <2>3
    <3>2. QED
      BY <1>2, <1>3, <2>2, <2>3, <3>1
  <2>4. QED
    BY <1>1, <1>2, <2>1, <2>3
<1>7. Len(h) - 3 = n - 1 /\ Len(h) >= 4
  BY <1>1, <1>2
<1>8. HeadEnds(h) = {Len(h) - 3}
  BY <1>5, <1>6, <1>7
<1>9. QED
  BY <1>2, <1>3, <1>4, <1>7, <1>8 DEF IsHead, h

\* Texts that agree agree on where a head ends.
LEMMA SameEnds ==
    ASSUME NEW s \in Texts, NEW t \in Texts,
           NEW i \in 1..(Len(s) - 3), i \in 1..(Len(t) - 3),
           \A k \in i..(i + 3) : s[k] = t[k]
    PROVE  i \in HeadEnds(s) <=> i \in HeadEnds(t)
<1>1. i \in i..(i + 3) /\ i + 1 \in i..(i + 3) /\ i + 2 \in i..(i + 3) /\ i + 3 \in i..(i + 3)
  OBVIOUS
<1>2. s[i] = t[i] /\ s[i + 1] = t[i + 1] /\ s[i + 2] = t[i + 2] /\ s[i + 3] = t[i + 3]
  BY <1>1
<1>3. QED
  BY <1>2, EndsAt

\* text is cut at the end of h: the head is what is before it, the rest is behind it,
\* and what is still to come follows the rest.
CutAt(text, more, h, body) ==
    /\ HeadIn(text) = SubSeq(h, 1, Len(h) - 4)
    /\ HeadIn(text) \in Texts /\ HeadEnds(HeadIn(text)) = {}
    /\ RestOf(text) \in Texts /\ RestOf(text) \o more = body

\* As soon as the end of a head has arrived, its parser finds it.
LEMMA CutAtEnd ==
    ASSUME NEW h \in Texts, NEW body \in Texts, NEW text \in Texts, NEW more \in Texts,
           Len(h) >= 4, HeadEnds(h) = {Len(h) - 3},
           text \o more = h \o body, HeadEnds(text) # {}
    PROVE  CutAt(text, more, h, body)
<1> DEFINE m == Len(h) - 3
<1>1. Len(h) \in Nat /\ Len(text) \in Nat /\ m \in Nat /\ m >= 1 /\ Len(h) = m + 3
  BY TextLength
<1>2. \A i \in 1..Len(h) : i \in 1..Len(text) => text[i] = h[i]
  <2> TAKE i \in 1..Len(h)
  <2> HAVE i \in 1..Len(text)
  <2>1. (text \o more)[i] = text[i]
    BY Joined
  <2>2. (h \o body)[i] = h[i]
    BY Joined
  <2>3. QED
    BY <2>1, <2>2
<1>3. ASSUME NEW i \in HeadEnds(text)
      PROVE  i >= m /\ i + 3 <= Len(text) /\ i \in Nat
  <2>1. i \in 1..(Len(text) - 3)
    BY DEF HeadEnds
  <2>2. CASE i < m
    <3>1. i \in 1..(Len(h) - 3) /\ \A k \in i..(i + 3) : k \in 1..Len(h) /\ k \in 1..Len(text)
      BY <1>1, <2>1, <2>2
    <3>2. \A k \in i..(i + 3) : text[k] = h[k]
      BY <1>2, <3>1
    <3>3. i \in HeadEnds(h)
      BY <2>1, <3>1, <3>2, SameEnds
    <3>4. QED
      BY <2>2, <3>3
  <2>3. QED
    BY <1>1, <2>1, <2>2
<1>4. Len(h) <= Len(text)
  <2>1. PICK i \in HeadEnds(text) : TRUE
    OBVIOUS
  <2>2. QED
    BY <1>1, <1>3, <2>1
<1>5. m \in HeadEnds(text)
  <2>1. m \in 1..(Len(text) - 3) /\ m \in 1..(Len(h) - 3)
        /\ \A k \in m..(m + 3) : k \in 1..Len(h) /\ k \in 1..Len(text)
    BY <1>1, <1>4
  <2>2. \A k \in m..(m + 3) : text[k] = h[k]
    BY <1>2, <2>1
  <2>3. m \in HeadEnds(h)
    OBVIOUS
  <2> HIDE DEF m
  <2>4. QED
    BY <2>1, <2>2, <2>3, SameEnds
<1>6. Min(HeadEnds(text)) = m
  <2>1. HeadEnds(text) \in SUBSET Nat /\ \A i \in HeadEnds(text) : m <= i
    BY <1>1, <1>3
  <2> HIDE DEF m
  <2>2. QED
    BY <1>5, <2>1, MinIs
<1>7. HeadIn(text) = SubSeq(text, 1, m - 1) /\ RestOf(text) = SubSeq(text, Len(h) + 1, Len(text))
  <2>1. m + 4 = Len(h) + 1
    BY <1>1
  <2>2. HeadIn(text) = SubSeq(text, 1, m - 1) /\ RestOf(text) = SubSeq(text, m + 4, Len(text))
    BY <1>6 DEF HeadIn, RestOf
  <2>3. QED
    BY <2>1, <2>2
<1>8. m - 1 \in 0..Len(text) /\ m - 1 \in 0..Len(h) /\ Len(h) \in 0..Len(text)
      /\ m - 1 = Len(h) - 4
  BY <1>1, <1>4
<1> HIDE DEF m
<1> DEFINE c == SubSeq(h, 1, m - 1)
<1>9. RestOf(text) \in Texts /\ RestOf(text) \o more = body
  <2>1. PICK p \in Texts, q \in Texts :
           q = SubSeq(text, Len(h) + 1, Len(text)) /\ p \o q = text /\ Len(p) = Len(h)
    BY <1>8, TwoParts
  <2>2. (p \o q) \o more = h \o body
    BY <2>1
  <2>3. Len(p) = Len(h)
    BY <2>1
  <2>4. q \o more = body
    <3>1. (p \o q) \o more = p \o (q \o more)
      BY Regroup
    <3>2. p \o (q \o more) = h \o body
      BY <2>2, <3>1
    <3>3. q \o more \in Texts
      BY Joined
    <3>4. QED
      BY <2>3, <3>2, <3>3, SameFront
  <2>5. QED
    BY <1>7, <2>1, <2>4
<1>10. HeadIn(text) = c
  <2>1. PICK a \in Texts, b \in Texts :
           a = SubSeq(text, 1, m - 1) /\ a \o b = text /\ Len(a) = m - 1
    BY <1>8, TwoParts
  <2>2. PICK e \in Texts, d \in Texts :
           e = SubSeq(h, 1, m - 1) /\ e \o d = h /\ Len(e) = m - 1
    BY <1>8, TwoParts
  <2>3. (a \o b) \o more = (e \o d) \o body /\ Len(a) = Len(e)
    BY <2>1, <2>2
  <2>4. a = e
    BY <2>3, SameBeginning
  <2>5. QED
    BY <1>7, <2>1, <2>2, <2>4
<1>11. c \in Texts /\ Len(c) = m - 1 /\ \A k \in 1..Len(c) : h[k] = c[k]
  <2>1. PICK e \in Texts, d \in Texts :
           e = SubSeq(h, 1, m - 1) /\ e \o d = h /\ Len(e) = m - 1
    BY <1>8, TwoParts
  <2>2. \A k \in 1..Len(e) : (e \o d)[k] = e[k]
    BY Joined
  <2>3. QED
    BY <2>1, <2>2
<1>12. c = SubSeq(h, 1, Len(h) - 4)
  BY <1>8
<1> HIDE DEF c
<1>13. HeadEnds(c) = {}
  <2> SUFFICES ASSUME NEW i \in HeadEnds(c) PROVE FALSE
    OBVIOUS
  <2>1. i \in 1..(Len(c) - 3)
    BY DEF HeadEnds
  <2>2. i \in 1..(Len(h) - 3) /\ i # Len(h) - 3
    BY <1>1, <1>8, <1>11, <2>1
  <2>3. \A k \in i..(i + 3) : k \in 1..Len(c)
    BY <1>1, <1>11, <2>1
  <2>4. \A k \in i..(i + 3) : c[k] = h[k]
    BY <1>11, <2>3
  <2>5. i \in HeadEnds(h)
    BY <1>11, <2>1, <2>2, <2>4, SameEnds
  <2>6. QED
    BY <2>2, <2>5
<1>14. QED
  BY <1>9, <1>10, <1>11, <1>12, <1>13 DEF CutAt

\* Behind a text without an end of a head, the first end is that of the head that follows.
LEMMA EndBehind ==
    ASSUME NEW old \in Texts, HeadEnds(old) = {}, NEW h, IsHead(h)
    PROVE  HeadEnds(old \o h) = {Len(old \o h) - 3}
<1> DEFINE t == old \o h
           n == Len(old)
<1>1. /\ h \in Texts /\ Len(h) \in Nat /\ Len(h) >= 4 /\ HeadEnds(h) = {Len(h) - 3}
      /\ h[1] # Cr /\ h[1] # Lf /\ n \in Nat
  BY TextLength DEF IsHead
<1>2. /\ t \in Texts /\ Len(t) = n + Len(h)
      /\ \A i \in 1..n : t[i] = old[i]
      /\ \A i \in 1..Len(h) : t[n + i] = h[i]
  BY <1>1, Joined
<1>3. t[n + 1] # Cr /\ t[n + 1] # Lf
  <2>1. 1 \in 1..Len(h)
    BY <1>1
  <2>2. QED
    BY <1>1, <1>2, <2>1
<1> HIDE DEF t, n
<1>4. ASSUME NEW i \in 1..(Len(h) - 3)
      PROVE  n + i \in HeadEnds(t) <=> i \in HeadEnds(h)
  <2>1. n + i \in 1..(Len(t) - 3)
    BY <1>1, <1>2
  <2>2. /\ t[n + i] = h[i] /\ t[(n + i) + 1] = h[i + 1]
        /\ t[(n + i) + 2] = h[i + 2] /\ t[(n + i) + 3] = h[i + 3]
    <3>1. i \in 1..Len(h) /\ i + 1 \in 1..Len(h) /\ i + 2 \in 1..Len(h) /\ i + 3 \in 1..Len(h)
      BY <1>1
    <3>2. /\ (n + i) + 1 = n + (i + 1) /\ (n + i) + 2 = n + (i + 2)
          /\ (n + i) + 3 = n + (i + 3)
      BY <1>1
    <3>3. QED
      BY <1>2, <3>1, <3>2
  <2>3. n + i \in HeadEnds(t) <=> /\ t[n + i] = Cr /\ t[(n + i) + 1] = Lf
                                  /\ t[(n + i) + 2] = Cr /\ t[(n + i) + 3] = Lf
    BY <1>2, <2>1, EndsAt
  <2>4. i \in HeadEnds(h) <=> h[i] = Cr /\ h[i + 1] = Lf /\ h[i + 2] = Cr /\ h[i + 3] = Lf
    BY <1>1, EndsAt
  <2>5. QED
    BY <2>2, <2>3, <2>4
<1>5. ASSUME NEW i \in HeadEnds(t)
      PROVE  i > n
  <2>1. i \in 1..(Len(t) - 3)
    BY DEF HeadEnds
  <2>2. t[i] = Cr /\ t[i + 1] = Lf /\ t[i + 2] = Cr /\ t[i + 3] = Lf
    BY <1>2, <2>1, EndsAt
  <2>3. CASE i \in 1..(n - 3)
    <3>1. \A k \in i..(i + 3) : k \in 1..n
      BY <1>1, <2>3
    <3>2. \A k \in i..(i + 3) : t[k] = old[k]
      BY <1>2, <3>1
    <3>3. i \in HeadEnds(old)
      BY <1>2, <2>1, <2>3, <3>2, SameEnds DEF n
    <3>4. QED
      BY <3>3
  <2>4. CASE i \in (n - 2)..n
    <3>1. i + 1 = n + 1 \/ i + 2 = n + 1 \/ i + 3 = n + 1
      BY <1>1, <2>1, <2>4
    <3>2. QED
      BY <1>3, <2>2, <3>1
  <2>5. QED
    BY <1>1, <2>1, <2>3, <2>4
<1>6. Len(t) - 3 \in HeadEnds(t)
  <2>1. Len(h) - 3 \in 1..(Len(h) - 3) /\ Len(t) - 3 = n + (Len(h) - 3)
    BY <1>1, <1>2
  <2>2. Len(h) - 3 \in HeadEnds(h)
    BY <1>1
  <2>3. QED
    BY <1>4, <2>1, <2>2
<1>7. ASSUME NEW i \in HeadEnds(t)
      PROVE  i = Len(t) - 3
  <2>1. i > n /\ i \in 1..(Len(t) - 3)
    BY <1>5 DEF HeadEnds
  <2>2. i - n \in 1..(Len(h) - 3) /\ n + (i - n) = i
    BY <1>1, <1>2, <2>1
  <2>3. i - n \in HeadEnds(h)
    BY <1>4, <2>2
  <2>4. i - n = Len(h) - 3
    BY <1>1, <2>3
  <2>5. QED
    BY <1>1, <1>2, <2>1, <2>4
<1>8. QED
  BY <1>6, <1>7 DEF t

----------------------------------------------------------------------------
(* The heads the programs write.                                            *)

LEMMA TokenCells ==
    /\ \A kind \in STRING : Token(kind) \in Cells
    /\ {Cr, Lf, Space, Colon, ContentLength, Version, Host} \subseteq Cells
    /\ {Token("address"), Token("content-type"), Token("POST"), Token("GET")} \subseteq Cells
    /\ <<"digit", 9>> \in Cells
<1>1. \A kind \in STRING : Token(kind) \in Cells
  BY DEF Token, Cells
<1>2. Kinds \subseteq STRING
  BY KindAssumption
<1>3. {Cr, Lf, Space, Colon, ContentLength, Version, Host} \subseteq Cells
  BY <1>1, <1>2 DEF Kinds, Cr, Lf, Space, Colon, ContentLength, Version, Host
<1>4. {Token("address"), Token("content-type"), Token("POST"), Token("GET")} \subseteq Cells
  BY <1>1, <1>2 DEF Kinds
<1>5. <<"digit", 9>> \in Cells
  BY <1>2 DEF Kinds, Cells
<1>6. QED
  BY <1>1, <1>3, <1>4, <1>5

\* The tokens a parser looks for are none of the others.
LEMMA Distinct ==
    /\ Space \notin {Cr, Version, ContentLength, Token("POST"), Token("GET")}
    /\ Cr \notin {Space, Colon, Version, Host, ContentLength, Token("address"),
                  Token("content-type"), Token("POST"), Token("GET"), <<"digit", 9>>}
    /\ ContentLength \notin {Cr, Lf, Space, Colon, Version, Host, Token("address"),
                             Token("content-type"), Token("POST"), Token("GET"), <<"digit", 9>>}
    /\ Lf \notin {Version, Token("POST"), Token("GET")}
BY DEF Token, Cr, Lf, Space, Colon, ContentLength, Version, Host

LEMMA DigitsPlain ==
    ASSUME NEW n \in Nat
    PROVE  /\ Digits(n) \in Texts /\ Digits(n) # <<>>
           /\ Cr \notin ToSet(Digits(n)) /\ ContentLength \notin ToSet(Digits(n))
<1>1. Digits(n) \in Texts /\ Digits(n) \in Seq(DigitCell) /\ Digits(n) # <<>>
  BY AtoiDigits, DigitsRead
<1>2. \A i \in 1..Len(Digits(n)) : Digits(n)[i][1] = "digit"
  BY <1>1, ElementOfSeq DEF DigitCell
<1>3. Cr[1] # "digit" /\ ContentLength[1] # "digit"
  BY DEF Cr, ContentLength, Token
<1>4. QED
  BY <1>1, <1>2, <1>3, InToSet

\* The cells up to the first line end.
LEMMA FirstLine ==
    ASSUME NEW x \in Texts, NEW z \in Texts, Cr \notin ToSet(x)
    PROVE  Until((x \o EndOfLine) \o z, Cr) = x
<1>1. EndOfLine = <<Cr>> \o <<Lf>> /\ <<Cr>> \in Texts /\ <<Lf>> \in Texts
  BY LineEnd, TwoCells, OneCell DEF EndOfLine
<1>2. x \o (<<Cr>> \o <<Lf>>) = (x \o <<Cr>>) \o <<Lf>> /\ x \o <<Cr>> \in Texts
  BY <1>1, Regroup, Joined
<1>3. ((x \o <<Cr>>) \o <<Lf>>) \o z = (x \o <<Cr>>) \o (<<Lf>> \o z)
  BY <1>1, <1>2, Regroup
<1>4. <<Lf>> \o z \in Texts
  BY <1>1, Joined
<1>5. Until((x \o <<Cr>>) \o (<<Lf>> \o z), Cr) = x
  BY <1>4, LineEnd, PlaceFound
<1>6. QED
  BY <1>1, <1>2, <1>3, <1>5

\* A last line and an empty line end a head.
LEMMA LastLine ==
    ASSUME NEW t, Lines(t), t[1] # Lf, NEW x \in Texts, x # <<>>, Cr \notin ToSet(x)
    PROVE  /\ (t \o (x \o EndOfLine)) \o EndOfLine = (t \o x) \o EndOfHead
           /\ t \o x \in Texts
           /\ IsHead((t \o x) \o EndOfHead)
           /\ ((t \o x) \o EndOfHead)[1] = t[1]
<1>1. t \in Texts /\ EndOfLine \in Texts
  BY LineEnd DEF Lines
<1>2. t \o x \in Texts /\ x \o EndOfLine \in Texts
  BY <1>1, Joined
<1>3. t \o (x \o EndOfLine) = (t \o x) \o EndOfLine
  BY <1>1, Regroup
<1>4. ((t \o x) \o EndOfLine) \o EndOfLine = (t \o x) \o (EndOfLine \o EndOfLine)
  BY <1>1, <1>2, Regroup
<1>5. (t \o (x \o EndOfLine)) \o EndOfLine = (t \o x) \o EndOfHead
  BY <1>3, <1>4 DEF EndOfHead
<1> DEFINE a == t \o (x \o EndOfLine)
<1>6. Lines(a) /\ a[1] = t[1]
  BY OneLine, MoreLines
<1> HIDE DEF a
<1>7. IsHead(a \o EndOfLine) /\ (a \o EndOfLine)[1] = a[1]
  BY <1>6, LinesHead
<1>8. QED
  BY <1>2, <1>5, <1>6, <1>7 DEF a

\* What is before the empty line.
LEMMA BeforeEnd ==
    ASSUME NEW u \in Texts
    PROVE  SubSeq(u \o EndOfHead, 1, Len(u \o EndOfHead) - 4) = u
<1>0. EndOfHead \in Texts /\ Len(EndOfHead) = 4
  BY LineEnd
<1>1. Len(u \o EndOfHead) = Len(u) + Len(EndOfHead)
  BY <1>0, Joined
<1>2. Len(u \o EndOfHead) - 4 = Len(u)
  <2>1. Len(u) \in Nat
    BY TextLength
  <2>2. QED
    BY <1>0, <1>1, <2>1
<1>3. SubSeq(u \o EndOfHead, 1, Len(u)) = u
  BY LineEnd, CutJoined
<1>4. QED
  BY <1>2, <1>3

\* A length on the last line is the one that is read, if no line before it has the name.
LEMMA LengthRead ==
    ASSUME NEW t \in Texts, ContentLength \notin ToSet(t), NEW n \in Nat
    PROVE  /\ HasLength(t \o (<<ContentLength, Colon>> \o Digits(n)))
           /\ LengthIn(t \o (<<ContentLength, Colon>> \o Digits(n))) = n
<1> DEFINE d == Digits(n)
<1>1. d \in Texts /\ Atoi(d) = n
  BY AtoiDigits
<1>2. ContentLength \in Cells /\ Colon \in Cells
  BY TokenCells
<1> HIDE DEF d
<1>3. /\ <<ContentLength, Colon>> = <<ContentLength>> \o <<Colon>>
      /\ <<ContentLength>> \in Texts /\ <<Colon>> \in Texts
  BY <1>2, TwoCells, OneCell
<1>4. (<<ContentLength>> \o <<Colon>>) \o d = <<ContentLength>> \o (<<Colon>> \o d)
  BY <1>1, <1>3, Regroup
<1>5. <<Colon>> \o d \in Texts
  BY <1>1, <1>3, Joined
<1>6. t \o (<<ContentLength>> \o (<<Colon>> \o d)) = (t \o <<ContentLength>>) \o (<<Colon>> \o d)
  BY <1>3, <1>5, Regroup
<1>7. Behind((t \o <<ContentLength>>) \o (<<Colon>> \o d), ContentLength) = <<Colon>> \o d
  BY <1>2, <1>5, PlaceFound
<1>8. Behind(<<Colon>> \o d, Colon) = d
  <2>1. <<>> \in Texts /\ <<>> \o <<Colon>> = <<Colon>>
    BY <1>3, JoinedEmpty
  <2>2. Colon \notin ToSet(<<>>)
    BY DEF ToSet
  <2>3. Behind((<<>> \o <<Colon>>) \o d, Colon) = d
    BY <1>1, <1>2, <2>1, <2>2, PlaceFound
  <2>4. QED
    BY <2>1, <2>3
<1>9. Colon \in ToSet(<<Colon>> \o d)
  BY <1>1, <1>2, OneCell, CellsOfJoined
<1>10. QED
  BY <1>1, <1>3, <1>4, <1>6, <1>7, <1>8, <1>9 DEF HasLength, LengthIn, d

\* The first line of a request, and what is read of it whatever follows.
LEMMA RequestRead ==
    ASSUME NEW method \in {"POST", "GET"}, NEW uri, IsUri(uri)
    PROVE  /\ Lines(RequestLine(method, uri))
           /\ RequestLine(method, uri)[1] = Token(method)
           /\ ContentLength \notin ToSet(uri) =>
                 ContentLength \notin ToSet(RequestLine(method, uri))
           /\ \A z \in Texts : /\ MethodIn(RequestLine(method, uri) \o z) = <<Token(method)>>
                               /\ UriIn(RequestLine(method, uri) \o z) = uri
<1> DEFINE M == Token(method)
           front == <<M, Space>> \o uri
           back == <<Space, Version>>
           line == front \o back
<1>1. M \in Cells /\ M \notin {Cr, Lf, Space, ContentLength}
  BY TokenCells, Distinct
<1>2. Space \in Cells /\ Version \in Cells
  BY TokenCells
<1>3. uri \in Texts /\ Cr \notin ToSet(uri) /\ Space \notin ToSet(uri)
  BY DEF IsUri
<1> HIDE DEF M
<1>4. /\ <<M>> \in Texts /\ <<Space>> \in Texts /\ <<Version>> \in Texts
      /\ <<M, Space>> \in Texts /\ back \in Texts
      /\ <<M, Space>> = <<M>> \o <<Space>> /\ back = <<Space>> \o <<Version>>
      /\ ToSet(<<M, Space>>) = {M, Space} /\ ToSet(back) = {Space, Version}
      /\ ToSet(<<M>>) = {M} /\ Len(<<M, Space>>) = 2 /\ <<M, Space>>[1] = M
  BY <1>1, <1>2, OneCell, TwoCells
<1> HIDE DEF back
<1>5. front \in Texts /\ line \in Texts
  BY <1>3, <1>4, Joined
<1>6. ToSet(line) = ({M, Space} \cup ToSet(uri)) \cup {Space, Version}
  <2>1. ToSet(front) = {M, Space} \cup ToSet(uri)
    BY <1>3, <1>4, CellsOfJoined
  <2> HIDE DEF front
  <2>2. ToSet(line) = ToSet(front) \cup ToSet(back)
    BY <1>4, <1>5, CellsOfJoined
  <2>3. QED
    BY <1>4, <2>1, <2>2
<1>7. line[1] = M /\ line # <<>>
  <2>1. 1 \in 1..Len(<<M, Space>>)
    BY <1>4
  <2>2. front[1] = M
    BY <1>3, <1>4, <2>1, Joined
  <2>3. Len(front) = 2 + Len(uri) /\ Len(uri) \in Nat
    BY <1>3, <1>4, Joined, TextLength
  <2>4. 1 \in 1..Len(front)
    BY <2>3
  <2> HIDE DEF front
  <2>5. line[1] = front[1] /\ Len(line) = Len(front) + Len(back)
    BY <1>4, <1>5, <2>4, Joined
  <2>6. Len(back) \in Nat
    BY <1>4, TextLength
  <2>7. Len(line) # 0
    BY <2>3, <2>5, <2>6
  <2>8. QED
    BY <1>5, <2>2, <2>5, <2>7, EmptySeq DEF Texts
<1>8. Cr \notin ToSet(line)
  BY <1>1, <1>3, <1>6, Distinct
<1>9. RequestLine(method, uri) = line \o EndOfLine
  BY DEF RequestLine, M, back
<1>10. Lines(line \o EndOfLine)
  BY <1>5, <1>7, <1>8, OneLine
<1>11. (line \o EndOfLine)[1] = M
  <2>1. Len(line) \in Nat /\ Len(line) # 0
    <3>1. Len(line) \in Nat \ {0}
      BY <1>5, <1>7, EmptySeq DEF Texts
    <3>2. QED
      BY <3>1
  <2>2. 1 \in 1..Len(line)
    BY <2>1
  <2> HIDE DEF line
  <2>3. QED
    BY <1>5, <1>7, <2>2, LineJoined
<1>12. ASSUME ContentLength \notin ToSet(uri)
       PROVE  ContentLength \notin ToSet(line \o EndOfLine)
  <2>1. ContentLength \notin ToSet(line)
    BY <1>1, <1>6, <1>12, Distinct
  <2>2. ToSet(EndOfLine) = {Cr, Lf}
    BY LineEnd, TwoCells DEF EndOfLine
  <2> HIDE DEF line
  <2>3. ToSet(line \o EndOfLine) = ToSet(line) \cup ToSet(EndOfLine)
    BY <1>5, LineEnd, CellsOfJoined
  <2>4. QED
    BY <2>1, <2>2, <2>3, Distinct
<1>13. Until(line, Space) = <<M>> /\ Behind(line, Space) = uri \o back
  <2>1. line = (<<M>> \o <<Space>>) \o (uri \o back)
    <3>1. (<<M>> \o <<Space>>) \o (uri \o back) = ((<<M>> \o <<Space>>) \o uri) \o back
      BY <1>3, <1>4, Regroup
    <3>2. QED
      BY <1>4, <3>1
  <2>2. uri \o back \in Texts /\ Space \notin ToSet(<<M>>)
    BY <1>1, <1>3, <1>4, Joined
  <2> HIDE DEF line
  <2>3. QED
    BY <1>2, <1>4, <2>1, <2>2, PlaceFound
<1>14. Until(uri \o back, Space) = uri
  <2>1. uri \o (<<Space>> \o <<Version>>) = (uri \o <<Space>>) \o <<Version>>
    BY <1>3, <1>4, Regroup
  <2>2. Until((uri \o <<Space>>) \o <<Version>>, Space) = uri
    BY <1>2, <1>3, <1>4, PlaceFound
  <2>3. QED
    BY <1>4, <2>1, <2>2
<1> HIDE DEF line
<1>15. ASSUME NEW z \in Texts
       PROVE  /\ MethodIn((line \o EndOfLine) \o z) = <<M>>
              /\ UriIn((line \o EndOfLine) \o z) = uri
  <2>1. Until((line \o EndOfLine) \o z, Cr) = line
    BY <1>5, <1>8, FirstLine
  <2>2. QED
    BY <1>13, <1>14, <2>1 DEF MethodIn, UriIn
<1>16. QED
  BY <1>9, <1>10, <1>11, <1>12, <1>15 DEF M

\* The line with the host's address, and the line with a length.
LEMMA OtherLines ==
    /\ \E x \in Texts : /\ HostLine = x \o EndOfLine /\ x # <<>>
                        /\ Cr \notin ToSet(x) /\ ContentLength \notin ToSet(x)
    /\ \A n \in Nat : /\ <<ContentLength, Colon>> \o Digits(n) \in Texts
                      /\ <<ContentLength, Colon>> \o Digits(n) # <<>>
                      /\ Cr \notin ToSet(<<ContentLength, Colon>> \o Digits(n))
<1>1. {Host, Colon, <<"digit", 9>>, Token("address"), ContentLength} \subseteq Cells
  BY TokenCells
<1> DEFINE h == <<Host, Colon>>
           g == << <<"digit", 9>>, Token("address")>>
           x == <<Host, Colon, <<"digit", 9>>, Token("address")>>
<1>2. /\ h \in Texts /\ g \in Texts /\ ToSet(h) = {Host, Colon}
      /\ ToSet(g) = {<<"digit", 9>>, Token("address")}
  <2>1. h \in Texts /\ ToSet(h) = {Host, Colon}
    <3> HIDE DEF g
    <3>1. QED
      BY <1>1, TwoCells
  <2>2. g \in Texts /\ ToSet(g) = {<<"digit", 9>>, Token("address")}
    <3> DEFINE nine == <<"digit", 9>>
               address == Token("address")
    <3>1. nine \in Cells /\ address \in Cells
      BY <1>1
    <3> HIDE DEF nine, address
    <3>2. <<nine, address>> \in Texts /\ ToSet(<<nine, address>>) = {nine, address}
      BY <3>1, TwoCells
    <3>3. QED
      BY <3>2 DEF nine, address
  <2>3. QED
    BY <2>1, <2>2
<1>3. x = h \o g
  OBVIOUS
<1>4. x \in Texts /\ ToSet(x) = {Host, Colon} \cup {<<"digit", 9>>, Token("address")}
  <2> HIDE DEF h, g
  <2>1. h \o g \in Texts
    BY <1>2, Joined
  <2>2. ToSet(h \o g) = ToSet(h) \cup ToSet(g)
    BY <1>2, CellsOfJoined
  <2> HIDE DEF x
  <2>3. QED
    BY <1>2, <1>3, <2>1, <2>2
<1>5. x # <<>> /\ HostLine = x \o EndOfLine
  BY DEF HostLine
<1>6. Cr \notin ToSet(x) /\ ContentLength \notin ToSet(x)
  <2> HIDE DEF x
  <2>1. QED
    BY <1>4, Distinct
<1>7. ASSUME NEW n \in Nat
      PROVE  /\ <<ContentLength, Colon>> \o Digits(n) \in Texts
             /\ <<ContentLength, Colon>> \o Digits(n) # <<>>
             /\ Cr \notin ToSet(<<ContentLength, Colon>> \o Digits(n))
  <2> DEFINE c == <<ContentLength, Colon>>
             d == Digits(n)
  <2>1. c \in Texts /\ Len(c) = 2 /\ ToSet(c) = {ContentLength, Colon}
    BY <1>1, TwoCells
  <2>2. d \in Texts /\ Cr \notin ToSet(d)
    BY DigitsPlain
  <2> HIDE DEF c, d
  <2>3. c \o d \in Texts /\ Len(c \o d) = 2 + Len(d) /\ Len(d) \in Nat
    <3>1. c \o d \in Texts /\ Len(c \o d) = Len(c) + Len(d)
      BY <2>1, <2>2, Joined
    <3>2. Len(d) \in Nat
      BY <2>2, TextLength
    <3>3. QED
      BY <2>1, <3>1, <3>2
  <2>4. ToSet(c \o d) = {ContentLength, Colon} \cup ToSet(d)
    BY <2>1, <2>2, CellsOfJoined
  <2>5. Cr \notin ToSet(c \o d)
    BY <2>2, <2>4, Distinct
  <2>6. c \o d # <<>>
    <3>1. Len(c \o d) # 0
      BY <2>3
    <3>2. QED
      BY <3>1, EmptySeq
  <2>7. QED
    BY <2>3, <2>5, <2>6 DEF c, d
<1>8. QED
  BY <1>4, <1>5, <1>6, <1>7

\* What is before the empty line of a head.
FrontOf(h) == SubSeq(h, 1, Len(h) - 4)

\* A head that is read as a request for a uri with a body of n cells.
Requests(h, uri, n) ==
    /\ IsHead(h) /\ MethodIn(FrontOf(h)) = <<h[1]>> /\ UriIn(FrontOf(h)) = uri
    /\ ContentLength \notin ToSet(uri) => LengthIn(FrontOf(h)) = n

\* A head that is read as that of a reply with a body of n cells.
Replies(h, n) ==
    /\ IsHead(h) /\ FrontOf(h) \o EndOfHead = h
    /\ HasLength(FrontOf(h)) /\ LengthIn(FrontOf(h)) = n

\* The head gen_http_head writes for a request with a body is read as it was written
\* by parse_http_head: its method, its uri, its length.
THEOREM PostHeadRead ==
    ASSUME NEW uri, IsUri(uri), NEW n \in Nat
    PROVE  Requests(PostHead(uri, n), uri, n)
<1> DEFINE R == RequestLine("POST", uri)
           t == R \o HostLine
           x == <<ContentLength, Colon>> \o Digits(n)
<1>1. /\ Lines(R) /\ R[1] = Token("POST") /\ R \in Texts
      /\ ContentLength \notin ToSet(uri) => ContentLength \notin ToSet(R)
      /\ \A z \in Texts : MethodIn(R \o z) = <<Token("POST")>> /\ UriIn(R \o z) = uri
  BY RequestRead DEF Lines
<1>2. PICK y \in Texts : /\ HostLine = y \o EndOfLine /\ y # <<>>
                         /\ Cr \notin ToSet(y) /\ ContentLength \notin ToSet(y)
  BY OtherLines
<1>3. x \in Texts /\ x # <<>> /\ Cr \notin ToSet(x)
  BY OtherLines
<1>4. PostHead(uri, n) = (t \o (x \o EndOfLine)) \o EndOfLine
  BY DEF PostHead, LengthLine
<1> HIDE DEF R, x
<1>5. HostLine \in Texts /\ Lines(HostLine)
  BY <1>2, OneLine DEF Lines
<1>6. ContentLength \notin ToSet(HostLine)
  <2>1. ToSet(HostLine) = ToSet(y) \cup ToSet(EndOfLine)
    BY <1>2, LineEnd, CellsOfJoined
  <2>2. ToSet(EndOfLine) = {Cr, Lf}
    BY LineEnd, TwoCells DEF EndOfLine
  <2>3. QED
    BY <1>2, <2>1, <2>2, Distinct
<1>7. Lines(t) /\ t[1] = Token("POST") /\ t \in Texts
  <2>1. Lines(t) /\ t[1] = R[1]
    BY <1>1, <1>5, MoreLines
  <2>2. QED
    BY <1>1, <2>1 DEF Lines
<1>8. ContentLength \notin ToSet(uri) => ContentLength \notin ToSet(t)
  <2>1. ToSet(t) = ToSet(R) \cup ToSet(HostLine)
    BY <1>1, <1>5, CellsOfJoined
  <2>2. QED
    BY <1>1, <1>6, <2>1
<1>9. (t \o x) = R \o (HostLine \o x) /\ HostLine \o x \in Texts
  <2> HIDE DEF t
  <2>1. (R \o HostLine) \o x = R \o (HostLine \o x)
    BY <1>1, <1>3, <1>5, Regroup
  <2>2. HostLine \o x \in Texts
    BY <1>3, <1>5, Joined
  <2>3. QED
    BY <2>1, <2>2 DEF t
<1> HIDE DEF t
<1> DEFINE u == t \o x
           h == u \o EndOfHead
<1>10. /\ PostHead(uri, n) = h /\ u \in Texts /\ IsHead(h) /\ h[1] = Token("POST")
  <2>1. Token("POST") # Lf
    BY Distinct
  <2>2. QED
    BY <1>3, <1>4, <1>7, <2>1, LastLine
<1>11. MethodIn(u) = <<Token("POST")>> /\ UriIn(u) = uri
  BY <1>1, <1>9
<1>12. ContentLength \notin ToSet(uri) => LengthIn(u) = n
  BY <1>7, <1>8, LengthRead DEF x
<1> HIDE DEF u
<1>13. FrontOf(h) = u
  BY <1>10, BeforeEnd DEF FrontOf
<1>14. QED
  BY <1>10, <1>11, <1>12, <1>13 DEF Requests

\* The head of a request without a body (a poll, a query, a retrieve) is read as it was
\* written, and its length as 0 unless the uri has the name of a length in it.
THEOREM GetHeadRead ==
    ASSUME NEW uri, IsUri(uri)
    PROVE  Requests(GetHead(uri), uri, 0)
<1> DEFINE R == RequestLine("GET", uri)
<1>1. /\ Lines(R) /\ R[1] = Token("GET") /\ R \in Texts
      /\ ContentLength \notin ToSet(uri) => ContentLength \notin ToSet(R)
      /\ \A z \in Texts : MethodIn(R \o z) = <<Token("GET")>> /\ UriIn(R \o z) = uri
  BY RequestRead DEF Lines
<1>2. PICK y \in Texts : /\ HostLine = y \o EndOfLine /\ y # <<>>
                         /\ Cr \notin ToSet(y) /\ ContentLength \notin ToSet(y)
  BY OtherLines
<1>3. GetHead(uri) = (R \o (y \o EndOfLine)) \o EndOfLine
  BY <1>2 DEF GetHead
<1> HIDE DEF R
<1> DEFINE u == R \o y
           h == u \o EndOfHead
<1>4. /\ GetHead(uri) = h /\ u \in Texts /\ IsHead(h) /\ h[1] = Token("GET")
  <2>1. Token("GET") # Lf
    BY Distinct
  <2>2. QED
    BY <1>1, <1>2, <1>3, <2>1, LastLine
<1>5. MethodIn(u) = <<Token("GET")>> /\ UriIn(u) = uri
  BY <1>1, <1>2
<1>6. ContentLength \notin ToSet(uri) => ContentLength \notin ToSet(u)
  <2>1. ToSet(u) = ToSet(R) \cup ToSet(y)
    BY <1>1, <1>2, CellsOfJoined
  <2>2. QED
    BY <1>1, <1>2, <2>1
<1> HIDE DEF u
<1>7. ContentLength \notin ToSet(uri) => LengthIn(u) = 0
  <2> HAVE ContentLength \notin ToSet(uri)
  <2>1. Behind(u, ContentLength) = <<>>
    BY <1>4, <1>6, PlaceMissing
  <2>2. Behind(<<>>, Colon) = <<>>
    <3>1. <<>> \in Texts /\ Colon \notin ToSet(<<>>)
      BY JoinedEmpty DEF ToSet
    <3>2. QED
      BY <3>1, PlaceMissing
  <2>3. Atoi(<<>>) = 0
    <3>1. <<>> \in Texts /\ Len(<<>>) = 0
      BY JoinedEmpty
    <3>2. PICK last \in 0..Len(<<>>) :
             \E f \in [0..last -> Nat] : f[0] = 0 /\ f[last] = Atoi(<<>>)
      BY <3>1, AtoiValue
    <3>3. last = 0
      BY <3>1, <3>2
    <3>4. QED
      BY <3>2, <3>3
  <2>4. QED
    BY <2>1, <2>2, <2>3 DEF LengthIn
<1>8. FrontOf(h) = u
  BY <1>4, BeforeEnd DEF FrontOf
<1>9. QED
  BY <1>4, <1>5, <1>7, <1>8 DEF Requests

\* http_recv finds in the head of a reply the length gen_http_head wrote.
THEOREM ReplyHeadRead ==
    ASSUME NEW code \in Names, NEW type \in Names, NEW n \in Nat
    PROVE  Replies(ReplyHead(code, type, n), n)
<1> DEFINE front == <<Version, Space, Token(code)>>
           typed == <<Token("content-type"), Colon, Token(type)>>
           x == <<ContentLength, Colon>> \o Digits(n)
<1>1. ASSUME NEW k1 \in Cells, NEW k2 \in Cells, NEW k3 \in Cells
      PROVE  <<k1, k2, k3>> \in Texts /\ <<k1, k2, k3>> # <<>> /\ <<k1, k2, k3>>[1] = k1
             /\ ToSet(<<k1, k2, k3>>) = {k1, k2, k3}
  <2>1. <<k1, k2, k3>> \in Texts
    BY DEF Texts
  <2>2. DOMAIN <<k1, k2, k3>> = {1, 2, 3}
    OBVIOUS
  <2>3. QED
    BY <2>1, <2>2 DEF ToSet
<1>2. ASSUME NEW name \in Names
      PROVE  Token(name) \in Cells /\ Token(name) # Cr /\ Token(name) # ContentLength
  <2>1. Token(name) \in Cells
    BY TokenCells DEF Names
  <2>2. QED
    BY <2>1 DEF Names, Token, Cr, ContentLength
<1>3. /\ front \in Texts /\ front # <<>> /\ front[1] = Version /\ ToSet(front) = {Version, Space, Token(code)}
  <2>1. Version \in Cells /\ Space \in Cells
    BY TokenCells
  <2>2. QED
    BY <1>1, <1>2, <2>1
<1>4. typed \in Texts /\ typed # <<>> /\ ToSet(typed) = {Token("content-type"), Colon, Token(type)}
  <2> DEFINE name == Token("content-type")
             kind == Token(type)
  <2>1. name \in Cells /\ Colon \in Cells /\ kind \in Cells
    BY TokenCells, <1>2
  <2> HIDE DEF name, kind
  <2>2. <<name, Colon, kind>> \in Texts /\ <<name, Colon, kind>> # <<>>
        /\ ToSet(<<name, Colon, kind>>) = {name, Colon, kind}
    BY <1>1, <2>1
  <2>3. QED
    BY <2>2 DEF name, kind
<1>5. x \in Texts /\ x # <<>> /\ Cr \notin ToSet(x)
  BY OtherLines
<1> DEFINE more == IF type = "none" THEN <<>> ELSE typed \o EndOfLine
           A == front \o EndOfLine
           t == A \o more
<1>6. ReplyHead(code, type, n) = (t \o (x \o EndOfLine)) \o EndOfLine
  BY DEF ReplyHead, LengthLine
<1>7. /\ Cr \notin ToSet(front) /\ ContentLength \notin ToSet(front)
      /\ Cr \notin ToSet(typed) /\ ContentLength \notin ToSet(typed)
  BY <1>2, <1>3, <1>4, Distinct
<1> HIDE DEF front, typed, x
<1>8. Lines(A) /\ Lines(typed \o EndOfLine) /\ A[1] = Version
  <2>1. Lines(A) /\ Lines(typed \o EndOfLine)
    BY <1>3, <1>4, <1>7, OneLine
  <2>2. 1 \in 1..Len(front)
    <3>1. Len(front) \in Nat \ {0}
      BY <1>3, EmptySeq DEF Texts
    <3>2. QED
      BY <3>1
  <2>3. A[1] = front[1]
    BY <1>3, <2>2, LineJoined
  <2>4. QED
    BY <1>3, <2>1, <2>3
<1>9. ContentLength \notin ToSet(A) /\ ContentLength \notin ToSet(typed \o EndOfLine)
  <2>1. ToSet(EndOfLine) = {Cr, Lf} /\ ContentLength \notin {Cr, Lf}
    BY LineEnd, TwoCells, Distinct DEF EndOfLine
  <2>2. ToSet(A) = ToSet(front) \cup ToSet(EndOfLine)
    BY <1>3, LineEnd, CellsOfJoined
  <2>3. ToSet(typed \o EndOfLine) = ToSet(typed) \cup ToSet(EndOfLine)
    BY <1>4, LineEnd, CellsOfJoined
  <2>4. QED
    BY <1>7, <2>1, <2>2, <2>3
<1> HIDE DEF A
<1>10. Lines(t) /\ t[1] = Version /\ ContentLength \notin ToSet(t)
  <2>1. CASE type = "none"
    <3>1. t = A
      <4>1. A \in Texts
        BY <1>8 DEF Lines
      <4>2. A \o <<>> = A
        BY <4>1, JoinedEmpty
      <4>3. QED
        BY <2>1, <4>2
    <3>2. QED
      BY <1>8, <1>9, <3>1
  <2>2. CASE type # "none"
    <3> DEFINE B == typed \o EndOfLine
    <3>1. t = A \o B
      BY <2>2
    <3>2. Lines(A) /\ Lines(B) /\ A \in Texts /\ B \in Texts
      BY <1>8 DEF Lines
    <3>3. ContentLength \notin ToSet(A) /\ ContentLength \notin ToSet(B)
      BY <1>9
    <3> HIDE DEF t, B
    <3>4. Lines(A \o B) /\ (A \o B)[1] = A[1]
      <4>1. Lines(A) /\ Lines(B)
        BY <3>2
      <4> HIDE DEF more
      <4>2. Lines(A \o B)
        BY <4>1, MoreLines
      <4>3. (A \o B)[1] = A[1]
        <5>1. 1 \in 1..Len(A)
          BY <3>2, TextLength DEF Lines
        <5>2. QED
          BY <3>2, <5>1, Joined
      <4>4. QED
        BY <4>2, <4>3
    <3>5. ToSet(A \o B) = ToSet(A) \cup ToSet(B)
      BY <3>2, CellsOfJoined
    <3>6. QED
      BY <1>8, <3>1, <3>3, <3>4, <3>5
  <2>3. QED
    BY <2>1, <2>2
<1> HIDE DEF t
<1> DEFINE u == t \o x
           h == u \o EndOfHead
<1>11. ReplyHead(code, type, n) = h /\ u \in Texts /\ IsHead(h)
  <2>1. Version # Lf
    BY Distinct
  <2>2. QED
    BY <1>5, <1>6, <1>10, <2>1, LastLine
<1>12. HasLength(u) /\ LengthIn(u) = n
  <2>1. t \in Texts
    BY <1>10 DEF Lines
  <2>2. QED
    BY <1>10, <2>1, LengthRead DEF x
<1> HIDE DEF u
<1>13. FrontOf(h) = u
  BY <1>11, BeforeEnd DEF FrontOf
<1>14. QED
  BY <1>11, <1>12, <1>13 DEF Replies

----------------------------------------------------------------------------
(* The buffer of a report.                                                 *)

Bytes == Seq(0..255)
Protos == {bp \in [buf : Bytes, len : Nat] : Len(bp.buf) >= 1 /\ bp.len <= Len(bp.buf)}

LEMMA IsSequence ==
    ASSUME NEW S, NEW n \in Nat, NEW f \in [1..n -> S]
    PROVE  f \in Seq(S) /\ Len(f) = n
OBVIOUS

LEMMA ZerosType ==
    ASSUME NEW n \in Int
    PROVE  Zeros(n) \in Bytes /\ (n >= 0 => Len(Zeros(n)) = n)
<1>1. CASE n >= 0
  <2>1. n \in Nat /\ Zeros(n) \in [1..n -> 0..255]
    BY <1>1 DEF Zeros
  <2>2. QED
    BY <2>1, IsSequence DEF Bytes
<1>2. CASE n < 0
  <2>1. 1..n = 1..0
    BY <1>2
  <2>2. Zeros(n) \in [1..0 -> 0..255]
    BY <2>1 DEF Zeros
  <2>3. QED
    BY <1>2, <2>2, IsSequence DEF Bytes
<1>3. QED
  BY <1>1, <1>2

\* The loop ends: doubled often enough, a buffer holds what is needed.
LEMMA EnlargedHolds ==
    ASSUME NEW bp \in Protos, NEW need \in Nat
    PROVE  /\ Enlarged(bp, need).buf \in Bytes
           /\ Len(Enlarged(bp, need).buf) >= need /\ Len(Enlarged(bp, need).buf) >= Len(bp.buf)
           /\ \A i \in 1..Len(bp.buf) : Enlarged(bp, need).buf[i] = bp.buf[i]
<1> DEFINE D == Nat \ {0}
           V == {v \in Nat : v >= need}
           Solves(f) == f = [s \in D |-> IF need <= s THEN s ELSE f[2 * s]]
           size == CHOOSE f : Solves(f)
           rank == [s \in D |-> IF need <= s THEN 0 ELSE need - s]
           base == [s \in D |-> IF need <= s THEN s ELSE need]
           jump == [s \in D |-> 2 * s]
           step == [x \in D \X V |-> x[2]]
           L == Len(bp.buf)
<1>1. bp.buf \in Bytes /\ L \in D
  <2>1. bp.buf \in Bytes /\ L >= 1
    BY DEF Protos
  <2>2. L \in Nat
    BY <2>1, LenProperties DEF Bytes
  <2>3. QED
    BY <2>1, <2>2
<1>2. Enlarged(bp, need).buf = bp.buf \o Zeros(size[L] - L)
  <2>1. Enlarged(bp, need) = [bp EXCEPT !.buf = @ \o Zeros(size[Len(@)] - Len(@))]
    BY DEF Enlarged
  <2> HIDE DEF size
  <2>2. bp \in [buf : Bytes, len : Nat]
    BY DEF Protos
  <2>3. QED
    BY <2>1, <2>2
<1>3. rank \in [D -> 0..need] /\ base \in [D -> V] /\ jump \in [D -> D] /\ step \in [D \X V -> V]
  <2>1. rank \in [D -> 0..need] /\ base \in [D -> V] /\ jump \in [D -> D]
    OBVIOUS
  <2>2. step \in [D \X V -> V]
    <3> HIDE DEF D, V
    <3>1. QED
      OBVIOUS
  <2>3. QED
    BY <2>1, <2>2
<1>4. \A s \in D : rank[s] # 0 => rank[jump[s]] < rank[s]
  <2> TAKE s \in D
  <2>1. 2 * s \in D /\ rank[2 * s] = IF need <= 2 * s THEN 0 ELSE need - 2 * s
    OBVIOUS
  <2>2. QED
    BY <2>1
<1>5. \A s \in D : /\ rank[s] = 0 <=> need <= s
                   /\ need <= s => base[s] = s
                   /\ jump[s] = 2 * s /\ 2 * s \in D
                   /\ \A v \in V : step[<<s, v>>] = v
  OBVIOUS
<1> HIDE DEF D, V, rank, base, jump, step
<1>6. PICK f \in [D -> V] : IsRanked(f, D, rank, base, jump, step)
  BY <1>3, <1>4, RankedRecursion
<1>7. Solves(f)
  <2>1. \A s \in D : f[s] = IF rank[s] = 0 THEN base[s] ELSE step[<<s, f[jump[s]]>>]
    BY <1>6 DEF IsRanked
  <2>2. \A s \in D : f[s] = IF need <= s THEN s ELSE f[2 * s]
    <3> TAKE s \in D
    <3>1. jump[s] = 2 * s /\ f[2 * s] \in V
      BY <1>5, <1>6
    <3>2. step[<<s, f[2 * s]>>] = f[2 * s]
      BY <1>5, <3>1
    <3>3. CASE need <= s
      BY <1>5, <2>1, <3>3
    <3>4. CASE ~(need <= s)
      BY <1>5, <2>1, <3>1, <3>2, <3>4
    <3>5. QED
      BY <3>3, <3>4
  <2>3. QED
    BY <1>6, <2>2
<1>8. Solves(size)
  BY <1>7
<1> HIDE DEF size
\* Any solution is this one: what it has at s is what is needed or more.
<1>9. \A k \in 0..need : \A s \in D : rank[s] <= k => size[s] \in V
  <2> DEFINE T == {k \in 0..need : \A s \in D : rank[s] <= k => size[s] \in V}
  <2>1. \A s \in D : size[s] = IF need <= s THEN s ELSE size[2 * s]
    BY <1>8
  <2>2. \A s \in D : need <= s => size[s] \in V
    BY <2>1 DEF V, D
  <2>3. \A s \in D : rank[s] \in 0..need
    BY <1>3
  <2>4. 0 \in T
    BY <1>5, <2>2, <2>3
  <2>5. ASSUME NEW k \in 1..need, k - 1 \in T
        PROVE  k \in T
    <3> SUFFICES ASSUME NEW s \in D, rank[s] <= k PROVE size[s] \in V
      OBVIOUS
    <3>1. CASE need <= s
      BY <2>2, <3>1
    <3>2. CASE ~(need <= s)
      <4>1. rank[s] # 0 /\ jump[s] = 2 * s /\ 2 * s \in D
        BY <1>5, <3>2
      <4>2. rank[2 * s] < rank[s]
        BY <1>4, <4>1
      <4>3. rank[2 * s] <= k - 1
        BY <2>3, <4>1, <4>2
      <4>4. size[2 * s] \in V
        BY <2>5, <4>1, <4>3
      <4>5. QED
        BY <2>1, <3>2, <4>4
    <3>3. QED
      BY <3>1, <3>2
  <2> HIDE DEF T
  <2>6. 0..need \subseteq T
    BY <2>4, <2>5, UpTo
  <2>7. QED
    BY <2>6 DEF T
<1>10. size[L] \in Nat /\ size[L] >= need
  <2>1. rank[L] \in 0..need /\ need \in 0..need
    BY <1>1, <1>3
  <2>2. size[L] \in V
    BY <1>1, <1>9, <2>1
  <2>3. QED
    BY <2>2 DEF V
<1> DEFINE Z == Zeros(size[L] - L)
<1>11. Z \in Bytes /\ Len(Z) \in Nat /\ (size[L] >= L => Len(Z) = size[L] - L)
  <2>1. size[L] - L \in Int /\ L \in Nat
    BY <1>1, <1>10 DEF D
  <2>2. Z \in Bytes /\ (size[L] - L >= 0 => Len(Z) = size[L] - L)
    BY <2>1, ZerosType
  <2> HIDE DEF Z, L
  <2>3. QED
    BY <1>10, <2>1, <2>2, LenProperties DEF Bytes
<1> HIDE DEF Z
<1>12. /\ bp.buf \o Z \in Bytes /\ Len(bp.buf \o Z) = L + Len(Z)
       /\ \A i \in 1..L : (bp.buf \o Z)[i] = bp.buf[i]
  <2>1. /\ bp.buf \o Z \in Bytes /\ Len(bp.buf \o Z) = L + Len(Z)
        /\ \A i \in 1..(L + Len(Z)) : (bp.buf \o Z)[i] =
              IF i <= L THEN bp.buf[i] ELSE Z[i - L]
    BY <1>1, <1>11, ConcatProperties DEF Bytes
  <2> HIDE DEF L
  <2>2. \A i \in 1..L : i \in 1..(L + Len(Z)) /\ i <= L
    BY <1>1, <1>11 DEF D
  <2>3. QED
    BY <2>1, <2>2
<1>13. L + Len(Z) >= need /\ L + Len(Z) >= L
  <2> HIDE DEF L
  <2>1. QED
    BY <1>1, <1>10, <1>11 DEF D
<1>14. QED
  BY <1>2, <1>12, <1>13 DEF Z

\* What is added comes behind what is written, and nothing else changes.
LEMMA AddBinaryAppends ==
    ASSUME NEW bp \in Protos, NEW bin \in Bytes
    PROVE  /\ AddBinary(bp, bin) \in Protos
           /\ Encoded(bp) \in Bytes /\ Len(Encoded(bp)) = bp.len
           /\ Encoded(AddBinary(bp, bin)) = Encoded(bp) \o bin
<1> DEFINE need == bp.len + Len(bin)
           big == Enlarged(bp, need).buf
           new == AddBinary(bp, bin)
           new_buf == [i \in 1..Len(big) |-> IF i \in (bp.len + 1)..need THEN bin[i - bp.len]
                                             ELSE big[i]]
<1>1. /\ bp.buf \in Bytes /\ bp.len \in Nat /\ Len(bp.buf) \in Nat
      /\ bp.len <= Len(bp.buf) /\ Len(bp.buf) >= 1
      /\ \A i \in 1..Len(bp.buf) : bp.buf[i] \in 0..255
  <2>1. bp.buf \in Bytes /\ bp.len \in Nat /\ bp.len <= Len(bp.buf) /\ Len(bp.buf) >= 1
    BY DEF Protos
  <2>2. QED
    BY <2>1, LenProperties, ElementOfSeq DEF Bytes
<1>2. Len(bin) \in Nat /\ \A i \in 1..Len(bin) : bin[i] \in 0..255
  BY LenProperties, ElementOfSeq DEF Bytes
<1>3. new = [buf |-> new_buf, len |-> need]
  BY DEF AddBinary
<1>4. need \in Nat
  BY <1>1, <1>2
<1> HIDE DEF need
<1>5. /\ big \in Bytes /\ Len(big) \in Nat /\ Len(big) >= need /\ Len(big) >= Len(bp.buf)
      /\ \A i \in 1..Len(bp.buf) : big[i] = bp.buf[i]
      /\ \A i \in 1..Len(big) : big[i] \in 0..255
  <2>1. /\ big \in Bytes /\ Len(big) >= need /\ Len(big) >= Len(bp.buf)
        /\ \A i \in 1..Len(bp.buf) : big[i] = bp.buf[i]
    BY <1>4, EnlargedHolds
  <2> HIDE DEF big
  <2>2. QED
    BY <2>1, LenProperties, ElementOfSeq DEF Bytes
<1> HIDE DEF big, new
<1>6. new_buf \in Bytes /\ Len(new_buf) = Len(big)
  <2>1. \A i \in (bp.len + 1)..need : bin[i - bp.len] \in 0..255
    <3> TAKE i \in (bp.len + 1)..need
    <3>1. i - bp.len \in 1..Len(bin)
      BY <1>1, <1>2 DEF need
    <3>2. QED
      BY <1>2, <3>1
  <2>2. new_buf \in [1..Len(big) -> 0..255]
    BY <1>5, <2>1
  <2> HIDE DEF new_buf
  <2>3. QED
    <3>1. Len(big) \in Nat
      BY <1>5
    <3> DEFINE n == Len(big)
    <3> HIDE DEF n
    <3>2. n \in Nat /\ new_buf \in [1..n -> 0..255]
      BY <2>2, <3>1 DEF n
    <3>3. new_buf \in Seq(0..255) /\ Len(new_buf) = n
      BY <3>2, IsSequence
    <3>4. QED
      BY <3>3 DEF Bytes, n
<1>7. new \in Protos
  <2>1. new.buf = new_buf /\ new.len = need /\ new \in [buf : Bytes, len : Nat]
    BY <1>3, <1>4, <1>6
  <2> HIDE DEF new_buf
  <2>2. QED
    BY <1>1, <1>5, <1>6, <2>1 DEF Protos
<1>8. Encoded(bp) \in Bytes /\ Len(Encoded(bp)) = bp.len
      /\ \A i \in 1..bp.len : Encoded(bp)[i] = bp.buf[i]
  <2>1. \A i \in 1..bp.len : i <= Len(bp.buf) /\ i \in 1..Len(bp.buf)
    BY <1>1
  <2>2. Encoded(bp) \in [1..bp.len -> 0..255] /\ \A i \in 1..bp.len : Encoded(bp)[i] = bp.buf[i]
    BY <1>1, <2>1 DEF Encoded
  <2>3. QED
    <3>1. bp.len \in Nat /\ Encoded(bp) \in [1..bp.len -> 0..255]
      BY <1>1, <2>2
    <3>2. Encoded(bp) \in Seq(0..255) /\ Len(Encoded(bp)) = bp.len
      BY <3>1, IsSequence
    <3>3. QED
      BY <2>2, <3>2 DEF Bytes
<1>9. Encoded(new) \in Bytes /\ Len(Encoded(new)) = need
      /\ \A i \in 1..need : Encoded(new)[i] = new_buf[i]
  <2>1. new.buf = new_buf /\ new.len = need
    BY <1>3
  <2>2. \A i \in 1..need : i <= Len(new_buf) /\ i \in 1..Len(new_buf)
    BY <1>4, <1>5, <1>6
  <2>3. \A i \in 1..Len(new_buf) : new_buf[i] \in 0..255
    BY <1>6, ElementOfSeq DEF Bytes
  <2> HIDE DEF new_buf
  <2>4. Encoded(new) \in [1..need -> 0..255] /\ \A i \in 1..need : Encoded(new)[i] = new_buf[i]
    BY <2>1, <2>2, <2>3 DEF Encoded
  <2>5. QED
    BY <1>4, <2>4, IsSequence DEF Bytes
<1> DEFINE e == Encoded(bp)
<1>10. /\ e \o bin \in Bytes /\ Len(e \o bin) = need
       /\ \A i \in 1..need : (e \o bin)[i] = IF i <= bp.len THEN e[i] ELSE bin[i - bp.len]
  <2> HIDE DEF e
  <2>1. e \in Bytes /\ Len(e) = bp.len
    BY <1>8 DEF e
  <2>2. QED
    <3>1. /\ e \o bin \in Bytes /\ Len(e \o bin) = Len(e) + Len(bin)
          /\ \A i \in 1..(Len(e) + Len(bin)) : (e \o bin)[i] =
                IF i <= Len(e) THEN e[i] ELSE bin[i - Len(e)]
      BY <2>1, ConcatProperties DEF Bytes
    <3>2. need = Len(e) + Len(bin)
      BY <2>1 DEF need
    <3>3. QED
      BY <2>1, <3>1, <3>2
<1>11. \A i \in 1..need : Encoded(new)[i] = (e \o bin)[i]
  <2> TAKE i \in 1..need
  <2>1. Encoded(new)[i] = new_buf[i] /\ i \in 1..Len(big)
    <3> HIDE DEF new_buf
    <3>1. i \in 1..Len(big)
      BY <1>4, <1>5
    <3>2. Encoded(new)[i] = new_buf[i]
      BY <1>9
    <3>3. QED
      BY <3>1, <3>2
  <2>2. new_buf[i] = IF i \in (bp.len + 1)..need THEN bin[i - bp.len] ELSE big[i]
    BY <2>1
  <2> HIDE DEF new_buf
  <2>3. CASE i <= bp.len
    <3>1. i \notin (bp.len + 1)..need /\ i \in 1..Len(bp.buf) /\ i \in 1..bp.len
      BY <1>1, <1>4, <2>3
    <3>2. QED
      BY <1>5, <1>8, <1>10, <2>1, <2>2, <2>3, <3>1
  <2>4. CASE ~(i <= bp.len)
    <3>1. i \in (bp.len + 1)..need
      BY <1>1, <1>4, <2>4
    <3>2. QED
      BY <1>10, <2>1, <2>2, <2>4, <3>1
  <2>5. QED
    BY <2>3, <2>4
<1> HIDE DEF e
<1>12. Encoded(new) = e \o bin
  BY <1>9, <1>10, <1>11, SeqEqual DEF Bytes
<1>13. QED
  BY <1>7, <1>8, <1>12 DEF e, new

\* The bytes of a number, a string, an entry, and what is before the entries.
IntBytes(n) ==
    <<HighByte(n), ((n \div 256) \div 256) % 256, (n \div 256) % 256, n % 256>>
StringBytes(str) == IntBytes(Len(str)) \o str
EntryBytes(entry) == StringBytes(entry.word) \o IntBytes(entry.count)
FileBytes(report) ==
    ((StringBytes(report.id) \o StringBytes(report.ip)) \o IntBytes(report.port))
    \o IntBytes(Len(report.words))

\* The number of four bytes.
NumberOf(bs) == 256 * (256 * (256 * bs[1] + bs[2]) + bs[3]) + bs[4]

LEMMA IntBytesType ==
    ASSUME NEW n \in Ints
    PROVE  /\ IntBytes(n) \in Bytes /\ Len(IntBytes(n)) = 4
           /\ NumberOf(IntBytes(n)) = n
<1> DEFINE p == n \div 256
           q == p \div 256
           a == q \div 256
           b == q % 256
           c == p % 256
           d == n % 256
<1>1. n \in Nat /\ HighByte(n) < 128
  BY DEF Ints
<1>2. n = 256 * p + d /\ p \in Nat /\ d \in 0..255
  BY <1>1
<1>3. IntBytes(n) = <<a, b, c, d>> /\ HighByte(n) = a
  BY DEF IntBytes, HighByte
<1> HIDE DEF p
<1>4. p = 256 * q + c /\ q \in Nat /\ c \in 0..255
  BY <1>2
<1> HIDE DEF q
<1>5. q = 256 * a + b /\ a \in Nat /\ b \in 0..255
  BY <1>4
<1> HIDE DEF a, b, c, d
<1>6. a \in 0..255
  BY <1>1, <1>3, <1>5
<1>7. 256 * (256 * (256 * a + b) + c) + d = n
  BY <1>2, <1>4, <1>5
<1>8. <<a, b, c, d>> \in Seq(0..255) /\ Len(<<a, b, c, d>>) = 4
  BY <1>2, <1>4, <1>5, <1>6
<1>9. QED
  BY <1>3, <1>7, <1>8 DEF Bytes, NumberOf

LEMMA AddIntAppends ==
    ASSUME NEW bp \in Protos, NEW n \in Ints
    PROVE  AddInt(bp, n) \in Protos /\ Encoded(AddInt(bp, n)) = Encoded(bp) \o IntBytes(n)
<1>1. AddInt(bp, n) = AddBinary(bp, IntBytes(n))
  BY DEF AddInt, IntBytes
<1>2. IntBytes(n) \in Bytes
  BY IntBytesType
<1>3. QED
  BY <1>1, <1>2, AddBinaryAppends

LEMMA JoinedBytes ==
    ASSUME NEW a \in Bytes, NEW b \in Bytes
    PROVE  /\ a \o b \in Bytes /\ Len(a \o b) = Len(a) + Len(b)
           /\ \A i \in 1..Len(a) : (a \o b)[i] = a[i]
           /\ \A i \in 1..Len(b) : (a \o b)[Len(a) + i] = b[i]
<1>1. /\ a \o b \in Bytes /\ Len(a \o b) = Len(a) + Len(b)
      /\ \A i \in 1..(Len(a) + Len(b)) : (a \o b)[i] = IF i <= Len(a) THEN a[i] ELSE b[i - Len(a)]
  BY ConcatProperties DEF Bytes
<1>2. Len(a) \in Nat /\ Len(b) \in Nat
  BY LenProperties DEF Bytes
<1>3. \A i \in 1..Len(a) : i \in 1..(Len(a) + Len(b)) /\ i <= Len(a)
  BY <1>2
<1>4. \A i \in 1..Len(b) : /\ Len(a) + i \in 1..(Len(a) + Len(b)) /\ ~(Len(a) + i <= Len(a))
                           /\ (Len(a) + i) - Len(a) = i
  BY <1>2
<1>5. QED
  BY <1>1, <1>3, <1>4

LEMMA AddStringAppends ==
    ASSUME NEW bp \in Protos, NEW str \in ByteStrings
    PROVE  /\ StringBytes(str) \in Bytes
           /\ AddString(bp, str) \in Protos
           /\ Encoded(AddString(bp, str)) = Encoded(bp) \o StringBytes(str)
<1> DEFINE N == IntBytes(Len(str))
           mid == AddInt(bp, Len(str))
<1>1. str \in Bytes /\ Len(str) \in Ints
  BY DEF ByteStrings, Bytes
<1>2. N \in Bytes
  BY <1>1, IntBytesType
<1>3. mid \in Protos /\ Encoded(mid) = Encoded(bp) \o N
  BY <1>1, AddIntAppends
<1>4. Encoded(bp) \in Bytes
  BY <1>1, AddBinaryAppends
<1>5. AddString(bp, str) = AddBinary(mid, str)
  BY DEF AddString
<1> HIDE DEF N, mid
<1>6. AddBinary(mid, str) \in Protos /\ Encoded(AddBinary(mid, str)) = Encoded(mid) \o str
  BY <1>1, <1>3, AddBinaryAppends
<1>7. (Encoded(bp) \o N) \o str = Encoded(bp) \o (N \o str)
  BY <1>1, <1>2, <1>4, ConcatAssociative DEF Bytes
<1>8. N \o str \in Bytes
  BY <1>1, <1>2, JoinedBytes
<1>9. StringBytes(str) = N \o str
  BY DEF StringBytes, N
<1>10. QED
  BY <1>3, <1>5, <1>6, <1>7, <1>8, <1>9

LEMMA PackWordAppends ==
    ASSUME NEW bp \in Protos, NEW entry \in Entries
    PROVE  /\ EntryBytes(entry) \in Bytes
           /\ PackWord(bp, entry) \in Protos
           /\ Encoded(PackWord(bp, entry)) = Encoded(bp) \o EntryBytes(entry)
<1> DEFINE W == StringBytes(entry.word)
           C == IntBytes(entry.count)
           mid == AddString(bp, entry.word)
<1>1. entry.word \in ByteStrings /\ entry.count \in Ints
  BY DEF Entries
<1>2. W \in Bytes /\ mid \in Protos /\ Encoded(mid) = Encoded(bp) \o W
  BY <1>1, AddStringAppends
<1>3. C \in Bytes
  BY <1>1, IntBytesType
<1>4. Encoded(bp) \in Bytes
  BY <1>3, AddBinaryAppends
<1>5. PackWord(bp, entry) = AddInt(mid, entry.count) /\ EntryBytes(entry) = W \o C
  BY DEF PackWord, EntryBytes
<1> HIDE DEF W, mid
<1>6. AddInt(mid, entry.count) \in Protos
      /\ Encoded(AddInt(mid, entry.count)) = Encoded(mid) \o C
  BY <1>1, <1>2, AddIntAppends
<1> HIDE DEF C
<1>7. (Encoded(bp) \o W) \o C = Encoded(bp) \o (W \o C)
  BY <1>2, <1>3, <1>4, ConcatAssociative DEF Bytes
<1>8. W \o C \in Bytes
  BY <1>2, <1>3, JoinedBytes
<1>9. QED
  BY <1>2, <1>5, <1>6, <1>7, <1>8

LEMMA PackFileIs ==
    ASSUME NEW report \in EncodedReports
    PROVE  /\ FileBytes(report) \in Bytes
           /\ PackFile(report) \in Protos
           /\ Encoded(PackFile(report)) = FileBytes(report)
<1> DEFINE p1 == AddString(NewProto, report.id)
           p2 == AddString(p1, report.ip)
           p3 == AddInt(p2, report.port)
           I == StringBytes(report.id)
           A == StringBytes(report.ip)
           P == IntBytes(report.port)
           N == IntBytes(Len(report.words))
<1>1. /\ report.id \in ByteStrings /\ report.ip \in ByteStrings /\ report.port \in Ints
      /\ Len(report.words) \in Ints
  BY DEF EncodedReports
<1>2. NewProto \in Protos /\ Encoded(NewProto) = <<>>
  <2>1. InitBuf \in Int /\ InitBuf >= 1
    BY InitBufAssumption
  <2>2. Zeros(InitBuf) \in Bytes /\ Len(Zeros(InitBuf)) = InitBuf
    BY <2>1, ZerosType
  <2>3. NewProto \in Protos
    BY <2>1, <2>2 DEF NewProto, Protos
  <2>4. Encoded(NewProto) \in Bytes /\ Len(Encoded(NewProto)) = 0
    <3>1. <<>> \in Bytes
      BY EmptySeq DEF Bytes
    <3>2. NewProto.len = 0
      BY DEF NewProto
    <3>3. QED
      BY <2>3, <3>1, <3>2, AddBinaryAppends
  <2>5. QED
    BY <2>3, <2>4, EmptySeq DEF Bytes
<1>3. I \in Bytes /\ p1 \in Protos /\ Encoded(p1) = I
  <2>1. I \in Bytes /\ p1 \in Protos /\ Encoded(p1) = Encoded(NewProto) \o I
    BY <1>1, <1>2, AddStringAppends
  <2> HIDE DEF I, p1
  <2>2. <<>> \o I = I
    BY <2>1, ConcatEmptySeq DEF Bytes
  <2>3. QED
    BY <1>2, <2>1, <2>2
<1> HIDE DEF I, p1
<1>4. A \in Bytes /\ p2 \in Protos /\ Encoded(p2) = I \o A
  BY <1>1, <1>3, AddStringAppends
<1> HIDE DEF A, p2
<1>5. P \in Bytes /\ p3 \in Protos /\ Encoded(p3) = (I \o A) \o P
  BY <1>1, <1>4, IntBytesType, AddIntAppends
<1> HIDE DEF p3
<1>6. N \in Bytes /\ AddInt(p3, Len(report.words)) \in Protos
      /\ Encoded(AddInt(p3, Len(report.words))) = ((I \o A) \o P) \o N
  BY <1>1, <1>5, IntBytesType, AddIntAppends
<1>7. PackFile(report) = AddInt(p3, Len(report.words))
  BY DEF PackFile, p1, p2, p3
<1>8. FileBytes(report) = ((I \o A) \o P) \o N
  BY DEF FileBytes, I, A
<1>9. FileBytes(report) \in Bytes
  <2> HIDE DEF P, N
  <2>1. I \o A \in Bytes
    BY <1>3, <1>4, JoinedBytes
  <2>2. (I \o A) \o P \in Bytes
    BY <1>5, <2>1, JoinedBytes
  <2>3. ((I \o A) \o P) \o N \in Bytes
    BY <1>6, <2>2, JoinedBytes
  <2>4. QED
    BY <1>8, <2>3
<1>10. QED
  BY <1>6, <1>7, <1>8, <1>9

\* A packed report is its file's bytes and those of each entry in turn.
LEMMA PackReportIs ==
    ASSUME NEW report \in EncodedReports
    PROVE  \E out \in [0..Len(report.words) -> Bytes] :
              /\ out[0] = FileBytes(report) /\ out[Len(report.words)] = PackReport(report)
              /\ \A n \in 1..Len(report.words) : out[n] = out[n - 1] \o EntryBytes(report.words[n])
<1> DEFINE N == Len(report.words)
           Solves(f) == f = [n \in 0..N |-> IF n = 0 THEN PackFile(report)
                                            ELSE PackWord(f[n - 1], report.words[n])]
           packed == CHOOSE f : Solves(f)
           step == [x \in (1..N) \X Protos |-> PackWord(x[2], report.words[x[1]])]
<1>1. PackReport(report) = Encoded(packed[N])
  BY DEF PackReport
<1>2. N \in Nat /\ \A n \in 1..N : report.words[n] \in Entries
  <2>1. report.words \in Seq(Entries)
    BY DEF EncodedReports
  <2>2. QED
    BY <2>1, LenProperties, ElementOfSeq
<1>3. \A n \in 1..N, bp \in Protos : PackWord(bp, report.words[n]) \in Protos
  BY <1>2, PackWordAppends
<1> HIDE DEF packed, N
<1>4. step \in Steps(N, Protos)
  BY <1>3 DEF Steps
<1>5. \A n \in 1..N, bp \in Protos : step[<<n, bp>>] = PackWord(bp, report.words[n])
  OBVIOUS
<1> HIDE DEF step
<1>6. PICK f \in [0..N -> Protos] :
         f[0] = PackFile(report) /\ \A n \in 1..N : f[n] = step[<<n, f[n - 1]>>]
  <2>1. PackFile(report) \in Protos
    BY PackFileIs
  <2>2. Solutions(PackFile(report), N, Protos, step) # {}
    BY <1>2, <1>4, <2>1, RecursionExists
  <2>3. QED
    BY <2>2 DEF Solutions
<1>7. Solves(f)
  <2>1. \A n \in 1..N : f[n] = PackWord(f[n - 1], report.words[n])
    <3> TAKE n \in 1..N
    <3>1. n - 1 \in 0..N
      BY <1>2
    <3>2. f[n - 1] \in Protos
      BY <3>1
    <3>3. QED
      BY <1>5, <1>6, <3>2
  <2>2. \A n \in 0..N : n = 0 \/ n \in 1..N
    BY <1>2
  <2>3. \A n \in 0..N : f[n] = IF n = 0 THEN PackFile(report)
                               ELSE PackWord(f[n - 1], report.words[n])
    BY <1>6, <2>1, <2>2
  <2>4. QED
    BY <1>6, <2>3
<1>8. Solves(packed)
  BY <1>7 DEF packed
<1>9. /\ packed[0] = PackFile(report)
      /\ \A n \in 1..N : packed[n] = PackWord(packed[n - 1], report.words[n])
  <2>1. \A n \in 0..N : packed[n] = IF n = 0 THEN PackFile(report)
                                    ELSE PackWord(packed[n - 1], report.words[n])
    BY <1>8
  <2>2. 0 \in 0..N /\ \A n \in 1..N : n \in 0..N /\ n # 0
    BY <1>2
  <2>3. QED
    BY <2>1, <2>2
<1>10. \A n \in 0..N : packed[n] \in Protos
  <2>1. packed[0] \in Protos
    BY <1>9, PackFileIs
  <2>2. \A n \in 1..N : packed[n - 1] \in Protos => packed[n] \in Protos
    BY <1>3, <1>9
  <2>3. QED
    BY <1>2, <2>1, <2>2, RecursionType
<1> DEFINE out == [n \in 0..N |-> Encoded(packed[n])]
<1>11. out \in [0..N -> Bytes]
  <2>1. \A n \in 0..N : Encoded(packed[n]) \in Bytes
    <3>1. <<>> \in Bytes
      BY EmptySeq DEF Bytes
    <3>2. QED
      BY <1>10, <3>1, AddBinaryAppends
  <2>2. QED
    BY <2>1
<1>12. out[0] = FileBytes(report) /\ out[N] = PackReport(report)
  <2>1. 0 \in 0..N /\ N \in 0..N
    BY <1>2
  <2>2. QED
    BY <1>1, <1>9, <2>1, PackFileIs
<1>13. ASSUME NEW n \in 1..N
       PROVE  out[n] = out[n - 1] \o EntryBytes(report.words[n])
  <2>1. n \in 0..N /\ n - 1 \in 0..N
    BY <1>2
  <2>2. packed[n - 1] \in Protos /\ report.words[n] \in Entries
    BY <1>2, <1>10, <2>1
  <2>3. Encoded(PackWord(packed[n - 1], report.words[n]))
           = Encoded(packed[n - 1]) \o EntryBytes(report.words[n])
    BY <2>2, PackWordAppends
  <2>4. QED
    BY <1>9, <2>1, <2>3
<1> HIDE DEF out
<1>14. QED
  BY <1>11, <1>12, <1>13 DEF N

----------------------------------------------------------------------------
(* Reading it again.                                                       *)

\* x is in the buffer behind the first "at" bytes.
Lies(buf, at, x) ==
    /\ at \in Nat /\ at + Len(x) <= Len(buf)
    /\ \A i \in 1..Len(x) : buf[at + i] = x[i]

LEMMA LiesApart ==
    ASSUME NEW buf \in Bytes, NEW at, NEW x \in Bytes, NEW y \in Bytes, Lies(buf, at, x \o y)
    PROVE  Lies(buf, at, x) /\ Lies(buf, at + Len(x), y)
<1> DEFINE z == x \o y
<1>1. /\ Len(z) = Len(x) + Len(y) /\ Len(x) \in Nat /\ Len(y) \in Nat /\ Len(buf) \in Nat
      /\ \A i \in 1..Len(x) : z[i] = x[i]
      /\ \A i \in 1..Len(y) : z[Len(x) + i] = y[i]
  <2>1. Len(x) \in Nat /\ Len(y) \in Nat /\ Len(buf) \in Nat
    BY LenProperties DEF Bytes
  <2>2. QED
    BY <2>1, JoinedBytes
<1>2. at \in Nat /\ at + Len(z) <= Len(buf) /\ \A i \in 1..Len(z) : buf[at + i] = z[i]
  BY DEF Lies
<1> HIDE DEF z
<1>3. Lies(buf, at, x)
  BY <1>1, <1>2 DEF Lies
<1>4. Lies(buf, at + Len(x), y)
  <2>1. at + Len(x) \in Nat /\ (at + Len(x)) + Len(y) <= Len(buf)
    BY <1>1, <1>2
  <2>2. \A i \in 1..Len(y) : buf[(at + Len(x)) + i] = y[i]
    <3> TAKE i \in 1..Len(y)
    <3>1. Len(x) + i \in 1..Len(z) /\ at + (Len(x) + i) = (at + Len(x)) + i
      BY <1>1, <1>2
    <3>2. QED
      BY <1>1, <1>2, <3>1
  <2>3. QED
    BY <2>1, <2>2 DEF Lies
<1>5. QED
  BY <1>3, <1>4

LEMMA ReadBinaryFinds ==
    ASSUME NEW buf \in Bytes, NEW at, NEW x \in Bytes, Lies(buf, at, x)
    PROVE  ReadBinary(buf, at, Len(x)) = [ok |-> TRUE, at |-> at + Len(x), val |-> x]
<1>1. Len(x) \in Nat /\ Len(buf) \in Nat
  BY LenProperties DEF Bytes
<1>2. at \in Nat /\ at + Len(x) <= Len(buf) /\ \A i \in 1..Len(x) : buf[at + i] = x[i]
  BY DEF Lies
<1> DEFINE n == at + Len(x)
           v == SubSeq(buf, at + 1, n)
<1>3. /\ v \in Bytes /\ Len(v) = Len(x) /\ \A i \in 1..Len(x) : v[i] = buf[at + i]
  <2>1. \A i \in (at + 1)..n : buf[i] \in 0..255
    <3> TAKE i \in (at + 1)..n
    <3>1. i \in 1..Len(buf)
      BY <1>1, <1>2
    <3>2. QED
      BY <3>1, ElementOfSeq DEF Bytes
  <2>2. at + 1 \in Int /\ n \in Int
    BY <1>1, <1>2
  <2>3. /\ v \in Seq(0..255) /\ Len(v) = IF at + 1 <= n THEN n - (at + 1) + 1 ELSE 0
        /\ \A i \in 1..(n - (at + 1) + 1) : v[i] = buf[(at + 1) + i - 1]
    BY <2>1, <2>2, SubSeqProperties
  <2> HIDE DEF v
  <2>4. n - (at + 1) + 1 = Len(x) /\ \A i \in 1..Len(x) : (at + 1) + i - 1 = at + i
    BY <1>1, <1>2
  <2>5. (at + 1 <= n) \/ Len(x) = 0
    BY <1>1, <1>2
  <2>6. Len(v) = Len(x)
    BY <2>3, <2>4, <2>5
  <2>7. QED
    BY <2>3, <2>4, <2>6 DEF Bytes
<1> HIDE DEF v
<1>4. v = x
  BY <1>2, <1>3, SeqEqual DEF Bytes
<1>5. QED
  BY <1>2, <1>4 DEF ReadBinary, v

LEMMA ReadIntFinds ==
    ASSUME NEW buf \in Bytes, NEW at, NEW n \in Ints, Lies(buf, at, IntBytes(n))
    PROVE  ReadInt(buf, at) = [ok |-> TRUE, at |-> at + 4, val |-> n]
<1> DEFINE x == IntBytes(n)
           read == ReadBinary(buf, at, 4)
<1>1. x \in Bytes /\ Len(x) = 4 /\ NumberOf(x) = n
  BY IntBytesType
<1> HIDE DEF x
<1>2. read = [ok |-> TRUE, at |-> at + 4, val |-> x]
  BY <1>1, ReadBinaryFinds DEF x
<1>3. Stray \notin ToSet(x)
  <2>1. \A i \in 1..Len(x) : x[i] \in 0..255
    BY <1>1, ElementOfSeq DEF Bytes
  <2>2. DOMAIN x = 1..Len(x)
    BY <1>1, LenProperties DEF Bytes
  <2>3. \A i \in 1..Len(x) : x[i] # 256
    <3> TAKE i \in 1..Len(x)
    <3> DEFINE v == x[i]
    <3>1. v \in 0..255
      BY <2>1
    <3> HIDE DEF v
    <3>2. v # 256
      BY <3>1
    <3>3. QED
      BY <3>2 DEF v
  <2>4. QED
    BY <2>2, <2>3 DEF Stray, ToSet
<1> HIDE DEF read
<1>4. /\ ReadInt(buf, at).ok = (read.ok /\ Stray \notin ToSet(read.val))
      /\ ReadInt(buf, at) =
           [ok |-> read.ok /\ Stray \notin ToSet(read.val), at |-> read.at,
            val |-> IF read.ok /\ Stray \notin ToSet(read.val) THEN NumberOf(read.val) ELSE 0]
  BY DEF ReadInt, NumberOf, read
<1>5. read.ok = TRUE /\ read.at = at + 4 /\ read.val = x
  BY <1>2
<1>6. QED
  BY <1>1, <1>3, <1>4, <1>5

LEMMA ReadStringFinds ==
    ASSUME NEW buf \in Bytes, NEW at, NEW str \in ByteStrings, Lies(buf, at, StringBytes(str))
    PROVE  ReadString(buf, at) =
              [ok |-> TRUE, at |-> at + Len(StringBytes(str)), val |-> str]
<1> DEFINE N == IntBytes(Len(str))
<1>1. str \in Bytes /\ Len(str) \in Ints /\ Len(str) \in Nat
  BY LenProperties DEF ByteStrings, Bytes
<1>2. N \in Bytes /\ Len(N) = 4
  BY <1>1, IntBytesType
<1>3. StringBytes(str) = N \o str
  BY DEF StringBytes
<1>4. Lies(buf, at, N) /\ Lies(buf, at + 4, str) /\ Len(StringBytes(str)) = 4 + Len(str)
  <2> HIDE DEF N
  <2>0. Lies(buf, at, N \o str)
    BY <1>3
  <2>1. Lies(buf, at, N) /\ Lies(buf, at + Len(N), str)
    BY <1>1, <1>2, <2>0, LiesApart
  <2>2. Len(N \o str) = Len(N) + Len(str)
    BY <1>1, <1>2, JoinedBytes
  <2>3. QED
    BY <1>2, <1>3, <2>1, <2>2
<1>5. ReadInt(buf, at) = [ok |-> TRUE, at |-> at + 4, val |-> Len(str)]
  BY <1>1, <1>4, ReadIntFinds
<1>6. ReadBinary(buf, at + 4, Len(str)) = [ok |-> TRUE, at |-> (at + 4) + Len(str), val |-> str]
  BY <1>1, <1>4, ReadBinaryFinds
<1>7. (at + 4) + Len(str) = at + (4 + Len(str))
  BY <1>1, <1>4 DEF Lies
<1> DEFINE len == ReadInt(buf, at)
<1>8. len.ok = TRUE /\ len.at = at + 4 /\ len.val = Len(str)
  BY <1>5
<1> HIDE DEF len
<1>9. ReadString(buf, at) =
         IF len.ok THEN ReadBinary(buf, len.at, len.val) ELSE [len EXCEPT !.val = <<>>]
  BY DEF ReadString, len
<1>10. QED
  BY <1>4, <1>6, <1>7, <1>8, <1>9

\* What a read of any bytes yields.
LEMMA ReadsType ==
    ASSUME NEW buf \in Seq(Nat), NEW at \in Nat
    PROVE  /\ \A n \in Nat : ReadBinary(buf, at, n) \in [ok : BOOLEAN, at : Nat, val : Seq(Nat)]
           /\ ReadInt(buf, at) \in [ok : BOOLEAN, at : Nat, val : Nat]
           /\ ReadString(buf, at) \in [ok : BOOLEAN, at : Nat, val : Seq(Nat)]
<1>0. Len(buf) \in Nat /\ \A i \in 1..Len(buf) : buf[i] \in Nat
  BY LenProperties, ElementOfSeq
<1>1. ASSUME NEW a \in Nat, NEW n \in Nat
      PROVE  /\ ReadBinary(buf, a, n) \in [ok : BOOLEAN, at : Nat, val : Seq(Nat)]
             /\ ReadBinary(buf, a, n).ok => Len(ReadBinary(buf, a, n).val) = n
  <2>1. CASE a + n <= Len(buf)
    <3> DEFINE v == SubSeq(buf, a + 1, a + n)
    <3>1. \A i \in (a + 1)..(a + n) : buf[i] \in Nat
      BY <1>0, <2>1
    <3>2. v \in Seq(Nat) /\ Len(v) = IF a + 1 <= a + n THEN (a + n) - (a + 1) + 1 ELSE 0
      BY <3>1, SubSeqProperties
    <3> HIDE DEF v
    <3>3. Len(v) = n
      BY <3>2
    <3>4. ReadBinary(buf, a, n) = [ok |-> TRUE, at |-> a + n, val |-> v]
      BY <2>1 DEF ReadBinary, v
    <3>5. QED
      BY <3>2, <3>3, <3>4
  <2>2. CASE ~(a + n <= Len(buf))
    <3>1. ReadBinary(buf, a, n) = [ok |-> FALSE, at |-> a, val |-> <<>>]
      <4> DEFINE ok == a + n <= Len(buf)
      <4>1. ReadBinary(buf, a, n) =
               [ok |-> ok, at |-> IF ok THEN a + n ELSE a,
                val |-> IF ok THEN SubSeq(buf, a + 1, a + n) ELSE <<>>]
        BY DEF ReadBinary
      <4>2. ok = FALSE
        BY <2>2
      <4> HIDE DEF ok
      <4>3. QED
        BY <4>1, <4>2
    <3>2. QED
      BY <3>1
  <2>3. QED
    BY <2>1, <2>2
<1> DEFINE read == ReadBinary(buf, at, 4)
           ok == read.ok /\ Stray \notin ToSet(read.val)
<1>2. /\ read.ok \in BOOLEAN /\ read.at \in Nat /\ read.val \in Seq(Nat)
      /\ read.ok => Len(read.val) = 4
  BY <1>1
<1>3. ReadInt(buf, at) = [ok |-> ok, at |-> read.at, val |-> IF ok THEN NumberOf(read.val) ELSE 0]
  BY DEF ReadInt, NumberOf
<1> HIDE DEF read
<1>4. read.ok => NumberOf(read.val) \in Nat
  <2> HAVE read.ok
  <2>1. \A i \in 1..4 : read.val[i] \in Nat
    BY <1>2, ElementOfSeq
  <2> DEFINE v == read.val
  <2>2. v[1] \in Nat /\ v[2] \in Nat /\ v[3] \in Nat /\ v[4] \in Nat
    BY <2>1
  <2> HIDE DEF v
  <2>3. 256 * (256 * (256 * v[1] + v[2]) + v[3]) + v[4] \in Nat
    <3> DEFINE w1 == 256 * v[1] + v[2]
               w2 == 256 * w1 + v[3]
    <3>1. w1 \in Nat
      BY <2>2
    <3> HIDE DEF w1
    <3>2. w2 \in Nat
      BY <2>2, <3>1
    <3> HIDE DEF w2
    <3>3. 256 * w2 + v[4] \in Nat
      BY <2>2, <3>2
    <3>4. QED
      BY <3>3 DEF w1, w2
  <2>4. QED
    BY <2>3 DEF NumberOf, v
<1>5. ReadInt(buf, at) \in [ok : BOOLEAN, at : Nat, val : Nat]
  <2>1. ok \in BOOLEAN /\ (IF ok THEN NumberOf(read.val) ELSE 0) \in Nat
    BY <1>4
  <2> HIDE DEF ok
  <2>2. QED
    BY <1>2, <1>3, <2>1
<1> DEFINE len == ReadInt(buf, at)
<1>6. len.ok \in BOOLEAN /\ len.at \in Nat /\ len.val \in Nat
      /\ len \in [ok : BOOLEAN, at : Nat, val : Nat]
  BY <1>5
<1>7. ReadString(buf, at) =
         IF len.ok THEN ReadBinary(buf, len.at, len.val) ELSE [len EXCEPT !.val = <<>>]
  BY DEF ReadString
<1> HIDE DEF len
<1>8. ReadBinary(buf, len.at, len.val) \in [ok : BOOLEAN, at : Nat, val : Seq(Nat)]
  BY <1>1, <1>6
<1>9. [len EXCEPT !.val = <<>>] \in [ok : BOOLEAN, at : Nat, val : Seq(Nat)]
  <2>1. len = [ok |-> len.ok, at |-> len.at, val |-> len.val]
    BY <1>6
  <2>2. [len EXCEPT !.val = <<>>] = [ok |-> len.ok, at |-> len.at, val |-> <<>>]
    BY <2>1
  <2>3. <<>> \in Seq(Nat)
    BY EmptySeq
  <2>4. QED
    BY <1>6, <2>2, <2>3
<1>10. QED
  BY <1>1, <1>5, <1>7, <1>8, <1>9

LEMMA ReadWordFinds ==
    ASSUME NEW buf \in Bytes, NEW at, NEW list, NEW entry \in Entries,
           Lies(buf, at, EntryBytes(entry))
    PROVE  ReadWord(buf, [ok |-> TRUE, at |-> at, words |-> list]) =
              [ok |-> TRUE, at |-> at + Len(EntryBytes(entry)), words |-> Append(list, entry)]
<1> DEFINE W == StringBytes(entry.word)
           C == IntBytes(entry.count)
           acc == [ok |-> TRUE, at |-> at, words |-> list]
           word == ReadString(buf, at)
           count == ReadInt(buf, word.at)
<1>1. /\ entry.word \in ByteStrings /\ entry.count \in Ints
      /\ entry = [word |-> entry.word, count |-> entry.count]
  BY DEF Entries
<1>2. W \in Bytes /\ C \in Bytes /\ Len(C) = 4
  <2>1. W \in Bytes
    <3>1. NewProto \in Protos
      BY PackFileIs, InitBufAssumption, ZerosType DEF NewProto, Protos
    <3>2. QED
      BY <1>1, <3>1, AddStringAppends
  <2>2. QED
    BY <1>1, <2>1, IntBytesType
<1>3. EntryBytes(entry) = W \o C
  BY DEF EntryBytes
<1>4. at \in Nat /\ Len(W) \in Nat
  BY <1>2, LenProperties DEF Lies, Bytes
<1>5. Lies(buf, at, W) /\ Lies(buf, at + Len(W), C)
  <2> HIDE DEF W, C
  <2>1. Lies(buf, at, W \o C)
    BY <1>3
  <2>2. QED
    BY <1>2, <2>1, LiesApart
<1>6. word = [ok |-> TRUE, at |-> at + Len(W), val |-> entry.word]
  BY <1>1, <1>5, ReadStringFinds
<1>7. word.ok = TRUE /\ word.at = at + Len(W) /\ word.val = entry.word
  BY <1>6
<1> HIDE DEF word
<1>8. count = [ok |-> TRUE, at |-> (at + Len(W)) + 4, val |-> entry.count]
  <2> HIDE DEF W
  <2>1. ReadInt(buf, at + Len(W)) = [ok |-> TRUE, at |-> (at + Len(W)) + 4, val |-> entry.count]
    BY <1>1, <1>5, ReadIntFinds
  <2>2. QED
    BY <1>7, <2>1
<1>9. count.ok = TRUE /\ count.at = (at + Len(W)) + 4 /\ count.val = entry.count
  BY <1>8
<1>10. (at + Len(W)) + 4 = at + Len(EntryBytes(entry))
  <2> HIDE DEF W, C
  <2>1. Len(W \o C) = Len(W) + Len(C)
    BY <1>2, JoinedBytes
  <2>2. QED
    BY <1>2, <1>3, <1>4, <2>1
<1> HIDE DEF count
<1>11. acc.ok = TRUE /\ acc.at = at /\ acc.words = list
  OBVIOUS
<1> HIDE DEF acc
<1>12. ReadWord(buf, acc) =
          [ok |-> acc.ok /\ word.ok /\ count.ok, at |-> count.at,
           words |-> Append(acc.words, [word |-> word.val, count |-> count.val])]
  BY <1>11 DEF ReadWord, word, count
<1>13. (acc.ok /\ word.ok /\ count.ok) = TRUE
  BY <1>7, <1>9, <1>11
<1>14. QED
  BY <1>1, <1>7, <1>9, <1>10, <1>11, <1>12, <1>13 DEF acc

LEMMA ReadFileFinds ==
    ASSUME NEW buf \in Bytes, NEW report \in EncodedReports, Lies(buf, 0, FileBytes(report))
    PROVE  LET id   == ReadString(buf, 0)
               ip   == ReadString(buf, id.at)
               port == ReadInt(buf, ip.at)
               size == ReadInt(buf, port.at)
           IN  /\ id.ok = TRUE /\ ip.ok = TRUE /\ port.ok = TRUE /\ size.ok = TRUE
               /\ id.val = report.id /\ ip.val = report.ip /\ port.val = report.port
               /\ size.val = Len(report.words) /\ size.at = Len(FileBytes(report))
<1> DEFINE I == StringBytes(report.id)
           A == StringBytes(report.ip)
           P == IntBytes(report.port)
           S == IntBytes(Len(report.words))
           id == ReadString(buf, 0)
           ip == ReadString(buf, id.at)
           port == ReadInt(buf, ip.at)
           size == ReadInt(buf, port.at)
<1>1. /\ report.id \in ByteStrings /\ report.ip \in ByteStrings /\ report.port \in Ints
      /\ Len(report.words) \in Ints
  BY DEF EncodedReports
<1>2. I \in Bytes /\ A \in Bytes
  <2>1. PackFile(report) \in Protos
    BY PackFileIs
  <2>2. QED
    BY <1>1, <2>1, AddStringAppends
<1>3. P \in Bytes /\ S \in Bytes /\ Len(P) = 4 /\ Len(S) = 4
  BY <1>1, IntBytesType
<1>4. FileBytes(report) = ((I \o A) \o P) \o S
  BY DEF FileBytes
<1> HIDE DEF I, A, P, S
<1>5. I \o A \in Bytes /\ Len(I \o A) = Len(I) + Len(A) /\ Len(I) \in Nat /\ Len(A) \in Nat
  <2>1. I \o A \in Bytes /\ Len(I \o A) = Len(I) + Len(A)
    BY <1>2, JoinedBytes
  <2>2. QED
    BY <1>2, <2>1, LenProperties DEF Bytes
<1> DEFINE X == I \o A
           Y == X \o P
<1> HIDE DEF X
<1>6. Y \in Bytes /\ Len(Y) = Len(X) + Len(P)
  BY <1>3, <1>5, JoinedBytes DEF X
<1> HIDE DEF Y
<1>7. FileBytes(report) = Y \o S /\ Len(Y \o S) = Len(Y) + Len(S)
  <2>1. Len(Y \o S) = Len(Y) + Len(S)
    BY <1>3, <1>6, JoinedBytes
  <2>2. QED
    BY <1>4, <2>1 DEF X, Y
<1>8. Lies(buf, 0, Y) /\ Lies(buf, 0 + Len(Y), S)
  <2>1. Lies(buf, 0, Y \o S)
    BY <1>7
  <2>2. QED
    BY <1>3, <1>6, <2>1, LiesApart
<1>9. Lies(buf, 0, X) /\ Lies(buf, 0 + Len(X), P)
  <2>1. Lies(buf, 0, X \o P) /\ X \in Bytes
    BY <1>5, <1>8 DEF X, Y
  <2>2. QED
    BY <1>3, <2>1, LiesApart
<1>10. Lies(buf, 0, I) /\ Lies(buf, 0 + Len(I), A)
  <2>1. Lies(buf, 0, I \o A)
    BY <1>9 DEF X
  <2>2. QED
    BY <1>2, <2>1, LiesApart
<1>11. id.ok = TRUE /\ id.at = 0 + Len(I) /\ id.val = report.id
  <2>1. id = [ok |-> TRUE, at |-> 0 + Len(I), val |-> report.id]
    BY <1>1, <1>10, ReadStringFinds DEF I
  <2>2. QED
    BY <2>1
<1> HIDE DEF id
<1>12. ip.ok = TRUE /\ ip.at = 0 + Len(X) /\ ip.val = report.ip
  <2>1. ReadString(buf, 0 + Len(I)) =
           [ok |-> TRUE, at |-> (0 + Len(I)) + Len(A), val |-> report.ip]
    BY <1>1, <1>10, ReadStringFinds DEF A
  <2>2. (0 + Len(I)) + Len(A) = 0 + Len(X)
    BY <1>5 DEF X
  <2>3. ip = [ok |-> TRUE, at |-> 0 + Len(X), val |-> report.ip]
    BY <1>11, <2>1, <2>2
  <2>4. QED
    BY <2>3
<1> HIDE DEF ip
<1>13. port.ok = TRUE /\ port.at = 0 + Len(Y) /\ port.val = report.port
  <2>1. ReadInt(buf, 0 + Len(X)) = [ok |-> TRUE, at |-> (0 + Len(X)) + 4, val |-> report.port]
    BY <1>1, <1>9, ReadIntFinds DEF P
  <2>2. (0 + Len(X)) + 4 = 0 + Len(Y)
    BY <1>3, <1>5, <1>6 DEF X
  <2>3. port = [ok |-> TRUE, at |-> 0 + Len(Y), val |-> report.port]
    BY <1>12, <2>1, <2>2
  <2>4. QED
    BY <2>3
<1> HIDE DEF port
<1>14. size.ok = TRUE /\ size.at = Len(FileBytes(report)) /\ size.val = Len(report.words)
  <2>1. ReadInt(buf, 0 + Len(Y)) =
           [ok |-> TRUE, at |-> (0 + Len(Y)) + 4, val |-> Len(report.words)]
    BY <1>1, <1>8, ReadIntFinds DEF S
  <2>2. Len(Y) \in Nat
    BY <1>6, LenProperties DEF Bytes
  <2>3. (0 + Len(Y)) + 4 = Len(FileBytes(report))
    BY <1>3, <1>7, <2>2
  <2>4. size = [ok |-> TRUE, at |-> Len(FileBytes(report)), val |-> Len(report.words)]
    BY <1>13, <2>1, <2>3
  <2>5. QED
    BY <2>4
<1> HIDE DEF size
<1>15. QED
  BY <1>11, <1>12, <1>13, <1>14 DEF id, ip, port, size

\* What pack_report writes, process_report reads: the buffer that grows while it is
\* written loses nothing, and every field is read from where it was written.
THEOREM UnpackedAsPacked ==
    ASSUME NEW report \in EncodedReports
    PROVE  /\ PackReport(report) \in Bytes
           /\ UnpackReport(PackReport(report)) = [ok |-> TRUE, report |-> report]
<1> DEFINE N == Len(report.words)
           body == PackReport(report)
           E(n) == EntryBytes(report.words[n])
<1>1. PICK out \in [0..N -> Bytes] :
         /\ out[0] = FileBytes(report) /\ out[N] = body
         /\ \A n \in 1..N : out[n] = out[n - 1] \o E(n)
  BY PackReportIs
<1>2. /\ N \in Nat /\ report.words \in Seq(Entries)
      /\ \A n \in 1..N : report.words[n] \in Entries
      /\ report = [id |-> report.id, ip |-> report.ip, port |-> report.port,
                   words |-> report.words]
  <2>1. /\ report.words \in Seq(Entries)
        /\ report = [id |-> report.id, ip |-> report.ip, port |-> report.port,
                     words |-> report.words]
    BY DEF EncodedReports
  <2>2. QED
    BY <2>1, LenProperties, ElementOfSeq
<1>3. \A n \in 1..N : E(n) \in Bytes
  <2>1. PackFile(report) \in Protos
    BY PackFileIs
  <2>2. QED
    BY <1>2, <2>1, PackWordAppends
<1>4. \A n \in 0..N : out[n] \in Bytes /\ Len(out[n]) \in Nat
  BY LenProperties DEF Bytes
<1>5. body \in Bytes
  BY <1>1, <1>2, <1>4
<1> HIDE DEF N, body, E
\* Everything written stays at its place.
<1>6. \A n \in 0..N : Lies(body, 0, out[n])
  <2> DEFINE T == {k \in 0..N : Lies(body, 0, out[N - k])}
  <2>1. 0 \in T
    <3>1. N - 0 = N /\ 0 \in 0..N
      BY <1>2
    <3>2. Lies(body, 0, body)
      <4>1. Len(body) \in Nat /\ \A i \in 1..Len(body) : 0 + i = i
        BY <1>5, LenProperties DEF Bytes
      <4>2. QED
        BY <4>1 DEF Lies
    <3>3. QED
      BY <1>1, <3>1, <3>2
  <2>2. ASSUME NEW k \in 1..N, k - 1 \in T
        PROVE  k \in T
    <3> DEFINE n == N - (k - 1)
    <3>1. n \in 1..N /\ n - 1 \in 0..N /\ n - 1 = N - k /\ n \in 0..N /\ k \in 0..N
      BY <1>2
    <3>2. Lies(body, 0, out[n])
      BY <2>2
    <3> HIDE DEF n
    <3>3. Lies(body, 0, out[n - 1] \o E(n))
      BY <1>1, <3>1, <3>2
    <3>4. out[n - 1] \in Bytes /\ E(n) \in Bytes
      BY <1>3, <1>4, <3>1
    <3>5. Lies(body, 0, out[n - 1])
      BY <1>5, <3>3, <3>4, LiesApart
    <3>6. QED
      BY <3>1, <3>5
  <2> HIDE DEF T
  <2>3. 0..N \subseteq T
    BY <1>2, <2>1, <2>2, UpTo
  <2>4. \A n \in 0..N : N - n \in T /\ N - (N - n) = n
    BY <1>2, <2>3
  <2>5. QED
    BY <2>4 DEF T
<1>7. ASSUME NEW n \in 1..N
      PROVE  /\ Lies(body, Len(out[n - 1]), E(n))
             /\ Len(out[n]) = Len(out[n - 1]) + Len(E(n))
  <2>1. n - 1 \in 0..N /\ n \in 0..N
    BY <1>2
  <2>2. out[n - 1] \in Bytes /\ E(n) \in Bytes /\ out[n] = out[n - 1] \o E(n)
        /\ Lies(body, 0, out[n - 1] \o E(n)) /\ Len(out[n - 1]) \in Nat
    BY <1>1, <1>3, <1>4, <1>6, <2>1
  <2>3. Lies(body, 0 + Len(out[n - 1]), E(n))
    BY <1>5, <2>2, LiesApart
  <2>4. 0 + Len(out[n - 1]) = Len(out[n - 1])
    BY <2>2
  <2>5. Len(out[n - 1] \o E(n)) = Len(out[n - 1]) + Len(E(n))
    BY <2>2, JoinedBytes
  <2>6. QED
    BY <2>2, <2>3, <2>4, <2>5
<1> DEFINE id == ReadString(body, 0)
           ip == ReadString(body, id.at)
           port == ReadInt(body, ip.at)
           size == ReadInt(body, port.at)
<1>8. /\ id.ok = TRUE /\ ip.ok = TRUE /\ port.ok = TRUE /\ size.ok = TRUE
      /\ id.val = report.id /\ ip.val = report.ip /\ port.val = report.port
      /\ size.val = N /\ size.at = Len(out[0])
  <2>1. Lies(body, 0, FileBytes(report))
    <3>1. 0 \in 0..N
      BY <1>2
    <3>2. QED
      BY <1>1, <1>6, <3>1
  <2>2. QED
    BY <1>1, <1>5, <2>1, ReadFileFinds DEF N
<1> DEFINE first == [ok |-> id.ok /\ ip.ok /\ port.ok /\ size.ok, at |-> size.at, words |-> <<>>]
           Solves(f) == f = [n \in 0..size.val |-> IF n = 0 THEN first
                                                   ELSE ReadWord(body, f[n - 1])]
           read == CHOOSE f : Solves(f)
           all == read[size.val]
<1>9. UnpackReport(body) =
         [ok |-> all.ok,
          report |-> [id |-> id.val, ip |-> ip.val, port |-> port.val, words |-> all.words]]
  BY DEF UnpackReport
<1>10. first = [ok |-> TRUE, at |-> Len(out[0]), words |-> <<>>]
  <2> HIDE DEF id, ip, port, size
  <2>1. (id.ok /\ ip.ok /\ port.ok /\ size.ok) = TRUE
    BY <1>8
  <2>2. QED
    BY <1>8, <2>1
<1> HIDE DEF read, id, ip, port, size, first
<1> DEFINE Read(n) == [ok |-> TRUE, at |-> Len(out[n]), words |-> SubSeq(report.words, 1, n)]
<1>11. Read(0) = first
  <2>1. SubSeq(report.words, 1, 0) = <<>>
    BY SubSeqEmpty
  <2>2. QED
    BY <1>10, <2>1
<1>12. ASSUME NEW n \in 1..N
       PROVE  ReadWord(body, Read(n - 1)) = Read(n)
  <2> DEFINE list == SubSeq(report.words, 1, n - 1)
  <2>1. ReadWord(body, [ok |-> TRUE, at |-> Len(out[n - 1]), words |-> list]) =
           [ok |-> TRUE, at |-> Len(out[n - 1]) + Len(E(n)), words |-> Append(list, report.words[n])]
    BY <1>2, <1>5, <1>7, ReadWordFinds DEF E
  <2>2. Append(list, report.words[n]) = SubSeq(report.words, 1, n)
    <3>1. n \in 1..Len(report.words) /\ 1 \in 1..Len(report.words) /\ n \in 1..Len(report.words)
      BY <1>2 DEF N
    <3>2. SubSeq(report.words, 1, n) = list \o <<report.words[n]>>
      BY <1>2, <3>1, SubSeqRecursiveSecond
    <3>3. list \in Seq(Entries) /\ report.words[n] \in Entries
      <4>1. \A i \in 1..(n - 1) : report.words[i] \in Entries
        <5>1. \A i \in 1..(n - 1) : i \in 1..N
          BY <1>2
        <5>2. QED
          BY <1>2, <5>1
      <4>2. QED
        BY <1>2, <4>1, SubSeqProperties
    <3>4. Append(list, report.words[n]) = list \o <<report.words[n]>>
      BY <3>3, AppendIsConcat
    <3>5. QED
      BY <3>2, <3>4
  <2>3. QED
    BY <1>7, <2>1, <2>2
<1> HIDE DEF Read
<1>13. Solves([n \in 0..N |-> Read(n)])
  <2> DEFINE f == [n \in 0..N |-> Read(n)]
  <2>1. \A n \in 0..N : Read(n) = IF n = 0 THEN first ELSE ReadWord(body, f[n - 1])
    <3> TAKE n \in 0..N
    <3>1. CASE n = 0
      BY <1>11, <3>1
    <3>2. CASE n # 0
      <4>1. n \in 1..N /\ n - 1 \in 0..N
        BY <1>2, <3>2
      <4>2. f[n - 1] = Read(n - 1)
        BY <4>1
      <4> HIDE DEF f
      <4>3. QED
        BY <1>12, <3>2, <4>1, <4>2
    <3>3. QED
      BY <3>1, <3>2
  <2>2. f = [n \in 0..N |-> IF n = 0 THEN first ELSE ReadWord(body, f[n - 1])]
    BY <2>1
  <2> HIDE DEF f
  <2>3. Solves(f)
    BY <1>8, <2>2
  <2>4. QED
    BY <2>3 DEF f
<1>14. Solves(read)
  BY <1>13 DEF read
<1>15. \A n \in 0..N : read[n] = Read(n)
  <2> DEFINE T == {n \in 0..N : read[n] = Read(n)}
  <2>1. \A n \in 0..N : read[n] = IF n = 0 THEN first ELSE ReadWord(body, read[n - 1])
    BY <1>8, <1>14
  <2>2. 0 \in T
    <3>1. 0 \in 0..N
      BY <1>2
    <3>2. QED
      BY <1>11, <2>1, <3>1
  <2>3. ASSUME NEW n \in 1..N, n - 1 \in T
        PROVE  n \in T
    <3>1. n \in 0..N /\ n # 0
      BY <1>2
    <3>2. read[n] = ReadWord(body, read[n - 1]) /\ read[n - 1] = Read(n - 1)
      BY <2>1, <2>3, <3>1
    <3>3. QED
      BY <1>12, <3>1, <3>2
  <2> HIDE DEF T
  <2>4. 0..N \subseteq T
    BY <1>2, <2>2, <2>3, UpTo
  <2>5. QED
    BY <2>4 DEF T
<1>16. all.ok = TRUE /\ all.words = report.words
  <2>1. N \in 0..N
    BY <1>2
  <2>2. all = Read(N)
    BY <1>8, <1>15, <2>1
  <2>3. SubSeq(report.words, 1, N) = report.words
    BY <1>2, SubSeqFull DEF N
  <2> HIDE DEF all
  <2>4. QED
    BY <2>2, <2>3 DEF Read
<1> HIDE DEF all
<1>17. QED
  BY <1>2, <1>5, <1>8, <1>9, <1>16 DEF body

\* Whatever bytes come as a report, its port is a number.
LEMMA UnpackedPort ==
    ASSUME NEW buf \in Seq(Nat)
    PROVE  UnpackReport(buf).report.port \in Nat
<1> DEFINE id == ReadString(buf, 0)
           ip == ReadString(buf, id.at)
           port == ReadInt(buf, ip.at)
<1>1. UnpackReport(buf).report.port = port.val
  BY DEF UnpackReport
<1>2. id.at \in Nat
  BY ReadsType
<1> HIDE DEF id
<1>3. ip.at \in Nat
  BY <1>2, ReadsType
<1> HIDE DEF ip
<1>4. port.val \in Nat
  BY <1>3, ReadsType
<1>5. QED
  BY <1>1, <1>4
=============================================================================
