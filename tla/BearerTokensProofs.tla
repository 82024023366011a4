------------------------- MODULE BearerTokensProofs -------------------------
(***************************************************************************)
(* Proofs about BearerTokens: what the entries of a list are, whatever the *)
(* list.  `splits` is recursive, so the facts about it are shown by        *)
(* induction on how much of the list is read.                              *)
(***************************************************************************)
EXTENDS BearerTokens, SequenceTheorems, WellFoundedInduction, TLAPS

-----------------------------------------------------------------------------
(***************************************************************************)
(* Induction over the naturals, on sets.                                   *)
(***************************************************************************)

\* A set of naturals that is not empty has a least element.
LEMMA Least ==
  ASSUME NEW S, S \subseteq Nat, S # {}
  PROVE  \E m \in S : \A n \in S : m <= n
<1> DEFINE R == OpToRel(<, Nat)
<1>1. IsWellFoundedOn(R, Nat)
  BY NatLessThanWellFounded
<1>2. \A x, y \in Nat : x < y => <<x, y>> \in R
  BY DEF OpToRel
<1> HIDE DEF R
<1>3. PICK m \in S : \A y \in S : ~(<<y, m>> \in R)
  BY <1>1, WFMin
<1>4. \A y \in S : y \in Nat /\ m \in Nat /\ ~(y < m)
  BY <1>2, <1>3
<1>5. \A y \in S : m <= y
  BY <1>4
<1> QED
  BY <1>5

\* A set of naturals below a bound that is not empty has a greatest element.
LEMMA Greatest ==
  ASSUME NEW b \in Nat, NEW S, S \subseteq 0..b, S # {}
  PROVE  \E m \in S : \A n \in S : n <= m
<1> DEFINE T == {i \in 0..b : b - i \in S}
<1>1. \A n \in S : n \in 0..b /\ b - n \in T /\ b - (b - n) = n
  OBVIOUS
<1>2. T \subseteq Nat /\ T # {}
  <2>1. PICK n \in S : n \in S
    OBVIOUS
  <2>2. b - n \in T
    BY <1>1, <2>1
  <2> QED
    BY <2>2
<1>3. PICK k \in T : \A i \in T : k <= i
  BY <1>2, Least
<1>4. b - k \in S /\ \A n \in S : n <= b - k
  BY <1>1, <1>3
<1> QED
  BY <1>4

\* A set with 0 in it, and with a number its successor, holds every natural.
LEMMA Induct ==
  ASSUME NEW S, 0 \in S, \A n \in Nat : n \in S => n + 1 \in S
  PROVE  Nat \subseteq S
<1> SUFFICES ASSUME Nat \ S # {} PROVE FALSE
  OBVIOUS
<1>1. PICK m \in Nat \ S : \A n \in Nat \ S : m <= n
  BY Least
<1>2. m - 1 \in Nat /\ m - 1 \in S
  BY <1>1
<1> QED
  BY <1>1, <1>2

-----------------------------------------------------------------------------
(***************************************************************************)
(* The recursive function exists, so that its equations hold of it.        *)
(***************************************************************************)

\* What one character does to the pieces.
Add(parts, c) == IF c = Comma THEN Append(parts, <<>>)
                 ELSE [parts EXCEPT ![Len(parts)] = Append(@, c)]

Splits(f, s, m) == /\ f = [n \in 0..m |-> f[n]]
                   /\ f[0] = <<<<>>>>
                   /\ \A n \in 1..m : f[n] = Add(f[n - 1], s[n])

\* However much of a list is to be read, a function satisfies the equations.
LEMMA SplitsExists ==
  ASSUME NEW s, NEW m \in Nat
  PROVE  \E f : Splits(f, s, m)
<1> DEFINE S == {n \in Nat : \E f : Splits(f, s, n)}
<1>1. 0 \in S
  <2>1. Splits([n \in 0..0 |-> <<<<>>>>], s, 0)
    BY DEF Splits
  <2> QED
    BY <2>1
<1>2. ASSUME NEW n \in Nat, n \in S PROVE n + 1 \in S
  <2>1. PICK f : Splits(f, s, n)
    BY <1>2
  <2> DEFINE g == [i \in 0 .. n + 1 |-> IF i <= n THEN f[i]
                                        ELSE Add(f[n], s[n + 1])]
  <2>2. /\ g = [i \in 0 .. n + 1 |-> g[i]]
        /\ g[0] = <<<<>>>>
        /\ g[n + 1] = Add(g[n], s[n + 1])
        /\ \A i \in 0..n : g[i] = f[i]
    BY <2>1 DEF Splits
  <2> HIDE DEF g
  <2>3. ASSUME NEW i \in 1 .. n + 1 PROVE g[i] = Add(g[i - 1], s[i])
    <3>1. CASE i = n + 1
      BY <2>2, <3>1
    <3>2. CASE i # n + 1
      <4>1. i \in 1..n /\ i \in 0..n /\ i - 1 \in 0..n
        BY <3>2
      <4> QED
        BY <2>1, <2>2, <4>1 DEF Splits
    <3> QED
      BY <3>1, <3>2
  <2>4. Splits(g, s, n + 1)
    BY <2>2, <2>3 DEF Splits
  <2> QED
    BY <2>4
<1> HIDE DEF S
<1>3. m \in S
  BY <1>1, <1>2, Induct
<1> QED
  BY <1>3 DEF S

\* `splits` satisfies its equations.
LEMMA SplitsSplits ==
  ASSUME NEW s \in Seq(STRING)
  PROVE  Splits(splits(s), s, Len(s))
<1> DEFINE Body(f) == [n \in 0..Len(s) |-> IF n = 0 THEN <<<<>>>>
                                           ELSE Add(f[n - 1], s[n])]
<1>1. splits(s) = CHOOSE f : f = Body(f)
  BY DEF splits, Add
<1>2. Len(s) \in Nat
  BY LenProperties
<1>3. PICK f : Splits(f, s, Len(s))
  BY <1>2, SplitsExists
<1>4. f = Body(f)
  <2>1. \A n \in 0..Len(s) :
          f[n] = IF n = 0 THEN <<<<>>>> ELSE Add(f[n - 1], s[n])
    BY <1>2, <1>3 DEF Splits
  <2>2. f = [n \in 0..Len(s) |-> f[n]]
    BY <1>3 DEF Splits
  <2> QED
    BY <2>1, <2>2
<1> HIDE DEF Body
<1>5. splits(s) = Body(splits(s))
  BY <1>1, <1>4
<1> QED
  <2> DEFINE g == splits(s)
  <2>1. g = [n \in 0..Len(s) |-> IF n = 0 THEN <<<<>>>>
                                 ELSE Add(g[n - 1], s[n])]
    BY <1>5 DEF Body
  <2> HIDE DEF g
  <2>2. /\ g = [n \in 0..Len(s) |-> g[n]]
        /\ \A n \in 0..Len(s) : g[n] = IF n = 0 THEN <<<<>>>>
                                         ELSE Add(g[n - 1], s[n])
    BY <2>1
  <2> QED
    BY <1>2, <2>2 DEF Splits, g

-----------------------------------------------------------------------------
(***************************************************************************)
(* The pieces of a list: what is between a comma, or the beginning, and    *)
(* the next comma.                                                         *)
(***************************************************************************)

Opens(s, l) == l = 0 \/ s[l] = Comma
Plain(s, from, to) == \A i \in from..to : s[i] # Comma

\* The last piece is what follows the last comma of the n characters read.
LastPiece(s, n, p) ==
  \E l \in 0..n : /\ Opens(s, l) /\ Plain(s, l + 1, n)
                  /\ p[Len(p)] = SubSeq(s, l + 1, n)

\* Each earlier one ends at one of their commas, and at each one ends.
EarlierPieces(s, n, p) ==
  /\ \A k \in 1 .. Len(p) - 1 :
       \E r \in 1..n : /\ s[r] = Comma
                       /\ \E l \in 0 .. r - 1 : /\ Opens(s, l)
                                                /\ Plain(s, l + 1, r - 1)
                                                /\ p[k] = SubSeq(s, l + 1, r - 1)
  /\ \A r \in 1..n : \A l \in 0 .. r - 1 :
       s[r] = Comma /\ Opens(s, l) /\ Plain(s, l + 1, r - 1) =>
         \E k \in 1 .. Len(p) - 1 : p[k] = SubSeq(s, l + 1, r - 1)

Pieces(s, n, p) == /\ p \in Seq(Seq(STRING))
                   /\ Len(p) \in Nat \ {0}
                   /\ LastPiece(s, n, p)
                   /\ EarlierPieces(s, n, p)

\* Two openings with no comma after them up to n are one.
LEMMA OneOpening ==
  ASSUME NEW s, NEW n \in Nat, NEW l \in 0..n, NEW k \in 0..n,
         Opens(s, l), Opens(s, k), Plain(s, l + 1, n), Plain(s, k + 1, n)
  PROVE  l = k
<1>1. ~(l < k)
  BY DEF Opens, Plain
<1>2. ~(k < l)
  BY DEF Opens, Plain
<1> QED
  BY <1>1, <1>2

\* What is cut out of a list is a list.
LEMMA CutIsList ==
  ASSUME NEW s \in Seq(STRING), NEW from \in Nat \ {0}, NEW to \in 0..Len(s)
  PROVE  SubSeq(s, from, to) \in Seq(STRING)
<1>1. \A i \in from..to : s[i] \in STRING
  BY ElementOfSeq
<1> QED
  BY <1>1, SubSeqProperties

\* A comma ends the last piece and begins an empty one.
LEMMA CommaKeepsPieces ==
  ASSUME NEW s \in Seq(STRING), NEW n \in 1..Len(s), NEW p,
         Pieces(s, n - 1, p), s[n] = Comma
  PROVE  Pieces(s, n, Append(p, <<>>))
<1> DEFINE q == Append(p, <<>>)
<1>1. /\ p \in Seq(Seq(STRING)) /\ Len(p) \in Nat \ {0} /\ Len(s) \in Nat
      /\ <<>> \in Seq(STRING)
  BY LenProperties, EmptySeq DEF Pieces
<1>2. /\ q \in Seq(Seq(STRING))
      /\ Len(q) = Len(p) + 1
      /\ \A i \in 1..Len(p) : q[i] = p[i]
      /\ q[Len(p) + 1] = <<>>
      /\ q[Len(p)] = p[Len(p)]
      /\ Len(p) \in 1 .. Len(q) - 1
  <2>1. Len(p) \in 1..Len(p) /\ Len(p) \in 1 .. Len(p) + 1 - 1
    BY <1>1
  <2>2. /\ q \in Seq(Seq(STRING))
        /\ Len(q) = Len(p) + 1
        /\ \A i \in 1..Len(p) : q[i] = p[i]
        /\ q[Len(p) + 1] = <<>>
    BY <1>1, AppendProperties
  <2> HIDE DEF q
  <2> QED
    BY <2>1, <2>2
<1> HIDE DEF q
<1>3. PICK m \in 0 .. n - 1 : /\ Opens(s, m) /\ Plain(s, m + 1, n - 1)
                              /\ p[Len(p)] = SubSeq(s, m + 1, n - 1)
  BY DEF Pieces, LastPiece
<1>4. LastPiece(s, n, q)
  <2>1. SubSeq(s, n + 1, n) = <<>>
    BY <1>1, SubSeqEmpty
  <2>2. Opens(s, n) /\ Plain(s, n + 1, n)
    BY <1>1 DEF Opens, Plain
  <2>3. n \in 0..n /\ q[Len(q)] = SubSeq(s, n + 1, n)
    BY <1>1, <1>2, <2>1
  <2> QED
    BY <2>2, <2>3 DEF LastPiece
<1>5. ASSUME NEW k \in 1 .. Len(q) - 1
      PROVE  \E r \in 1..n :
               /\ s[r] = Comma
               /\ \E l \in 0 .. r - 1 : /\ Opens(s, l)
                                        /\ Plain(s, l + 1, r - 1)
                                        /\ q[k] = SubSeq(s, l + 1, r - 1)
  <2>1. CASE k = Len(p)
    <3>1. q[k] = SubSeq(s, m + 1, n - 1)
      BY <1>2, <1>3, <2>1
    <3>2. n \in 1..n
      BY <1>1
    <3> QED
      BY <1>3, <3>1, <3>2
  <2>2. CASE k # Len(p)
    <3>1. k \in 1 .. Len(p) - 1 /\ k \in 1..Len(p)
      BY <1>1, <1>2, <2>2
    <3>2. PICK r \in 1 .. n - 1 :
            /\ s[r] = Comma
            /\ \E l \in 0 .. r - 1 : /\ Opens(s, l)
                                     /\ Plain(s, l + 1, r - 1)
                                     /\ p[k] = SubSeq(s, l + 1, r - 1)
      BY <3>1 DEF Pieces, EarlierPieces
    <3>3. r \in 1..n
      BY <1>1
    <3>4. q[k] = p[k]
      BY <1>2, <3>1
    <3> QED
      BY <3>2, <3>3, <3>4
  <2> QED
    BY <2>1, <2>2
<1>6. ASSUME NEW r \in 1..n, NEW l \in 0 .. r - 1,
             s[r] = Comma, Opens(s, l), Plain(s, l + 1, r - 1)
      PROVE  \E k \in 1 .. Len(q) - 1 : q[k] = SubSeq(s, l + 1, r - 1)
  <2>1. CASE r = n
    <3>1. l = m
      BY <1>1, <1>3, <1>6, <2>1, OneOpening
    <3> QED
      BY <1>2, <1>3, <2>1, <3>1
  <2>2. CASE r # n
    <3>1. r \in 1 .. n - 1
      BY <1>1, <2>2
    <3>2. PICK k \in 1 .. Len(p) - 1 : p[k] = SubSeq(s, l + 1, r - 1)
      BY <1>6, <3>1 DEF Pieces, EarlierPieces
    <3>3. k \in 1 .. Len(q) - 1 /\ k \in 1..Len(p)
      BY <1>1, <1>2
    <3>4. q[k] = p[k]
      BY <1>2, <3>3
    <3> QED
      BY <3>2, <3>3, <3>4
  <2> QED
    BY <2>1, <2>2
<1>7. EarlierPieces(s, n, q)
  BY <1>5, <1>6 DEF EarlierPieces
<1>8. Pieces(s, n, q)
  BY <1>1, <1>2, <1>4, <1>7 DEF Pieces
<1> QED
  BY <1>8 DEF q

\* Any other character is added to the last piece.
LEMMA OtherKeepsPieces ==
  ASSUME NEW s \in Seq(STRING), NEW n \in 1..Len(s), NEW p,
         Pieces(s, n - 1, p), s[n] # Comma
  PROVE  Pieces(s, n, [p EXCEPT ![Len(p)] = Append(@, s[n])])
<1> DEFINE q == [p EXCEPT ![Len(p)] = Append(@, s[n])]
<1>1. /\ p \in Seq(Seq(STRING)) /\ Len(p) \in Nat \ {0} /\ Len(s) \in Nat
      /\ s[n] \in STRING
  BY LenProperties, ElementOfSeq DEF Pieces
<1>2. PICK m \in 0 .. n - 1 : /\ Opens(s, m) /\ Plain(s, m + 1, n - 1)
                              /\ p[Len(p)] = SubSeq(s, m + 1, n - 1)
  BY DEF Pieces, LastPiece
<1>3. Append(p[Len(p)], s[n]) = SubSeq(s, m + 1, n)
  <2>1. m + 1 \in 1..Len(s) /\ n \in m + 1 .. Len(s)
    BY <1>1
  <2>2. SubSeq(s, m + 1, n) = SubSeq(s, m + 1, n - 1) \o <<s[n]>>
    BY <2>1, SubSeqRecursiveSecond
  <2>3. SubSeq(s, m + 1, n - 1) \in Seq(STRING)
    BY <1>1, CutIsList
  <2> QED
    BY <1>1, <1>2, <2>2, <2>3, AppendIsConcat
<1>4. SubSeq(s, m + 1, n) \in Seq(STRING)
  BY <1>1, CutIsList
<1>5. /\ q \in Seq(Seq(STRING))
      /\ Len(q) = Len(p)
      /\ \A i \in 1..Len(p) : q[i] = IF i = Len(p) THEN SubSeq(s, m + 1, n)
                                     ELSE p[i]
  <2>1. Len(p) \in 1..Len(p)
    BY <1>1
  <2>2. q = [p EXCEPT ![Len(p)] = SubSeq(s, m + 1, n)]
    BY <1>1, <1>3, <2>1
  <2> HIDE DEF q
  <2> QED
    BY <1>1, <1>4, <2>1, <2>2, ExceptSeq
<1> HIDE DEF q
<1>6. LastPiece(s, n, q)
  <2>0. Len(p) \in 1..Len(p) /\ m \in 0..n
    BY <1>1
  <2>1. q[Len(q)] = SubSeq(s, m + 1, n)
    BY <1>5, <2>0
  <2>2. Plain(s, m + 1, n)
    BY <1>1, <1>2 DEF Plain
  <2> QED
    BY <1>2, <2>0, <2>1, <2>2 DEF LastPiece
<1>7. ASSUME NEW k \in 1 .. Len(q) - 1
      PROVE  \E r \in 1..n :
               /\ s[r] = Comma
               /\ \E l \in 0 .. r - 1 : /\ Opens(s, l)
                                        /\ Plain(s, l + 1, r - 1)
                                        /\ q[k] = SubSeq(s, l + 1, r - 1)
  <2>1. k \in 1 .. Len(p) - 1 /\ q[k] = p[k]
    BY <1>1, <1>5
  <2>2. PICK r \in 1 .. n - 1 :
          /\ s[r] = Comma
          /\ \E l \in 0 .. r - 1 : /\ Opens(s, l)
                                   /\ Plain(s, l + 1, r - 1)
                                   /\ p[k] = SubSeq(s, l + 1, r - 1)
    BY <2>1 DEF Pieces, EarlierPieces
  <2>3. r \in 1..n
    BY <1>1
  <2> QED
    BY <2>1, <2>2, <2>3
<1>8. ASSUME NEW r \in 1..n, NEW l \in 0 .. r - 1,
             s[r] = Comma, Opens(s, l), Plain(s, l + 1, r - 1)
      PROVE  \E k \in 1 .. Len(q) - 1 : q[k] = SubSeq(s, l + 1, r - 1)
  <2>1. r \in 1 .. n - 1
    BY <1>1, <1>8
  <2>2. PICK k \in 1 .. Len(p) - 1 : p[k] = SubSeq(s, l + 1, r - 1)
    BY <1>8, <2>1 DEF Pieces, EarlierPieces
  <2>3. k \in 1 .. Len(q) - 1 /\ q[k] = p[k]
    BY <1>1, <1>5
  <2> QED
    BY <2>2, <2>3
<1>9. EarlierPieces(s, n, q)
  BY <1>7, <1>8 DEF EarlierPieces
<1>10. Pieces(s, n, q)
  BY <1>1, <1>5, <1>6, <1>9 DEF Pieces
<1> QED
  BY <1>10 DEF q

\* Read to its end, a list is split into its pieces.
LEMMA SplitIsPieces ==
  ASSUME NEW s \in Seq(STRING)
  PROVE  Pieces(s, Len(s), split(s))
<1> DEFINE S == {n \in Nat : n <= Len(s) => Pieces(s, n, splits(s)[n])}
<1>1. Len(s) \in Nat
  BY LenProperties
<1>2. 0 \in S
  <2>1. splits(s)[0] = <<<<>>>>
    BY SplitsSplits DEF Splits
  <2>2. <<<<>>>> \in Seq(Seq(STRING)) /\ Len(<<<<>>>>) = 1 /\ <<<<>>>>[1] = <<>>
    BY EmptySeq
  <2>3. LastPiece(s, 0, <<<<>>>>)
    <3>1. SubSeq(s, 1, 0) = <<>>
      BY SubSeqEmpty
    <3>2. 0 \in 0..0 /\ Opens(s, 0) /\ Plain(s, 0 + 1, 0)
      BY DEF Opens, Plain
    <3>3. 0 + 1 = 1
      OBVIOUS
    <3> QED
      BY <2>2, <3>1, <3>2, <3>3 DEF LastPiece
  <2>4. EarlierPieces(s, 0, <<<<>>>>)
    BY <2>2 DEF EarlierPieces
  <2>5. Pieces(s, 0, <<<<>>>>)
    BY <2>2, <2>3, <2>4 DEF Pieces
  <2> QED
    BY <2>1, <2>5
<1>3. ASSUME NEW n \in Nat, n \in S PROVE n + 1 \in S
  <2> SUFFICES ASSUME n + 1 <= Len(s) PROVE Pieces(s, n + 1, splits(s)[n + 1])
    OBVIOUS
  <2>1. n + 1 \in 1..Len(s) /\ n = (n + 1) - 1
    BY <1>1
  <2>2. Pieces(s, (n + 1) - 1, splits(s)[n])
    BY <1>1, <1>3, <2>1
  <2>3. splits(s)[n + 1] = Add(splits(s)[(n + 1) - 1], s[n + 1])
    BY <2>1, SplitsSplits DEF Splits
  <2>4. CASE s[n + 1] = Comma
    <3>1. splits(s)[n + 1] = Append(splits(s)[n], <<>>)
      BY <2>1, <2>3, <2>4 DEF Add
    <3> QED
      BY <2>1, <2>2, <2>4, <3>1, CommaKeepsPieces
  <2>5. CASE s[n + 1] # Comma
    <3>1. Pieces(s, n + 1, [splits(s)[n] EXCEPT
                                ![Len(splits(s)[n])] = Append(@, s[n + 1])])
      BY <2>1, <2>2, <2>5, OtherKeepsPieces
    <3>2. splits(s)[n + 1] =
            [splits(s)[n] EXCEPT ![Len(splits(s)[n])] = Append(@, s[n + 1])]
      BY <2>1, <2>3, <2>5 DEF Add
    <3> QED
      BY <3>1, <3>2, Zenon
  <2> QED
    BY <2>4, <2>5
<1> HIDE DEF S
<1>4. Len(s) \in S
  BY <1>1, <1>2, <1>3, Induct
<1>5. Len(s) <= Len(s)
  BY <1>1
<1> QED
  BY <1>4, <1>5 DEF S, split

\* What is between two adjacent borders, without a comma in it.
IsPiece(e, s, l, r) == /\ Border(s, l) /\ Border(s, r)
                       /\ Plain(s, l + 1, r - 1)
                       /\ e = SubSeq(s, l + 1, r - 1)

\* A list is split into what is between its borders.
LEMMA SplitsAtBorders ==
  ASSUME NEW s \in Seq(STRING), NEW e
  PROVE  e \in Range(split(s)) <=>
           \E l \in 0..Len(s) : \E r \in l + 1 .. Len(s) + 1 : IsPiece(e, s, l, r)
<1> DEFINE p == split(s)
           n == Len(s)
<1>1. n \in Nat /\ Pieces(s, n, p)
  BY LenProperties, SplitIsPieces
<1>2. /\ p \in Seq(Seq(STRING)) /\ Len(p) \in Nat \ {0}
      /\ LastPiece(s, n, p) /\ EarlierPieces(s, n, p)
  BY <1>1 DEF Pieces
<1>3. Range(p) = {p[k] : k \in 1..Len(p)}
  BY <1>2, RangeEquality
<1>4. \A l \in 0..n : Border(s, l) <=> Opens(s, l)
  BY <1>1 DEF Border, Opens
<1>5. \A r \in 1 .. n + 1 : Border(s, r) <=> r = n + 1 \/ s[r] = Comma
  BY <1>1 DEF Border
<1> HIDE DEF p
<1>6. PICK m \in 0..n : /\ Opens(s, m) /\ Plain(s, m + 1, n)
                        /\ p[Len(p)] = SubSeq(s, m + 1, n)
  BY <1>2 DEF LastPiece
<1>7. ASSUME NEW k \in 1..Len(p), e = p[k]
      PROVE  \E l \in 0..n : \E r \in l + 1 .. n + 1 : IsPiece(e, s, l, r)
  <2>1. CASE k = Len(p)
    <3>1. n + 1 \in m + 1 .. n + 1 /\ n + 1 \in 1 .. n + 1 /\ (n + 1) - 1 = n
      BY <1>1
    <3>2. IsPiece(e, s, m, n + 1)
      BY <1>4, <1>5, <1>6, <1>7, <2>1, <3>1 DEF IsPiece
    <3> QED
      BY <3>1, <3>2
  <2>2. CASE k # Len(p)
    <3>1. k \in 1 .. Len(p) - 1
      BY <1>2, <2>2
    <3>2. PICK r \in 1..n :
            /\ s[r] = Comma
            /\ \E l \in 0 .. r - 1 : /\ Opens(s, l)
                                     /\ Plain(s, l + 1, r - 1)
                                     /\ p[k] = SubSeq(s, l + 1, r - 1)
      BY <1>2, <3>1 DEF EarlierPieces
    <3>3. PICK l \in 0 .. r - 1 : /\ Opens(s, l)
                                  /\ Plain(s, l + 1, r - 1)
                                  /\ p[k] = SubSeq(s, l + 1, r - 1)
      BY <3>2
    <3>4. l \in 0..n /\ r \in l + 1 .. n + 1 /\ r \in 1 .. n + 1
      BY <1>1
    <3>5. IsPiece(e, s, l, r)
      BY <1>4, <1>5, <1>7, <3>2, <3>3, <3>4 DEF IsPiece
    <3> QED
      BY <3>4, <3>5
  <2> QED
    BY <2>1, <2>2
<1>8. ASSUME NEW l \in 0..n, NEW r \in l + 1 .. n + 1, IsPiece(e, s, l, r)
      PROVE  e \in Range(p)
  <2>1. r \in 1 .. n + 1 /\ Len(p) \in 1..Len(p)
    BY <1>1, <1>2
  <2>2. Opens(s, l) /\ Plain(s, l + 1, r - 1) /\ e = SubSeq(s, l + 1, r - 1)
    BY <1>4, <1>8 DEF IsPiece
  <2>3. CASE r = n + 1
    <3>1. (n + 1) - 1 = n
      BY <1>1
    <3>2. l = m
      BY <1>1, <1>6, <2>2, <2>3, <3>1, OneOpening
    <3> QED
      BY <1>3, <1>6, <2>1, <2>2, <2>3, <3>1, <3>2
  <2>4. CASE r # n + 1
    <3>1. r \in 1..n /\ l \in 0 .. r - 1 /\ s[r] = Comma
      BY <1>1, <1>5, <1>8, <2>1, <2>4 DEF IsPiece
    <3>2. PICK k \in 1 .. Len(p) - 1 : p[k] = SubSeq(s, l + 1, r - 1)
      BY <1>2, <2>2, <3>1 DEF EarlierPieces
    <3>3. k \in 1..Len(p)
      BY <1>2
    <3> QED
      BY <1>3, <2>2, <3>2, <3>3
  <2> QED
    BY <2>3, <2>4
<1>9. e \in Range(p) <=> \E k \in 1..Len(p) : e = p[k]
  BY <1>3
<1>10. e \in Range(p) <=> \E l \in 0..n : \E r \in l + 1 .. n + 1 : IsPiece(e, s, l, r)
  BY <1>7, <1>8, <1>9
<1> QED
  BY <1>10 DEF p

-----------------------------------------------------------------------------
(***************************************************************************)
(* Trimming: from the first to the last character that is not a space.     *)
(***************************************************************************)

\* a and b are the first and the last character of e that are no space.
Ink(e, a, b) == /\ a <= b
                /\ e[a] # Space /\ e[b] # Space
                /\ Blank(e, 1, a - 1) /\ Blank(e, b + 1, Len(e))

\* What has a first and a last such character is trimmed to them.
LEMMA TrimToInk ==
  ASSUME NEW e \in Seq(STRING), NEW a \in 1..Len(e), NEW b \in 1..Len(e),
         Ink(e, a, b)
  PROVE  trim(e) = SubSeq(e, a, b)
<1> DEFINE ink == {i \in DOMAIN e : e[i] # Space}
<1>1. Len(e) \in Nat /\ DOMAIN e = 1..Len(e)
  BY LenProperties
<1>2. a \in ink /\ b \in ink
  BY <1>1 DEF Ink
<1>3. \A i \in ink : i \in Int /\ a <= i /\ i <= b
  BY <1>1 DEF Ink, Blank
<1>4. ink # {} /\ trim(e) = IF ink = {} THEN <<>> ELSE SubSeq(e, Min(ink), Max(ink))
  BY <1>2 DEF trim
<1> HIDE DEF ink
<1>5. Min(ink) = a
  <2>1. \A x \in ink : (\A y \in ink : x <= y) => x = a
    BY <1>2, <1>3
  <2>2. \A y \in ink : a <= y
    BY <1>3
  <2> QED
    BY <1>2, <2>1, <2>2 DEF Min
<1>6. Max(ink) = b
  <2>1. \A x \in ink : (\A y \in ink : x >= y) => x = b
    BY <1>2, <1>3
  <2>2. \A y \in ink : b >= y
    BY <1>3
  <2> QED
    BY <1>2, <2>1, <2>2 DEF Max
<1> QED
  BY <1>4, <1>5, <1>6

\* What is not trimmed to nothing has them.
LEMMA InkExists ==
  ASSUME NEW e \in Seq(STRING), trim(e) # <<>>
  PROVE  \E a, b \in 1..Len(e) : Ink(e, a, b)
<1> DEFINE ink == {i \in DOMAIN e : e[i] # Space}
<1>1. Len(e) \in Nat /\ DOMAIN e = 1..Len(e)
  BY LenProperties
<1>2. ink # {}
  BY DEF trim
<1>3. ink \subseteq 1..Len(e) /\ ink \subseteq Nat /\ ink \subseteq 0..Len(e)
  BY <1>1
<1>4. \A i \in 1..Len(e) : i \notin ink => e[i] = Space
  BY <1>1
<1>5. \A i \in ink : e[i] # Space
  OBVIOUS
<1> HIDE DEF ink
<1>6. PICK a \in ink : \A i \in ink : a <= i
  BY <1>2, <1>3, Least
<1>7. PICK b \in ink : \A i \in ink : i <= b
  BY <1>1, <1>2, <1>3, Greatest
<1>8. Blank(e, 1, a - 1)
  BY <1>1, <1>3, <1>4, <1>6 DEF Blank
<1>9. Blank(e, b + 1, Len(e))
  BY <1>1, <1>3, <1>4, <1>7 DEF Blank
<1> QED
  BY <1>3, <1>5, <1>6, <1>7, <1>8, <1>9 DEF Ink

\* A piece of a list, and where it is in it.
LEMMA PieceInPlace ==
  ASSUME NEW s \in Seq(STRING), NEW l \in 0..Len(s), NEW r \in l + 1 .. Len(s) + 1,
         NEW e, e = SubSeq(s, l + 1, r - 1)
  PROVE  /\ e \in Seq(STRING)
         /\ Len(e) = r - 1 - l
         /\ \A k \in 1..Len(e) : e[k] = s[l + k]
         /\ \A a, b \in 1..Len(e) : SubSeq(e, a, b) = SubSeq(s, l + a, l + b)
<1>1. Len(s) \in Nat
  BY LenProperties
<1>2. \A i \in l + 1 .. r - 1 : s[i] \in STRING
  <2>1. \A i \in l + 1 .. r - 1 : i \in 1..Len(s)
    BY <1>1
  <2> QED
    BY <2>1, ElementOfSeq
<1>3. l + 1 \in Int /\ r - 1 \in Int
  BY <1>1
<1>4. /\ e \in Seq(STRING)
      /\ Len(e) = IF l + 1 <= r - 1 THEN (r - 1) - (l + 1) + 1 ELSE 0
      /\ \A k \in 1 .. (r - 1) - (l + 1) + 1 : e[k] = s[(l + 1) + k - 1]
  BY <1>2, <1>3, SubSeqProperties
<1>5. Len(e) = r - 1 - l
  BY <1>1, <1>4
<1>6. \A k \in 1..Len(e) : /\ k \in 1 .. (r - 1) - (l + 1) + 1
                           /\ (l + 1) + k - 1 = l + k
  BY <1>1, <1>5
<1>7. ASSUME NEW a \in 1..Len(e), NEW b \in 1..Len(e)
      PROVE  SubSeq(e, a, b) = SubSeq(s, l + a, l + b)
  <2>1. /\ l + 1 \in 1..Len(s) /\ r - 1 \in 1..Len(s)
        /\ a \in 1 .. (r - 1) - (l + 1) + 1
        /\ b \in 1 .. (r - 1) - (l + 1) + 1
    BY <1>1, <1>5
  <2>2. SubSeq(e, a, b) = SubSeq(s, (l + 1) + a - 1, (l + 1) + b - 1)
    BY <2>1, SubSeqOfSubSeq
  <2>3. (l + 1) + a - 1 = l + a /\ (l + 1) + b - 1 = l + b
    BY <1>1, <1>5
  <2> QED
    BY <2>2, <2>3
<1>8. \A k \in 1..Len(e) : e[k] = s[l + k]
  BY <1>4, <1>6
<1> QED
  BY <1>4, <1>5, <1>7, <1>8

\* A space is no comma.
LEMMA SpaceIsNoComma == Space # Comma
BY Zenon DEF Space, Comma

\* The tokens of a list are its entries: what stands between two commas or ends,
\* without the space around it, and no other, nothing among them; and the
\* entries are strings.
THEOREM ListsReadAsEntries ==
  ASSUME NEW s \in Seq(STRING), NEW t
  PROVE  /\ t \in parse_tokens(s) <=> IsEntry(t, s)
         /\ t \in parse_tokens(s) => t \in Seq(STRING)
<1>1. Len(s) \in Nat /\ DOMAIN s = 1..Len(s)
  BY LenProperties
<1>2. ASSUME t \in parse_tokens(s)
      PROVE  IsEntry(t, s) /\ t \in Seq(STRING)
  <2>1. PICK e \in Range(split(s)) : t = trim(e) /\ t # <<>>
    BY <1>2 DEF parse_tokens
  <2>2. PICK l \in 0..Len(s) : \E r \in l + 1 .. Len(s) + 1 : IsPiece(e, s, l, r)
    BY <2>1, SplitsAtBorders
  <2>3. PICK r \in l + 1 .. Len(s) + 1 : IsPiece(e, s, l, r)
    BY <2>2
  <2>4. /\ e \in Seq(STRING)
        /\ Len(e) = r - 1 - l
        /\ \A k \in 1..Len(e) : e[k] = s[l + k]
        /\ \A a, b \in 1..Len(e) : SubSeq(e, a, b) = SubSeq(s, l + a, l + b)
    BY <2>3, PieceInPlace DEF IsPiece
  <2>5. PICK a, b \in 1..Len(e) : Ink(e, a, b)
    BY <2>1, <2>4, InkExists
  <2> DEFINE i == l + a
             j == l + b
  <2>6. /\ i \in DOMAIN s /\ j \in DOMAIN s /\ i <= j
        /\ i \in Nat \ {0} /\ j \in 0..Len(s)
        /\ l \in 0 .. i - 1 /\ r \in j + 1 .. Len(s) + 1
    BY <1>1, <2>4, <2>5 DEF Ink
  <2>7. t = SubSeq(s, i, j)
    BY <2>1, <2>4, <2>5, TrimToInk
  <2>8. s[i] # Space /\ s[j] # Space
    BY <2>4, <2>5 DEF Ink
  <2>9. \A n \in i..j : s[n] # Comma
    BY <1>1, <2>3, <2>4 DEF IsPiece, Plain
  <2>10. Blank(s, l + 1, i - 1)
    <3>1. l \in Int /\ Len(e) \in Nat /\ a \in 1..Len(e)
      BY <1>1, <2>4
    <3>2. \A n \in l + 1 .. i - 1 : /\ n - l \in 1 .. a - 1 /\ n - l \in 1..Len(e)
                                    /\ l + (n - l) = n
      BY <3>1
    <3> QED
      BY <2>4, <2>5, <3>2 DEF Ink, Blank
  <2>11. Blank(s, j + 1, r - 1)
    <3>1. \A n \in j + 1 .. r - 1 : /\ n - l \in b + 1 .. Len(e)
                                    /\ n - l \in 1..Len(e)
                                    /\ l + (n - l) = n
      BY <1>1, <2>4
    <3> QED
      BY <2>4, <2>5, <3>1 DEF Ink, Blank
  <2>12. t \in Seq(STRING)
    BY <2>6, <2>7, CutIsList
  <2> HIDE DEF i, j
  <2>13. Border(s, l) /\ Border(s, r)
    BY <2>3 DEF IsPiece
  <2> QED
    BY <2>6, <2>7, <2>8, <2>9, <2>10, <2>11, <2>12, <2>13 DEF IsEntry
<1>3. ASSUME IsEntry(t, s)
      PROVE  t \in parse_tokens(s)
  <2>1. PICK i, j \in DOMAIN s :
          /\ i <= j
          /\ t = SubSeq(s, i, j)
          /\ \A n \in i..j : s[n] # Comma
          /\ Space \notin {s[i], s[j]}
          /\ \E l \in 0 .. i - 1 : Border(s, l) /\ Blank(s, l + 1, i - 1)
          /\ \E r \in j + 1 .. Len(s) + 1 : Border(s, r) /\ Blank(s, j + 1, r - 1)
    BY <1>3 DEF IsEntry
  <2>2. PICK l \in 0 .. i - 1 : Border(s, l) /\ Blank(s, l + 1, i - 1)
    BY <2>1
  <2>3. PICK r \in j + 1 .. Len(s) + 1 : Border(s, r) /\ Blank(s, j + 1, r - 1)
    BY <2>1
  <2>4. l \in 0..Len(s) /\ r \in l + 1 .. Len(s) + 1
    BY <1>1, <2>1
  <2> DEFINE e == SubSeq(s, l + 1, r - 1)
             a == i - l
             b == j - l
  <2>5. /\ e \in Seq(STRING)
        /\ Len(e) = r - 1 - l
        /\ \A k \in 1..Len(e) : e[k] = s[l + k]
        /\ \A x, y \in 1..Len(e) : SubSeq(e, x, y) = SubSeq(s, l + x, l + y)
    BY <2>4, PieceInPlace
  <2> HIDE DEF e
  <2>6. /\ a \in 1..Len(e) /\ b \in 1..Len(e) /\ Len(e) \in Nat
        /\ a <= b /\ l + a = i /\ l + b = j /\ l + Len(e) = r - 1
    <3>1. i \in 1..Len(s) /\ j \in 1..Len(s) /\ i <= j /\ l \in Int /\ r \in Int
      BY <1>1, <2>1, <2>4
    <3>2. Len(e) = r - 1 - l /\ l < i /\ j < r
      BY <1>1, <2>5, <3>1
    <3>3. l + a = i /\ l + b = j /\ l + Len(e) = r - 1
      BY <3>1, <3>2
    <3>4. a \in Int /\ b \in Int /\ Len(e) \in Int
      BY <3>1, <3>2
    <3> HIDE DEF a, b
    <3>5. 1 <= a /\ a <= b /\ b <= Len(e)
      BY <3>1, <3>2, <3>3, <3>4
    <3> QED
      BY <3>3, <3>4, <3>5
  <2> HIDE DEF a, b
  <2>7. Ink(e, a, b)
    <3>0. l \in Int /\ r \in Int /\ i \in Int /\ j \in Int
      BY <1>1, <2>4
    <3>1. e[a] # Space /\ e[b] # Space
      BY <2>1, <2>5, <2>6
    <3>2. Blank(e, 1, a - 1)
      <4>1. ASSUME NEW n \in 1 .. a - 1
            PROVE  n \in 1..Len(e) /\ l + n \in l + 1 .. i - 1
        <5>1. n \in Int /\ 1 <= n /\ n <= a - 1 /\ a \in Int /\ a <= Len(e)
          BY <2>6
        <5>2. n \in 1..Len(e)
          BY <2>6, <5>1
        <5>3. l + n \in l + 1 .. i - 1
          BY <2>6, <3>0, <5>1
        <5> QED
          BY <5>2, <5>3
      <4> QED
        BY <2>2, <2>5, <4>1 DEF Blank
    <3>3. Blank(e, b + 1, Len(e))
      <4>1. ASSUME NEW n \in b + 1 .. Len(e)
            PROVE  n \in 1..Len(e) /\ l + n \in j + 1 .. r - 1
        <5>1. n \in Int /\ b + 1 <= n /\ n <= Len(e) /\ b \in Int /\ 1 <= b
          BY <2>6
        <5>2. n \in 1..Len(e)
          BY <2>6, <5>1
        <5>3. l + b = j /\ l + Len(e) = r - 1 /\ Len(e) \in Int
          BY <2>6
        <5>4. l + n \in Int /\ j + 1 <= l + n /\ l + n <= r - 1
          BY <3>0, <5>1, <5>3
        <5>5. l + n \in j + 1 .. r - 1
          BY <3>0, <5>4
        <5> QED
          BY <5>2, <5>5
      <4> QED
        BY <2>3, <2>5, <4>1 DEF Blank
    <3> QED
      BY <2>6, <3>1, <3>2, <3>3 DEF Ink
  <2>8. trim(e) = t
    BY <2>1, <2>5, <2>6, <2>7, TrimToInk
  <2>9. Plain(s, l + 1, r - 1)
    <3>1. ASSUME NEW n \in l + 1 .. r - 1 PROVE s[n] # Comma
      <4>1. CASE n \in i..j
        BY <2>1, <4>1
      <4>2. CASE n \notin i..j
        <5>1. n \in l + 1 .. i - 1 \/ n \in j + 1 .. r - 1
          BY <1>1, <2>1, <2>4, <4>2
        <5> QED
          BY <2>2, <2>3, <5>1, SpaceIsNoComma DEF Blank
      <4> QED
        BY <4>1, <4>2
    <3> QED
      BY <3>1 DEF Plain
  <2>10. IsPiece(e, s, l, r)
    BY <2>2, <2>3, <2>9 DEF IsPiece, e
  <2>11. e \in Range(split(s))
    BY <2>4, <2>10, SplitsAtBorders
  <2>12. t # <<>>
    <3>1. \A n \in i..j : s[n] \in STRING
      BY <1>1, <2>1, ElementOfSeq
    <3>2. Len(t) = IF i <= j THEN j - i + 1 ELSE 0
      BY <1>1, <2>1, <3>1, SubSeqProperties
    <3>3. Len(t) # 0
      BY <1>1, <2>1, <3>2
    <3> QED
      BY <3>3, EmptySeq
  <2> QED
    BY <2>8, <2>11, <2>12 DEF parse_tokens
<1> QED
  BY <1>2, <1>3
=============================================================================
