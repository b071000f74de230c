----------------------------- MODULE TextsProofs -----------------------------
(* What the conversions of Texts compute, proved with TLAPS for texts and    *)
(* lists of any length.                                                      *)
EXTENDS Texts, Integers, FiniteSetTheorems, WellFoundedInduction, TLAPS

-----------------------------------------------------------------------------
(* Induction *)

\* A set of numbers that is not empty has a least element.
LEMMA Least ==
    ASSUME NEW S \in SUBSET Nat, S # {}
    PROVE  \E m \in S : \A n \in S : m <= n
<1>1. PICK m \in S : \A n \in S : <<n, m>> \notin OpToRel(<, Nat)
  BY NatLessThanWellFounded, WFMin
<1>2. \A n \in S : ~(n < m)
  BY <1>1 DEF OpToRel
<1> QED
  BY <1>2

\* A set that holds 0 and, up to N, the successors of its numbers holds them
\* all.
LEMMA UpTo ==
    ASSUME NEW N \in Nat, NEW S, 0 \in S,
           \A n \in 0 .. N - 1 : n \in S => n + 1 \in S
    PROVE  \A n \in 0 .. N : n \in S
<1> SUFFICES ASSUME \E n \in 0 .. N : n \notin S
             PROVE  FALSE
  OBVIOUS
<1> DEFINE T == {n \in 0 .. N : n \notin S}
<1>1. PICK m \in T : \A n \in T : m <= n
  <2>1. T \in SUBSET Nat /\ T # {}
    OBVIOUS
  <2> HIDE DEF T
  <2> QED
    BY <2>1, Least
<1>2. m # 0 /\ m \in 1 .. N
  OBVIOUS
<1>3. m - 1 \in S
  BY <1>1, <1>2
<1> QED
  BY <1>2, <1>3

\* The values of f up to N are what the steps h make of the first one.
Follows(f, N, base, h) ==
    f[0] = base /\ \A n \in 1 .. N : f[n] = h[n][f[n - 1]]

\* Steps from one value to the next make a function.
LEMMA Recursion ==
    ASSUME NEW N \in Nat, NEW S, NEW base \in S,
           NEW h \in [1 .. N -> [S -> S]]
    PROVE  \E f \in [0 .. N -> S] : Follows(f, N, base, h)
<1> DEFINE Fits(f, n) ==
               f[0] = base /\ \A m \in 1 .. n : f[m] = h[m][f[m - 1]]
           T == {n \in 0 .. N : \E f \in [0 .. n -> S] : Fits(f, n)}
<1>1. 0 \in T
  <2> DEFINE f == [m \in 0 .. 0 |-> base]
  <2>1. f \in [0 .. 0 -> S] /\ Fits(f, 0)
    OBVIOUS
  <2> HIDE DEF f
  <2>2. \E g \in [0 .. 0 -> S] : Fits(g, 0)
    BY <2>1
  <2> QED
    BY <2>2
<1>2. ASSUME NEW n \in 0 .. N - 1, n \in T
      PROVE  n + 1 \in T
  <2>1. PICK f \in [0 .. n -> S] : Fits(f, n)
    BY <1>2
  <2> DEFINE g == [m \in 0 .. n + 1 |-> IF m = n + 1 THEN h[n + 1][f[n]]
                                        ELSE f[m]]
  <2>2. n + 1 \in 1 .. N /\ f[n] \in S /\ h[n + 1][f[n]] \in S
    OBVIOUS
  <2>3. g \in [0 .. n + 1 -> S]
    BY <2>2
  <2>4. \A m \in 0 .. n : g[m] = f[m]
    OBVIOUS
  <2>5. g[n + 1] = h[n + 1][f[n]]
    OBVIOUS
  <2> HIDE DEF g
  <2>6. g[0] = base
    BY <2>1, <2>4
  <2>7. ASSUME NEW m \in 1 .. n + 1 PROVE g[m] = h[m][g[m - 1]]
    <3>1. CASE m = n + 1
      BY <2>4, <2>5, <3>1
    <3>2. CASE m \in 1 .. n
      BY <2>1, <2>4, <3>2
    <3> QED
      BY <3>1, <3>2
  <2> QED
    BY <2>2, <2>3, <2>6, <2>7
<1> HIDE DEF T
<1>3. \A n \in 0 .. N : n \in T
  BY <1>1, <1>2, UpTo
<1> QED
  BY <1>1, <1>3 DEF T, Follows

-----------------------------------------------------------------------------
(* Lists of labels *)

\* The list without a label is built entry by entry.
Builds(kept, list, label) ==
    /\ kept[0] = <<>>
    /\ \A n \in 1 .. Len(list) :
           kept[n] = IF list[n] = label THEN kept[n - 1]
                     ELSE Append(kept[n - 1], list[n])
    /\ Without(list, label) = kept[Len(list)]

LEMMA WithoutBuilt ==
    ASSUME NEW L, NEW list \in Seq(L), NEW label
    PROVE  \E kept \in [0 .. Len(list) -> Seq(L)] : Builds(kept, list, label)
<1> DEFINE N == Len(list)
           S == Seq(L)
           Next(n, s) == IF list[n] = label THEN s ELSE Append(s, list[n])
           Def(g) == [n \in 0 .. N |-> IF n = 0 THEN <<>> ELSE Next(n, g[n - 1])]
<1>1. N \in Nat
  OBVIOUS
<1>2. \A n \in 1 .. N : \A s \in S : Next(n, s) \in S
  OBVIOUS
<1>3. <<>> \in S
  OBVIOUS
<1>4. Without(list, label) = (CHOOSE g : g = Def(g))[N]
  BY Zenon DEF Without
<1>5. \A kept \in [0 .. N -> S] :
          /\ kept[0] = <<>>
          /\ \A n \in 1 .. N : kept[n] = Next(n, kept[n - 1])
          /\ Without(list, label) = kept[N]
          => kept \in [0 .. Len(list) -> Seq(L)] /\ Builds(kept, list, label)
  BY Zenon DEF Builds
<1> HIDE DEF N, S, Next
<1> DEFINE h == [n \in 1 .. N |-> [s \in S |-> Next(n, s)]]
<1>6. h \in [1 .. N -> [S -> S]]
  BY <1>2
<1>7. PICK f \in [0 .. N -> S] : Follows(f, N, <<>>, h)
  <2> HIDE DEF h
  <2> QED
    BY <1>1, <1>3, <1>6, Recursion
<1>8. \A n \in 1 .. N : f[n] = Next(n, f[n - 1])
  <2>1. ASSUME NEW n \in 1 .. N PROVE f[n] = Next(n, f[n - 1])
    <3>1. f[n - 1] \in S
      BY <1>1
    <3> QED
      BY <1>7, <3>1 DEF Follows
  <2> QED
    BY <2>1
<1>9. f = Def(f)
  BY <1>1, <1>7, <1>8 DEF Follows
<1>10. PICK kept : kept = Def(kept) /\ Without(list, label) = kept[N]
  <2> HIDE DEF Def
  <2> QED
    BY <1>4, <1>9, Zenon
<1>11. kept = [n \in 0 .. N |-> kept[n]] /\ kept[0] = <<>>
  BY <1>1, <1>10
<1>12. \A n \in 1 .. N : kept[n] = Next(n, kept[n - 1])
  BY <1>1, <1>10
<1>13. \A n \in 0 .. N : kept[n] \in S
  <2> DEFINE T == {n \in 0 .. N : kept[n] \in S}
  <2>1. 0 \in T
    BY <1>1, <1>3, <1>11
  <2>2. ASSUME NEW n \in 0 .. N - 1, n \in T PROVE n + 1 \in T
    <3>1. n + 1 \in 1 .. N /\ (n + 1) - 1 = n
      BY <1>1
    <3> QED
      BY <1>2, <1>12, <2>2, <3>1
  <2> HIDE DEF T
  <2>3. \A n \in 0 .. N : n \in T
    BY <1>1, <2>1, <2>2, UpTo
  <2> QED
    BY <2>3 DEF T
<1>14. kept \in [0 .. N -> S]
  BY <1>11, <1>13
<1> QED
  BY <1>5, <1>10, <1>11, <1>12, <1>14

\* An entry more is one place more for itself and none for the others.
LEMMA PlacesGrow ==
    ASSUME NEW L, NEW list \in Seq(L), NEW l \in L, NEW m
    PROVE  /\ IsFiniteSet(PlacesOf(list, m))
           /\ Cardinality(PlacesOf(list, m)) \in Nat
           /\ Cardinality(PlacesOf(Append(list, l), m)) =
                  Cardinality(PlacesOf(list, m)) + (IF l = m THEN 1 ELSE 0)
<1>1. IsFiniteSet(PlacesOf(list, m)) /\ Cardinality(PlacesOf(list, m)) \in Nat
  <2>1. IsFiniteSet(1 .. Len(list))
    BY FS_Interval
  <2>2. PlacesOf(list, m) \subseteq 1 .. Len(list)
    BY DEF PlacesOf
  <2> QED
    BY <2>1, <2>2, FS_Subset, FS_CardinalityType
<1>2. CASE l = m
  <2>1. PlacesOf(Append(list, l), m) = PlacesOf(list, m) \union {Len(list) + 1}
    BY <1>2 DEF PlacesOf
  <2>2. Len(list) + 1 \notin PlacesOf(list, m)
    BY DEF PlacesOf
  <2> QED
    BY <1>1, <1>2, <2>1, <2>2, FS_AddElement
<1>3. CASE l # m
  <2>1. PlacesOf(Append(list, l), m) = PlacesOf(list, m)
    BY <1>3 DEF PlacesOf
  <2> QED
    BY <1>1, <1>3, <2>1
<1> QED
  BY <1>1, <1>2, <1>3

\* What an entry more does to a list.
LEMMA AppendPlaces ==
    ASSUME NEW L, NEW list \in Seq(L), NEW l \in L
    PROVE  /\ Append(list, l) \in Seq(L)
           /\ Len(Append(list, l)) = Len(list) + 1
           /\ Append(list, l)[Len(list) + 1] = l
           /\ \A i \in 1 .. Len(list) : Append(list, l)[i] = list[i]
OBVIOUS

LEMMA AppendEffect ==
    ASSUME NEW L, NEW list \in Seq(L), NEW l \in L
    PROVE  /\ Append(list, l) \in Seq(L)
           /\ Len(Append(list, l)) = Len(list) + 1
           /\ ElementsOf(Append(list, l)) = ElementsOf(list) \union {l}
<1> DEFINE new == Append(list, l)
<1>1. /\ new \in Seq(L) /\ Len(new) = Len(list) + 1
      /\ new[Len(list) + 1] = l
      /\ \A i \in 1 .. Len(list) : new[i] = list[i]
  BY AppendPlaces
<1>2. DOMAIN new = DOMAIN list \union {Len(list) + 1}
  BY <1>1
<1> HIDE DEF new
<1>3. ElementsOf(new) = ElementsOf(list) \union {l}
  BY <1>1, <1>2 DEF ElementsOf
<1> QED
  BY <1>1, <1>3 DEF new

LEMMA PrefixGrows ==
    ASSUME NEW L, NEW list \in Seq(L), NEW n \in 0 .. Len(list) - 1
    PROVE  /\ SubSeq(list, 1, n) \in Seq(L) /\ list[n + 1] \in L
           /\ SubSeq(list, 1, n + 1) = Append(SubSeq(list, 1, n), list[n + 1])
<1> DEFINE new == Append(SubSeq(list, 1, n), list[n + 1])
<1>1. SubSeq(list, 1, n) \in Seq(L) /\ list[n + 1] \in L
  OBVIOUS
<1>2. /\ SubSeq(list, 1, n + 1) \in Seq(L) /\ new \in Seq(L)
      /\ Len(SubSeq(list, 1, n + 1)) = n + 1 /\ Len(new) = n + 1
  BY <1>1
<1>3. \A i \in 1 .. n + 1 : SubSeq(list, 1, n + 1)[i] = new[i]
  BY <1>1
<1>4. SubSeq(list, 1, n + 1) = new
  <2> HIDE DEF new
  <2> QED
    BY <1>2, <1>3
<1> QED
  BY <1>1, <1>4

Count(list, m) == Cardinality(PlacesOf(list, m))

\* What is left of a list when a label has gone: every other one, as often as
\* it was there.
Leaves(s, list, label) ==
    /\ Len(s) <= Len(list)
    /\ ElementsOf(s) = ElementsOf(list) \ {label}
    /\ \A m : m # label => Count(s, m) = Count(list, m)
    /\ Count(s, label) = 0

LEMMA LeavesNothing == ASSUME NEW label PROVE Leaves(<<>>, <<>>, label)
<1>1. ElementsOf(<<>>) = {}
  BY DEF ElementsOf
<1>2. PlacesOf(<<>>, label) = {}
  BY DEF PlacesOf
<1> QED
  BY <1>1, <1>2, FS_EmptySet DEF Leaves, Count

LEMMA LeavesStep ==
    ASSUME NEW L, NEW s \in Seq(L), NEW list \in Seq(L), NEW l \in L,
           NEW label, Leaves(s, list, label)
    PROVE  Leaves(IF l = label THEN s ELSE Append(s, l), Append(list, l), label)
<1>1. /\ Len(s) \in Nat /\ Len(list) \in Nat
      /\ Len(Append(s, l)) = Len(s) + 1
      /\ Len(Append(list, l)) = Len(list) + 1
      /\ ElementsOf(Append(s, l)) = ElementsOf(s) \union {l}
      /\ ElementsOf(Append(list, l)) = ElementsOf(list) \union {l}
  BY AppendEffect
<1>2. \A m : /\ Count(s, m) \in Nat /\ Count(list, m) \in Nat
             /\ Count(Append(s, l), m) = Count(s, m) + (IF l = m THEN 1 ELSE 0)
             /\ Count(Append(list, l), m) =
                    Count(list, m) + (IF l = m THEN 1 ELSE 0)
  BY PlacesGrow DEF Count
<1> DEFINE s2 == Append(s, l)
           list2 == Append(list, l)
<1> HIDE DEF s2, list2
<1>3. CASE l = label
  <2>1. Leaves(s, list2, label)
    BY <1>1, <1>2, <1>3 DEF Leaves, list2
  <2> QED
    BY <1>3, <2>1 DEF list2
<1>4. CASE l # label
  <2>1. Len(s2) <= Len(list2)
    BY <1>1 DEF Leaves, s2, list2
  <2>2. ElementsOf(s2) = ElementsOf(list2) \ {label}
    BY <1>1, <1>4 DEF Leaves, s2, list2
  <2>3. \A m : m # label => Count(s2, m) = Count(list2, m)
    BY <1>2 DEF Leaves, s2, list2
  <2>4. Count(s2, label) = 0
    BY <1>2, <1>4 DEF Leaves, s2
  <2> QED
    BY <1>4, <2>1, <2>2, <2>3, <2>4 DEF Leaves, s2, list2
<1> QED
  BY <1>3, <1>4

LEMMA WithoutEffect ==
    ASSUME NEW L, NEW list \in Seq(L), NEW label
    PROVE  /\ Without(list, label) \in Seq(L)
           /\ Leaves(Without(list, label), list, label)
<1> DEFINE N == Len(list)
           Prefix(n) == SubSeq(list, 1, n)
<1>1. PICK kept \in [0 .. N -> Seq(L)] : Builds(kept, list, label)
  BY WithoutBuilt
<1> DEFINE T == {n \in 0 .. N : Leaves(kept[n], Prefix(n), label)}
<1>2. N \in Nat
  OBVIOUS
<1>3. 0 \in T
  <2>1. Prefix(0) = <<>> /\ kept[0] = <<>>
    BY <1>1 DEF Builds
  <2>2. Leaves(kept[0], Prefix(0), label)
    BY <2>1, LeavesNothing
  <2> QED
    BY <1>2, <2>2
<1>4. ASSUME NEW n \in 0 .. N - 1, n \in T PROVE n + 1 \in T
  <2>1. /\ Prefix(n) \in Seq(L) /\ list[n + 1] \in L
        /\ Prefix(n + 1) = Append(Prefix(n), list[n + 1])
    BY PrefixGrows
  <2>2. kept[n] \in Seq(L) /\ Leaves(kept[n], Prefix(n), label)
    BY <1>2, <1>4
  <2>3. n + 1 \in 1 .. N /\ (n + 1) - 1 = n
    BY <1>2
  <2>4. kept[n + 1] = IF list[n + 1] = label THEN kept[n]
                      ELSE Append(kept[n], list[n + 1])
    BY <1>1, <2>3 DEF Builds
  <2>5. Leaves(kept[n + 1], Prefix(n + 1), label)
    <3> HIDE DEF Prefix
    <3> QED
      BY <2>1, <2>2, <2>4, LeavesStep
  <2> QED
    BY <2>3, <2>5
<1>5. Leaves(kept[N], Prefix(N), label)
  <2> HIDE DEF T, N
  <2>1. \A n \in 0 .. N : n \in T
    BY <1>2, <1>3, <1>4, UpTo
  <2> QED
    BY <1>2, <2>1 DEF T
<1>6. Prefix(N) = list
  OBVIOUS
<1>7. Without(list, label) = kept[N] /\ kept[N] \in Seq(L)
  BY <1>1, <1>2 DEF Builds
<1> QED
  BY <1>5, <1>6, <1>7, Zenon

LEMMA CountPositive ==
    ASSUME NEW L, NEW list \in Seq(L), NEW m
    PROVE  /\ Count(list, m) \in Nat
           /\ m \in ElementsOf(list) <=> Count(list, m) > 0
<1>1. IsFiniteSet(PlacesOf(list, m))
  <2>1. IsFiniteSet(1 .. Len(list))
    BY FS_Interval
  <2>2. PlacesOf(list, m) \subseteq 1 .. Len(list)
    BY DEF PlacesOf
  <2> QED
    BY <2>1, <2>2, FS_Subset
<1>2. m \in ElementsOf(list) <=> PlacesOf(list, m) # {}
  BY DEF ElementsOf, PlacesOf
<1> QED
  BY <1>1, <1>2, FS_CardinalityType, FS_EmptySet DEF Count

\* Replacing a label in a list replaces it in the set of its members, and
\* gives a label no second entry.
LEMMA ReplaceEffect ==
    ASSUME NEW L, NEW list \in Seq(L), NEW remove, NEW add \in L \union {NoLabel}
    PROVE  LET posts == ReplaceLabelList(list, remove, add)
           IN  /\ ElementsOf(posts) = (ElementsOf(list) \ {remove})
                                          \union ({add} \ {NoLabel})
               /\ Len(posts) <= Len(list) + 1
               /\ \A l : Count(posts, l) <=
                             IF add = l /\ l \notin ElementsOf(list)
                             THEN 1 ELSE Count(list, l)
<1> DEFINE kept == Without(list, remove)
           posts == ReplaceLabelList(list, remove, add)
<1>1. kept \in Seq(L) /\ Leaves(kept, list, remove)
  BY WithoutEffect
<1>2. posts = IF add # NoLabel /\ add \notin ElementsOf(kept)
              THEN Append(kept, add) ELSE kept
  BY DEF ReplaceLabelList, ElementsOf
<1> HIDE DEF kept, posts
<1>3. Len(kept) \in Nat /\ Len(list) \in Nat
  BY <1>1
<1>4. \A l : /\ Count(kept, l) \in Nat /\ Count(list, l) \in Nat
             /\ l \in ElementsOf(kept) <=> Count(kept, l) > 0
             /\ l \in ElementsOf(list) <=> Count(list, l) > 0
  BY <1>1, CountPositive
<1>5. \A l : Count(kept, l) <= Count(list, l)
  BY <1>1, <1>4 DEF Leaves
<1>6. CASE add # NoLabel /\ add \notin ElementsOf(kept)
  <2>1. /\ Len(posts) = Len(kept) + 1
        /\ ElementsOf(posts) = ElementsOf(kept) \union {add}
        /\ \A l : Count(posts, l) = Count(kept, l) + (IF add = l THEN 1 ELSE 0)
    BY <1>1, <1>2, <1>6, AppendEffect, PlacesGrow DEF Count
  <2>2. ElementsOf(posts) = (ElementsOf(list) \ {remove})
                                \union ({add} \ {NoLabel})
    BY <1>1, <1>6, <2>1 DEF Leaves
  <2>3. Len(posts) <= Len(list) + 1
    BY <1>1, <1>3, <2>1 DEF Leaves
  <2>4. ASSUME NEW l
        PROVE  Count(posts, l) <= IF add = l /\ l \notin ElementsOf(list)
                                  THEN 1 ELSE Count(list, l)
    <3>1. CASE add = l
      BY <1>4, <1>6, <2>1, <3>1
    <3>2. CASE add # l
      BY <1>4, <1>5, <2>1, <3>2
    <3> QED
      BY <3>1, <3>2
  <2> QED
    BY <2>2, <2>3, <2>4 DEF posts
<1>7. CASE ~(add # NoLabel /\ add \notin ElementsOf(kept))
  <2>1. posts = kept
    BY <1>2, <1>7
  <2>2. ElementsOf(posts) = (ElementsOf(list) \ {remove})
                                \union ({add} \ {NoLabel})
    BY <1>1, <1>7, <2>1 DEF Leaves
  <2>3. Len(posts) <= Len(list) + 1
    BY <1>1, <1>3, <2>1 DEF Leaves
  <2>4. ASSUME NEW l
        PROVE  Count(posts, l) <= IF add = l /\ l \notin ElementsOf(list)
                                  THEN 1 ELSE Count(list, l)
    BY <1>4, <1>5, <2>1
  <2> QED
    BY <2>2, <2>3, <2>4 DEF posts
<1> QED
  BY <1>6, <1>7

-----------------------------------------------------------------------------
(* The rating of a text *)

Token == Seq(STRING)
ScanState == [closed : Seq(Token), open : Token]

LEMMA CloseType ==
    ASSUME NEW s \in ScanState
    PROVE  /\ s.closed \in Seq(Token) /\ s.open \in Token
           /\ Close(s) \in Seq(Token)
<1>1. s.closed \in Seq(Token) /\ s.open \in Token
  BY DEF ScanState
<1>2. Append(s.closed, s.open) \in Seq(Token)
  BY <1>1
<1> QED
  BY <1>1, <1>2 DEF Close

\* A text is scanned character by character.
ScanStep(scan, text, n) ==
    /\ IsDigit(text[n]) =>
           /\ scan[n].closed = scan[n - 1].closed
           /\ scan[n].open = Append(scan[n - 1].open, text[n])
    /\ ~IsDigit(text[n]) =>
           scan[n].closed = Close(scan[n - 1]) /\ scan[n].open = <<>>

LEMMA ScanBuilt ==
    ASSUME NEW text \in Seq(STRING)
    PROVE  /\ Scan(text) \in [0 .. Len(text) -> ScanState]
           /\ Scan(text)[0] = [closed |-> <<>>, open |-> <<>>]
           /\ \A n \in 1 .. Len(text) : ScanStep(Scan(text), text, n)
<1> DEFINE N == Len(text)
           S == ScanState
           base == [closed |-> <<>>, open |-> <<>>]
           Next(n, s) == IF IsDigit(text[n])
                         THEN [s EXCEPT !.open = Append(@, text[n])]
                         ELSE [closed |-> Close(s), open |-> <<>>]
           Def(g) == [n \in 0 .. N |-> IF n = 0 THEN base ELSE Next(n, g[n - 1])]
<1>1. N \in Nat
  OBVIOUS
<1>2. \A n \in 1 .. N : \A s \in S : Next(n, s) \in S
  <2>1. SUFFICES ASSUME NEW n \in 1 .. N, NEW s \in S PROVE Next(n, s) \in S
    OBVIOUS
  <2>2. text[n] \in STRING
    OBVIOUS
  <2>3. s.open \in Token /\ Close(s) \in Seq(Token)
    BY CloseType
  <2>4. Append(s.open, text[n]) \in Token /\ <<>> \in Token
    BY <2>2, <2>3 DEF Token
  <2>5. [s EXCEPT !.open = Append(@, text[n])] \in S
    BY <2>4 DEF ScanState
  <2>6. [closed |-> Close(s), open |-> <<>>] \in S
    BY <2>3, <2>4 DEF ScanState
  <2> QED
    BY <2>5, <2>6
<1>3. base \in S
  BY DEF ScanState, Token
<1>4. Scan(text) = CHOOSE g : g = Def(g)
  BY Zenon DEF Scan
<1>5. \A scan : \A n \in 1 .. N :
          scan[n] = Next(n, scan[n - 1]) /\ scan[n - 1] \in S =>
              ScanStep(scan, text, n)
  BY DEF ScanStep, ScanState
<1> HIDE DEF N, S, Next, base
<1> DEFINE h == [n \in 1 .. N |-> [s \in S |-> Next(n, s)]]
<1>6. h \in [1 .. N -> [S -> S]]
  BY <1>2
<1>7. PICK f \in [0 .. N -> S] : Follows(f, N, base, h)
  <2> HIDE DEF h
  <2> QED
    BY <1>1, <1>3, <1>6, Recursion
<1>8. \A n \in 1 .. N : f[n] = Next(n, f[n - 1])
  <2>1. ASSUME NEW n \in 1 .. N PROVE f[n] = Next(n, f[n - 1])
    <3>1. f[n - 1] \in S
      BY <1>1
    <3> QED
      BY <1>7, <3>1 DEF Follows
  <2> QED
    BY <2>1
<1>9. f = Def(f)
  BY <1>1, <1>7, <1>8 DEF Follows
<1>10. PICK scan : scan = Def(scan) /\ Scan(text) = scan
  <2> HIDE DEF Def
  <2> QED
    BY <1>4, <1>9, Zenon
<1>11. scan = [n \in 0 .. N |-> scan[n]] /\ scan[0] = base
  BY <1>1, <1>10
<1>12. \A n \in 1 .. N : scan[n] = Next(n, scan[n - 1])
  BY <1>1, <1>10
<1>13. \A n \in 0 .. N : scan[n] \in S
  <2> DEFINE T == {n \in 0 .. N : scan[n] \in S}
  <2>1. 0 \in T
    BY <1>1, <1>3, <1>11
  <2>2. ASSUME NEW n \in 0 .. N - 1, n \in T PROVE n + 1 \in T
    <3>1. n + 1 \in 1 .. N /\ (n + 1) - 1 = n
      BY <1>1
    <3> QED
      BY <1>2, <1>12, <2>2, <3>1
  <2> HIDE DEF T
  <2>3. \A n \in 0 .. N : n \in T
    BY <1>1, <2>1, <2>2, UpTo
  <2> QED
    BY <2>3 DEF T
<1>14. scan \in [0 .. N -> S]
  BY <1>11, <1>13
<1>15. \A n \in 1 .. N : ScanStep(scan, text, n)
  <2>1. \A n \in 1 .. N : n - 1 \in 0 .. N
    BY <1>1
  <2> QED
    BY <1>5, <1>12, <1>13, <2>1
<1> QED
  BY <1>10, <1>11, <1>14, <1>15 DEF N, S, base

Hit(token) == Len(token) = 1 /\ token[1] \in Ratings

\* The tokens closed so far tell which of the first n characters is the first
\* rating with no digit beside it, if there is one.
NoneYet(text, closed, n) ==
    /\ \A i \in DOMAIN text : i <= n => ~IsolatedAt(text, i)
    /\ \A m \in DOMAIN closed : ~Hit(closed[m])
FirstAt(text, closed, n, i, m) ==
    /\ i <= n /\ IsolatedAt(text, i)
    /\ \A j \in DOMAIN text : j < i => ~IsolatedAt(text, j)
    /\ Hit(closed[m]) /\ closed[m][1] = text[i]
    /\ \A k \in DOMAIN closed : k < m => ~Hit(closed[k])
Tells(text, closed, n) ==
    \/ NoneYet(text, closed, n)
    \/ \E i \in DOMAIN text, m \in DOMAIN closed : FirstAt(text, closed, n, i, m)

\* The open token is the run of digits after the first b characters.
OpenAfter(text, open, b) ==
    /\ b + Len(open) <= Len(text)
    /\ \A k \in 1 .. Len(open) : open[k] = text[b + k] /\ IsDigit(text[b + k])
    /\ b > 0 => ~IsDigit(text[b])

LEMMA RatingIsDigit == ASSUME NEW char, char \in Ratings PROVE IsDigit(char)
BY DEF Ratings, IsDigit, AsciiDigit

LEMMA TellsMore ==
    ASSUME NEW text, NEW closed, NEW n \in Nat, NEW n2 \in Nat, n <= n2,
           DOMAIN text \subseteq Nat, Tells(text, closed, n),
           \A i \in DOMAIN text : n < i /\ i <= n2 => ~IsolatedAt(text, i)
    PROVE  Tells(text, closed, n2)
<1>1. CASE NoneYet(text, closed, n)
  <2>1. \A i \in DOMAIN text : i <= n2 => ~IsolatedAt(text, i)
    BY <1>1 DEF NoneYet
  <2> QED
    BY <1>1, <2>1 DEF NoneYet, Tells
<1>2. CASE \E i \in DOMAIN text, m \in DOMAIN closed :
               FirstAt(text, closed, n, i, m)
  <2>1. PICK i \in DOMAIN text, m \in DOMAIN closed :
            FirstAt(text, closed, n, i, m)
    BY <1>2
  <2>2. i <= n2
    BY <2>1 DEF FirstAt
  <2> QED
    BY <2>1, <2>2 DEF FirstAt, Tells
<1> QED
  BY <1>1, <1>2 DEF Tells

\* When the run of digits ends, it holds a rating with no digit beside it
\* exactly when it is a rating.
LEMMA RunEnds ==
    ASSUME NEW text \in Seq(STRING), NEW open \in Seq(STRING), NEW b \in Nat,
           OpenAfter(text, open, b), Len(open) > 0,
           b + Len(open) < Len(text) => ~IsDigit(text[b + Len(open) + 1])
    PROVE  /\ \A i \in DOMAIN text :
                  b < i /\ i <= b + Len(open) /\ IsolatedAt(text, i) =>
                      Hit(open) /\ i = b + 1
           /\ Hit(open) => IsolatedAt(text, b + 1)
           /\ open[1] = text[b + 1] /\ b + 1 \in DOMAIN text
<1>1. /\ Len(open) \in Nat /\ Len(text) \in Nat /\ DOMAIN text = 1 .. Len(text)
      /\ open[1] = text[b + 1] /\ b + 1 \in DOMAIN text
  BY DEF OpenAfter
<1>2. ASSUME NEW i \in DOMAIN text, b < i, i <= b + Len(open),
             IsolatedAt(text, i)
      PROVE  Hit(open) /\ i = b + 1
  <2>0. ASSUME Len(open) > 1 PROVE FALSE
    <3>1. CASE i = b + 1
      <4>1. 2 \in 1 .. Len(open)
        BY <1>1, <2>0
      <4>2. IsDigit(text[b + 2])
        BY <4>1 DEF OpenAfter
      <4>3. b + 2 <= Len(text)
        BY <1>1, <2>0 DEF OpenAfter
      <4>4. i + 1 \in DOMAIN text /\ i + 1 = b + 2
        BY <1>1, <3>1, <4>3
      <4> QED
        BY <1>2, <4>2, <4>4 DEF IsolatedAt
    <3>2. CASE i > b + 1
      <4>1. i - 1 \in DOMAIN text
        BY <1>1, <3>2
      <4>2. (i - 1) - b \in 1 .. Len(open) /\ b + ((i - 1) - b) = i - 1
        BY <1>1, <1>2, <3>2
      <4>3. IsDigit(text[i - 1])
        BY <4>2 DEF OpenAfter
      <4> QED
        BY <1>2, <4>1, <4>3 DEF IsolatedAt
    <3> QED
      BY <1>1, <1>2, <3>1, <3>2
  <2>1. Len(open) = 1
    <3> DEFINE n == Len(open)
    <3>1. n \in Nat /\ n > 0 /\ ~(n > 1)
      BY <1>1, <2>0
    <3> HIDE DEF n
    <3>2. n = 1
      BY <3>1
    <3> QED
      BY <3>2 DEF n
  <2>2. i = b + 1
    BY <1>1, <1>2, <2>1
  <2> QED
    BY <1>1, <1>2, <2>1, <2>2 DEF Hit, IsolatedAt
<1>3. ASSUME Hit(open) PROVE IsolatedAt(text, b + 1)
  <2>1. Len(open) = 1 /\ text[b + 1] \in Ratings
    BY <1>1, <1>3 DEF Hit
  <2>2. ASSUME NEW j \in {(b + 1) - 1, (b + 1) + 1} \intersect DOMAIN text
        PROVE  ~IsDigit(text[j])
    <3>1. CASE j = b
      BY <1>1, <2>2, <3>1 DEF OpenAfter
    <3>2. CASE j = b + 2
      BY <1>1, <2>1, <2>2, <3>2 DEF OpenAfter
    <3> QED
      BY <2>2, <3>1, <3>2
  <2> QED
    BY <2>1, <2>2 DEF IsolatedAt
<1> QED
  BY <1>1, <1>2, <1>3

LEMMA CloseTells ==
    ASSUME NEW text \in Seq(STRING), NEW s \in ScanState, NEW b \in Nat,
           OpenAfter(text, s.open, b), Tells(text, s.closed, b),
           b + Len(s.open) < Len(text) => ~IsDigit(text[b + Len(s.open) + 1])
    PROVE  Tells(text, Close(s), b + Len(s.open))
<1> DEFINE open == s.open
           closed == s.closed
           e == b + Len(open)
           new == Append(closed, open)
<1>1. closed \in Seq(Token) /\ open \in Seq(STRING)
  BY CloseType DEF Token
<1>2. CASE open = <<>>
  <2>1. Close(s) = closed /\ e = b
    BY <1>2 DEF Close
  <2> QED
    BY <2>1
<1>3. CASE open # <<>>
  <2>1. Close(s) = new /\ Len(open) \in Nat /\ Len(open) > 0
    BY <1>1, <1>3 DEF Close
  <2>2. /\ \A i \in DOMAIN text : b < i /\ i <= e /\ IsolatedAt(text, i) =>
                  Hit(open) /\ i = b + 1
        /\ Hit(open) => IsolatedAt(text, b + 1)
        /\ open[1] = text[b + 1] /\ b + 1 \in DOMAIN text
    BY <1>1, <2>1, RunEnds
  <2>3. /\ Len(closed) \in Nat /\ DOMAIN closed = 1 .. Len(closed)
        /\ DOMAIN new = 1 .. Len(closed) + 1
        /\ new[Len(closed) + 1] = open
        /\ \A m \in DOMAIN closed : new[m] = closed[m]
    BY <1>1
  <2>4. e \in Nat /\ b < e /\ DOMAIN text \subseteq Nat
    BY <2>1
  <2> HIDE DEF e, open, closed, new
  <2>5. CASE NoneYet(text, closed, b) /\ Hit(open)
    <3>1. /\ b + 1 <= e /\ Len(closed) + 1 \in DOMAIN new
          /\ \A j \in DOMAIN text : j < b + 1 => ~IsolatedAt(text, j)
      BY <2>3, <2>4, <2>5 DEF NoneYet
    <3>2. \A k \in DOMAIN new : k < Len(closed) + 1 => ~Hit(new[k])
      BY <2>3, <2>5 DEF NoneYet
    <3>3. FirstAt(text, new, e, b + 1, Len(closed) + 1)
      BY <2>2, <2>3, <2>5, <3>1, <3>2 DEF FirstAt
    <3>4. Tells(text, new, e)
      BY <2>2, <3>1, <3>3 DEF Tells
    <3> QED
      BY <2>1, <3>4 DEF e, open
  <2>6. CASE NoneYet(text, closed, b) /\ ~Hit(open)
    <3>1. \A m \in DOMAIN new : ~Hit(new[m])
      BY <2>3, <2>6 DEF NoneYet
    <3>2. \A i \in DOMAIN text : i <= e => ~IsolatedAt(text, i)
      BY <2>2, <2>4, <2>6 DEF NoneYet
    <3>3. Tells(text, new, e)
      BY <3>1, <3>2 DEF NoneYet, Tells
    <3> QED
      BY <2>1, <3>3 DEF e, open
  <2>7. CASE \E i \in DOMAIN text, m \in DOMAIN closed :
                 FirstAt(text, closed, b, i, m)
    <3>1. PICK i \in DOMAIN text, m \in DOMAIN closed :
              FirstAt(text, closed, b, i, m)
      BY <2>7
    <3>2. i <= e /\ m \in DOMAIN new /\ new[m] = closed[m]
      BY <2>3, <2>4, <3>1 DEF FirstAt
    <3>3. \A k \in DOMAIN new : k < m => ~Hit(new[k])
      <4>1. \A k \in DOMAIN new : k < m => k \in DOMAIN closed
        BY <2>3
      <4> QED
        BY <2>3, <3>1, <4>1 DEF FirstAt
    <3>4. FirstAt(text, new, e, i, m)
      BY <3>1, <3>2, <3>3 DEF FirstAt
    <3>5. Tells(text, new, e)
      BY <3>2, <3>4 DEF Tells
    <3> QED
      BY <2>1, <3>5 DEF e, open
  <2>8. NoneYet(text, closed, b) \/ \E i \in DOMAIN text, m \in DOMAIN closed :
            FirstAt(text, closed, b, i, m)
    BY DEF Tells, closed
  <2> QED
    BY <2>5, <2>6, <2>7, <2>8
<1> QED
  BY <1>2, <1>3

\* How far the scan has come after n characters.
ScanInv(text, s, n) ==
    \E b \in Nat :
        /\ n = b + Len(s.open)
        /\ OpenAfter(text, s.open, b)
        /\ Tells(text, s.closed, b)

LEMMA ScanInvStep ==
    ASSUME NEW text \in Seq(STRING), NEW n \in 1 .. Len(text),
           ScanInv(text, Scan(text)[n - 1], n - 1)
    PROVE  ScanInv(text, Scan(text)[n], n)
<1> DEFINE s == Scan(text)[n - 1]
           new == Scan(text)[n]
<1>1. /\ s \in ScanState /\ new \in ScanState
      /\ ScanStep(Scan(text), text, n)
  <2>1. n - 1 \in 0 .. Len(text) /\ n \in 0 .. Len(text)
    OBVIOUS
  <2> QED
    BY <2>1, ScanBuilt
<1>2. /\ IsDigit(text[n]) => new.closed = s.closed
                             /\ new.open = Append(s.open, text[n])
      /\ ~IsDigit(text[n]) => new.closed = Close(s) /\ new.open = <<>>
  BY <1>1 DEF ScanStep
<1>3. PICK b \in Nat : /\ n - 1 = b + Len(s.open)
                       /\ OpenAfter(text, s.open, b)
                       /\ Tells(text, s.closed, b)
  BY DEF ScanInv
<1> HIDE DEF s, new
<1>4. /\ s.open \in Seq(STRING) /\ Len(s.open) \in Nat /\ text[n] \in STRING
      /\ Len(text) \in Nat /\ n \in Nat /\ 1 <= n /\ n <= Len(text)
  BY <1>1, CloseType DEF Token
<1>5. CASE IsDigit(text[n])
  <2>1. /\ Len(new.open) = Len(s.open) + 1
        /\ \A k \in 1 .. Len(s.open) : new.open[k] = s.open[k]
        /\ new.open[Len(s.open) + 1] = text[n]
    <3>1. new.open = Append(s.open, text[n])
      BY <1>2, <1>5
    <3> QED
      BY <1>4, <3>1, AppendPlaces
  <2>2. b + (Len(s.open) + 1) = n
    BY <1>3, <1>4
  <2>3. \A k \in 1 .. Len(new.open) :
            new.open[k] = text[b + k] /\ IsDigit(text[b + k])
    <3>1. SUFFICES ASSUME NEW k \in 1 .. Len(new.open)
                   PROVE  new.open[k] = text[b + k] /\ IsDigit(text[b + k])
      OBVIOUS
    <3>2. CASE k = Len(s.open) + 1
      BY <1>5, <2>1, <2>2, <3>2
    <3>3. CASE k \in 1 .. Len(s.open)
      BY <1>3, <2>1, <3>3 DEF OpenAfter
    <3> QED
      BY <1>4, <2>1, <3>2, <3>3
  <2>4. OpenAfter(text, new.open, b)
    BY <1>3, <1>4, <2>1, <2>2, <2>3 DEF OpenAfter
  <2>5. Tells(text, new.closed, b) /\ n = b + Len(new.open)
    BY <1>2, <1>3, <1>5, <2>1, <2>2
  <2> QED
    BY <2>4, <2>5 DEF ScanInv, new
<1>6. CASE ~IsDigit(text[n])
  <2>1. b + Len(s.open) + 1 = n
    BY <1>3, <1>4
  <2>2. Tells(text, Close(s), n - 1)
    BY <1>1, <1>3, <1>6, <2>1, CloseTells
  <2>3. ~IsolatedAt(text, n)
    BY <1>6, RatingIsDigit DEF IsolatedAt
  <2>4. Tells(text, Close(s), n)
    <3>1. /\ n - 1 \in Nat /\ n - 1 <= n /\ DOMAIN text \subseteq Nat
          /\ \A i \in DOMAIN text : n - 1 < i /\ i <= n => i = n
      BY <1>4
    <3> QED
      BY <1>4, <2>2, <2>3, <3>1, TellsMore
  <2>5. Len(new.open) = 0
    BY <1>2, <1>6
  <2>6. OpenAfter(text, new.open, n)
    BY <1>4, <1>6, <2>5 DEF OpenAfter
  <2>7. n = n + Len(new.open) /\ Tells(text, new.closed, n)
    BY <1>2, <1>4, <1>6, <2>4, <2>5
  <2> QED
    BY <1>4, <2>6, <2>7 DEF ScanInv, new
<1> QED
  BY <1>5, <1>6

LEMMA FieldsTell ==
    ASSUME NEW text \in Seq(STRING)
    PROVE  Fields(text) \in Seq(Token) /\ Tells(text, Fields(text), Len(text))
<1> DEFINE N == Len(text)
           T == {n \in 0 .. N : ScanInv(text, Scan(text)[n], n)}
<1>1. N \in Nat
  OBVIOUS
<1>2. 0 \in T
  <2>1. Scan(text)[0].closed = <<>> /\ Scan(text)[0].open = <<>>
    BY ScanBuilt
  <2>2. Tells(text, <<>>, 0)
    <3>1. \A i \in DOMAIN text : ~(i <= 0)
      OBVIOUS
    <3>2. DOMAIN <<>> = {}
      OBVIOUS
    <3> QED
      BY <3>1, <3>2 DEF Tells, NoneYet
  <2>3. OpenAfter(text, <<>>, 0)
    BY DEF OpenAfter
  <2> QED
    BY <1>1, <2>1, <2>2, <2>3 DEF ScanInv
<1>3. ASSUME NEW n \in 0 .. N - 1, n \in T PROVE n + 1 \in T
  <2>1. n + 1 \in 1 .. N /\ (n + 1) - 1 = n
    BY <1>1
  <2>2. ScanInv(text, Scan(text)[n + 1], n + 1)
    BY <1>3, <2>1, ScanInvStep
  <2> QED
    BY <2>1, <2>2
<1>4. ScanInv(text, Scan(text)[N], N)
  <2> HIDE DEF T
  <2>1. \A n \in 0 .. N : n \in T
    BY <1>1, <1>2, <1>3, UpTo
  <2> QED
    BY <1>1, <2>1 DEF T
<1> DEFINE s == Scan(text)[N]
<1>5. s \in ScanState
  BY <1>1, ScanBuilt
<1>6. Fields(text) = Close(s)
  BY DEF Fields
<1>7. PICK b \in Nat : /\ N = b + Len(s.open)
                       /\ OpenAfter(text, s.open, b)
                       /\ Tells(text, s.closed, b)
  BY <1>4 DEF ScanInv
<1>8. Tells(text, Close(s), b + Len(s.open))
  <2> HIDE DEF s
  <2>1. ~(b + Len(s.open) < Len(text))
    BY <1>1, <1>7
  <2> QED
    BY <1>5, <1>7, <2>1, CloseTells
<1>9. Close(s) \in Seq(Token)
  BY <1>5, CloseType
<1> QED
  BY <1>6, <1>7, <1>8, <1>9

\* The rating found in a text is its first character from 1 to 5 with no digit
\* beside it, however long the text is.
LEMMA RatingEffect ==
    ASSUME NEW text \in Seq(STRING), ParseRating(text) # NoRating
    PROVE  \E i \in DOMAIN text :
               /\ IsolatedAt(text, i) /\ ParseRating(text) = text[i]
               /\ \A j \in 1 .. i - 1 : ~IsolatedAt(text, j)
<1> DEFINE tokens == Fields(text)
           hits == {m \in DOMAIN tokens : Hit(tokens[m])}
<1>1. /\ tokens \in Seq(Token) /\ Tells(text, tokens, Len(text))
      /\ DOMAIN tokens \subseteq Nat
  BY FieldsTell
<1>2. ParseRating(text) =
          IF hits = {} THEN NoRating
          ELSE tokens[CHOOSE m \in hits : \A k \in hits : m <= k][1]
  BY Zenon DEF ParseRating, Hit
<1>3. hits # {}
  BY <1>2
<1> HIDE DEF tokens
<1>4. PICK i \in DOMAIN text, m \in DOMAIN tokens :
          FirstAt(text, tokens, Len(text), i, m)
  BY <1>1, <1>3 DEF Tells, NoneYet
<1>5. m \in hits /\ \A k \in hits : m <= k
  BY <1>1, <1>4 DEF FirstAt
<1>6. m = CHOOSE k \in hits : \A l \in hits : k <= l
  <2>1. hits \subseteq Nat
    BY <1>1
  <2> HIDE DEF hits
  <2>2. \A k \in hits : (\A l \in hits : k <= l) => k = m
    BY <1>5, <2>1
  <2> QED
    BY <1>5, <2>2
<1>7. ParseRating(text) = text[i]
  BY <1>2, <1>3, <1>4, <1>6 DEF FirstAt
<1>8. \A j \in 1 .. i - 1 : j \in DOMAIN text /\ j < i
  OBVIOUS
<1> QED
  BY <1>4, <1>7, <1>8 DEF FirstAt
-----------------------------------------------------------------------------
(* The reply of the model *)

\* The first place of one character and the last place of another.
LEMMA FirstPlace ==
    ASSUME NEW text \in Seq(STRING), NEW char, NEW i \in DOMAIN text,
           text[i] = char, \A k \in DOMAIN text : k < i => text[k] # char
    PROVE  i = CHOOSE k \in {m \in DOMAIN text : text[m] = char} :
                   \A l \in {m \in DOMAIN text : text[m] = char} : k <= l
<1> DEFINE hits == {m \in DOMAIN text : text[m] = char}
<1>1. i \in hits /\ hits \subseteq Int
  OBVIOUS
<1>2. \A l \in hits : i <= l
  BY <1>1
<1> HIDE DEF hits
<1>3. \A k \in hits : (\A l \in hits : k <= l) => k = i
  BY <1>1, <1>2
<1>4. i = CHOOSE k \in hits : \A l \in hits : k <= l
  BY <1>1, <1>2, <1>3
<1> QED
  BY <1>4 DEF hits

LEMMA LastPlace ==
    ASSUME NEW text \in Seq(STRING), NEW char, NEW i \in DOMAIN text,
           text[i] = char, \A k \in DOMAIN text : k > i => text[k] # char
    PROVE  i = CHOOSE k \in {m \in DOMAIN text : text[m] = char} :
                   \A l \in {m \in DOMAIN text : text[m] = char} : k >= l
<1> DEFINE hits == {m \in DOMAIN text : text[m] = char}
<1>1. i \in hits /\ hits \subseteq Int
  OBVIOUS
<1>2. \A l \in hits : i >= l
  BY <1>1
<1> HIDE DEF hits
<1>3. \A k \in hits : (\A l \in hits : k >= l) => k = i
  BY <1>1, <1>2
<1>4. i = CHOOSE k \in hits : \A l \in hits : k >= l
  BY <1>1, <1>2, <1>3
<1> QED
  BY <1>4 DEF hits

\* Braces that are the first and the last of their text are the ones found,
\* whatever stands between them.
LEMMA ObjectExtracted ==
    ASSUME NEW text \in Seq(STRING), NEW i \in DOMAIN text,
           NEW j \in DOMAIN text, OneObject(text, i, j)
    PROVE  ExtractJSON(text) = SubSeq(text, i, j)
<1> DEFINE open == {k \in DOMAIN text : text[k] = "{"}
           close == {k \in DOMAIN text : text[k] = "}"}
<1>1. i < j /\ text[i] = "{" /\ text[j] = "}"
  BY Zenon DEF OneObject
<1>2. \A k \in DOMAIN text : k < i => text[k] # "{"
  BY Zenon DEF OneObject
<1>3. \A k \in DOMAIN text : k > j => text[k] # "}"
  BY Zenon DEF OneObject
<1>4. i = CHOOSE k \in open : \A l \in open : k <= l
  BY <1>1, <1>2, FirstPlace, Zenon
<1>5. j = CHOOSE k \in close : \A l \in close : k >= l
  BY <1>1, <1>3, LastPlace, Zenon
<1>6. open # {} /\ close # {}
  BY <1>1, Zenon
<1> QED
  BY <1>1, <1>4, <1>5, <1>6, Zenon DEF ExtractJSON
=============================================================================
