----------------------------- MODULE PageProofs ----------------------------
(***************************************************************************)
(* What the file handlers send: of a page, what cgiEspFsTemplate makes of  *)
(* it, for pages, pieces and tokens of any length; of a file, what         *)
(* espFsOpen finds in the image mkespfsimage wrote and espFsRead gives     *)
(* back block by block, for any files, stored or compressed.               *)
(***************************************************************************)
EXTENDS FormProofs, FiniteSetTheorems

(* The marks of a page. *)

\* Marks up to the place j.
Before(page, j) == Cardinality({i \in Marks(page) : i <= j})

LEMMA MarksFinite ==
  ASSUME NEW C, NEW page \in Seq(C)
  PROVE  /\ IsFiniteSet(Marks(page)) /\ Marks(page) \subseteq 1 .. Len(page)
         /\ \A j : IsFiniteSet({i \in Marks(page) : i <= j}) /\ Before(page, j) \in Nat
<1>1. Len(page) \in Nat /\ Marks(page) \subseteq 1 .. Len(page)
  BY DEF Marks
<1>2. IsFiniteSet(1 .. Len(page))
  BY <1>1, FS_Interval
<1>3. IsFiniteSet(Marks(page))
  BY <1>1, <1>2, FS_Subset
<1>4. ASSUME NEW j PROVE IsFiniteSet({i \in Marks(page) : i <= j}) /\ Before(page, j) \in Nat
  <2>1. {i \in Marks(page) : i <= j} \subseteq Marks(page)
    OBVIOUS
  <2>2. IsFiniteSet({i \in Marks(page) : i <= j})
    BY <1>3, <2>1, FS_Subset
  <2> QED
    BY <2>2, FS_CardinalityType DEF Before
<1> QED
  BY <1>1, <1>3, <1>4

LEMMA BeforeNone ==
  ASSUME NEW C, NEW page \in Seq(C)
  PROVE  Before(page, 0) = 0 /\ Before(page, Len(page)) = Cardinality(Marks(page))
<1>1. {i \in Marks(page) : i <= 0} = {}
  BY DEF Marks
<1>2. {i \in Marks(page) : i <= Len(page)} = Marks(page)
  BY DEF Marks
<1> QED
  BY <1>1, <1>2, FS_EmptySet DEF Before

LEMMA BeforeNext ==
  ASSUME NEW C, NEW page \in Seq(C), NEW j \in Nat, j + 1 <= Len(page)
  PROVE  /\ page[j + 1] = Mark => Before(page, j + 1) = Before(page, j) + 1
         /\ page[j + 1] # Mark => Before(page, j + 1) = Before(page, j)
<1> DEFINE A == {i \in Marks(page) : i <= j}
           B == {i \in Marks(page) : i <= j + 1}
<1>1. Marks(page) \subseteq Nat /\ j + 1 \in 1 .. Len(page)
  BY DEF Marks
<1>2. CASE page[j + 1] = Mark
  <2>1. j + 1 \in Marks(page)
    BY <1>1, <1>2 DEF Marks
  <2>2. B = A \cup {j + 1} /\ j + 1 \notin A
    BY <1>1, <2>1
  <2>3. IsFiniteSet(A)
    BY MarksFinite
  <2> HIDE DEF A, B
  <2>4. Cardinality(B) = Cardinality(A) + 1
    BY <2>2, <2>3, FS_AddElement
  <2> QED
    BY <1>2, <2>4 DEF Before, A, B
<1>3. CASE page[j + 1] # Mark
  <2>1. j + 1 \notin Marks(page)
    BY <1>3 DEF Marks
  <2>2. B = A
    BY <1>1, <2>1
  <2> QED
    BY <1>3, <2>2 DEF Before
<1> QED
  BY <1>2, <1>3

LEMMA BeforeRises ==
  ASSUME NEW C, NEW page \in Seq(C), NEW i \in 0 .. Len(page), NEW j \in 0 .. Len(page), i <= j
  PROVE  Before(page, i) <= Before(page, j)
<1> DEFINE n  == Len(page)
           at == [k \in 0 .. n |-> Before(page, k)]
<1>0. ASSUME NEW k PROVE Before(page, k) \in Nat
  BY MarksFinite
<1>1. n \in Nat /\ \A k \in 0 .. n : Before(page, k) \in Nat
  BY <1>0
<1>2. at[0] = 0
  BY <1>1, BeforeNone
<1>3. ASSUME NEW k \in 1 .. n PROVE at[k - 1] <= at[k]
  <2>1. k - 1 \in Nat /\ (k - 1) + 1 = k /\ k <= n /\ k - 1 \in 0 .. n /\ k \in 0 .. n
    BY <1>1
  <2>2. Before(page, (k - 1) + 1) \in {Before(page, k - 1), Before(page, k - 1) + 1}
    BY <2>1, BeforeNext
  <2> QED
    BY <1>1, <2>1, <2>2
<1>4. Rising(at, n)
  BY <1>1, <1>2, <1>3 DEF Rising
<1> HIDE DEF at
<1>5. at[i] <= at[j]
  BY <1>1, <1>4, RisingOrder
<1> QED
  BY <1>5 DEF at

\* The k-th mark is the one up to which k marks stand.
LEMMA MarkAtIs ==
  ASSUME NEW C, NEW page \in Seq(C), NEW m \in Marks(page)
  PROVE  MarkAt(page, Before(page, m)) = m
<1>0. ASSUME NEW j PROVE Before(page, j) \in Nat
  BY MarksFinite
<1>1. /\ Marks(page) \subseteq 1 .. Len(page) /\ Len(page) \in Nat
      /\ \A j : Before(page, j) \in Nat
  BY <1>0, MarksFinite
<1>2. ASSUME NEW a \in Marks(page), NEW b \in Marks(page), a < b
      PROVE  Before(page, a) < Before(page, b)
  <2>1. b - 1 \in Nat /\ (b - 1) + 1 = b /\ b <= Len(page) /\ a \in 0 .. Len(page)
        /\ b - 1 \in 0 .. Len(page) /\ a <= b - 1
    BY <1>1, <1>2
  <2>2. page[b] = Mark
    BY DEF Marks
  <2>3. Before(page, b) = Before(page, b - 1) + 1
    BY <2>1, <2>2, BeforeNext
  <2>4. Before(page, a) <= Before(page, b - 1)
    BY <2>1, BeforeRises
  <2> QED
    BY <1>1, <2>3, <2>4
<1>3. ASSUME NEW x \in Marks(page), Before(page, x) = Before(page, m) PROVE x = m
  <2>1. x \in Nat /\ m \in Nat /\ Before(page, x) \in Nat
    BY <1>1
  <2>2. ~(x < m) /\ ~(m < x)
    BY <1>2, <1>3, <2>1
  <2> QED
    BY <2>1, <2>2
<1> DEFINE k == Before(page, m)
<1>4. MarkAt(page, k) = CHOOSE x \in Marks(page) : Before(page, x) = k
  BY DEF MarkAt, Before
<1>5. MarkAt(page, k) \in Marks(page) /\ Before(page, MarkAt(page, k)) = k
  BY <1>4
<1> QED
  BY <1>3, <1>5

\* As many marks as there are, so many places a mark has.
LEMMA KthMark ==
  ASSUME NEW C, NEW page \in Seq(C), NEW k \in 1 .. Cardinality(Marks(page))
  PROVE  /\ MarkAt(page, k) \in Marks(page) /\ Before(page, MarkAt(page, k)) = k
         /\ MarkAt(page, k) \in 1 .. Len(page)
<1> DEFINE n  == Len(page)
           at == [i \in 0 .. n |-> Before(page, i)]
<1>0. ASSUME NEW j PROVE Before(page, j) \in Nat
  BY MarksFinite
<1>1. n \in Nat /\ \A i \in 0 .. n : at[i] = Before(page, i) /\ at[i] \in Nat
  BY <1>0
<1>2. at[0] = 0 /\ at[n] = Cardinality(Marks(page))
  BY <1>1, BeforeNone
<1>3. ASSUME NEW i \in 1 .. n PROVE at[i - 1] <= at[i]
  <2>1. i - 1 \in 0 .. n /\ i \in 0 .. n /\ i - 1 <= i
    BY <1>1
  <2> QED
    BY <1>1, <2>1, BeforeRises
<1>4. Rising(at, n)
  BY <1>1, <1>2, <1>3 DEF Rising
<1> HIDE DEF at
<1>5. PICK i \in 1 .. n : at[i - 1] < k /\ k <= at[i]
  BY <1>1, <1>2, <1>4, RisingPlace
<1>6. i - 1 \in Nat /\ (i - 1) + 1 = i /\ i <= n /\ i - 1 \in 0 .. n /\ i \in 0 .. n
  BY <1>1
<1>7. page[i] = Mark /\ at[i] = at[i - 1] + 1
  <2>1. (page[i] = Mark => at[i] = at[i - 1] + 1) /\ (page[i] # Mark => at[i] = at[i - 1])
    BY <1>1, <1>6, BeforeNext
  <2>2. at[i - 1] \in Nat /\ at[i] \in Nat
    BY <1>1, <1>6
  <2> QED
    BY <1>5, <2>1, <2>2
<1>8. i \in Marks(page)
  BY <1>7 DEF Marks
<1>9. Before(page, i) = k
  <2>1. at[i - 1] \in Nat /\ at[i] \in Nat
    BY <1>1, <1>6
  <2> QED
    BY <1>1, <1>5, <1>6, <1>7, <2>1
<1>10. MarkAt(page, k) = i
  BY <1>8, <1>9, MarkAtIs
<1> QED
  BY <1>8, <1>9, <1>10

(* Where a place of the page stands: in which stretch, and after what of it. *)

From(page, k) == IF k = 1 THEN 1 ELSE MarkAt(page, k - 1) + 1
To(page, k) ==
  IF k > Cardinality(Marks(page)) THEN Len(page) ELSE MarkAt(page, k) - 1
Place(page, j) == Before(page, j) + 1
Cur(page, j)   == SubSeq(page, From(page, Place(page, j)), j)

LEMMA Places ==
  ASSUME NEW C, NEW page \in Seq(C), NEW j \in 0 .. Len(page)
  PROVE  /\ Place(page, j) \in 1 .. (Cardinality(Marks(page)) + 1)
         /\ Cardinality(Marks(page)) \in Nat
         /\ From(page, Place(page, j)) \in 1 .. (j + 1)
         /\ To(page, Place(page, j)) \in j .. Len(page)
<1> DEFINE n == Cardinality(Marks(page))
           b == Before(page, j)
<1>0. ASSUME NEW i PROVE Before(page, i) \in Nat
  BY MarksFinite
<1>1. Len(page) \in Nat /\ n = Before(page, Len(page)) /\ n \in Nat /\ b \in Nat
  BY <1>0, BeforeNone
<1>2. b <= n
  <2>1. Len(page) \in 0 .. Len(page) /\ j <= Len(page)
    BY <1>1
  <2> QED
    BY <1>1, <2>1, BeforeRises
<1>3. Place(page, j) = b + 1 /\ b + 1 \in 1 .. (n + 1) /\ (b + 1) - 1 = b
  BY <1>1, <1>2 DEF Place
<1>4. From(page, b + 1) \in 1 .. (j + 1)
  <2>1. CASE b = 0
    BY <2>1 DEF From
  <2>2. CASE b # 0
    <3> DEFINE m == MarkAt(page, b)
    <3>1. b \in 1 .. n
      BY <1>1, <1>2, <2>2
    <3>2. m \in Marks(page) /\ Before(page, m) = b /\ m \in 1 .. Len(page)
      BY <3>1, KthMark
    <3> HIDE DEF m
    <3>3. m <= j
      <4> SUFFICES ASSUME ~(m <= j) PROVE FALSE
        OBVIOUS
      <4>1. m - 1 \in Nat /\ (m - 1) + 1 = m /\ m <= Len(page) /\ m - 1 \in 0 .. Len(page)
            /\ j <= m - 1
        BY <1>1, <3>2
      <4>2. page[m] = Mark
        BY <3>2 DEF Marks
      <4>3. Before(page, m) = Before(page, m - 1) + 1
        BY <4>1, <4>2, BeforeNext
      <4>4. Before(page, j) <= Before(page, m - 1)
        BY <4>1, BeforeRises
      <4>5. Before(page, m - 1) \in Nat
        BY <1>0
      <4> QED
        BY <1>1, <3>2, <4>3, <4>4, <4>5
    <3>4. From(page, b + 1) = m + 1
      BY <1>1, <1>3, <2>2 DEF From, m
    <3> QED
      BY <3>2, <3>3, <3>4
  <2> QED
    BY <2>1, <2>2
<1>5. To(page, b + 1) \in j .. Len(page)
  <2>1. CASE b + 1 > n
    BY <1>1, <2>1 DEF To
  <2>2. CASE ~(b + 1 > n)
    <3> DEFINE m == MarkAt(page, b + 1)
    <3>1. b + 1 \in 1 .. n
      BY <1>1, <2>2
    <3>2. Before(page, m) = b + 1 /\ m \in 1 .. Len(page)
      BY <3>1, KthMark
    <3>3. To(page, b + 1) = m - 1
      BY <2>2 DEF To
    <3> HIDE DEF m
    <3>4. m > j
      <4> SUFFICES ASSUME m <= j PROVE FALSE
        BY <1>1, <3>2
      <4>1. m \in 0 .. Len(page)
        BY <3>2
      <4>2. Before(page, m) <= Before(page, j)
        BY <4>1, BeforeRises
      <4> QED
        BY <1>1, <3>2, <4>2
    <3> QED
      BY <1>1, <3>2, <3>3, <3>4
  <2> QED
    BY <2>1, <2>2
<1> QED
  BY <1>1, <1>3, <1>4, <1>5

\* A slice grown by one.
LEMMA SliceGrows ==
  ASSUME NEW X, NEW s \in Seq(X), NEW a \in Nat, NEW j \in Nat, 1 <= a, a <= j + 1, j + 1 <= Len(s)
  PROVE  /\ SubSeq(s, a, j) \in Seq(X) /\ Len(SubSeq(s, a, j)) = j + 1 - a
         /\ SubSeq(s, a, j + 1) = Append(SubSeq(s, a, j), s[j + 1])
         /\ \A i \in 1 .. (j + 1 - a) : SubSeq(s, a, j)[i] = s[a + i - 1]
OBVIOUS

\* An empty slice.
LEMMA SliceNone ==
  ASSUME NEW X, NEW s \in Seq(X), NEW j \in Nat
  PROVE  SubSeq(s, j + 1, j) = <<>>
OBVIOUS

\* Any slice, the empty one included.
LEMMA SliceAny ==
  ASSUME NEW X, NEW s \in Seq(X), NEW a \in Nat, NEW j \in Nat, 1 <= a, a <= j + 1, j <= Len(s)
  PROVE  SubSeq(s, a, j) \in Seq(X) /\ Len(SubSeq(s, a, j)) = j + 1 - a
<1>1. CASE a = j + 1
  BY <1>1, SliceNone
<1>2. CASE a # j + 1
  <2>1. a <= j
    BY <1>2
  <2>2. SubSeq(s, a, j) \in Seq(X) /\ Len(SubSeq(s, a, j)) = j - a + 1
    BY <2>1, Slice
  <2> QED
    BY <2>2
<1> QED
  BY <1>1, <1>2

LEMMA StretchIs ==
  ASSUME NEW page, NEW k
  PROVE  Stretch(page, k) = SubSeq(page, From(page, k), To(page, k))
BY DEF Stretch, From, To

LEMMA CurType ==
  ASSUME NEW C, NEW page \in Seq(C), NEW j \in 0 .. Len(page)
  PROVE  Cur(page, j) \in Seq(C) /\ Len(Cur(page, j)) \in Nat
<1>1. From(page, Place(page, j)) \in 1 .. (j + 1)
  BY Places
<1> DEFINE a == From(page, Place(page, j))
<1> HIDE DEF a
<1>2. a \in Nat /\ 1 <= a /\ a <= j + 1 /\ j \in Nat /\ j <= Len(page)
  BY <1>1 DEF a
<1>3. SubSeq(page, a, j) \in Seq(C)
  BY <1>2, SliceAny
<1> QED
  BY <1>3 DEF Cur, a

\* The page begins with an empty stretch begun, and ends with the last.
LEMMA CurEnds ==
  ASSUME NEW C, NEW page \in Seq(C)
  PROVE  /\ Place(page, 0) = 1 /\ Cur(page, 0) = <<>>
         /\ Place(page, Len(page)) = Cardinality(Marks(page)) + 1
         /\ Cur(page, Len(page)) = Stretch(page, Cardinality(Marks(page)) + 1)
<1>1. /\ Place(page, 0) = 1
      /\ Place(page, Len(page)) = Cardinality(Marks(page)) + 1
  BY BeforeNone DEF Place
<1>2. Cardinality(Marks(page)) \in Nat /\ Len(page) \in Nat
  BY Places
<1>3. Cur(page, 0) = <<>>
  BY <1>1 DEF Cur, From
<1>4. To(page, Cardinality(Marks(page)) + 1) = Len(page)
  BY <1>2 DEF To
<1>5. Cur(page, Len(page)) = Stretch(page, Cardinality(Marks(page)) + 1)
  BY <1>1, <1>4, StretchIs DEF Cur
<1> QED
  BY <1>1, <1>3, <1>5

LEMMA CurText ==
  ASSUME NEW C, NEW page \in Seq(C), NEW j \in 0 .. Len(page), j < Len(page), page[j + 1] # Mark
  PROVE  /\ Place(page, j + 1) = Place(page, j)
         /\ Cur(page, j + 1) = Append(Cur(page, j), page[j + 1])
         /\ Len(Cur(page, j)) < Len(Stretch(page, Place(page, j)))
         /\ Stretch(page, Place(page, j)) \in Seq(C)
<1>1. j \in Nat /\ j + 1 <= Len(page) /\ j + 1 \in 0 .. Len(page) /\ Len(page) \in Nat
  OBVIOUS
<1>2. Place(page, j + 1) = Place(page, j)
  BY <1>1, BeforeNext DEF Place
<1> DEFINE k == Place(page, j)
           a == From(page, k)
           e == To(page, k)
<1>3. a \in 1 .. (j + 1)
  BY Places
<1>4. To(page, Place(page, j + 1)) \in (j + 1) .. Len(page)
  BY <1>1, Places
<1>5. e \in (j + 1) .. Len(page)
  BY <1>2, <1>4
<1>6. Stretch(page, k) = SubSeq(page, a, e) /\ Cur(page, j) = SubSeq(page, a, j)
  BY StretchIs DEF Cur
<1>7. Cur(page, j + 1) = SubSeq(page, a, j + 1)
  BY <1>2 DEF Cur
<1> HIDE DEF a, e
<1>8. a \in Nat /\ 1 <= a /\ a <= j + 1 /\ e \in Nat /\ a <= e + 1 /\ e <= Len(page)
  BY <1>1, <1>3, <1>5
<1>9. Len(SubSeq(page, a, j)) = j + 1 - a /\ SubSeq(page, a, j + 1) = Append(SubSeq(page, a, j), page[j + 1])
  BY <1>1, <1>8, SliceGrows
<1>10. SubSeq(page, a, e) \in Seq(C) /\ Len(SubSeq(page, a, e)) = e + 1 - a
  BY <1>8, SliceAny
<1>11. j + 1 - a < e + 1 - a
  BY <1>1, <1>5, <1>8
<1> QED
  BY <1>2, <1>6, <1>7, <1>9, <1>10, <1>11

LEMMA CurMark ==
  ASSUME NEW C, NEW page \in Seq(C), NEW j \in 0 .. Len(page), j < Len(page), page[j + 1] = Mark
  PROVE  /\ Place(page, j + 1) = Place(page, j) + 1
         /\ Cur(page, j + 1) = <<>>
         /\ Cur(page, j) = Stretch(page, Place(page, j))
         /\ Place(page, j) \in 1 .. Cardinality(Marks(page))
<1>1. j \in Nat /\ j + 1 <= Len(page) /\ j + 1 \in 0 .. Len(page) /\ Len(page) \in Nat
  OBVIOUS
<1> DEFINE k == Place(page, j)
           n == Cardinality(Marks(page))
<1>2. k \in 1 .. (n + 1) /\ n \in Nat
  BY Places
<1>3. Before(page, j + 1) = Before(page, j) + 1
  BY <1>1, BeforeNext
<1>4. Place(page, j + 1) = k + 1 /\ Before(page, j + 1) = k
  BY <1>3 DEF Place
<1>5. Place(page, j + 1) \in 1 .. (n + 1)
  BY <1>1, Places
<1>6. k \in 1 .. n
  BY <1>2, <1>4, <1>5
<1>7. j + 1 \in Marks(page)
  BY <1>1 DEF Marks
<1>8. MarkAt(page, k) = j + 1
  BY <1>4, <1>7, MarkAtIs
<1>9. To(page, k) = j
  BY <1>1, <1>2, <1>6, <1>8 DEF To
<1>10. Cur(page, j) = Stretch(page, k)
  BY <1>9, StretchIs DEF Cur
<1>11. From(page, k + 1) = (j + 1) + 1
  BY <1>2, <1>8 DEF From
<1>12. Cur(page, j + 1) = <<>>
  BY <1>1, <1>4, <1>11, SliceNone DEF Cur
<1> QED
  BY <1>4, <1>6, <1>10, <1>12

(* One character. *)

InText(t, r, o) == [inToken |-> FALSE, token |-> t, raw |-> r, sent |-> o]
InToken(t, o)   == [inToken |-> TRUE, token |-> t, raw |-> <<>>, sent |-> o]

LEMMA MarkInText ==
  ASSUME NEW value, NEW t, NEW r, NEW o
  PROVE  Scan(value, InText(t, r, o), Mark) = InToken(<<>>, Send(o, r))
BY DEF Scan, InText, InToken

LEMMA MarkInToken ==
  ASSUME NEW value, NEW t, NEW o, NEW data, data = IF t = <<>> THEN <<Mark>> ELSE value[t]
  PROVE  Scan(value, InToken(t, o), Mark) = InText(t, <<>>, Send(o, data))
BY DEF Scan, InText, InToken

LEMMA CharInText ==
  ASSUME NEW value, NEW t, NEW r, NEW o, NEW c, c # Mark
  PROVE  Scan(value, InText(t, r, o), c) = InText(t, Append(r, c), o)
BY DEF Scan, InText

LEMMA CharInToken ==
  ASSUME NEW value, NEW t, NEW o, NEW c, c # Mark, Len(t) < MAX_TOKEN
  PROVE  Scan(value, InToken(t, o), c) = InToken(Append(t, c), o)
<1> DEFINE grown == IF Len(t) < MAX_TOKEN THEN Append(t, c) ELSE t
<1>1. Scan(value, InToken(t, o), c) = InToken(grown, o)
  BY DEF Scan, InToken
<1> QED
  BY <1>1

(* What the page stands for, stretch by stretch. *)

Expansion(value, page, k) ==
  CASE k % 2 = 1 -> Stretch(page, k)
    [] k % 2 = 0 /\ k = Cardinality(Marks(page)) + 1 -> <<>>
    [] OTHER -> IF Stretch(page, k) = <<>> THEN <<Mark>> ELSE value[Stretch(page, k)]

\* What the callback sends for the page's tokens: at most grow characters each.
Valued(C, value, page, grow) ==
  \A k \in 1 .. Cardinality(Marks(page)) :
    k % 2 = 0 /\ Stretch(page, k) # <<>> =>
      /\ value[Stretch(page, k)] \in Seq(C)
      /\ Len(value[Stretch(page, k)]) <= grow

Done(f, k) == IF k = 1 THEN <<>> ELSE f[k - 1]

IsExpansion(C, value, page, f) ==
  /\ Expand(value, page) = f[Cardinality(Marks(page)) + 1]
  /\ \A k \in 1 .. (Cardinality(Marks(page)) + 1) :
       /\ Expansion(value, page, k) \in Seq(C)
       /\ Done(f, k) \in Seq(C) /\ f[k] \in Seq(C)
       /\ f[k] = Done(f, k) \o Expansion(value, page, k)

LEMMA StretchType ==
  ASSUME NEW C, NEW page \in Seq(C), NEW k \in 1 .. (Cardinality(Marks(page)) + 1)
  PROVE  Stretch(page, k) \in Seq(C)
<1> DEFINE n == Cardinality(Marks(page))
<1>1. n \in Nat /\ Len(page) \in Nat
  BY MarksFinite, BeforeNone
<1>2. CASE k = n + 1
  <2>1. Len(page) \in 0 .. Len(page)
    BY <1>1
  <2>2. Cur(page, Len(page)) \in Seq(C)
    BY <2>1, CurType
  <2> QED
    BY <1>2, <2>2, CurEnds
<1>3. CASE k # n + 1
  <2> DEFINE m == MarkAt(page, k)
  <2>1. k \in 1 .. n
    BY <1>1, <1>3
  <2>2. m \in Marks(page) /\ Before(page, m) = k /\ m \in 1 .. Len(page)
    BY <2>1, KthMark
  <2> HIDE DEF m
  <2>3. m - 1 \in 0 .. Len(page) /\ m - 1 < Len(page) /\ (m - 1) + 1 = m
    BY <1>1, <2>2
  <2>4. page[m] = Mark
    BY <2>2 DEF Marks
  <2>5. Cur(page, m - 1) = Stretch(page, Place(page, m - 1)) /\ Place(page, (m - 1) + 1) = Place(page, m - 1) + 1
    BY <2>3, <2>4, CurMark
  <2>6. Place(page, m - 1) \in Nat
    BY <2>3, Places
  <2>7. Place(page, m) = k + 1
    BY <2>2 DEF Place
  <2>8. Place(page, m - 1) = k
    BY <2>1, <2>3, <2>5, <2>6, <2>7
  <2>9. Cur(page, m - 1) \in Seq(C)
    BY <2>3, CurType
  <2> QED
    BY <2>5, <2>8, <2>9
<1> QED
  BY <1>2, <1>3

LEMMA ExpansionType ==
  ASSUME NEW C, Mark \in C, NEW page \in Seq(C), NEW value, NEW grow \in Nat,
         Valued(C, value, page, grow), NEW k \in 1 .. (Cardinality(Marks(page)) + 1)
  PROVE  Expansion(value, page, k) \in Seq(C)
<1>1. Cardinality(Marks(page)) \in Nat
  BY MarksFinite, BeforeNone
<1>2. k % 2 \in {0, 1}
  BY <1>1
<1>3. CASE k % 2 = 1
  BY <1>3, StretchType DEF Expansion
<1>4. CASE k % 2 = 0 /\ k = Cardinality(Marks(page)) + 1
  <2>1. Expansion(value, page, k) = <<>>
    BY <1>4 DEF Expansion
  <2> QED
    BY <2>1
<1>5. CASE k % 2 = 0 /\ k # Cardinality(Marks(page)) + 1
  <2>1. Expansion(value, page, k)
          = IF Stretch(page, k) = <<>> THEN <<Mark>> ELSE value[Stretch(page, k)]
    BY <1>5 DEF Expansion
  <2>2. k \in 1 .. Cardinality(Marks(page))
    BY <1>1, <1>5
  <2>3. Stretch(page, k) # <<>> => value[Stretch(page, k)] \in Seq(C)
    BY <1>5, <2>2 DEF Valued
  <2> QED
    BY <2>1, <2>3
<1> QED
  BY <1>2, <1>3, <1>4, <1>5

LEMMA ExpandUnfolds ==
  ASSUME NEW C, Mark \in C, NEW page \in Seq(C), NEW value, NEW grow \in Nat,
         Valued(C, value, page, grow)
  PROVE  \E f : IsExpansion(C, value, page, f)
<1> DEFINE n  == Cardinality(Marks(page)) + 1
           ex == [k \in 1 .. n |-> Expansion(value, page, k)]
<1>1. n \in Nat /\ n >= 1
  BY MarksFinite, BeforeNone
<1>2. Expand(value, page) = FlattenSeq(ex)
  BY DEF Expand, Expansion
<1>3. \A k \in 1 .. n : Expansion(value, page, k) \in Seq(C)
  BY ExpansionType
<1>4. ex \in Seq(Seq(C)) /\ Len(ex) = n /\ \A k \in 1 .. n : ex[k] = Expansion(value, page, k)
  BY <1>1, <1>3
<1> HIDE DEF ex, n
<1>5. ex # <<>>
  BY <1>1, <1>4
<1>6. PICK f : IsFlat(ex, f) /\ FlattenSeq(ex) = f[Len(ex)]
  BY <1>4, <1>5, FlattenUnfolds
<1>7. \A k \in 1 .. n : f[k] = Joins(ex, f, k)
  BY <1>4, <1>6 DEF IsFlat
<1> DEFINE D == {k \in Nat : k + 1 <= n => f[k + 1] \in Seq(C)}
<1>8. 0 \in D
  <2>1. 1 \in 1 .. n
    BY <1>1
  <2>2. f[1] = ex[1]
    BY <1>7, <2>1 DEF Joins
  <2> QED
    BY <1>3, <1>4, <2>1, <2>2
<1>9. ASSUME NEW k \in Nat, k \in D PROVE k + 1 \in D
  <2> SUFFICES ASSUME (k + 1) + 1 <= n PROVE f[(k + 1) + 1] \in Seq(C)
    OBVIOUS
  <2>1. f[k + 1] \in Seq(C) /\ (k + 1) + 1 \in 1 .. n /\ (k + 1) + 1 # 1 /\ ((k + 1) + 1) - 1 = k + 1
    BY <1>1, <1>9
  <2>2. f[(k + 1) + 1] = f[k + 1] \o ex[(k + 1) + 1]
    BY <1>7, <2>1 DEF Joins
  <2>3. ex[(k + 1) + 1] \in Seq(C)
    BY <1>3, <1>4, <2>1
  <2> QED
    BY <2>1, <2>2, <2>3
<1> HIDE DEF D
<1>10. Nat \subseteq D
  BY <1>8, <1>9, Induction
<1>11. ASSUME NEW k \in 1 .. n
       PROVE  /\ Expansion(value, page, k) \in Seq(C)
              /\ Done(f, k) \in Seq(C) /\ f[k] \in Seq(C)
              /\ f[k] = Done(f, k) \o Expansion(value, page, k)
  <2>1. k - 1 \in Nat /\ (k - 1) + 1 = k /\ k <= n
    BY <1>1
  <2>2. f[k] \in Seq(C)
    BY <1>10, <2>1 DEF D
  <2>3. Expansion(value, page, k) \in Seq(C) /\ ex[k] = Expansion(value, page, k)
    BY <1>3, <1>4
  <2>4. CASE k = 1
    <3>1. f[k] = ex[k] /\ Done(f, k) = <<>>
      BY <1>7, <2>4 DEF Joins, Done
    <3> QED
      BY <2>2, <2>3, <3>1
  <2>5. CASE k # 1
    <3>1. f[k] = f[k - 1] \o ex[k] /\ Done(f, k) = f[k - 1]
      BY <1>7, <2>5 DEF Joins, Done
    <3>2. k - 1 \in D /\ k - 2 \in Nat /\ (k - 2) + 1 = k - 1 /\ k - 1 <= n
      BY <1>1, <1>10, <2>1, <2>5
    <3>3. f[k - 1] \in Seq(C)
      BY <1>10, <3>2 DEF D
    <3> QED
      BY <2>2, <2>3, <3>1, <3>3
  <2> QED
    BY <2>4, <2>5
<1>12. Expand(value, page) = f[n]
  BY <1>2, <1>4, <1>6
<1> QED
  BY <1>11, <1>12 DEF IsExpansion, n

(* Where the scan stands after j characters, b having been sent before: in *)
(* a stretch of text, or in a token of which it has kept all.              *)

TextAt(C, page, f, j, b, t, r, o) ==
  /\ t \in Seq(C) /\ r \in Seq(C) /\ o \in Seq(C)
  /\ Place(page, j) % 2 = 1
  /\ b \o (o \o r) = Done(f, Place(page, j)) \o Cur(page, j)

TokenAt(C, page, f, j, b, t, o) ==
  /\ t \in Seq(C) /\ o \in Seq(C)
  /\ Place(page, j) % 2 = 0
  /\ t = Cur(page, j)
  /\ b \o o = Done(f, Place(page, j))

\* What one character may add to what is sent.
Growth(c, grow) == IF c = Mark THEN 1 + grow ELSE 1

TokensFit(page) ==
  \A k \in 1 .. (Cardinality(Marks(page)) + 1) :
    k % 2 = 0 => Len(Stretch(page, k)) <= MAX_TOKEN

LEMMA SendFits ==
  ASSUME NEW C, NEW o \in Seq(C), NEW r \in Seq(C), Len(o) + Len(r) <= MAX_SENDBUFF_LEN
  PROVE  Send(o, r) = o \o r /\ o \o r \in Seq(C) /\ Len(o \o r) = Len(o) + Len(r)
<1>1. Len(o) \in Nat /\ Len(r) \in Nat /\ MAX_SENDBUFF_LEN \in Nat
  BY TemplateAssumption
<1>2. ~(Len(o) + Len(r) > MAX_SENDBUFF_LEN)
  BY <1>1
<1>3. Send(o, r) = o \o r
  BY <1>2 DEF Send
<1> QED
  BY <1>3

LEMMA Parity ==
  ASSUME NEW k \in Nat
  PROVE  k % 2 \in {0, 1} /\ (k % 2 = 1 <=> (k + 1) % 2 = 0) /\ (k % 2 = 0 <=> (k + 1) % 2 = 1)
OBVIOUS

LEMMA JoinAgain ==
  ASSUME NEW C, NEW b \in Seq(C), NEW o \in Seq(C), NEW r \in Seq(C)
  PROVE  (b \o o) \o r = b \o (o \o r)
BY ConcatAssociative

LEMMA JoinNone ==
  ASSUME NEW C, NEW b \in Seq(C)
  PROVE  b \o <<>> = b /\ <<>> \o b = b
OBVIOUS

Cat(s, t) == s \o t

LEMMA CatAgain ==
  ASSUME NEW C, NEW b \in Seq(C), NEW o \in Seq(C), NEW r \in Seq(C)
  PROVE  Cat(Cat(b, o), r) = Cat(b, Cat(o, r)) /\ Cat(b, o) \in Seq(C)
<1>1. (b \o o) \o r = b \o (o \o r)
  BY JoinAgain
<1>2. b \o o \in Seq(C)
  OBVIOUS
<1>3. Cat(Cat(b, o), r) = Cat(b, Cat(o, r))
  BY <1>1, Zenon DEF Cat
<1>4. Cat(b, o) \in Seq(C)
  BY <1>2, Zenon DEF Cat
<1> QED
  BY <1>3, <1>4

LEMMA CatOne ==
  ASSUME NEW C, NEW b \in Seq(C), NEW c \in C
  PROVE  Append(b, c) = Cat(b, <<c>>) /\ <<c>> \in Seq(C)
<1>1. Append(b, c) = b \o <<c>>
  BY AppendIsConcat
<1>2. <<c>> \in Seq(C)
  OBVIOUS
<1>3. Append(b, c) = Cat(b, <<c>>)
  BY <1>1, Zenon DEF Cat
<1> QED
  BY <1>2, <1>3

LEMMA JoinBoth ==
  ASSUME NEW C, NEW b, b \in Seq(C), NEW o, o \in Seq(C), NEW r, r \in Seq(C),
         NEW d, d \in Seq(C), NEW w, w \in Seq(C), NEW c, c \in C,
         Cat(b, Cat(o, r)) = Cat(d, w)
  PROVE  Cat(b, Cat(o, Append(r, c))) = Cat(d, Append(w, c))
<1> DEFINE one == <<c>>
<1>1. one \in Seq(C)
  BY CatOne
<1>2. Append(r, c) = Cat(r, one) /\ Append(w, c) = Cat(w, one)
  BY CatOne
<1> HIDE DEF one
<1>3. Cat(Cat(o, r), one) = Cat(o, Cat(r, one)) /\ Cat(o, r) \in Seq(C)
  BY <1>1, CatAgain
<1>4. Cat(Cat(b, Cat(o, r)), one) = Cat(b, Cat(Cat(o, r), one))
  BY <1>1, <1>3, CatAgain
<1>5. Cat(Cat(d, w), one) = Cat(d, Cat(w, one))
  BY <1>1, CatAgain
<1> QED
  BY <1>2, <1>3, <1>4, <1>5

LEMMA TextGoesOn ==
  ASSUME NEW C, NEW page \in Seq(C), NEW value, NEW f, IsExpansion(C, value, page, f),
         NEW j \in 0 .. Len(page), j < Len(page), page[j + 1] # Mark,
         NEW b \in Seq(C), NEW t, NEW r, NEW o, TextAt(C, page, f, j, b, t, r, o)
  PROVE  /\ Scan(value, InText(t, r, o), page[j + 1]) = InText(t, Append(r, page[j + 1]), o)
         /\ TextAt(C, page, f, j + 1, b, t, Append(r, page[j + 1]), o)
         /\ Len(o) + Len(Append(r, page[j + 1])) = (Len(o) + Len(r)) + 1
<1> DEFINE c == page[j + 1]
           k == Place(page, j)
           d == Done(f, k)
<1>1. c \in C
  OBVIOUS
<1>2. c # Mark
  OBVIOUS
<1>3. Place(page, j + 1) = k
  BY CurText
<1>4. Cur(page, j + 1) = Append(Cur(page, j), c)
  BY CurText
<1>5. k \in 1 .. (Cardinality(Marks(page)) + 1)
  BY Places
<1>6. Cur(page, j) \in Seq(C)
  BY CurType
<1>7. d \in Seq(C)
  BY <1>5 DEF IsExpansion
<1>8. r \in Seq(C)
  BY DEF TextAt
<1>9. o \in Seq(C)
  BY DEF TextAt
<1>10. t \in Seq(C) /\ k % 2 = 1 /\ b \o (o \o r) = d \o Cur(page, j)
  BY DEF TextAt
<1> HIDE DEF c, d, k
<1>11. Scan(value, InText(t, r, o), c) = InText(t, Append(r, c), o)
  BY <1>2, CharInText
<1>12. Append(r, c) \in Seq(C) /\ Len(Append(r, c)) = Len(r) + 1 /\ Len(r) \in Nat /\ Len(o) \in Nat
  BY <1>1, <1>8, <1>9
<1>13. PICK w : w = Cur(page, j)
  OBVIOUS
<1>14. w \in Seq(C)
  BY <1>6, <1>13
<1>15. Cat(b, Cat(o, r)) = Cat(d, w)
  BY <1>10, <1>13 DEF Cat
<1>16. Cat(b, Cat(o, Append(r, c))) = Cat(d, Append(w, c))
  BY <1>1, <1>7, <1>8, <1>9, <1>14, <1>15, JoinBoth
<1>17. b \o (o \o Append(r, c)) = d \o Cur(page, j + 1)
  BY <1>4, <1>13, <1>16 DEF Cat
<1>18. Append(r, c) \in Seq(C)
  BY <1>12
<1>19. TextAt(C, page, f, j + 1, b, t, Append(r, c), o)
  BY <1>3, <1>9, <1>10, <1>17, <1>18 DEF TextAt, d
<1>20. Len(o) + Len(Append(r, c)) = (Len(o) + Len(r)) + 1
  BY <1>12
<1> QED
  BY <1>11, <1>19, <1>20 DEF c

LEMMA TokenGoesOn ==
  ASSUME NEW C, NEW page \in Seq(C), NEW value, NEW f, IsExpansion(C, value, page, f),
         TokensFit(page), NEW j \in 0 .. Len(page), j < Len(page), page[j + 1] # Mark,
         NEW b, NEW t, NEW o, TokenAt(C, page, f, j, b, t, o)
  PROVE  /\ Scan(value, InToken(t, o), page[j + 1]) = InToken(Append(t, page[j + 1]), o)
         /\ TokenAt(C, page, f, j + 1, b, Append(t, page[j + 1]), o)
<1> DEFINE c == page[j + 1]
           k == Place(page, j)
<1>1. c \in C /\ c # Mark
  OBVIOUS
<1>2. Place(page, j + 1) = k
  BY CurText
<1>3. Cur(page, j + 1) = Append(Cur(page, j), c)
  BY CurText
<1>4. Len(Cur(page, j)) < Len(Stretch(page, k))
  BY CurText
<1>5. k \in 1 .. (Cardinality(Marks(page)) + 1)
  BY Places
<1>6. Cur(page, j) \in Seq(C)
  BY CurType
<1>7. /\ t \in Seq(C) /\ o \in Seq(C) /\ k % 2 = 0 /\ t = Cur(page, j)
      /\ b \o o = Done(f, k)
  BY DEF TokenAt
<1>8. Len(Stretch(page, k)) <= MAX_TOKEN
  BY <1>5, <1>7 DEF TokensFit
<1>9. Stretch(page, k) \in Seq(C)
  BY <1>5, StretchType
<1> HIDE DEF c, k
<1>10. Len(t) < MAX_TOKEN
  <2>1. Len(t) \in Nat /\ Len(Stretch(page, k)) \in Nat /\ MAX_TOKEN \in Nat
    BY <1>7, <1>9, TemplateAssumption
  <2> QED
    BY <1>4, <1>7, <1>8, <2>1
<1>11. Scan(value, InToken(t, o), c) = InToken(Append(t, c), o)
  BY <1>1, <1>10, CharInToken
<1>12. Append(t, c) = Cur(page, j + 1) /\ Append(t, c) \in Seq(C)
  BY <1>1, <1>3, <1>7
<1>13. TokenAt(C, page, f, j + 1, b, Append(t, c), o)
  BY <1>2, <1>7, <1>12 DEF TokenAt
<1> QED
  BY <1>11, <1>13 DEF c

LEMMA TextEnds ==
  ASSUME NEW C, NEW page \in Seq(C), NEW value, NEW f, IsExpansion(C, value, page, f),
         NEW j \in 0 .. Len(page), j < Len(page), page[j + 1] = Mark,
         NEW b \in Seq(C), NEW t, NEW r, NEW o, TextAt(C, page, f, j, b, t, r, o),
         Len(o) + Len(r) <= MAX_SENDBUFF_LEN
  PROVE  /\ Scan(value, InText(t, r, o), page[j + 1]) = InToken(<<>>, o \o r)
         /\ TokenAt(C, page, f, j + 1, b, <<>>, o \o r)
         /\ Len(o \o r) = Len(o) + Len(r)
<1> DEFINE k == Place(page, j)
<1>1. Place(page, j + 1) = k + 1
  BY CurMark
<1>2. Cur(page, j + 1) = <<>>
  BY CurMark
<1>3. Cur(page, j) = Stretch(page, k)
  BY CurMark
<1>4. k \in 1 .. Cardinality(Marks(page))
  BY CurMark
<1>5. Cardinality(Marks(page)) \in Nat
  BY MarksFinite, BeforeNone
<1>6. k \in Nat /\ k \in 1 .. (Cardinality(Marks(page)) + 1)
      /\ k + 1 # 1 /\ (k + 1) - 1 = k
  BY <1>4, <1>5
<1>7. f[k] = Done(f, k) \o Expansion(value, page, k)
  BY <1>6 DEF IsExpansion
<1>8. r \in Seq(C)
  BY DEF TextAt
<1>9. o \in Seq(C)
  BY DEF TextAt
<1>10. k % 2 = 1 /\ b \o (o \o r) = Done(f, k) \o Cur(page, j)
  BY DEF TextAt
<1>11. Done(f, k + 1) = f[k]
  BY <1>6 DEF Done
<1>12. Expansion(value, page, k) = Cur(page, j)
  BY <1>3, <1>10 DEF Expansion
<1> HIDE DEF k
<1>13. (k + 1) % 2 = 0
  BY <1>6, <1>10, Parity
<1>14. Send(o, r) = o \o r /\ o \o r \in Seq(C) /\ Len(o \o r) = Len(o) + Len(r)
  BY <1>8, <1>9, SendFits
<1>15. Scan(value, InText(t, r, o), Mark) = InToken(<<>>, Send(o, r))
  BY MarkInText
<1>16. b \o (o \o r) = Done(f, k + 1)
  BY <1>7, <1>10, <1>11, <1>12
<1>17. TokenAt(C, page, f, j + 1, b, <<>>, o \o r)
  BY <1>1, <1>2, <1>13, <1>14, <1>16 DEF TokenAt
<1> QED
  BY <1>14, <1>15, <1>17

LEMMA TokenEnds ==
  ASSUME NEW C, Mark \in C, NEW page \in Seq(C), NEW value, NEW grow \in Nat,
         Valued(C, value, page, grow), NEW f, IsExpansion(C, value, page, f),
         NEW j \in 0 .. Len(page), j < Len(page), page[j + 1] = Mark,
         NEW b \in Seq(C), NEW t, NEW o, TokenAt(C, page, f, j, b, t, o),
         Len(o) + (1 + grow) <= MAX_SENDBUFF_LEN
  PROVE  \E u \in Seq(C) :
           /\ Scan(value, InToken(t, o), page[j + 1]) = InText(t, <<>>, u)
           /\ TextAt(C, page, f, j + 1, b, t, <<>>, u)
           /\ Len(u) <= Len(o) + (1 + grow)
<1> DEFINE k == Place(page, j)
           data == IF t = <<>> THEN <<Mark>> ELSE value[t]
<1>1. Place(page, j + 1) = k + 1
  BY CurMark
<1>2. Cur(page, j + 1) = <<>>
  BY CurMark
<1>3. Cur(page, j) = Stretch(page, k)
  BY CurMark
<1>4. k \in 1 .. Cardinality(Marks(page))
  BY CurMark
<1>5. Cardinality(Marks(page)) \in Nat
  BY MarksFinite, BeforeNone
<1>6. k \in Nat /\ k \in 1 .. (Cardinality(Marks(page)) + 1) /\ k # Cardinality(Marks(page)) + 1
      /\ k + 1 # 1 /\ (k + 1) - 1 = k
  BY <1>4, <1>5
<1>7. /\ f[k] \in Seq(C) /\ Expansion(value, page, k) \in Seq(C)
      /\ f[k] = Done(f, k) \o Expansion(value, page, k)
  BY <1>6 DEF IsExpansion
<1>8. o \in Seq(C)
  BY DEF TokenAt
<1>9. t \in Seq(C) /\ k % 2 = 0 /\ t = Stretch(page, k) /\ b \o o = Done(f, k)
  BY <1>3 DEF TokenAt
<1>10. Done(f, k + 1) = f[k]
  BY <1>6 DEF Done
<1>11. data = Expansion(value, page, k)
  BY <1>6, <1>9 DEF Expansion
<1>12. data \in Seq(C)
  BY <1>7, <1>11
<1>13. Len(data) \in Nat /\ Len(data) <= 1 + grow
  <2>1. Len(data) \in Nat
    BY <1>12
  <2>2. CASE t = <<>>
    BY <2>2
  <2>3. CASE t # <<>>
    <3>1. Len(value[t]) <= grow
      BY <1>4, <1>9, <2>3 DEF Valued
    <3> QED
      BY <2>1, <2>3, <3>1
  <2> QED
    BY <2>1, <2>2, <2>3
<1>14. Scan(value, InToken(t, o), Mark) = InText(t, <<>>, Send(o, data))
  BY MarkInToken
<1> HIDE DEF data, k
<1>15. (k + 1) % 2 = 1
  BY <1>6, <1>9, Parity
<1>16. Len(o) \in Nat /\ MAX_SENDBUFF_LEN \in Nat
  BY <1>8, TemplateAssumption
<1>17. Len(o) + Len(data) <= MAX_SENDBUFF_LEN
  BY <1>13, <1>16
<1>18. Send(o, data) = o \o data /\ Len(o \o data) = Len(o) + Len(data)
  BY <1>8, <1>12, <1>17, SendFits
<1>19. o \o data \in Seq(C)
  BY <1>8, <1>12
<1>20. (b \o o) \o data = b \o (o \o data)
  <2>1. b \in Seq(C) /\ o \in Seq(C) /\ data \in Seq(C)
    BY <1>8, <1>12
  <2> QED
    BY <2>1, JoinAgain, SMTT(20)
<1>21. (o \o data) \o <<>> = o \o data
  BY <1>19, JoinNone
<1>22. f[k] \o <<>> = f[k]
  <2>1. f[k] \in Seq(C)
    BY <1>7
  <2> QED
    BY <2>1, JoinNone
<1>23. b \o ((o \o data) \o <<>>) = Done(f, k + 1) \o Cur(page, j + 1)
  BY <1>2, <1>7, <1>9, <1>10, <1>11, <1>20, <1>21, <1>22
<1>24. <<>> \in Seq(C)
  OBVIOUS
<1>25. TextAt(C, page, f, j + 1, b, t, <<>>, o \o data)
  BY <1>1, <1>9, <1>15, <1>19, <1>23, <1>24 DEF TextAt
<1>26. Len(o \o data) <= Len(o) + (1 + grow)
  BY <1>13, <1>16, <1>18
<1> QED
  BY <1>14, <1>18, <1>19, <1>25, <1>26

(* A piece of the page. *)

\* The fold over the places of a piece, as MapThenFoldSet makes it.
IsScanFold(value, base, seq, n, f) ==
  f = [s \in SUBSET (1 .. n) |->
         IF s = {} THEN base ELSE Scan(value, f[s \ {Max(s)}], seq[Max(s)])]

LEMMA ScanFoldExists ==
  ASSUME NEW value, NEW base, NEW seq, NEW n \in Nat
  PROVE  \E f : IsScanFold(value, base, seq, n, f)
<1> DEFINE Val(f, s) == IF s = {} THEN base ELSE Scan(value, f[s \ {Max(s)}], seq[Max(s)])
           Dom       == SUBSET (1 .. n)
           Good(f, m) == /\ f = [s \in Dom |-> f[s]]
                         /\ \A s \in Dom : s \subseteq 1 .. m => f[s] = Val(f, s)
           D == {m \in Nat : \E f : Good(f, m)}
<1>1. 0 \in D
  <2> DEFINE f == [s \in Dom |-> base]
  <2>1. f = [s \in Dom |-> f[s]]
    OBVIOUS
  <2>2. \A s \in Dom : s \subseteq 1 .. 0 => f[s] = Val(f, s)
    OBVIOUS
  <2> HIDE DEF f
  <2>3. Good(f, 0)
    BY <2>1, <2>2
  <2> HIDE DEF Good
  <2> QED
    BY <2>3
<1>2. ASSUME NEW m \in Nat, m \in D PROVE m + 1 \in D
  <2>1. PICK f : Good(f, m)
    BY <1>2
  <2> DEFINE g == [s \in Dom |-> IF s \subseteq 1 .. m THEN f[s] ELSE Val(f, s)]
  <2>2. \A s \in Dom : g[s] = IF s \subseteq 1 .. m THEN f[s] ELSE Val(f, s)
    OBVIOUS
  <2>3. g = [s \in Dom |-> g[s]]
    OBVIOUS
  <2> HIDE DEF g
  <2>4. ASSUME NEW s \in Dom, s \subseteq 1 .. (m + 1) PROVE g[s] = Val(g, s)
    <3>1. g[s] = Val(f, s)
      BY <2>1, <2>2
    <3>2. CASE s = {}
      BY <3>1, <3>2
    <3>3. CASE s # {}
      <4>1. Max(s) \in s /\ \A x \in s : x <= Max(s)
        BY <3>3, LargestElement
      <4>2. s \ {Max(s)} \in Dom
        OBVIOUS
      <4>3. s \ {Max(s)} \subseteq 1 .. m
        <5> SUFFICES ASSUME NEW x \in s, x # Max(s) PROVE x \in 1 .. m
          OBVIOUS
        <5>1. x \in 1 .. (m + 1) /\ Max(s) \in 1 .. (m + 1) /\ x <= Max(s)
          BY <2>4, <4>1
        <5> QED
          BY <5>1
      <4>4. g[s \ {Max(s)}] = f[s \ {Max(s)}]
        BY <2>2, <4>2, <4>3
      <4> QED
        BY <3>1, <3>3, <4>4
    <3> QED
      BY <3>2, <3>3
  <2>5. Good(g, m + 1)
    BY <2>3, <2>4
  <2> HIDE DEF Good
  <2> QED
    BY <2>5
<1> HIDE DEF D
<1>3. n \in D
  BY <1>1, <1>2, Induction
<1>4. PICK f : Good(f, n)
  BY <1>3 DEF D
<1>5. \A s \in Dom : f[s] = Val(f, s)
  BY <1>4
<1>6. f = [s \in Dom |-> Val(f, s)]
  <2>1. [s \in Dom |-> f[s]] = [s \in Dom |-> Val(f, s)]
    BY <1>5
  <2> QED
    BY <1>4, <2>1
<1> QED
  BY <1>6 DEF IsScanFold

\* A piece is scanned character by character.
ScannedBy(value, base, piece, after) ==
  /\ after[0] = base
  /\ \A k \in 1 .. Len(piece) : after[k] = Scan(value, after[k - 1], piece[k])

Fresh(kept) == [inToken |-> kept.inToken, token |-> kept.token, raw |-> <<>>, sent |-> <<>>]

Leaves(end) ==
  [inToken |-> end.inToken, token |-> end.token, sent |-> Send(end.sent, end.raw)]

LEMMA PieceUnfolds ==
  ASSUME NEW C, NEW piece \in Seq(C), NEW value, NEW kept
  PROVE  \E after : /\ ScannedBy(value, Fresh(kept), piece, after)
                    /\ Piece(value, kept, piece) = Leaves(after[Len(piece)])
<1> DEFINE n == Len(piece)
           It(f) == f = [s \in SUBSET DOMAIN piece |->
                           IF s = {} THEN Fresh(kept)
                           ELSE Scan(value, f[s \ {Max(s)}], piece[Max(s)])]
           iter == CHOOSE f : It(f)
<1>1. DOMAIN piece = 1 .. n /\ n \in Nat
  OBVIOUS
<1>2. Piece(value, kept, piece) = Leaves(iter[DOMAIN piece])
  BY DEF Piece, FoldLeft, MapThenFoldSet, Fresh, Leaves
<1>3. PICK f : IsScanFold(value, Fresh(kept), piece, n, f)
  BY <1>1, ScanFoldExists
<1>4. It(f)
  BY <1>1, <1>3 DEF IsScanFold
<1>5. It(iter)
  BY <1>4
<1> HIDE DEF iter
<1> DEFINE after == [k \in 0 .. n |-> iter[1 .. k]]
<1>6. after[0] = Fresh(kept)
  <2>1. 1 .. 0 = {} /\ {} \in SUBSET DOMAIN piece
    OBVIOUS
  <2> QED
    BY <1>1, <1>5, <2>1
<1>7. ASSUME NEW k \in 1 .. n
      PROVE  after[k] = Scan(value, after[k - 1], piece[k])
  <2>1. iter[1 .. k] = Scan(value, iter[1 .. (k - 1)], piece[k])
    <3>1. 1 .. k \in SUBSET DOMAIN piece /\ 1 .. k # {}
      BY <1>1, WholePrefix
    <3>2. Max(1 .. k) = k /\ (1 .. k) \ {k} = 1 .. (k - 1)
      BY <1>1, WholePrefix
    <3>3. iter[1 .. k] = Scan(value, iter[(1 .. k) \ {Max(1 .. k)}], piece[Max(1 .. k)])
      BY <1>5, <3>1
    <3> QED
      BY <3>2, <3>3
  <2>2. k \in 0 .. n /\ k - 1 \in 0 .. n
    BY <1>1
  <2> QED
    BY <2>1, <2>2
<1>8. after[n] = iter[DOMAIN piece]
  BY <1>1
<1> HIDE DEF after
<1>9. ScannedBy(value, Fresh(kept), piece, after)
  BY <1>6, <1>7 DEF ScannedBy
<1> QED
  BY <1>2, <1>8, <1>9

\* What the first i characters of a piece may come to.
Spend(piece, grow, i) == i + Before(piece, i) * grow

LEMMA SpendNext ==
  ASSUME NEW C, NEW piece \in Seq(C), NEW grow \in Nat, NEW i \in Nat, i + 1 <= Len(piece)
  PROVE  /\ Spend(piece, grow, i) \in Nat /\ Spend(piece, grow, i + 1) \in Nat
         /\ piece[i + 1] = Mark => Spend(piece, grow, i + 1) = Spend(piece, grow, i) + (1 + grow)
         /\ piece[i + 1] # Mark => Spend(piece, grow, i + 1) = Spend(piece, grow, i) + 1
<1>1. Before(piece, i) \in Nat /\ Before(piece, i + 1) \in Nat
  BY MarksFinite
<1> DEFINE x == Before(piece, i)
           y == Before(piece, i + 1)
<1>2. (piece[i + 1] = Mark => y = x + 1) /\ (piece[i + 1] # Mark => y = x)
  BY BeforeNext
<1>3. Spend(piece, grow, i) = i + x * grow /\ Spend(piece, grow, i + 1) = (i + 1) + y * grow
  BY DEF Spend
<1> HIDE DEF x, y
<1>4. x \in Nat /\ y \in Nat
  BY <1>1 DEF x, y
<1>5. x * grow \in Nat /\ y * grow \in Nat /\ (x + 1) * grow = x * grow + grow
  BY <1>4
<1> QED
  BY <1>2, <1>3, <1>4, <1>5

LEMMA SpendRises ==
  ASSUME NEW C, NEW piece \in Seq(C), NEW grow \in Nat, NEW i \in 0 .. Len(piece)
  PROVE  /\ Spend(piece, grow, i) \in Nat
         /\ Spend(piece, grow, i) <= Len(piece) + Cardinality(Marks(piece)) * grow
<1> DEFINE n  == Len(piece)
           at == [k \in 0 .. n |-> Spend(piece, grow, k)]
<1>0. ASSUME NEW j PROVE Before(piece, j) \in Nat
  BY MarksFinite
<1>1. ASSUME NEW k \in 0 .. n PROVE Spend(piece, grow, k) \in Nat
  <2>1. Before(piece, k) \in Nat /\ k \in Nat
    BY <1>0
  <2> DEFINE x == Before(piece, k)
  <2> HIDE DEF x
  <2>2. x \in Nat => x * grow \in Nat
    OBVIOUS
  <2>3. Spend(piece, grow, k) = k + x * grow
    BY DEF Spend, x
  <2> QED
    BY <2>1, <2>2, <2>3 DEF x
<1>2. Before(piece, 0) = 0 /\ Before(piece, n) = Cardinality(Marks(piece)) /\ n \in Nat
  BY BeforeNone
<1>3. at[0] = 0 /\ at[n] = n + Cardinality(Marks(piece)) * grow
  BY <1>2 DEF Spend
<1>4. ASSUME NEW k \in 1 .. n PROVE at[k - 1] <= at[k]
  <2>1. k - 1 \in Nat /\ (k - 1) + 1 = k /\ k <= n /\ k - 1 \in 0 .. n /\ k \in 0 .. n
    BY <1>2
  <2>2. /\ Spend(piece, grow, k - 1) \in Nat /\ Spend(piece, grow, (k - 1) + 1) \in Nat
        /\ \/ Spend(piece, grow, (k - 1) + 1) = Spend(piece, grow, k - 1) + (1 + grow)
           \/ Spend(piece, grow, (k - 1) + 1) = Spend(piece, grow, k - 1) + 1
    BY <2>1, SpendNext
  <2> QED
    BY <2>1, <2>2
<1>5. Rising(at, n)
  BY <1>1, <1>3, <1>4 DEF Rising
<1>6. at[i] = Spend(piece, grow, i)
  OBVIOUS
<1> HIDE DEF at
<1>7. i <= n /\ n \in 0 .. n
  BY <1>2
<1>8. at[i] <= at[n]
  BY <1>2, <1>5, <1>7, RisingOrder
<1> QED
  BY <1>1, <1>3, <1>6, <1>8

\* Where the scan stands, and what it may have collected in this piece.
StandsAt(C, page, f, j, b, room, s) ==
  \/ \E t, r, o : /\ s = InText(t, r, o) /\ TextAt(C, page, f, j, b, t, r, o)
                  /\ Len(o) + Len(r) <= room
  \/ \E t, o : s = InToken(t, o) /\ TokenAt(C, page, f, j, b, t, o) /\ Len(o) <= room

LEMMA StandsNext ==
  ASSUME NEW C, Mark \in C, NEW page \in Seq(C), NEW value, NEW grow \in Nat,
         Valued(C, value, page, grow), NEW f, IsExpansion(C, value, page, f), TokensFit(page),
         NEW j \in 0 .. Len(page), j < Len(page), NEW b \in Seq(C), NEW s,
         NEW room \in Nat, NEW next \in Nat, StandsAt(C, page, f, j, b, room, s),
         next <= MAX_SENDBUFF_LEN,
         page[j + 1] = Mark => next = room + (1 + grow),
         page[j + 1] # Mark => next = room + 1
  PROVE  StandsAt(C, page, f, j + 1, b, next, Scan(value, s, page[j + 1]))
<1> DEFINE c == page[j + 1]
<1>0. MAX_SENDBUFF_LEN \in Nat
  BY TemplateAssumption
<1>1. ASSUME NEW t, NEW r, NEW o, s = InText(t, r, o), TextAt(C, page, f, j, b, t, r, o),
             Len(o) + Len(r) <= room
      PROVE  StandsAt(C, page, f, j + 1, b, next, Scan(value, s, c))
  <2>1. Len(o) \in Nat /\ Len(r) \in Nat
    BY <1>1 DEF TextAt
  <2>2. CASE c = Mark
    <3>1. Len(o) + Len(r) <= MAX_SENDBUFF_LEN /\ Len(o) + Len(r) <= next
      BY <1>0, <1>1, <2>1, <2>2
    <3>2. /\ Scan(value, InText(t, r, o), c) = InToken(<<>>, o \o r)
          /\ TokenAt(C, page, f, j + 1, b, <<>>, o \o r)
          /\ Len(o \o r) = Len(o) + Len(r)
      BY <1>1, <2>2, <3>1, TextEnds
    <3> QED
      BY <1>1, <3>1, <3>2 DEF StandsAt
  <2>3. CASE c # Mark
    <3>1. /\ Scan(value, InText(t, r, o), c) = InText(t, Append(r, c), o)
          /\ TextAt(C, page, f, j + 1, b, t, Append(r, c), o)
          /\ Len(o) + Len(Append(r, c)) = (Len(o) + Len(r)) + 1
      BY <1>1, <2>3, TextGoesOn
    <3>2. (Len(o) + Len(r)) + 1 <= next
      BY <1>1, <2>1, <2>3
    <3> QED
      BY <1>1, <3>1, <3>2 DEF StandsAt
  <2> QED
    BY <2>2, <2>3
<1>2. ASSUME NEW t, NEW o, s = InToken(t, o), TokenAt(C, page, f, j, b, t, o), Len(o) <= room
      PROVE  StandsAt(C, page, f, j + 1, b, next, Scan(value, s, c))
  <2>1. Len(o) \in Nat
    BY <1>2 DEF TokenAt
  <2>2. CASE c = Mark
    <3>1. Len(o) + (1 + grow) <= MAX_SENDBUFF_LEN /\ Len(o) + (1 + grow) <= next
      BY <1>0, <1>2, <2>1, <2>2
    <3>4. page[j + 1] = Mark /\ Len(o) + (1 + grow) <= MAX_SENDBUFF_LEN
      BY <2>2, <3>1
    <3>5. \E u \in Seq(C) :
            /\ Scan(value, InToken(t, o), page[j + 1]) = InText(t, <<>>, u)
            /\ TextAt(C, page, f, j + 1, b, t, <<>>, u)
            /\ Len(u) <= Len(o) + (1 + grow)
      BY <1>2, <3>4, TokenEnds
    <3>2. PICK u \in Seq(C) :
            /\ Scan(value, InToken(t, o), c) = InText(t, <<>>, u)
            /\ TextAt(C, page, f, j + 1, b, t, <<>>, u)
            /\ Len(u) <= Len(o) + (1 + grow)
      BY <3>5
    <3>3. Len(u) + Len(<<>>) <= next
      <4>1. Len(u) \in Nat /\ Len(<<>>) = 0
        OBVIOUS
      <4> QED
        BY <2>1, <3>1, <3>2, <4>1
    <3> QED
      BY <1>2, <3>2, <3>3 DEF StandsAt
  <2>3. CASE c # Mark
    <3>4. page[j + 1] # Mark
      BY <2>3
    <3>5. /\ Scan(value, InToken(t, o), page[j + 1]) = InToken(Append(t, page[j + 1]), o)
          /\ TokenAt(C, page, f, j + 1, b, Append(t, page[j + 1]), o)
      BY <1>2, <3>4, TokenGoesOn
    <3>1. /\ Scan(value, InToken(t, o), c) = InToken(Append(t, c), o)
          /\ TokenAt(C, page, f, j + 1, b, Append(t, c), o)
      BY <3>5
    <3>2. Len(o) <= next
      BY <1>2, <2>1, <2>3
    <3> QED
      BY <1>2, <3>1, <3>2 DEF StandsAt
  <2> QED
    BY <2>2, <2>3
<1> HIDE DEF c
<1>3. StandsAt(C, page, f, j + 1, b, next, Scan(value, s, c))
  BY <1>1, <1>2 DEF StandsAt
<1> QED
  BY <1>3 DEF c

\* Between two pieces: what has been sent, b, and what is kept.
KeptAt(C, page, f, j, b, kept) ==
  /\ b \in Seq(C)
  /\ \/ kept.inToken = FALSE /\ TextAt(C, page, f, j, b, kept.token, <<>>, <<>>)
     \/ kept.inToken = TRUE /\ TokenAt(C, page, f, j, b, kept.token, <<>>)

LEMMA PieceBegins ==
  ASSUME NEW C, NEW page, NEW f, NEW j, NEW b, NEW kept, KeptAt(C, page, f, j, b, kept)
  PROVE  StandsAt(C, page, f, j, b, 0, Fresh(kept))
<1>1. CASE kept.inToken = FALSE /\ TextAt(C, page, f, j, b, kept.token, <<>>, <<>>)
  <2>1. Fresh(kept) = InText(kept.token, <<>>, <<>>)
    BY <1>1 DEF Fresh, InText
  <2>2. Len(<<>>) + Len(<<>>) <= 0
    OBVIOUS
  <2> QED
    BY <1>1, <2>1, <2>2 DEF StandsAt
<1>2. CASE kept.inToken = TRUE /\ TokenAt(C, page, f, j, b, kept.token, <<>>)
  <2>1. Fresh(kept) = InToken(kept.token, <<>>)
    BY <1>2 DEF Fresh, InToken
  <2>2. Len(<<>>) <= 0
    OBVIOUS
  <2> QED
    BY <1>2, <2>1, <2>2 DEF StandsAt
<1> QED
  BY <1>1, <1>2 DEF KeptAt

LEMMA PieceEnds ==
  ASSUME NEW C, NEW page, NEW f, NEW j, NEW b \in Seq(C), NEW room \in Nat,
         room <= MAX_SENDBUFF_LEN, NEW s, StandsAt(C, page, f, j, b, room, s)
  PROVE  KeptAt(C, page, f, j, b \o Leaves(s).sent, Leaves(s))
<1>0. MAX_SENDBUFF_LEN \in Nat
  BY TemplateAssumption
<1>1. ASSUME NEW t, NEW r, NEW o, s = InText(t, r, o), TextAt(C, page, f, j, b, t, r, o),
             Len(o) + Len(r) <= room
      PROVE  KeptAt(C, page, f, j, b \o Leaves(s).sent, Leaves(s))
  <2>1. o \in Seq(C)
    BY <1>1 DEF TextAt
  <2>2. r \in Seq(C)
    BY <1>1 DEF TextAt
  <2>3. Len(o) + Len(r) <= MAX_SENDBUFF_LEN
    <3>1. Len(o) \in Nat /\ Len(r) \in Nat
      BY <2>1, <2>2
    <3> QED
      BY <1>0, <1>1, <3>1
  <2>4. Send(o, r) = o \o r /\ o \o r \in Seq(C)
    BY <2>1, <2>2, <2>3, SendFits
  <2>5. /\ Leaves(s).inToken = FALSE /\ Leaves(s).token = t
        /\ Leaves(s).sent = Send(o, r)
    BY <1>1 DEF Leaves, InText
  <2>6. PICK u : u = b \o (o \o r)
    OBVIOUS
  <2>7. u \in Seq(C)
    <3>1. PICK v : v = o \o r
      OBVIOUS
    <3>2. v \in Seq(C)
      BY <2>4, <3>1
    <3> QED
      BY <2>6, <3>1, <3>2
  <2>8. u \o (<<>> \o <<>>) = u
    BY <2>7, JoinNone
  <2>9. <<>> \in Seq(C)
    OBVIOUS
  <2>10. TextAt(C, page, f, j, u, t, <<>>, <<>>)
    BY <1>1, <2>6, <2>8, <2>9 DEF TextAt
  <2>11. b \o Leaves(s).sent = u
    BY <2>4, <2>5, <2>6
  <2> QED
    BY <2>5, <2>7, <2>10, <2>11 DEF KeptAt
<1>2. ASSUME NEW t, NEW o, s = InToken(t, o), TokenAt(C, page, f, j, b, t, o), Len(o) <= room
      PROVE  KeptAt(C, page, f, j, b \o Leaves(s).sent, Leaves(s))
  <2>1. o \in Seq(C)
    BY <1>2 DEF TokenAt
  <2>2. <<>> \in Seq(C) /\ Len(<<>>) = 0
    OBVIOUS
  <2>3. Len(o) + Len(<<>>) <= MAX_SENDBUFF_LEN
    <3>1. Len(o) \in Nat
      BY <2>1
    <3> QED
      BY <1>0, <1>2, <2>2, <3>1
  <2>4. Send(o, <<>>) = o \o <<>>
    BY <2>1, <2>2, <2>3, SendFits
  <2>5. o \o <<>> = o
    BY <2>1, JoinNone
  <2>6. /\ Leaves(s).inToken = TRUE /\ Leaves(s).token = t
        /\ Leaves(s).sent = Send(o, <<>>)
    BY <1>2 DEF Leaves, InToken
  <2>7. PICK u : u = b \o o
    OBVIOUS
  <2>8. u \in Seq(C)
    BY <2>1, <2>7
  <2>9. u \o <<>> = u
    BY <2>8, JoinNone
  <2>10. TokenAt(C, page, f, j, u, t, <<>>)
    BY <1>2, <2>2, <2>7, <2>9 DEF TokenAt
  <2>11. b \o Leaves(s).sent = u
    BY <2>4, <2>5, <2>6, <2>7
  <2> QED
    BY <2>6, <2>8, <2>10, <2>11 DEF KeptAt
<1> QED
  BY <1>1, <1>2 DEF StandsAt

LEMMA PieceIs ==
  ASSUME NEW C, Mark \in C, NEW page \in Seq(C), NEW value, NEW grow \in Nat,
         Valued(C, value, page, grow), NEW f, IsExpansion(C, value, page, f), TokensFit(page),
         NEW j \in 0 .. Len(page), NEW m \in Nat, j + m <= Len(page),
         NEW piece, piece = SubSeq(page, j + 1, j + m),
         m + Cardinality(Marks(piece)) * grow <= MAX_SENDBUFF_LEN,
         NEW b, NEW kept, KeptAt(C, page, f, j, b, kept)
  PROVE  KeptAt(C, page, f, j + m, b \o Piece(value, kept, piece).sent, Piece(value, kept, piece))
<1>1. j \in Nat /\ Len(page) \in Nat /\ 1 <= j + 1 /\ j + 1 \in Nat /\ j + m \in Nat /\ j + 1 <= j + m + 1
  OBVIOUS
<1>2. piece \in Seq(C) /\ Len(piece) = m /\ \A i \in 1 .. m : piece[i] = page[j + i]
  <2>1. SubSeq(page, j + 1, j + m) \in Seq(C) /\ Len(SubSeq(page, j + 1, j + m)) = (j + m) + 1 - (j + 1)
    BY <1>1, SliceAny
  <2>2. CASE m = 0
    BY <2>1, <2>2, <1>1
  <2>3. CASE m # 0
    <3> DEFINE a == j + 1
               e == j + m
    <3>1. a \in Nat /\ e \in Nat /\ 1 <= a /\ a <= e /\ e <= Len(page)
      BY <1>1, <2>3
    <3>2. (e - a) + 1 = m /\ \A i \in 1 .. m : (a + i) - 1 = j + i
      BY <1>1
    <3>3. piece = SubSeq(page, a, e)
      OBVIOUS
    <3> HIDE DEF a, e
    <3>4. Len(SubSeq(page, a, e)) = e - a + 1 /\ SubSeq(page, a, e) \in Seq(C)
      BY <3>1, Slice
    <3>5. \A i \in 1 .. (e - a + 1) : SubSeq(page, a, e)[i] = page[a + i - 1]
      BY <3>1, Slice
    <3>6. ASSUME NEW i \in 1 .. m PROVE piece[i] = page[j + i]
      BY <3>2, <3>3, <3>5
    <3> QED
      BY <3>2, <3>3, <3>4, <3>6
  <2> QED
    BY <2>2, <2>3
<1>3. PICK after : ScannedBy(value, Fresh(kept), piece, after)
                   /\ Piece(value, kept, piece) = Leaves(after[Len(piece)])
  BY <1>2, PieceUnfolds
<1>4. b \in Seq(C)
  BY DEF KeptAt
<1>5. ASSUME NEW i \in 0 .. m
      PROVE  Spend(piece, grow, i) \in Nat /\ Spend(piece, grow, i) <= MAX_SENDBUFF_LEN
  <2> DEFINE x == Spend(piece, grow, i)
             y == Cardinality(Marks(piece)) * grow
  <2>1. x \in Nat /\ x <= m + y
    BY <1>2, SpendRises
  <2>2. m + y <= MAX_SENDBUFF_LEN /\ MAX_SENDBUFF_LEN \in Nat
    BY TemplateAssumption
  <2>3. y \in Nat
    <3>1. Cardinality(Marks(piece)) \in Nat
      BY <1>2, MarksFinite, BeforeNone
    <3> DEFINE z == Cardinality(Marks(piece))
    <3> HIDE DEF z
    <3>2. z \in Nat => z * grow \in Nat
      OBVIOUS
    <3> QED
      BY <3>1, <3>2 DEF z
  <2> HIDE DEF x, y
  <2>4. x <= MAX_SENDBUFF_LEN
    BY <2>1, <2>2, <2>3
  <2> QED
    BY <2>1, <2>4 DEF x
<1> DEFINE D == {i \in Nat : i <= m => StandsAt(C, page, f, j + i, b, Spend(piece, grow, i), after[i])}
<1>6. 0 \in D
  <2>1. Before(piece, 0) = 0
    BY <1>2, BeforeNone
  <2>2. Spend(piece, grow, 0) = 0 /\ j + 0 = j
    BY <2>1 DEF Spend
  <2>3. after[0] = Fresh(kept)
    BY <1>3 DEF ScannedBy
  <2>4. StandsAt(C, page, f, j, b, 0, Fresh(kept))
    BY PieceBegins
  <2> QED
    BY <2>2, <2>3, <2>4
<1>7. ASSUME NEW i \in Nat, i \in D PROVE i + 1 \in D
  <2> SUFFICES ASSUME i + 1 <= m
               PROVE  StandsAt(C, page, f, j + (i + 1), b, Spend(piece, grow, i + 1), after[i + 1])
    OBVIOUS
  <2>1. i <= m /\ i + 1 \in 1 .. m /\ (i + 1) - 1 = i /\ j + i \in 0 .. Len(page) /\ j + i < Len(page)
        /\ (j + i) + 1 = j + (i + 1) /\ i \in 0 .. m /\ i + 1 \in 0 .. m
    BY <1>1
  <2>9. i + 1 <= Len(piece) /\ i + 1 \in 1 .. Len(piece)
    BY <1>2, <2>1
  <2>10. piece \in Seq(C)
    BY <1>2
  <2>2. StandsAt(C, page, f, j + i, b, Spend(piece, grow, i), after[i])
    BY <1>7, <2>1
  <2>3. piece[i + 1] = page[(j + i) + 1]
    BY <1>2, <2>1
  <2>4. after[i + 1] = Scan(value, after[i], page[(j + i) + 1])
    <3>1. after[i + 1] = Scan(value, after[(i + 1) - 1], piece[i + 1])
      BY <1>3, <2>9 DEF ScannedBy
    <3> QED
      BY <2>1, <2>3, <3>1
  <2> DEFINE x == Spend(piece, grow, i)
             y == Spend(piece, grow, i + 1)
             z == j + i
  <2>5. x \in Nat /\ y \in Nat /\ y <= MAX_SENDBUFF_LEN
    BY <1>5, <2>1
  <2>11. /\ piece[i + 1] = Mark => Spend(piece, grow, i + 1) = Spend(piece, grow, i) + (1 + grow)
         /\ piece[i + 1] # Mark => Spend(piece, grow, i + 1) = Spend(piece, grow, i) + 1
    BY <2>9, <2>10, SpendNext
  <2>6. (page[z + 1] = Mark => y = x + (1 + grow)) /\ (page[z + 1] # Mark => y = x + 1)
    BY <2>3, <2>11
  <2>7. z \in 0 .. Len(page) /\ z < Len(page) /\ StandsAt(C, page, f, z, b, x, after[i])
    BY <2>1, <2>2
  <2> HIDE DEF x, y, z
  <2>8. StandsAt(C, page, f, z + 1, b, y, Scan(value, after[i], page[z + 1]))
    BY <1>4, <2>5, <2>6, <2>7, StandsNext
  <2> QED
    BY <2>1, <2>4, <2>8 DEF y, z
<1> HIDE DEF D
<1>8. m \in D
  BY <1>6, <1>7, Induction
<1>9. StandsAt(C, page, f, j + m, b, Spend(piece, grow, m), after[m])
  BY <1>8 DEF D
<1>10. m \in 0 .. m
  OBVIOUS
<1>11. Spend(piece, grow, m) \in Nat /\ Spend(piece, grow, m) <= MAX_SENDBUFF_LEN
  BY <1>5, <1>10
<1>12. KeptAt(C, page, f, j + m, b \o Leaves(after[m]).sent, Leaves(after[m]))
  BY <1>4, <1>9, <1>11, PieceEnds
<1> QED
  BY <1>2, <1>3, <1>12

(* The calls, one per piece. *)

Quiet == [inToken |-> FALSE, token |-> <<>>, sent |-> <<>>]
PieceAt(page, n) == SubSeq(page, (n - 1) * BLOCK + 1, Min({n * BLOCK, Len(page)}))
CallAfter(value, page, before, n) ==
  LET p == Piece(value, before, PieceAt(page, n)) IN [p EXCEPT !.sent = before.sent \o @]

IsCalls(value, page, f) ==
  f = [n \in Nat |-> IF n = 0 THEN Quiet ELSE CallAfter(value, page, f[n - 1], n)]

LEMMA CallsExist ==
  ASSUME NEW value, NEW page
  PROVE  \E f : IsCalls(value, page, f)
<1> DEFINE Next1(x, n) == CallAfter(value, page, x, n)
           Good(h, n)  == /\ h = [i \in 0 .. n |-> h[i]] /\ h[0] = Quiet
                          /\ \A i \in 1 .. n : h[i] = Next1(h[i - 1], i)
           D == {n \in Nat : \E h : Good(h, n)}
<1>1. 0 \in D
  <2> DEFINE h == [i \in 0 .. 0 |-> Quiet]
  <2>1. h = [i \in 0 .. 0 |-> h[i]] /\ h[0] = Quiet
    OBVIOUS
  <2>2. 1 .. 0 = {}
    OBVIOUS
  <2> HIDE DEF h
  <2>3. Good(h, 0)
    BY <2>1, <2>2
  <2> HIDE DEF Good
  <2> QED
    BY <2>3
<1>2. ASSUME NEW n \in Nat, n \in D PROVE n + 1 \in D
  <2>1. PICK h : Good(h, n)
    BY <1>2
  <2> HIDE DEF Next1
  <2> DEFINE g == [i \in 0 .. (n + 1) |-> IF i <= n THEN h[i] ELSE Next1(h[n], n + 1)]
  <2>2. g = [i \in 0 .. (n + 1) |-> g[i]]
    OBVIOUS
  <2>3. g[n + 1] = Next1(h[n], n + 1) /\ \A i \in 0 .. n : g[i] = h[i]
    OBVIOUS
  <2> HIDE DEF g
  <2>4. g[0] = Quiet
    BY <2>1, <2>3
  <2>5. ASSUME NEW i \in 1 .. (n + 1) PROVE g[i] = Next1(g[i - 1], i)
    <3>1. CASE i <= n
      <4>1. i \in 1 .. n /\ i \in 0 .. n /\ i - 1 \in 0 .. n
        BY <3>1
      <4>2. h[i] = Next1(h[i - 1], i)
        BY <2>1, <4>1
      <4> QED
        BY <2>3, <4>1, <4>2
    <3>2. CASE ~(i <= n)
      <4>1. i = n + 1 /\ i - 1 = n /\ n \in 0 .. n
        BY <3>2
      <4> QED
        BY <2>3, <4>1
    <3> QED
      BY <3>1, <3>2
  <2>6. Good(g, n + 1)
    BY <2>2, <2>4, <2>5
  <2> HIDE DEF Good
  <2> QED
    BY <2>6
<1> HIDE DEF Next1
<1>3. ASSUME NEW n \in Nat PROVE \E h : Good(h, n)
  <2> HIDE DEF D
  <2>1. Nat \subseteq D
    BY <1>1, <1>2, Induction
  <2> QED
    BY <2>1 DEF D
<1>4. ASSUME NEW n \in Nat, NEW h, NEW g, Good(h, n), Good(g, n + 1) PROVE h[n] = g[n]
  <2> DEFINE E == {i \in Nat : i <= n => h[i] = g[i]}
  <2>1. 0 \in E
    BY <1>4
  <2>2. ASSUME NEW i \in Nat, i \in E PROVE i + 1 \in E
    <3> SUFFICES ASSUME i + 1 <= n PROVE h[i + 1] = g[i + 1]
      OBVIOUS
    <3>1. i <= n /\ i + 1 \in 1 .. n /\ i + 1 \in 1 .. (n + 1) /\ (i + 1) - 1 = i
      OBVIOUS
    <3>2. h[i + 1] = Next1(h[(i + 1) - 1], i + 1)
      BY <1>4, <3>1
    <3>3. g[i + 1] = Next1(g[(i + 1) - 1], i + 1)
      BY <1>4, <3>1
    <3>4. h[i] = g[i]
      BY <2>2, <3>1
    <3> QED
      BY <3>1, <3>2, <3>3, <3>4
  <2> HIDE DEF E
  <2>3. n \in E
    BY <2>1, <2>2, Induction
  <2> QED
    BY <2>3 DEF E
<1> DEFINE H(n) == CHOOSE h : Good(h, n)
<1>5. ASSUME NEW n \in Nat PROVE Good(H(n), n)
  <2>1. \E h : Good(h, n)
    BY <1>3
  <2> HIDE DEF Good
  <2> QED
    BY <2>1
<1> HIDE DEF H
<1> DEFINE f == [n \in Nat |-> H(n)[n]]
<1>6. \A n \in Nat : f[n] = H(n)[n]
  OBVIOUS
<1>7. ASSUME NEW n \in Nat
      PROVE  f[n] = IF n = 0 THEN Quiet ELSE Next1(f[n - 1], n)
  <2>1. CASE n = 0
    <3>1. H(0)[0] = Quiet
      BY <1>5
    <3> QED
      BY <1>6, <2>1, <3>1
  <2>2. CASE n # 0
    <3>1. n - 1 \in Nat /\ (n - 1) + 1 = n /\ n \in 1 .. n
      BY <2>2
    <3>2. H(n)[n] = Next1(H(n)[n - 1], n)
      BY <1>5, <3>1
    <3>3. Good(H(n - 1), n - 1) /\ Good(H(n), (n - 1) + 1)
      <4>1. Good(H(n - 1), n - 1)
        BY <1>5, <3>1
      <4>2. Good(H(n), n)
        BY <1>5
      <4> HIDE DEF Good
      <4> QED
        BY <3>1, <4>1, <4>2
    <3>4. H(n - 1)[n - 1] = H(n)[n - 1]
      <4> HIDE DEF Good
      <4> QED
        BY <1>4, <3>1, <3>3
    <3>5. f[n] = H(n)[n] /\ f[n - 1] = H(n - 1)[n - 1]
      BY <1>6, <3>1
    <3> HIDE DEF f
    <3> QED
      BY <2>2, <3>2, <3>4, <3>5
  <2> HIDE DEF f
  <2> QED
    BY <2>1, <2>2
<1>8. f = [n \in Nat |-> f[n]]
  OBVIOUS
<1> HIDE DEF f
<1>9. f = [n \in Nat |-> IF n = 0 THEN Quiet ELSE Next1(f[n - 1], n)]
  <2>1. [n \in Nat |-> f[n]] = [n \in Nat |-> IF n = 0 THEN Quiet ELSE Next1(f[n - 1], n)]
    BY <1>7
  <2> QED
    BY <1>8, <2>1
<1> QED
  BY <1>9 DEF IsCalls, Next1

LEMMA PageUnfolds ==
  ASSUME NEW value, NEW page
  PROVE  \E f : /\ f[0] = Quiet /\ \A n \in Nat : f[n + 1] = CallAfter(value, page, f[n], n + 1)
                /\ PageSent(value, page) = f[Len(page) \div BLOCK + 1].sent
<1> DEFINE f == CHOOSE g : g = [n \in Nat |-> IF n = 0 THEN Quiet ELSE CallAfter(value, page, g[n - 1], n)]
<1>1. IsCalls(value, page, f)
  BY CallsExist DEF IsCalls
<1>2. PageSent(value, page) = f[Len(page) \div BLOCK + 1].sent
  BY DEF PageSent, CallAfter, Quiet, PieceAt
<1> HIDE DEF f
<1>3. f[0] = Quiet
  BY <1>1 DEF IsCalls
<1>4. ASSUME NEW n \in Nat PROVE f[n + 1] = CallAfter(value, page, f[n], n + 1)
  <2>1. n + 1 \in Nat /\ n + 1 # 0 /\ (n + 1) - 1 = n
    OBVIOUS
  <2>2. f[n + 1] = CallAfter(value, page, f[(n + 1) - 1], n + 1)
    BY <1>1, <2>1 DEF IsCalls
  <2> QED
    BY <2>1, <2>2
<1> QED
  BY <1>2, <1>3, <1>4

\* What every piece may come to.
PiecesFit(page, grow) ==
  \A n \in 0 .. (Len(page) \div BLOCK) :
    LET piece == SubSeq(page, n * BLOCK + 1, Min({(n + 1) * BLOCK, Len(page)})) IN
    Len(piece) + Cardinality(Marks(piece)) * grow <= MAX_SENDBUFF_LEN

LEMMA MinOfTwo ==
  ASSUME NEW a \in Nat, NEW b \in Nat
  PROVE  Min({a, b}) = IF a <= b THEN a ELSE b
<1>1. a <= b => Min({a, b}) = a
  BY SmallerOfTwo
<1>2. b <= a => Min({a, b}) = b
  BY SmallerOfTwo
<1> QED
  BY <1>1, <1>2

LEMMA Multiples ==
  ASSUME NEW c \in Nat \ {0}, NEW l \in Nat, NEW n \in Nat, n <= l \div c
  PROVE  /\ n * c \in Nat /\ n * c <= l /\ (n + 1) * c = n * c + c
         /\ (l \div c + 1) * c > l /\ l \div c \in Nat
<1>1. PICK q \in Int : q = l \div c
  OBVIOUS
<1>2. l % c = l - c * q /\ l % c \in 0 .. (c - 1)
  BY <1>1, Division
<1>3. q >= 0
  BY <1>1
<1>4. PICK d \in Nat : q = n + d
  <2>1. q - n \in Nat /\ q = n + (q - n)
    BY <1>1, <1>3
  <2> QED
    BY <2>1
<1>5. c * q = c * n + c * d
  BY <1>4
<1>6. c * d >= 0 /\ c * n = n * c /\ n * c \in Nat /\ (n + 1) * c = n * c + c
  OBVIOUS
<1>7. n * c <= l
  BY <1>2, <1>5, <1>6
<1>8. (q + 1) * c = c * q + c
  OBVIOUS
<1>9. (q + 1) * c > l
  BY <1>2, <1>8
<1> QED
  BY <1>1, <1>3, <1>6, <1>7, <1>9

\* cgiEspFsTemplate sends the page with every token replaced, wherever the
\* pieces it is read in cut it: for any page, tokens and values, as long as what
\* a piece turns into fits the send buffer and tokens fit the token buffer.
THEOREM PageIsWhole ==
  ASSUME NEW C, Mark \in C, NEW page \in Seq(C), NEW value, NEW grow \in Nat,
         Valued(C, value, page, grow), TokensFit(page), PiecesFit(page, grow)
  PROVE  PageSent(value, page) = Expand(value, page)
<1> DEFINE l == Len(page)
           q == l \div BLOCK
           n1 == Cardinality(Marks(page)) + 1
           End(n) == IF n * BLOCK <= l THEN n * BLOCK ELSE l
<1>1. BLOCK \in Nat \ {0} /\ l \in Nat
  BY TemplateAssumption
<1>2. PICK f : IsExpansion(C, value, page, f)
  BY ExpandUnfolds
<1>3. PICK calls : /\ calls[0] = Quiet
                   /\ \A n \in Nat : calls[n + 1] = CallAfter(value, page, calls[n], n + 1)
                   /\ PageSent(value, page) = calls[q + 1].sent
  BY PageUnfolds
<1>4. 0 <= q /\ q \in Nat /\ (q + 1) * BLOCK > l
  <2>1. q \in Int /\ 0 <= q
    BY <1>1
  <2>2. q \in Nat /\ q <= l \div BLOCK
    BY <2>1
  <2> HIDE DEF q
  <2>3. (l \div BLOCK + 1) * BLOCK > l
    BY <1>1, <2>2, Multiples
  <2> QED
    BY <2>1, <2>2, <2>3 DEF q
<1> DEFINE D == {n \in Nat : n <= q + 1 => KeptAt(C, page, f, End(n), calls[n].sent, calls[n])}
<1>5. 0 \in D
  <2>1. Place(page, 0) = 1 /\ Cur(page, 0) = <<>>
    BY CurEnds
  <2>2. <<>> \in Seq(C) /\ <<>> \o (<<>> \o <<>>) = <<>> /\ <<>> \o <<>> = <<>>
    OBVIOUS
  <2>3. Done(f, 1) = <<>> /\ 1 % 2 = 1
    BY DEF Done
  <2>4. TextAt(C, page, f, 0, <<>>, <<>>, <<>>, <<>>)
    BY <2>1, <2>2, <2>3 DEF TextAt
  <2>5. KeptAt(C, page, f, 0, Quiet.sent, Quiet)
    BY <2>2, <2>4 DEF KeptAt, Quiet
  <2>6. End(0) = 0
    BY <1>1
  <2> QED
    BY <1>3, <2>5, <2>6
<1>6. ASSUME NEW n \in Nat, n \in D PROVE n + 1 \in D
  <2> SUFFICES ASSUME n + 1 <= q + 1
               PROVE  KeptAt(C, page, f, End(n + 1), calls[n + 1].sent, calls[n + 1])
    OBVIOUS
  <2>1. n <= q /\ n <= q + 1
    BY <1>4
  <2>2. n * BLOCK \in Nat /\ n * BLOCK <= l /\ (n + 1) * BLOCK = n * BLOCK + BLOCK
    BY <1>1, <2>1, Multiples
  <2> DEFINE j == n * BLOCK
             e == End(n + 1)
             m == e - j
             piece == PieceAt(page, n + 1)
             kept == calls[n]
             b == kept.sent
  <2>3. End(n) = j /\ j \in 0 .. l
    BY <1>1, <2>2
  <2>4. KeptAt(C, page, f, j, b, kept)
    BY <1>6, <2>1, <2>3
  <2>5. (n + 1) * BLOCK \in Nat /\ j + BLOCK = (n + 1) * BLOCK
    BY <1>1, <2>2
  <2>6. e = Min({(n + 1) * BLOCK, l})
    <3>1. Min({(n + 1) * BLOCK, l}) = IF (n + 1) * BLOCK <= l THEN (n + 1) * BLOCK ELSE l
      BY <1>1, <2>5, MinOfTwo
    <3> QED
      BY <3>1
  <2>7. m \in Nat /\ j + m = e /\ j + m <= l
    BY <1>1, <2>2, <2>5
  <2>8. piece = SubSeq(page, j + 1, j + m)
    <3>1. (n + 1) - 1 = n
      OBVIOUS
    <3> HIDE DEF e
    <3> QED
      BY <2>6, <2>7, <3>1 DEF PieceAt
  <2>9. m + Cardinality(Marks(piece)) * grow <= MAX_SENDBUFF_LEN
    <3>1. n \in 0 .. q
      BY <1>4, <2>1
    <3>2. piece = SubSeq(page, n * BLOCK + 1, Min({(n + 1) * BLOCK, l}))
      <4>1. (n + 1) - 1 = n
        OBVIOUS
      <4> QED
        BY <4>1 DEF PieceAt
    <3>3. Len(piece) + Cardinality(Marks(piece)) * grow <= MAX_SENDBUFF_LEN
      BY <3>1, <3>2 DEF PiecesFit
    <3>4. Len(piece) = m
      <4>1. j + 1 \in Nat /\ j + m \in Nat /\ 1 <= j + 1 /\ j + 1 <= (j + m) + 1 /\ j + m <= Len(page)
            /\ (j + m) + 1 - (j + 1) = m
        BY <2>2, <2>7
      <4> HIDE DEF j, m, piece
      <4>2. Len(SubSeq(page, j + 1, j + m)) = (j + m) + 1 - (j + 1)
        BY <4>1, SliceAny
      <4> QED
        BY <2>8, <4>1, <4>2
    <3> QED
      BY <3>3, <3>4
  <2> HIDE DEF j, e, m, piece, kept, End
  <2>10. KeptAt(C, page, f, j + m, b \o Piece(value, kept, piece).sent, Piece(value, kept, piece))
    BY <1>2, <2>3, <2>4, <2>7, <2>8, <2>9, PieceIs
  <2> DEFINE p == Piece(value, kept, piece)
  <2>11. PICK end : p = Leaves(end)
    <3>1. j + 1 \in Nat /\ 1 <= j + 1 /\ j + m \in Nat /\ j + 1 <= (j + m) + 1 /\ j + m <= Len(page)
      BY <1>1, <2>3, <2>7
    <3>2. piece \in Seq(C)
      BY <2>8, <3>1, SliceAny
    <3> QED
      BY <3>2, PieceUnfolds
  <2> HIDE DEF p
  <2>12. calls[n + 1] = [p EXCEPT !.sent = b \o @]
    BY <1>3 DEF CallAfter, p, piece, kept
  <2>13. /\ calls[n + 1].sent = b \o p.sent /\ calls[n + 1].inToken = p.inToken
         /\ calls[n + 1].token = p.token
    BY <2>11, <2>12 DEF Leaves
  <2>14. KeptAt(C, page, f, j + m, b \o p.sent, p)
    BY <2>10 DEF p
  <2>15. KeptAt(C, page, f, e, calls[n + 1].sent, calls[n + 1])
    BY <2>7, <2>13, <2>14 DEF KeptAt
  <2> QED
    BY <2>15 DEF e
<1> HIDE DEF D
<1>7. q + 1 \in Nat /\ q + 1 \in D
  <2>1. Nat \subseteq D
    BY <1>5, <1>6, Induction
  <2> QED
    BY <1>4, <2>1
<1>8. End(q + 1) = l
  BY <1>1, <1>4
<1> HIDE DEF End
<1>9. KeptAt(C, page, f, l, calls[q + 1].sent, calls[q + 1])
  BY <1>7, <1>8 DEF D
<1>10. Place(page, l) = n1 /\ Cur(page, l) = Stretch(page, n1)
  BY CurEnds
<1>11. n1 \in Nat /\ n1 \in 1 .. n1 /\ n1 >= 1
  BY MarksFinite, BeforeNone
<1>12. Expand(value, page) = f[n1] /\ f[n1] = Done(f, n1) \o Expansion(value, page, n1)
  BY <1>2, <1>11 DEF IsExpansion
<1>13. Done(f, n1) \in Seq(C)
  BY <1>2, <1>11 DEF IsExpansion
<1> DEFINE sent == calls[q + 1].sent
<1> HIDE DEF l, q, n1
<1>14. sent \in Seq(C)
  BY <1>9 DEF KeptAt
<1>15. CASE n1 % 2 = 1
  <2>1. Expansion(value, page, n1) = Cur(page, l)
    BY <1>10, <1>15 DEF Expansion
  <2>2. sent \o (<<>> \o <<>>) = Done(f, n1) \o Cur(page, l)
    BY <1>9, <1>10, <1>15 DEF KeptAt, TextAt, TokenAt
  <2>3. sent \o (<<>> \o <<>>) = sent
    BY <1>14, JoinNone
  <2> QED
    BY <1>3, <1>12, <2>1, <2>2, <2>3
<1>16. CASE n1 % 2 = 0
  <2>1. Expansion(value, page, n1) = <<>>
    BY <1>16 DEF Expansion, n1
  <2>2. sent \o <<>> = Done(f, n1)
    BY <1>9, <1>10, <1>16 DEF KeptAt, TextAt, TokenAt
  <2>3. sent \o <<>> = sent
    BY <1>14, JoinNone
  <2>4. Done(f, n1) \o <<>> = Done(f, n1)
    BY <1>13, JoinNone
  <2> QED
    BY <1>3, <1>12, <2>1, <2>2, <2>3, <2>4
<1> QED
  BY <1>11, <1>15, <1>16, Parity

\* No mark stands in a stretch.
LEMMA StretchPlain ==
  ASSUME NEW C, NEW page \in Seq(C), NEW k \in 1 .. Cardinality(Marks(page))
  PROVE  /\ Len(Stretch(page, k)) \in 0 .. Len(page)
         /\ \A i \in 1 .. Len(Stretch(page, k)) :
              Stretch(page, k)[i] \in C /\ Stretch(page, k)[i] # Mark
<1> DEFINE m == MarkAt(page, k)
           j == m - 1
<1>1. m \in Marks(page) /\ Before(page, m) = k /\ m \in 1 .. Len(page)
  BY KthMark
<1> HIDE DEF m
<1>2. j \in 0 .. Len(page) /\ j < Len(page) /\ j + 1 = m /\ Len(page) \in Nat
  BY <1>1
<1>3. page[m] = Mark
  BY <1>1 DEF Marks
<1>4. Cur(page, j) = Stretch(page, Place(page, j)) /\ Place(page, j + 1) = Place(page, j) + 1
  BY <1>2, <1>3, CurMark
<1>0. ASSUME NEW i PROVE Before(page, i) \in Nat
  BY MarksFinite
<1>5. Place(page, j) = k /\ Before(page, j) = k - 1
  <2>1. Before(page, j + 1) = k
    BY <1>1, <1>2
  <2>2. Before(page, j) \in Nat
    BY <1>0
  <2> QED
    BY <1>4, <2>1, <2>2 DEF Place
<1> DEFINE a == From(page, k)
<1>6. a \in 1 .. (j + 1)
  BY <1>2, <1>5, Places
<1>7. Stretch(page, k) = SubSeq(page, a, j)
  BY <1>4, <1>5 DEF Cur
<1>8. k > 1 => a = MarkAt(page, k - 1) + 1 /\ Before(page, MarkAt(page, k - 1)) = k - 1
               /\ MarkAt(page, k - 1) \in 1 .. Len(page)
  <2> SUFFICES ASSUME k > 1 PROVE a = MarkAt(page, k - 1) + 1 /\ Before(page, MarkAt(page, k - 1)) = k - 1
                                  /\ MarkAt(page, k - 1) \in 1 .. Len(page)
    OBVIOUS
  <2>1. Cardinality(Marks(page)) \in Nat
    BY MarksFinite, BeforeNone
  <2>2. k - 1 \in 1 .. Cardinality(Marks(page))
    BY <2>1
  <2> QED
    BY <2>2, KthMark DEF From
<1>9. ASSUME NEW p \in a .. j PROVE page[p] # Mark
  <2> SUFFICES ASSUME page[p] = Mark PROVE FALSE
    OBVIOUS
  <2>1. p \in 1 .. Len(page) /\ p - 1 \in Nat /\ (p - 1) + 1 = p /\ p <= Len(page)
        /\ p - 1 \in 0 .. Len(page) /\ p \in 0 .. Len(page) /\ p <= j
    BY <1>2, <1>6
  <2>2. Before(page, p) = Before(page, p - 1) + 1
    BY <2>1, BeforeNext
  <2>3. Before(page, p) <= Before(page, j)
    BY <1>2, <2>1, BeforeRises
  <2>4. Before(page, p) \in Nat /\ Before(page, p - 1) \in Nat
    BY <1>0
  <2>5. Before(page, p - 1) >= k - 1
    <3>1. CASE k = 1
      BY <2>4, <3>1
    <3>2. CASE k # 1
      <4>1. k > 1
        BY <3>2
      <4>2. MarkAt(page, k - 1) <= p - 1 /\ MarkAt(page, k - 1) \in 0 .. Len(page)
        <5> DEFINE x == MarkAt(page, k - 1)
        <5>1. a = x + 1 /\ x \in 1 .. Len(page)
          BY <1>8, <4>1
        <5> HIDE DEF x, a
        <5>2. p \in Nat /\ a <= p
          BY <1>6, <2>1
        <5>3. x <= p - 1 /\ x \in 0 .. Len(page)
          BY <5>1, <5>2
        <5> QED
          BY <5>3 DEF x
      <4>3. Before(page, MarkAt(page, k - 1)) <= Before(page, p - 1)
        BY <2>1, <4>2, BeforeRises
      <4> QED
        BY <1>8, <2>4, <4>1, <4>3
    <3> QED
      BY <3>1, <3>2
  <2> QED
    BY <1>5, <2>2, <2>3, <2>4, <2>5
<1> HIDE DEF a, j
<1>10. a \in Nat /\ j \in Nat /\ 1 <= a /\ a <= j + 1 /\ j + 1 <= Len(page)
  BY <1>2, <1>6
<1>11. /\ Len(SubSeq(page, a, j)) = j + 1 - a
       /\ \A i \in 1 .. (j + 1 - a) : SubSeq(page, a, j)[i] = page[a + i - 1]
  BY <1>10, SliceGrows
<1>12. j + 1 - a \in 0 .. Len(page)
  BY <1>2, <1>10
<1>13. ASSUME NEW i \in 1 .. (j + 1 - a) PROVE page[a + i - 1] \in C /\ page[a + i - 1] # Mark
  <2>1. a + i - 1 \in a .. j /\ a + i - 1 \in 1 .. Len(page)
    BY <1>10
  <2> QED
    BY <1>9, <2>1
<1> QED
  BY <1>7, <1>11, <1>12, <1>13

\* PageWhole holds of every input that is chosen.
THEOREM PageTheorem == Spec => []PageWhole
<1>1. Chosen => PageWhole
  <2> SUFFICES ASSUME Chosen, input.kind = "page", Fits(input.page)
               PROVE  PageSent(Values, input.page) = Expand(Values, input.page)
    BY DEF PageWhole
  <2> DEFINE C == {"x", "%", "v"}
             page == input.page
             grow == input.grow
  <2>1. input \in PagesIn
    BY DEF Chosen
  <2>2. page \in Texts({"x", "%"}, 7) /\ grow \in Nat
    BY <2>1 DEF PagesIn
  <2>3. page \in Seq({"x", "%"}) /\ Len(page) \in 0 .. 7
    <3>1. PICK n \in 0 .. 7 : page \in [1 .. n -> {"x", "%"}]
      BY <2>2 DEF Texts
    <3> DEFINE X == {"x", "%"}
    <3>2. page \in [1 .. n -> X] /\ n \in Nat
      BY <3>1
    <3> HIDE DEF page, X
    <3>3. page \in Seq(X) /\ Len(page) = n
      BY <3>2
    <3> QED
      BY <3>3 DEF X
  <2> HIDE DEF page
  <2>4. page \in Seq(C) /\ Mark \in C
    BY <2>3 DEF Mark
  <2>5. TokensFit(page) /\ PiecesFit(page, grow)
    BY DEF Fits, TokensFit, PiecesFit, page
  <2>6. ASSUME NEW k \in 1 .. Cardinality(Marks(page))
        PROVE  Values[Stretch(page, k)] \in Seq(C) /\ Len(Values[Stretch(page, k)]) <= grow
    <3> DEFINE t == Stretch(page, k)
    <3>1. t \in Seq({"x", "%"})
      <4>1. Cardinality(Marks(page)) \in Nat
        BY <2>3, MarksFinite, BeforeNone
      <4>2. k \in 1 .. (Cardinality(Marks(page)) + 1)
        BY <4>1
      <4> QED
        BY <2>3, <4>2, StretchType
    <3>2. /\ Len(t) \in 0 .. Len(page)
          /\ \A i \in 1 .. Len(t) : t[i] \in {"x", "%"} /\ t[i] # Mark
      BY <2>3, StretchPlain
    <3> HIDE DEF t
    <3>7. Len(t) \in 0 .. 7
      <4>1. Len(t) \in 0 .. Len(page)
        BY <3>2
      <4>2. Len(page) \in 0 .. 7
        BY <2>3
      <4>3. \A b \in 0 .. 7 : \A a \in 0 .. b : a \in 0 .. 7
        OBVIOUS
      <4> QED
        BY <4>1, <4>2, <4>3
    <3>8. \A i \in 1 .. Len(t) : t[i] = "x"
      BY <3>2 DEF Mark
    <3>9. t = [i \in 1 .. Len(t) |-> t[i]]
      BY <3>1
    <3>3. t \in [1 .. Len(t) -> {"x"}] /\ Len(t) \in 0 .. 7
      BY <3>7, <3>8, <3>9
    <3>4. t \in Texts({"x"}, 7)
      BY <3>3 DEF Texts
    <3> DEFINE v == [i \in 1 .. grow |-> "v"]
    <3>5. Values[t] = v
      BY <3>4 DEF Values
    <3>6. v \in Seq(C) /\ Len(v) = grow
      BY <2>2
    <3> QED
      BY <2>2, <3>5, <3>6 DEF t
  <2>7. Valued(C, Values, page, grow)
    BY <2>6 DEF Valued
  <2> HIDE DEF C, grow
  <2>8. grow \in Nat
    BY <2>2 DEF grow
  <2>9. PageSent(Values, page) = Expand(Values, page)
    BY <2>4, <2>5, <2>7, <2>8, PageIsWhole
  <2> QED
    BY <2>9 DEF page
<1> QED
  BY <1>1, ChosenHolds, PTL
-----------------------------------------------------------------------------
(* Files: stretches of a text. *)

\* The characters i + 1 to j.
Between(text, i, j) == [k \in 1 .. (j - i) |-> text[i + k]]

LEMMA BetweenType ==
  ASSUME NEW A, NEW text \in Seq(A), NEW i \in Nat, NEW j \in Nat, i <= j, j <= Len(text)
  PROVE  /\ Between(text, i, j) \in Seq(A) /\ Len(Between(text, i, j)) = j - i
         /\ \A k \in 1 .. (j - i) : Between(text, i, j)[k] = text[i + k]
<1>1. j - i \in Nat /\ Len(text) \in Nat
  OBVIOUS
<1>2. \A k \in 1 .. (j - i) : text[i + k] \in A
  <2> SUFFICES ASSUME NEW k \in 1 .. (j - i) PROVE text[i + k] \in A
    OBVIOUS
  <2>1. i + k \in 1 .. Len(text)
    BY <1>1
  <2> QED
    BY <2>1
<1> QED
  BY <1>1, <1>2 DEF Between

LEMMA SameCells ==
  ASSUME NEW A, NEW s \in Seq(A), NEW t \in Seq(A), Len(s) = Len(t),
         \A k \in 1 .. Len(s) : s[k] = t[k]
  PROVE  s = t
OBVIOUS

LEMMA BetweenNone ==
  ASSUME NEW text, NEW i \in Nat
  PROVE  Between(text, i, i) = <<>>
BY DEF Between

LEMMA BetweenAll ==
  ASSUME NEW A, NEW text \in Seq(A)
  PROVE  Between(text, 0, Len(text)) = text
<1>1. Len(text) \in Nat
  OBVIOUS
<1> DEFINE t == Between(text, 0, Len(text))
<1>2. 0 \in Nat /\ 0 <= Len(text) /\ Len(text) <= Len(text)
  BY <1>1
<1>3. /\ t \in Seq(A) /\ Len(t) = Len(text) - 0
      /\ \A k \in 1 .. (Len(text) - 0) : t[k] = text[0 + k]
  BY <1>1, <1>2, BetweenType
<1> HIDE DEF t
<1>4. t \in Seq(A) /\ Len(t) = Len(text)
  BY <1>1, <1>3
<1>5. \A k \in 1 .. Len(text) : t[k] = text[k]
  BY <1>1, <1>3
<1>6. t = text
  BY <1>4, <1>5, SameCells
<1> QED
  BY <1>6 DEF t

\* A slice, as the model writes it.
LEMMA SliceIsBetween ==
  ASSUME NEW A, NEW text \in Seq(A), NEW i \in Nat, NEW j \in Nat, i <= j, j <= Len(text)
  PROVE  SubSeq(text, i + 1, j) = Between(text, i, j)
<1>1. Between(text, i, j) \in Seq(A) /\ Len(Between(text, i, j)) = j - i
      /\ \A k \in 1 .. (j - i) : Between(text, i, j)[k] = text[i + k]
  BY BetweenType
<1>2. CASE i = j
  <2>1. SubSeq(text, i + 1, j) = <<>>
    BY <1>2, SliceNone
  <2> QED
    BY <1>2, <2>1, BetweenNone
<1>3. CASE i # j
  <2>1. i + 1 \in Nat /\ 1 <= i + 1 /\ i + 1 <= j
    BY <1>3
  <2>2. /\ SubSeq(text, i + 1, j) \in Seq(A) /\ Len(SubSeq(text, i + 1, j)) = j - (i + 1) + 1
        /\ \A k \in 1 .. (j - (i + 1) + 1) : SubSeq(text, i + 1, j)[k] = text[(i + 1) + k - 1]
    BY <2>1, Slice
  <2> DEFINE s == SubSeq(text, i + 1, j)
             t == Between(text, i, j)
  <2> HIDE DEF s, t
  <2>3. s \in Seq(A) /\ t \in Seq(A) /\ Len(s) = j - i /\ Len(t) = j - i
    BY <1>1, <2>2 DEF s, t
  <2>4. ASSUME NEW k \in 1 .. (j - i) PROVE s[k] = t[k]
    <3>1. (i + 1) + k - 1 = i + k /\ k \in 1 .. (j - (i + 1) + 1)
      OBVIOUS
    <3>2. s[k] = text[(i + 1) + k - 1]
      BY <2>2, <3>1 DEF s
    <3>3. t[k] = text[i + k]
      BY <1>1 DEF t
    <3> QED
      BY <3>1, <3>2, <3>3
  <2>5. s = t
    BY <2>3, <2>4, SameCells
  <2> QED
    BY <2>5 DEF s, t
<1> QED
  BY <1>2, <1>3

LEMMA BetweenJoin ==
  ASSUME NEW A, NEW text \in Seq(A), NEW i \in Nat, NEW j \in Nat, NEW k \in Nat,
         i <= j, j <= k, k <= Len(text)
  PROVE  Between(text, i, j) \o Between(text, j, k) = Between(text, i, k)
<1> DEFINE s == Between(text, i, j)
           t == Between(text, j, k)
           u == Between(text, i, k)
           v == s \o t
<1>0. Len(text) \in Nat /\ i <= k /\ j <= Len(text)
  OBVIOUS
<1>1. s \in Seq(A) /\ Len(s) = j - i /\ \A m \in 1 .. (j - i) : s[m] = text[i + m]
  BY <1>0, BetweenType
<1>2. t \in Seq(A) /\ Len(t) = k - j /\ \A m \in 1 .. (k - j) : t[m] = text[j + m]
  BY <1>0, BetweenType
<1>3. u \in Seq(A) /\ Len(u) = k - i /\ \A m \in 1 .. (k - i) : u[m] = text[i + m]
  BY <1>0, BetweenType
<1> HIDE DEF s, t, u
<1>4. v = s \o t
  OBVIOUS
<1> HIDE DEF v
<1>5. /\ v \in Seq(A) /\ Len(v) = Len(s) + Len(t)
      /\ \A m \in 1 .. Len(s) : v[m] = s[m]
      /\ \A m \in 1 .. Len(t) : v[Len(s) + m] = t[m]
  <2>1. s \in Seq(A)
    BY <1>1
  <2>2. t \in Seq(A)
    BY <1>2
  <2> QED
    BY <1>4, <2>1, <2>2, ConcatCells
<1>6. Len(v) = k - i
  BY <1>1, <1>2, <1>5
<1>7. ASSUME NEW m \in 1 .. (k - i) PROVE v[m] = u[m]
  <2>1. u[m] = text[i + m]
    BY <1>3
  <2>2. CASE m <= j - i
    <3>1. m \in 1 .. (j - i)
      BY <2>2
    <3>2. v[m] = s[m] /\ s[m] = text[i + m]
      BY <1>1, <1>5, <3>1
    <3> QED
      BY <2>1, <3>2
  <2>3. CASE ~(m <= j - i)
    <3>1. m - (j - i) \in 1 .. (k - j) /\ (j - i) + (m - (j - i)) = m /\ j + (m - (j - i)) = i + m
      BY <2>3
    <3>2. t[m - (j - i)] = text[j + (m - (j - i))]
      BY <1>2, <3>1
    <3>3. v[(j - i) + (m - (j - i))] = t[m - (j - i)]
      BY <1>1, <1>2, <1>5, <3>1
    <3> QED
      BY <2>1, <3>1, <3>2, <3>3
  <2> QED
    BY <2>2, <2>3
<1>8. v = u
  BY <1>3, <1>5, <1>6, <1>7, SameCells
<1> QED
  BY <1>4, <1>8 DEF s, t, u

\* The first n characters of a stretch, and the rest of it.
LEMMA BetweenSplit ==
  ASSUME NEW A, NEW text \in Seq(A), NEW i \in Nat, NEW j \in Nat, i <= j, j <= Len(text),
         NEW n \in Nat, n <= j - i
  PROVE  /\ SubSeq(Between(text, i, j), 1, n) = Between(text, i, i + n)
         /\ SubSeq(Between(text, i, j), n + 1, j - i) = Between(text, i + n, j)
<1> DEFINE s == Between(text, i, j)
           a == Between(text, i, i + n)
           b == Between(text, i + n, j)
<1>0. Len(text) \in Nat /\ i + n \in Nat /\ i <= i + n /\ i + n <= j /\ i + n <= Len(text)
  OBVIOUS
<1>1. s \in Seq(A) /\ Len(s) = j - i /\ \A m \in 1 .. (j - i) : s[m] = text[i + m]
  BY BetweenType
<1>2. a \in Seq(A) /\ Len(a) = (i + n) - i /\ \A m \in 1 .. ((i + n) - i) : a[m] = text[i + m]
  BY <1>0, BetweenType
<1>3. b \in Seq(A) /\ Len(b) = j - (i + n) /\ \A m \in 1 .. (j - (i + n)) : b[m] = text[(i + n) + m]
  BY <1>0, BetweenType
<1> HIDE DEF s, a, b
<1>10. s \in Seq(A)
  BY <1>1
<1>11. /\ 0 \in Nat /\ 0 <= n /\ n <= Len(s)
      /\ j - i \in Nat /\ n <= j - i /\ j - i <= Len(s)
  BY <1>1
<1>4. SubSeq(s, 1, n) = Between(s, 0, n)
  <2>1. SubSeq(s, 0 + 1, n) = Between(s, 0, n)
    BY <1>10, <1>11, SliceIsBetween
  <2> QED
    BY <2>1
<1>5. SubSeq(s, n + 1, j - i) = Between(s, n, j - i)
  BY <1>10, <1>11, SliceIsBetween
<1> DEFINE c == Between(s, 0, n)
           d == Between(s, n, j - i)
<1>6. c \in Seq(A) /\ Len(c) = n - 0 /\ \A m \in 1 .. (n - 0) : c[m] = s[0 + m]
  BY <1>10, <1>11, BetweenType
<1>7. d \in Seq(A) /\ Len(d) = (j - i) - n /\ \A m \in 1 .. ((j - i) - n) : d[m] = s[n + m]
  BY <1>10, <1>11, BetweenType
<1> HIDE DEF c, d
<1>8. c = a
  <2>1. Len(c) = n /\ Len(a) = n
    BY <1>2, <1>6
  <2>2. ASSUME NEW m \in 1 .. n PROVE c[m] = a[m]
    <3>1. m \in 1 .. (n - 0) /\ m \in 1 .. ((i + n) - i) /\ m \in 1 .. (j - i) /\ 0 + m = m
      OBVIOUS
    <3>2. c[m] = s[0 + m] /\ a[m] = text[i + m] /\ s[m] = text[i + m]
      BY <1>1, <1>2, <1>6, <3>1
    <3> QED
      BY <3>1, <3>2
  <2> QED
    BY <1>2, <1>6, <2>1, <2>2, SameCells
<1>9. d = b
  <2>1. Len(d) = j - i - n /\ Len(b) = j - i - n
    BY <1>3, <1>7
  <2>2. ASSUME NEW m \in 1 .. (j - i - n) PROVE d[m] = b[m]
    <3>1. /\ m \in 1 .. ((j - i) - n) /\ m \in 1 .. (j - (i + n)) /\ n + m \in 1 .. (j - i)
          /\ i + (n + m) = (i + n) + m
      OBVIOUS
    <3>2. d[m] = s[n + m] /\ b[m] = text[(i + n) + m] /\ s[n + m] = text[i + (n + m)]
      BY <1>1, <1>3, <1>7, <3>1
    <3> QED
      BY <3>1, <3>2
  <2> QED
    BY <1>3, <1>7, <2>1, <2>2, SameCells
<1> QED
  BY <1>4, <1>5, <1>8, <1>9 DEF s, a, b, c, d
-----------------------------------------------------------------------------
(* A loop whose step keeps the states of a set. *)

Iterates(f, T, S, base) ==
  f \in [Nat -> T] /\ f[0] = base /\ \A n \in Nat : f[n + 1] = S[f[n]]

LEMMA IterationExists ==
  ASSUME NEW T, NEW S \in [T -> T], NEW base \in T
  PROVE  \E f : Iterates(f, T, S, base)
<1> DEFINE Good(h, n) == /\ h \in [0 .. n -> T] /\ h[0] = base
                         /\ \A i \in 1 .. n : h[i] = S[h[i - 1]]
           D == {n \in Nat : \E h : Good(h, n)}
<1>1. 0 \in D
  <2> DEFINE h == [i \in 0 .. 0 |-> base]
  <2>1. h \in [0 .. 0 -> T] /\ h[0] = base
    OBVIOUS
  <2>2. 1 .. 0 = {}
    OBVIOUS
  <2> HIDE DEF h
  <2>3. Good(h, 0)
    BY <2>1, <2>2
  <2> HIDE DEF Good
  <2> QED
    BY <2>3
<1>2. ASSUME NEW n \in Nat, n \in D PROVE n + 1 \in D
  <2>1. PICK h : Good(h, n)
    BY <1>2
  <2> DEFINE g == [i \in 0 .. (n + 1) |-> IF i <= n THEN h[i] ELSE S[h[n]]]
  <2>2. S[h[n]] \in T /\ \A i \in 0 .. n : h[i] \in T
    <3>1. n \in 0 .. n
      OBVIOUS
    <3> QED
      BY <2>1, <3>1
  <2>3. g[n + 1] = S[h[n]] /\ \A i \in 0 .. n : g[i] = h[i]
    OBVIOUS
  <2>4. g \in [0 .. (n + 1) -> T]
    <3> SUFFICES ASSUME NEW i \in 0 .. (n + 1)
                 PROVE  (IF i <= n THEN h[i] ELSE S[h[n]]) \in T
      OBVIOUS
    <3>1. CASE i <= n
      <4>1. i \in 0 .. n
        BY <3>1
      <4> QED
        BY <2>2, <3>1, <4>1
    <3>2. CASE ~(i <= n)
      BY <2>2, <3>2
    <3> QED
      BY <3>1, <3>2
  <2> HIDE DEF g
  <2>5. g[0] = base
    BY <2>1, <2>3
  <2>6. ASSUME NEW i \in 1 .. (n + 1) PROVE g[i] = S[g[i - 1]]
    <3>1. CASE i <= n
      <4>1. i \in 1 .. n /\ i \in 0 .. n /\ i - 1 \in 0 .. n
        BY <3>1
      <4>2. h[i] = S[h[i - 1]]
        BY <2>1, <4>1
      <4> QED
        BY <2>3, <4>1, <4>2
    <3>2. CASE ~(i <= n)
      <4>1. i = n + 1 /\ i - 1 = n /\ n \in 0 .. n
        BY <3>2
      <4> QED
        BY <2>3, <4>1
    <3> QED
      BY <3>1, <3>2
  <2>7. Good(g, n + 1)
    BY <2>4, <2>5, <2>6
  <2> HIDE DEF Good
  <2> QED
    BY <2>7
<1>3. ASSUME NEW n \in Nat PROVE \E h : Good(h, n)
  <2> HIDE DEF D
  <2>1. Nat \subseteq D
    BY <1>1, <1>2, Induction
  <2> QED
    BY <2>1 DEF D
<1>4. ASSUME NEW n \in Nat, NEW h, NEW g, Good(h, n), Good(g, n + 1) PROVE h[n] = g[n]
  <2> DEFINE E == {i \in Nat : i <= n => h[i] = g[i]}
  <2>1. 0 \in E
    BY <1>4
  <2>2. ASSUME NEW i \in Nat, i \in E PROVE i + 1 \in E
    <3> SUFFICES ASSUME i + 1 <= n PROVE h[i + 1] = g[i + 1]
      OBVIOUS
    <3>1. i <= n /\ i + 1 \in 1 .. n /\ i + 1 \in 1 .. (n + 1) /\ (i + 1) - 1 = i
      OBVIOUS
    <3>2. h[i + 1] = S[h[(i + 1) - 1]]
      BY <1>4, <3>1
    <3>3. g[i + 1] = S[g[(i + 1) - 1]]
      BY <1>4, <3>1
    <3>4. h[i] = g[i]
      BY <2>2, <3>1
    <3> QED
      BY <3>1, <3>2, <3>3, <3>4
  <2> HIDE DEF E
  <2>3. n \in E
    BY <2>1, <2>2, Induction
  <2> QED
    BY <2>3 DEF E
<1> DEFINE H(n) == CHOOSE h : Good(h, n)
<1>5. ASSUME NEW n \in Nat PROVE Good(H(n), n)
  <2>1. \E h : Good(h, n)
    BY <1>3
  <2> HIDE DEF Good
  <2> QED
    BY <2>1
<1> HIDE DEF H
<1> DEFINE f == [n \in Nat |-> H(n)[n]]
<1>6. \A n \in Nat : f[n] = H(n)[n]
  OBVIOUS
<1>7. f \in [Nat -> T]
  <2> SUFFICES ASSUME NEW n \in Nat PROVE H(n)[n] \in T
    OBVIOUS
  <2>1. H(n) \in [0 .. n -> T] /\ n \in 0 .. n
    BY <1>5
  <2> QED
    BY <2>1
<1> HIDE DEF f
<1>8. f[0] = base
  BY <1>5, <1>6
<1>9. ASSUME NEW n \in Nat PROVE f[n + 1] = S[f[n]]
  <2>1. n + 1 \in 1 .. (n + 1) /\ (n + 1) - 1 = n /\ n + 1 \in Nat
    OBVIOUS
  <2>2. Good(H(n), n) /\ Good(H(n + 1), n + 1)
    <3>1. Good(H(n), n)
      BY <1>5
    <3>2. Good(H(n + 1), n + 1)
      BY <1>5, <2>1
    <3> HIDE DEF Good
    <3> QED
      BY <3>1, <3>2
  <2>3. H(n)[n] = H(n + 1)[n]
    <3> HIDE DEF Good
    <3> QED
      BY <1>4, <2>2
  <2>4. H(n + 1)[n + 1] = S[H(n + 1)[(n + 1) - 1]]
    BY <2>1, <2>2
  <2> QED
    BY <1>6, <2>1, <2>3, <2>4
<1> QED
  BY <1>7, <1>8, <1>9 DEF Iterates

-----------------------------------------------------------------------------
(* The two loops of a read. *)

\* One round of the loop in espFsRead, and of the loop that calls it.
PassStep(img, len, x) ==
  IF Len(x.out) >= len \/ x.f.pos = x.f.flen THEN x
  ELSE LET got == Poll(Sink(img, x.f), len - Len(x.out)) IN
       [f |-> got.f, out |-> x.out \o got.out]

BlockStep(img, block, x) ==
  IF ~x.more THEN x
  ELSE LET got == Read(img, x.f, block) IN
       [f |-> got.f, out |-> x.out \o got.out, more |-> Len(got.out) = block]

IsReading(img, f, len, T, g) ==
  /\ \A n \in Nat : g[n] \in T
  /\ g[0] = [f |-> f, out |-> <<>>]
  /\ \A n \in Nat : g[n + 1] = PassStep(img, len, g[n])
  /\ ReadHeatshrink(img, f, len) = g[len + 1]

LEMMA PassUnfolds ==
  ASSUME NEW img, NEW f, NEW len, NEW T, [f |-> f, out |-> <<>>] \in T,
         \A x \in T : PassStep(img, len, x) \in T
  PROVE  \E g : IsReading(img, f, len, T, g)
<1> DEFINE base == [f |-> f, out |-> <<>>]
           Step(x) == PassStep(img, len, x)
           S == [x \in T |-> Step(x)]
<1>1. base \in T /\ \A x \in T : Step(x) \in T
  OBVIOUS
<1> HIDE DEF Step, base
<1>2. S \in [T -> T] /\ \A x \in T : S[x] = Step(x)
  BY <1>1
<1> HIDE DEF S
<1>3. PICK k : Iterates(k, T, S, base)
  <2>1. base \in T
    BY <1>1
  <2>2. S \in [T -> T]
    BY <1>2
  <2> QED
    BY <2>1, <2>2, IterationExists
<1>10. k \in [Nat -> T] /\ k[0] = base /\ \A n \in Nat : k[n + 1] = S[k[n]]
  BY <1>3 DEF Iterates
<1>4. k = [n \in Nat |-> IF n = 0 THEN base ELSE Step(k[n - 1])]
  <2>1. ASSUME NEW n \in Nat PROVE k[n] = IF n = 0 THEN base ELSE Step(k[n - 1])
    <3>1. CASE n = 0
      BY <1>10, <3>1
    <3>2. CASE n # 0
      <4>1. n - 1 \in Nat /\ (n - 1) + 1 = n
        BY <3>2
      <4>2. k[(n - 1) + 1] = S[k[n - 1]] /\ k[n - 1] \in T
        BY <1>10, <4>1
      <4> QED
        BY <1>2, <3>2, <4>1, <4>2
    <3> QED
      BY <3>1, <3>2
  <2>2. k = [n \in Nat |-> k[n]]
    BY <1>10
  <2>3. [n \in Nat |-> k[n]] = [n \in Nat |-> IF n = 0 THEN base ELSE Step(k[n - 1])]
    BY <2>1
  <2> QED
    BY <2>2, <2>3
<1> DEFINE g == CHOOSE h : h = [n \in Nat |-> IF n = 0 THEN base ELSE Step(h[n - 1])]
<1>5. g = [n \in Nat |-> IF n = 0 THEN base ELSE Step(g[n - 1])]
  BY <1>4
<1>6. ReadHeatshrink(img, f, len) = g[len + 1]
  BY DEF ReadHeatshrink, PassStep, base, Step
<1> HIDE DEF g
<1>7. g[0] = base
  BY <1>5
<1>8. ASSUME NEW n \in Nat PROVE g[n + 1] = Step(g[n])
  <2>1. n + 1 \in Nat /\ n + 1 # 0 /\ (n + 1) - 1 = n
    OBVIOUS
  <2> QED
    BY <1>5, <2>1
<1>9. g \in [Nat -> T]
  <2> DEFINE D == {n \in Nat : g[n] \in T}
  <2>1. 0 \in D
    BY <1>1, <1>7
  <2>2. ASSUME NEW n \in Nat, n \in D PROVE n + 1 \in D
    <3>1. g[n] \in T /\ n + 1 \in Nat
      BY <2>2
    <3>2. g[n + 1] = S[g[n]] /\ S[g[n]] \in T
      BY <1>2, <1>8, <3>1
    <3> QED
      BY <3>1, <3>2
  <2> HIDE DEF D
  <2>3. Nat \subseteq D
    BY <2>1, <2>2, Induction
  <2>4. \A n \in Nat : g[n] \in T
    BY <2>3 DEF D
  <2>5. g = [n \in Nat |-> g[n]]
    BY <1>5
  <2> QED
    BY <2>4, <2>5
<1> QED
  BY <1>6, <1>7, <1>8, <1>9 DEF base, Step, IsReading

IsSending(img, f, len, T, g) ==
  /\ \A n \in Nat : g[n] \in T
  /\ g[0] = [f |-> f, out |-> <<>>, more |-> TRUE]
  /\ \A n \in Nat : g[n + 1] = BlockStep(img, len, g[n])
  /\ FileSent(img, f, len) = g[f.flen * UNIT + 1].out

LEMMA SentUnfolds ==
  ASSUME NEW img, NEW f, NEW len, NEW T, [f |-> f, out |-> <<>>, more |-> TRUE] \in T,
         \A x \in T : BlockStep(img, len, x) \in T
  PROVE  \E g : IsSending(img, f, len, T, g)
<1> DEFINE base == [f |-> f, out |-> <<>>, more |-> TRUE]
           Step(x) == BlockStep(img, len, x)
           S == [x \in T |-> Step(x)]
<1>1. base \in T /\ \A x \in T : Step(x) \in T
  OBVIOUS
<1> HIDE DEF Step, base
<1>2. S \in [T -> T] /\ \A x \in T : S[x] = Step(x)
  BY <1>1
<1> HIDE DEF S
<1>3. PICK k : Iterates(k, T, S, base)
  <2>1. base \in T
    BY <1>1
  <2>2. S \in [T -> T]
    BY <1>2
  <2> QED
    BY <2>1, <2>2, IterationExists
<1>10. k \in [Nat -> T] /\ k[0] = base /\ \A n \in Nat : k[n + 1] = S[k[n]]
  BY <1>3 DEF Iterates
<1>4. k = [n \in Nat |-> IF n = 0 THEN base ELSE Step(k[n - 1])]
  <2>1. ASSUME NEW n \in Nat PROVE k[n] = IF n = 0 THEN base ELSE Step(k[n - 1])
    <3>1. CASE n = 0
      BY <1>10, <3>1
    <3>2. CASE n # 0
      <4>1. n - 1 \in Nat /\ (n - 1) + 1 = n
        BY <3>2
      <4>2. k[(n - 1) + 1] = S[k[n - 1]] /\ k[n - 1] \in T
        BY <1>10, <4>1
      <4> QED
        BY <1>2, <3>2, <4>1, <4>2
    <3> QED
      BY <3>1, <3>2
  <2>2. k = [n \in Nat |-> k[n]]
    BY <1>10
  <2>3. [n \in Nat |-> k[n]] = [n \in Nat |-> IF n = 0 THEN base ELSE Step(k[n - 1])]
    BY <2>1
  <2> QED
    BY <2>2, <2>3
<1> DEFINE g == CHOOSE h : h = [n \in Nat |-> IF n = 0 THEN base ELSE Step(h[n - 1])]
<1>5. g = [n \in Nat |-> IF n = 0 THEN base ELSE Step(g[n - 1])]
  BY <1>4
<1>6. FileSent(img, f, len) = g[f.flen * UNIT + 1].out
  BY DEF FileSent, BlockStep, base, Step
<1> HIDE DEF g
<1>7. g[0] = base
  BY <1>5
<1>8. ASSUME NEW n \in Nat PROVE g[n + 1] = Step(g[n])
  <2>1. n + 1 \in Nat /\ n + 1 # 0 /\ (n + 1) - 1 = n
    OBVIOUS
  <2> QED
    BY <1>5, <2>1
<1>9. g \in [Nat -> T]
  <2> DEFINE D == {n \in Nat : g[n] \in T}
  <2>1. 0 \in D
    BY <1>1, <1>7
  <2>2. ASSUME NEW n \in Nat, n \in D PROVE n + 1 \in D
    <3>1. g[n] \in T /\ n + 1 \in Nat
      BY <2>2
    <3>2. g[n + 1] = S[g[n]] /\ S[g[n]] \in T
      BY <1>2, <1>8, <3>1
    <3> QED
      BY <3>1, <3>2
  <2> HIDE DEF D
  <2>3. Nat \subseteq D
    BY <2>1, <2>2, Induction
  <2>4. \A n \in Nat : g[n] \in T
    BY <2>3 DEF D
  <2>5. g = [n \in Nat |-> g[n]]
    BY <1>5
  <2> QED
    BY <2>4, <2>5
<1> QED
  BY <1>6, <1>7, <1>8, <1>9 DEF base, Step, IsSending

\* The states of T are kept, and a block that is not the last sends something.
GoesOn(img, len, T) ==
  \A x \in T : /\ BlockStep(img, len, x) \in T
               /\ x.more /\ BlockStep(img, len, x).more =>
                    Len(BlockStep(img, len, x).out) > Len(x.out)

SendsAtMost(T, l) ==
  \A x \in T : Len(x.out) \in Nat /\ Len(x.out) <= l /\ x.more \in BOOLEAN

SentAtEnd(img, f, len, T) == \E x \in T : ~x.more /\ FileSent(img, f, len) = x.out

\* A file of which each block but the last sends something is sent to its end.
LEMMA SentEnds ==
  ASSUME NEW img, NEW f, NEW len, NEW T, [f |-> f, out |-> <<>>, more |-> TRUE] \in T,
         NEW L \in Nat, f.flen * UNIT \in Nat, L <= f.flen * UNIT,
         GoesOn(img, len, T), SendsAtMost(T, L)
  PROVE  SentAtEnd(img, f, len, T)
<1>10. PICK g : IsSending(img, f, len, T, g)
  <2>1. \A x \in T : BlockStep(img, len, x) \in T
    BY DEF GoesOn
  <2> QED
    BY <2>1, SentUnfolds
<1>1. /\ \A n \in Nat : g[n] \in T
      /\ g[0] = [f |-> f, out |-> <<>>, more |-> TRUE]
      /\ \A n \in Nat : g[n + 1] = BlockStep(img, len, g[n])
      /\ FileSent(img, f, len) = g[f.flen * UNIT + 1].out
  BY <1>10 DEF IsSending
<1> DEFINE D == {n \in Nat : g[n].more => Len(g[n].out) >= n}
<1>2. 0 \in D
  <2>1. g[0] = [f |-> f, out |-> <<>>, more |-> TRUE]
    BY <1>1
  <2>2. g[0].out = <<>>
    BY <2>1
  <2>3. Len(g[0].out) = 0
    BY <2>2
  <2> QED
    BY <2>3
<1>3. ASSUME NEW n \in Nat, n \in D PROVE n + 1 \in D
  <2>4. n + 1 \in Nat
    OBVIOUS
  <2>1. g[n] \in T /\ g[n + 1] = BlockStep(img, len, g[n]) /\ g[n + 1] \in T
    BY <1>1, <2>4
  <2>2. CASE ~g[n].more
    <3>1. g[n + 1] = g[n]
      BY <2>1, <2>2 DEF BlockStep
    <3> QED
      BY <2>2, <3>1
  <2>3. CASE g[n].more
    <3>1. Len(g[n].out) >= n /\ Len(g[n].out) \in Nat /\ Len(g[n + 1].out) \in Nat
      BY <1>3, <2>1, <2>3 DEF SendsAtMost
    <3>2. g[n + 1].more => Len(g[n + 1].out) > Len(g[n].out)
      BY <2>1, <2>3 DEF GoesOn
    <3>3. g[n + 1].more => Len(g[n + 1].out) >= n + 1
      BY <3>1, <3>2
    <3> QED
      BY <3>3
  <2> QED
    BY <2>2, <2>3
<1> HIDE DEF D
<1>4. Nat \subseteq D
  BY <1>2, <1>3, Induction
<1> DEFINE m == f.flen * UNIT + 1
<1>5. m \in Nat /\ m > L
  OBVIOUS
<1> HIDE DEF m
<1>6. g[m] \in T /\ (g[m].more => Len(g[m].out) >= m)
  BY <1>1, <1>4, <1>5 DEF D
<1>7. ~g[m].more
  BY <1>5, <1>6 DEF SendsAtMost
<1>8. FileSent(img, f, len) = g[m].out
  BY <1>1 DEF m
<1> QED
  BY <1>6, <1>7, <1>8 DEF SentAtEnd
-----------------------------------------------------------------------------
(* A stored file. *)

LEMMA StoredSent ==
  ASSUME NEW A, NEW text \in Seq(A), NEW img, NEW p \in Nat, NEW len \in Nat \ {0},
         \A k \in 1 .. Len(text) : img[p + k][2] = text[k]
  PROVE  FileSent(img, [found |-> TRUE, comp |-> NONE, start |-> p, flen |-> Len(text),
                        pos |-> 0, in |-> <<>>, used |-> 0, pend |-> <<>>], len) = text
<1> DEFINE L == Len(text)
           F(i) == [found |-> TRUE, comp |-> NONE, start |-> p, flen |-> L,
                    pos |-> i, in |-> <<>>, used |-> 0, pend |-> <<>>]
           X(i, m) == [f |-> F(i), out |-> Between(text, 0, i), more |-> m]
           T == {X(i, TRUE) : i \in 0 .. L} \cup {X(L, FALSE)}
<1>1. L \in Nat
  OBVIOUS
<1>2. \A i \in 0 .. L : Len(Between(text, 0, i)) = i
  <2> SUFFICES ASSUME NEW i \in 0 .. L PROVE Len(Between(text, 0, i)) = i
    OBVIOUS
  <2>1. 0 \in Nat /\ i \in Nat /\ 0 <= i /\ i <= Len(text)
    BY <1>1
  <2>2. Len(Between(text, 0, i)) = i - 0
    BY <2>1, BetweenType
  <2> QED
    BY <2>1, <2>2
<1>3. ASSUME NEW i \in 0 .. L
      PROVE  \E n \in Nat : /\ i + n \in 0 .. L /\ (n # len => i + n = L) /\ (n = len => n > 0)
                            /\ n = len => BlockStep(img, len, X(i, TRUE)) = X(i + n, TRUE)
                            /\ n # len => BlockStep(img, len, X(i, TRUE)) = X(i + n, FALSE)
  <2> DEFINE n == Min({len, L - i})
  <2>1. len \in Nat /\ L - i \in Nat
    BY <1>1
  <2>2. n = IF len <= L - i THEN len ELSE L - i
    BY <2>1, MinOfTwo
  <2>3. n \in Nat /\ i \in Nat /\ i + n \in Nat /\ i + n <= L /\ i <= i + n
    BY <1>1, <2>1, <2>2
  <2>4. n # len => i + n = L
    BY <1>1, <2>1, <2>2
  <2> DEFINE o == [k \in 1 .. n |-> img[p + i + k][2]]
  <2>5. Read(img, F(i), len) = [f |-> F(i + n), out |-> o]
    BY DEF Read, ReadRaw
  <2> HIDE DEF n
  <2>6. o = Between(text, i, i + n)
    <3>1. ASSUME NEW k \in 1 .. n PROVE img[p + i + k][2] = text[i + k]
      <4>1. i + k \in 1 .. Len(text) /\ p + (i + k) = p + i + k
        BY <2>3
      <4>2. img[p + (i + k)][2] = text[i + k]
        BY <4>1
      <4> QED
        BY <4>1, <4>2
    <3>2. (i + n) - i = n
      BY <2>3
    <3> QED
      BY <3>1, <3>2 DEF Between
  <2>7. Len(o) = n
    BY <2>3
  <2> HIDE DEF o
  <2>8. Between(text, 0, i) \o Between(text, i, i + n) = Between(text, 0, i + n)
    <3>1. 0 \in Nat /\ 0 <= i /\ i + n <= Len(text)
      BY <2>3
    <3> QED
      BY <2>3, <3>1, BetweenJoin
  <2> DEFINE x == X(i, TRUE)
             got == Read(img, F(i), len)
             y == BlockStep(img, len, x)
  <2>9. x.more = TRUE /\ x.f = F(i) /\ x.out = Between(text, 0, i)
    OBVIOUS
  <2> HIDE DEF F
  <2>10. got.f = F(i + n) /\ got.out = o
    BY <2>5
  <2> HIDE DEF x, X, got
  <2>11. y = [f |-> got.f, out |-> x.out \o got.out, more |-> Len(got.out) = len]
    BY <2>9 DEF BlockStep, got
  <2> HIDE DEF y
  <2>12. x.out \o got.out = Between(text, 0, i + n) /\ (Len(got.out) = len <=> n = len)
    BY <2>6, <2>7, <2>8, <2>9, <2>10
  <2>13. n = len => y = X(i + n, TRUE)
    BY <2>10, <2>11, <2>12 DEF X
  <2>14. n # len => y = X(i + n, FALSE)
    BY <2>10, <2>11, <2>12 DEF X
  <2>15. i + n \in 0 .. L /\ (n = len => n > 0)
    BY <1>1, <2>3
  <2>16. /\ n = len => BlockStep(img, len, X(i, TRUE)) = X(i + n, TRUE)
         /\ n # len => BlockStep(img, len, X(i, TRUE)) = X(i + n, FALSE)
    BY <2>13, <2>14 DEF x, y
  <2> HIDE DEF L, T
  <2> QED
    BY <2>3, <2>4, <2>15, <2>16
<1>4. SendsAtMost(T, L)
  <2>1. ASSUME NEW i \in 0 .. L
        PROVE  Len(X(i, TRUE).out) \in Nat /\ Len(X(i, TRUE).out) <= L /\ X(i, TRUE).more \in BOOLEAN
    BY <1>1, <1>2
  <2>2. Len(X(L, FALSE).out) \in Nat /\ Len(X(L, FALSE).out) <= L /\ X(L, FALSE).more \in BOOLEAN
    BY <1>1, <1>2
  <2> HIDE DEF X, L
  <2> QED
    BY <2>1, <2>2 DEF SendsAtMost
<1>5. ASSUME NEW x \in T
      PROVE  /\ BlockStep(img, len, x) \in T
             /\ x.more /\ BlockStep(img, len, x).more =>
                  Len(BlockStep(img, len, x).out) > Len(x.out)
  <2>1. CASE ~x.more
    BY <2>1 DEF BlockStep
  <2>2. CASE x.more
    <3>1. X(L, FALSE).more = FALSE
      OBVIOUS
    <3>2. PICK i \in 0 .. L : x = X(i, TRUE)
      <4> HIDE DEF X
      <4> QED
        BY <2>2, <3>1
    <3>3. PICK n \in Nat : /\ i + n \in 0 .. L /\ (n # len => i + n = L) /\ (n = len => n > 0)
                           /\ n = len => BlockStep(img, len, X(i, TRUE)) = X(i + n, TRUE)
                           /\ n # len => BlockStep(img, len, X(i, TRUE)) = X(i + n, FALSE)
      BY <1>3
    <3>4. X(i, TRUE).out = Between(text, 0, i) /\ X(i + n, TRUE).out = Between(text, 0, i + n)
      OBVIOUS
    <3>5. CASE n = len
      <4>2. BlockStep(img, len, x) = X(i + n, TRUE)
        <5> HIDE DEF X
        <5> QED
          BY <3>2, <3>3, <3>5
      <4>3. X(i + n, TRUE) \in T
        BY <3>3
      <4>4. Len(Between(text, 0, i)) = i /\ Len(Between(text, 0, i + n)) = i + n /\ i + n > i
        BY <1>2, <3>3, <3>5
      <4> HIDE DEF X, T
      <4> QED
        BY <3>2, <3>3, <3>4, <4>2, <4>3, <4>4
    <3>6. CASE n # len
      <4>1. i + n = L
        BY <3>3, <3>6
      <4>2. BlockStep(img, len, x) = X(L, FALSE)
        <5> HIDE DEF X, L
        <5> QED
          BY <3>2, <3>3, <3>6, <4>1
      <4>3. X(L, FALSE) \in T
        OBVIOUS
      <4> HIDE DEF T
      <4> QED
        BY <3>1, <4>2, <4>3
    <3> QED
      BY <3>5, <3>6
  <2> QED
    BY <2>1, <2>2
<1>6. F(0).flen = L /\ L * UNIT \in Nat /\ L <= L * UNIT
  <2>1. \A u \in Nat : u >= 1 => L * u \in Nat /\ L <= L * u
    BY <1>1
  <2> QED
    BY <2>1, EspFsAssumption
<1>7. [f |-> F(0), out |-> <<>>, more |-> TRUE] \in T
  <2>1. Between(text, 0, 0) = <<>> /\ 0 \in 0 .. L
    BY <1>1, BetweenNone
  <2>2. X(0, TRUE) \in T /\ X(0, TRUE) = [f |-> F(0), out |-> <<>>, more |-> TRUE]
    BY <2>1
  <2> HIDE DEF T, X
  <2> QED
    BY <2>2
<1> HIDE DEF T
<1>8. SentAtEnd(img, F(0), len, T)
  <2> DEFINE G == F(0)
  <2>1. [f |-> G, out |-> <<>>, more |-> TRUE] \in T
    BY <1>7
  <2>2. GoesOn(img, len, T)
    BY <1>5 DEF GoesOn
  <2>3. G.flen * UNIT \in Nat /\ L <= G.flen * UNIT
    BY <1>6
  <2> HIDE DEF G, F, L
  <2>4. SentAtEnd(img, G, len, T)
    BY <1>1, <1>4, <2>1, <2>2, <2>3, SentEnds
  <2> QED
    BY <2>4 DEF G
<1>9. \A x \in T : ~x.more => x.out = text
  <2>1. \A i \in 0 .. L : X(i, TRUE).more = TRUE
    OBVIOUS
  <2>2. X(L, FALSE).out = Between(text, 0, L) /\ Between(text, 0, L) = text
    BY BetweenAll
  <2> HIDE DEF X, L
  <2> QED
    BY <2>1, <2>2 DEF T
<1> QED
  BY <1>8, <1>9 DEF SentAtEnd
-----------------------------------------------------------------------------
(* A compressed file: where its units end in the text. *)

Units(l) == (l + UNIT - 1) \div UNIT

\* The characters of the first j units.
CutAt(l, j) == IF j * UNIT <= l THEN j * UNIT ELSE l

LEMMA ProductRises ==
  ASSUME NEW c \in Nat, NEW j \in Nat, NEW d \in Nat
  PROVE  j * c \in Nat /\ d * c \in Nat /\ (j + d) * c = j * c + d * c /\ j * c <= (j + d) * c
<1>1. j * c \in Nat /\ d * c \in Nat
  OBVIOUS
<1>2. (j + d) * c = j * c + d * c
  OBVIOUS
<1> QED
  BY <1>1, <1>2

LEMMA UnitCount ==
  ASSUME NEW l \in Nat
  PROVE  /\ Units(l) \in Nat /\ l <= Units(l) * UNIT /\ Units(l) * UNIT < l + UNIT
<1> DEFINE m == l + UNIT - 1
           u == m \div UNIT
<1>1. UNIT \in Nat /\ UNIT >= 1 /\ m \in Nat
  BY EspFsAssumption
<1> HIDE DEF m
<1>2. u \in Nat /\ u <= m \div UNIT /\ UNIT \in Nat \ {0}
  BY <1>1
<1>3. u * UNIT <= m /\ (u + 1) * UNIT = u * UNIT + UNIT /\ (u + 1) * UNIT > m /\ u * UNIT \in Nat
  BY <1>1, <1>2, Multiples
<1> HIDE DEF u
<1> QED
  BY <1>1, <1>2, <1>3 DEF m, u, Units

LEMMA CutType ==
  ASSUME NEW l \in Nat, NEW j \in Nat
  PROVE  CutAt(l, j) \in Nat /\ CutAt(l, j) <= l
<1>1. j * UNIT \in Nat
  BY ProductRises, EspFsAssumption
<1> QED
  BY <1>1 DEF CutAt

LEMMA CutEnds ==
  ASSUME NEW l \in Nat
  PROVE  CutAt(l, 0) = 0 /\ CutAt(l, Units(l)) = l
<1>1. 0 * UNIT = 0
  BY EspFsAssumption
<1>2. l <= Units(l) * UNIT /\ Units(l) * UNIT \in Nat
  BY UnitCount, ProductRises, EspFsAssumption
<1> QED
  BY <1>1, <1>2 DEF CutAt

\* d units have at most d * UNIT characters.
LEMMA CutRises ==
  ASSUME NEW l \in Nat, NEW j \in Nat, NEW d \in Nat
  PROVE  CutAt(l, j) <= CutAt(l, j + d) /\ CutAt(l, j + d) <= CutAt(l, j) + d * UNIT
<1>1. /\ j * UNIT \in Nat /\ d * UNIT \in Nat
      /\ (j + d) * UNIT = j * UNIT + d * UNIT /\ j * UNIT <= (j + d) * UNIT
  BY ProductRises, EspFsAssumption
<1> QED
  BY <1>1 DEF CutAt

\* No unit is empty.
LEMMA CutGrows ==
  ASSUME NEW l \in Nat, NEW j \in Nat, j + 1 <= Units(l)
  PROVE  CutAt(l, j) < CutAt(l, j + 1) /\ CutAt(l, j + 1) <= CutAt(l, j) + UNIT
<1> DEFINE d == Units(l) - (j + 1)
<1>1. Units(l) \in Nat /\ Units(l) * UNIT < l + UNIT /\ UNIT \in Nat /\ UNIT >= 1
  BY UnitCount, EspFsAssumption
<1>2. d \in Nat /\ j + 1 \in Nat /\ (j + 1) + d = Units(l)
  BY <1>1
<1> HIDE DEF d
<1>3. (j + 1) * UNIT <= Units(l) * UNIT
  <2>1. (j + 1) * UNIT <= ((j + 1) + d) * UNIT
    BY <1>1, <1>2, ProductRises
  <2> QED
    BY <1>2, <2>1
<1>4. j * UNIT \in Nat /\ (j + 1) * UNIT = j * UNIT + UNIT
  BY <1>1
<1>5. j * UNIT < l
  BY <1>1, <1>3, <1>4
<1> QED
  BY <1>1, <1>4, <1>5 DEF CutAt

UnitOf(text, j) == Between(text, CutAt(Len(text), j - 1), CutAt(Len(text), j))

LEMMA UnitType ==
  ASSUME NEW A, NEW text \in Seq(A), NEW j \in Nat
  PROVE  /\ UnitOf(text, j + 1) = Between(text, CutAt(Len(text), j), CutAt(Len(text), j + 1))
         /\ UnitOf(text, j + 1) \in Seq(A)
<1>1. Len(text) \in Nat /\ (j + 1) - 1 = j /\ j + 1 \in Nat /\ 1 \in Nat
  OBVIOUS
<1>2. CutAt(Len(text), j) \in Nat /\ CutAt(Len(text), j + 1) \in Nat /\ CutAt(Len(text), j + 1) <= Len(text)
  BY <1>1, CutType
<1>3. CutAt(Len(text), j) <= CutAt(Len(text), j + 1)
  BY <1>1, CutRises
<1>4. Between(text, CutAt(Len(text), j), CutAt(Len(text), j + 1)) \in Seq(A)
  BY <1>2, <1>3, BetweenType
<1> QED
  BY <1>1, <1>4 DEF UnitOf

\* Units that follow each other make a stretch of the text.
LEMMA UnitsJoin ==
  ASSUME NEW A, NEW text \in Seq(A), NEW a \in Nat, NEW ss \in Seq(Seq(A)),
         \A i \in 1 .. Len(ss) : ss[i] = UnitOf(text, a + i)
  PROVE  FlattenSeq(ss) = Between(text, CutAt(Len(text), a), CutAt(Len(text), a + Len(ss)))
<1> DEFINE l == Len(text)
           d == Len(ss)
<1>1. l \in Nat /\ d \in Nat
  OBVIOUS
<1>2. CASE d = 0
  <2>1. ss = <<>> /\ a + d = a
    BY <1>2
  <2>2. FlattenSeq(<<>>) = <<>>
    BY DEF FlattenSeq
  <2>3. CutAt(l, a) \in Nat
    BY <1>1, CutType
  <2> HIDE DEF l, d
  <2>4. FlattenSeq(ss) = Between(text, CutAt(l, a), CutAt(l, a + d))
    BY <2>1, <2>2, <2>3, BetweenNone
  <2> QED
    BY <2>4 DEF l, d
<1>3. CASE d # 0
  <2>1. ss # <<>>
    BY <1>3
  <2>2. PICK f : IsFlat(ss, f) /\ FlattenSeq(ss) = f[Len(ss)]
    BY <2>1, FlattenUnfolds
  <2>3. \A i \in 1 .. d : f[i] = Joins(ss, f, i)
    BY <2>2 DEF IsFlat
  <2> DEFINE D == {n \in Nat : n + 1 <= d => f[n + 1] = Between(text, CutAt(l, a), CutAt(l, a + n + 1))}
  <2>4. 0 \in D
    <3>1. 1 \in 1 .. d /\ a + 0 + 1 = a + 1 /\ 0 + 1 = 1
      BY <1>1, <1>3
    <3>2. f[1] = ss[1] /\ ss[1] = UnitOf(text, a + 1)
      BY <2>3, <3>1 DEF Joins
    <3>3. UnitOf(text, a + 1) = Between(text, CutAt(l, a), CutAt(l, a + 1))
      BY UnitType
    <3> HIDE DEF l, d
    <3> QED
      BY <3>1, <3>2, <3>3
  <2>5. ASSUME NEW n \in Nat, n \in D PROVE n + 1 \in D
    <3> SUFFICES ASSUME (n + 1) + 1 <= d
                 PROVE  f[(n + 1) + 1] = Between(text, CutAt(l, a), CutAt(l, a + (n + 1) + 1))
      OBVIOUS
    <3> DEFINE j == a + n + 1
               m == n + 2
    <3>1. /\ j \in Nat /\ m \in 1 .. d /\ m # 1 /\ m - 1 = n + 1 /\ a + m = j + 1 /\ (n + 1) + 1 = m
          /\ n + 1 <= d /\ a + (n + 1) + 1 = j + 1 /\ j = a + (n + 1) /\ n + 1 \in Nat
      BY <1>1
    <3> HIDE DEF j, m, d
    <3>2. f[m] = f[m - 1] \o ss[m] /\ ss[m] = UnitOf(text, a + m)
      BY <2>3, <3>1 DEF Joins, d
    <3>3. UnitOf(text, j + 1) = Between(text, CutAt(l, j), CutAt(l, j + 1))
      BY <3>1, UnitType
    <3>4. f[n + 1] = Between(text, CutAt(l, a), CutAt(l, j))
      BY <2>5, <3>1 DEF j
    <3> HIDE DEF l
    <3>5. CutAt(l, a) \in Nat /\ CutAt(l, j) \in Nat /\ CutAt(l, j + 1) \in Nat /\ CutAt(l, j + 1) <= l
      <4>1. j + 1 \in Nat
        BY <3>1
      <4> QED
        BY <1>1, <3>1, <4>1, CutType
    <3>6. CutAt(l, a) <= CutAt(l, j)
      BY <1>1, <3>1, CutRises
    <3>7. CutAt(l, j) <= CutAt(l, j + 1)
      <4>1. 1 \in Nat
        OBVIOUS
      <4> QED
        BY <1>1, <3>1, <4>1, CutRises
    <3>8. Between(text, CutAt(l, a), CutAt(l, j)) \o Between(text, CutAt(l, j), CutAt(l, j + 1))
            = Between(text, CutAt(l, a), CutAt(l, j + 1))
      BY <3>5, <3>6, <3>7, BetweenJoin DEF l
    <3> QED
      BY <3>1, <3>2, <3>3, <3>4, <3>8
  <2> HIDE DEF D
  <2>6. Nat \subseteq D
    BY <2>4, <2>5, Induction
  <2>7. d - 1 \in Nat /\ (d - 1) + 1 = d /\ a + (d - 1) + 1 = a + d
    BY <1>1, <1>3
  <2>8. d - 1 \in D
    BY <2>6, <2>7
  <2>9. f[d] = Between(text, CutAt(l, a), CutAt(l, a + d))
    <3> HIDE DEF l, d
    <3> QED
      BY <2>7, <2>8 DEF D
  <2> QED
    BY <2>2, <2>9
<1> QED
  BY <1>2, <1>3
-----------------------------------------------------------------------------
(* The decoder. *)

FileType(A) ==
  [found: BOOLEAN, comp: {NONE, HEATSHRINK}, start: Nat, flen: Nat, pos: Nat,
   in: Seq(Seq(A)), used: Nat, pend: Seq(A)]

\* s characters of the text are out; the decoder has the rest of the first a
\* units as text and the next d of them in its input buffer.
HeldAs(text, f, s, a, d) ==
  /\ a + d <= Units(Len(text))
  /\ f.flen = Units(Len(text)) + 1
  /\ f.pos = a + d + 1
  /\ Len(f.in) = d /\ \A i \in 1 .. d : f.in[i] = UnitOf(text, a + i)
  /\ s <= CutAt(Len(text), a) /\ CutAt(Len(text), a) < s + UNIT
  /\ f.pend = Between(text, s, CutAt(Len(text), a))
  /\ d <= f.used /\ f.used <= IN_BUF /\ (d = 0 => f.used = 0)

UnitsAt(img, text, start) ==
  \A j \in 1 .. Units(Len(text)) : img[start + (j + 1)][2] = UnitOf(text, j)

LEMMA MinOfThree ==
  ASSUME NEW x \in Nat, NEW y \in Nat, NEW z \in Nat, NEW m, m = Min({x, y, z})
  PROVE  m \in Nat /\ m <= x /\ m <= y /\ m <= z /\ (m = x \/ m = y \/ m = z)
<1> DEFINE S == {x, y, z}
<1>1. S \in SUBSET Nat /\ S # {}
  OBVIOUS
<1> HIDE DEF S
<1>2. Min(S) \in S /\ \A v \in S : Min(S) <= v
  BY <1>1, Smallest
<1>3. m \in S /\ \A v \in S : m <= v
  BY <1>2 DEF S
<1> QED
  BY <1>3 DEF S

\* Sinking adds units to the input buffer, and some unless there is no room or
\* no more.
LEMMA SinkHolds ==
  ASSUME NEW A, NEW text \in Seq(A), NEW img, NEW f \in FileType(A), UnitsAt(img, text, f.start),
         NEW s \in Nat, NEW a \in Nat, NEW d \in Nat, HeldAs(text, f, s, a, d)
  PROVE  /\ Sink(img, f) \in FileType(A)
         /\ Sink(img, f).start = f.start /\ Sink(img, f).comp = f.comp
         /\ \E e \in Nat : /\ HeldAs(text, Sink(img, f), s, a, e)
                           /\ f.pos # f.flen => e > 0
<1> DEFINE l == Len(text)
           n == Min({IN_BUF - f.used, f.flen - f.pos, IN_BUF})
           new == [k \in 1 .. n |-> img[f.start + f.pos + k][2]]
           g == Sink(img, f)
<1>1. l \in Nat /\ Units(l) \in Nat /\ IN_BUF \in Nat /\ IN_BUF >= 1
  BY UnitCount, EspFsAssumption
<1>2. /\ f.used \in Nat /\ f.pos \in Nat /\ f.flen \in Nat /\ f.start \in Nat
      /\ f.in \in Seq(Seq(A)) /\ f.pend \in Seq(A)
  BY DEF FileType
<1>3. /\ a + d <= Units(l) /\ f.flen = Units(l) + 1 /\ f.pos = a + d + 1
      /\ Len(f.in) = d /\ \A i \in 1 .. d : f.in[i] = UnitOf(text, a + i)
      /\ s <= CutAt(l, a) /\ CutAt(l, a) < s + UNIT
      /\ f.pend = Between(text, s, CutAt(l, a))
      /\ d <= f.used /\ f.used <= IN_BUF /\ (d = 0 => f.used = 0)
  BY DEF HeldAs
<1>4. g = [f EXCEPT !.pos = @ + n, !.used = @ + n, !.in = @ \o new]
  BY DEF Sink
<1>5. /\ n \in Nat /\ n <= IN_BUF - f.used /\ n <= f.flen - f.pos
      /\ n = IN_BUF - f.used \/ n = f.flen - f.pos \/ n = IN_BUF
  <2>1. IN_BUF - f.used \in Nat /\ f.flen - f.pos \in Nat
    BY <1>1, <1>2, <1>3
  <2>2. n = Min({IN_BUF - f.used, f.flen - f.pos, IN_BUF})
    OBVIOUS
  <2> HIDE DEF n
  <2> QED
    BY <1>1, <2>1, <2>2, MinOfThree
<1>14. /\ a + d <= Units(l) /\ f.flen = Units(l) + 1 /\ f.pos = a + d + 1
       /\ d <= f.used /\ f.used <= IN_BUF /\ (d = 0 => f.used = 0)
  BY <1>3
<1> HIDE DEF l, n, g
<1>6. \A k \in 1 .. n : new[k] = UnitOf(text, a + (d + k))
  <2> SUFFICES ASSUME NEW k \in 1 .. n PROVE img[f.start + f.pos + k][2] = UnitOf(text, a + (d + k))
    OBVIOUS
  <2>3. n <= Units(l) - (a + d) /\ n \in Nat /\ Units(l) \in Nat /\ f.start \in Nat /\ f.pos = a + d + 1
    BY <1>1, <1>2, <1>5, <1>14
  <2>1. /\ a + (d + k) \in 1 .. Units(l)
        /\ f.start + f.pos + k = f.start + ((a + (d + k)) + 1)
    BY <2>3
  <2>2. img[f.start + ((a + (d + k)) + 1)][2] = UnitOf(text, a + (d + k))
    BY <2>1 DEF UnitsAt, l
  <2> QED
    BY <2>1, <2>2
<1>7. new \in Seq(Seq(A)) /\ Len(new) = n
  <2>1. ASSUME NEW k \in 1 .. n PROVE new[k] \in Seq(A)
    <3>1. a + (d + k) - 1 \in Nat /\ (a + (d + k) - 1) + 1 = a + (d + k)
      BY <1>5
    <3>2. UnitOf(text, (a + (d + k) - 1) + 1) \in Seq(A)
      BY <3>1, UnitType
    <3> QED
      BY <1>6, <3>1, <3>2
  <2>2. new = [k \in 1 .. n |-> new[k]]
    OBVIOUS
  <2> HIDE DEF new
  <2>3. [k \in 1 .. n |-> new[k]] \in [1 .. n -> Seq(A)]
    BY <2>1
  <2>4. new \in [1 .. n -> Seq(A)]
    BY <2>2, <2>3
  <2> QED
    BY <1>5, <2>4
<1> HIDE DEF new
<1> DEFINE in == f.in \o new
<1>8. /\ in \in Seq(Seq(A)) /\ Len(in) = d + n
      /\ \A k \in 1 .. d : in[k] = f.in[k]
      /\ \A k \in 1 .. n : in[d + k] = new[k]
  <2> DEFINE Z == Seq(A)
  <2>1. f.in \in Seq(Z)
    BY <1>2
  <2>2. new \in Seq(Z)
    BY <1>7
  <2> HIDE DEF Z
  <2>3. /\ in \in Seq(Z) /\ Len(in) = Len(f.in) + Len(new)
        /\ \A k \in 1 .. Len(f.in) : in[k] = f.in[k]
        /\ \A k \in 1 .. Len(new) : in[Len(f.in) + k] = new[k]
    BY <2>1, <2>2, ConcatCells
  <2> HIDE DEF in
  <2> QED
    BY <1>3, <1>7, <2>3 DEF Z
<1> HIDE DEF in
<1>9. /\ g.pos = f.pos + n /\ g.used = f.used + n /\ g.in = in /\ g.pend = f.pend
      /\ g.start = f.start /\ g.comp = f.comp /\ g.flen = f.flen /\ g \in FileType(A)
  <2>1. f.pos + n \in Nat /\ f.used + n \in Nat
    BY <1>2, <1>5
  <2> DEFINE p == f.pos + n
             u == f.used + n
             Z == Seq(Seq(A))
             R == [found: BOOLEAN, comp: {NONE, HEATSHRINK}, start: Nat, flen: Nat, pos: Nat,
                   in: Z, used: Nat, pend: Seq(A)]
  <2>2. g = [f EXCEPT !.pos = p, !.used = u, !.in = in]
    BY <1>4 DEF in
  <2>3. in \in Z /\ p \in Nat /\ u \in Nat
    BY <1>8, <2>1
  <2> HIDE DEF p, u, Z
  <2>4. f \in R
    BY DEF FileType, Z
  <2>5. /\ g.pos = p /\ g.used = u /\ g.in = in /\ g.pend = f.pend
        /\ g.start = f.start /\ g.comp = f.comp /\ g.flen = f.flen
    BY <2>2, <2>4
  <2>6. g \in R
    BY <2>2, <2>3, <2>4
  <2> QED
    BY <2>5, <2>6 DEF FileType, p, u, Z
<1>10. \A i \in 1 .. (d + n) : in[i] = UnitOf(text, a + i)
  <2> SUFFICES ASSUME NEW i \in 1 .. (d + n) PROVE in[i] = UnitOf(text, a + i)
    OBVIOUS
  <2>1. CASE i <= d
    <3>1. i \in 1 .. d
      BY <2>1
    <3> QED
      BY <1>3, <1>8, <3>1
  <2>2. CASE ~(i <= d)
    <3>1. i - d \in 1 .. n /\ d + (i - d) = i
      BY <1>5, <2>2
    <3>2. in[d + (i - d)] = new[i - d] /\ new[i - d] = UnitOf(text, a + (d + (i - d)))
      BY <1>6, <1>8, <3>1
    <3> QED
      BY <3>1, <3>2
  <2> QED
    BY <2>1, <2>2
<1>11. /\ a + (d + n) <= Units(l) /\ f.pos + n = a + (d + n) + 1 /\ d + n \in Nat
       /\ d + n <= f.used + n /\ f.used + n <= IN_BUF /\ (d + n = 0 => f.used + n = 0)
  <2>0. d <= f.used /\ f.used \in Nat /\ n \in Nat /\ n <= IN_BUF - f.used /\ IN_BUF \in Nat
    BY <1>1, <1>2, <1>5, <1>14
  <2>1. d + n <= f.used + n /\ f.used + n <= IN_BUF /\ d + n \in Nat
    BY <2>0
  <2>2. d + n = 0 => f.used + n = 0
    BY <1>2, <1>5, <1>14
  <2>3. a + (d + n) <= Units(l)
    <3>1. n <= Units(l) + 1 - (a + d + 1)
      BY <1>1, <1>2, <1>5, <1>14
    <3> QED
      BY <1>1, <1>5, <3>1
  <2>4. f.pos + n = a + (d + n) + 1
    BY <1>5, <1>14
  <2> QED
    BY <2>1, <2>2, <2>3, <2>4
<1>12. HeldAs(text, g, s, a, d + n)
  BY <1>3, <1>8, <1>9, <1>10, <1>11 DEF HeldAs, l
<1>13. f.pos # f.flen => d + n > 0
  <2> SUFFICES ASSUME f.pos # f.flen, d = 0 PROVE n > 0
    BY <1>5
  <2>1. f.used = 0 /\ IN_BUF - f.used > 0
    BY <1>1, <1>14
  <2>2. f.flen - f.pos > 0
    BY <1>1, <1>14
  <2> QED
    BY <1>1, <1>5, <2>1, <2>2
<1> QED
  BY <1>9, <1>11, <1>12, <1>13 DEF g

\* What a poll has taken and put out.
PolledAs(text, f, s, a, d, room, t, n) ==
  /\ Poll(f, room).out = Between(text, s, s + n)
  /\ HeldAs(text, Poll(f, room).f, s + n, a + t, d - t)
  /\ n < room => t = d /\ s + n = CutAt(Len(text), a + d)

\* Polling puts the next characters out, as many as there is room for unless all
\* that was in the decoder is out.
LEMMA PollHolds ==
  ASSUME NEW A, NEW text \in Seq(A), NEW f \in FileType(A),
         NEW s \in Nat, NEW a \in Nat, NEW d \in Nat, HeldAs(text, f, s, a, d), d > 0,
         NEW room \in Nat, CutAt(Len(text), a) < s + room
  PROVE  /\ Poll(f, room).f \in FileType(A)
         /\ Poll(f, room).f.start = f.start /\ Poll(f, room).f.comp = f.comp
         /\ \E t \in 1 .. d, n \in 1 .. room : PolledAs(text, f, s, a, d, room, t, n)
<1> DEFINE l == Len(text)
           C == [k \in Nat |-> CutAt(l, a + k)]
           enough == {k \in 0 .. Len(f.in) :
                        k = Len(f.in) \/
                        Len(f.pend) + Len(FlattenSeq(SubSeq(f.in, 1, k))) >= room}
           t == Min(enough)
           held == f.pend \o FlattenSeq(SubSeq(f.in, 1, t))
           n == Min({room, Len(held)})
           P == Poll(f, room)
           rest == SubSeq(f.in, t + 1, Len(f.in))
           left == SubSeq(held, n + 1, Len(held))
           used == IF t = Len(f.in) THEN 0 ELSE f.used
           g == [f EXCEPT !.in = rest, !.used = used, !.pend = left]
<1>1. P = [f |-> g, out |-> SubSeq(held, 1, n)]
  BY DEF Poll
<1>2. /\ f.used \in Nat /\ f.pos \in Nat /\ f.flen \in Nat /\ f.start \in Nat
      /\ f.in \in Seq(Seq(A)) /\ f.pend \in Seq(A)
  BY DEF FileType
<1>3. /\ a + d <= Units(l) /\ f.flen = Units(l) + 1 /\ f.pos = a + d + 1
      /\ Len(f.in) = d /\ \A i \in 1 .. d : f.in[i] = UnitOf(text, a + i)
      /\ s <= CutAt(l, a) /\ CutAt(l, a) < s + UNIT
      /\ f.pend = Between(text, s, CutAt(l, a))
      /\ d <= f.used /\ f.used <= IN_BUF /\ (d = 0 => f.used = 0)
  BY DEF HeldAs
<1>4. l \in Nat /\ Units(l) \in Nat /\ UNIT \in Nat /\ UNIT >= 1
  BY UnitCount, EspFsAssumption
<1> HIDE DEF l
<1>5. \A k \in Nat : C[k] \in Nat /\ C[k] <= l
  <2> SUFFICES ASSUME NEW k \in Nat PROVE C[k] \in Nat /\ C[k] <= l
    OBVIOUS
  <2>1. a + k \in Nat
    OBVIOUS
  <2> QED
    BY <1>4, <2>1, CutType
<1>6. C[0] = CutAt(l, a) /\ \A k \in Nat : C[0] <= C[k]
  <2>1. a + 0 = a
    OBVIOUS
  <2>2. ASSUME NEW k \in Nat PROVE CutAt(l, a) <= CutAt(l, a + k)
    BY <1>4, CutRises
  <2> QED
    BY <2>1, <2>2
<1>7. \A k \in 0 .. (d - 1) : C[k] < C[k + 1] /\ C[k + 1] <= C[k] + UNIT
  <2> SUFFICES ASSUME NEW k \in 0 .. (d - 1) PROVE C[k] < C[k + 1] /\ C[k + 1] <= C[k] + UNIT
    OBVIOUS
  <2>1. a + k \in Nat /\ (a + k) + 1 <= Units(l) /\ (a + k) + 1 = a + (k + 1)
    BY <1>3, <1>4
  <2>2. CutAt(l, a + k) < CutAt(l, (a + k) + 1) /\ CutAt(l, (a + k) + 1) <= CutAt(l, a + k) + UNIT
    BY <1>4, <2>1, CutGrows
  <2>3. k \in Nat /\ k + 1 \in Nat
    OBVIOUS
  <2>4. C[k] = CutAt(l, a + k) /\ C[k + 1] = CutAt(l, a + (k + 1))
    BY <2>3
  <2> HIDE DEF C
  <2> QED
    BY <2>1, <2>2, <2>4
<1>26. C[0] \in Nat /\ C[0] <= l
  <2>1. 0 \in Nat
    OBVIOUS
  <2> HIDE DEF C
  <2> QED
    BY <1>5, <2>1
<1> HIDE DEF C
<1>8. \A k \in 0 .. d : FlattenSeq(SubSeq(f.in, 1, k)) = Between(text, C[0], C[k])
  <2> SUFFICES ASSUME NEW k \in 0 .. d
               PROVE  FlattenSeq(SubSeq(f.in, 1, k)) = Between(text, C[0], C[k])
    OBVIOUS
  <2> DEFINE Z == Seq(A)
             ss == SubSeq(f.in, 1, k)
  <2>1. f.in \in Seq(Z) /\ k \in Nat /\ k <= Len(f.in) /\ ss = SubSeq(f.in, 1, k)
    BY <1>2, <1>3
  <2> HIDE DEF Z, ss
  <2>2. ss \in Seq(Z) /\ Len(ss) = k /\ \A i \in 1 .. k : ss[i] = f.in[i]
    BY <2>1, Beginning
  <2>3. \A i \in 1 .. Len(ss) : ss[i] = UnitOf(text, a + i)
    BY <1>3, <2>1, <2>2
  <2>4. ss \in Seq(Seq(A))
    BY <2>2 DEF Z
  <2>5. FlattenSeq(ss) = Between(text, CutAt(Len(text), a), CutAt(Len(text), a + Len(ss)))
    BY <2>3, <2>4, UnitsJoin
  <2> QED
    BY <1>6, <2>2, <2>5 DEF C, l, ss
<1>9. s <= C[0] /\ C[0] < s + UNIT /\ C[0] < s + room /\ f.pend = Between(text, s, C[0])
  BY <1>3, <1>6 DEF l
<1>10. Len(f.pend) = C[0] - s
  <2>1. s <= C[0] /\ C[0] \in Nat /\ C[0] <= Len(text)
    BY <1>9, <1>26 DEF l
  <2> DEFINE e == C[0]
  <2>2. s <= e /\ e \in Nat /\ e <= Len(text)
    BY <2>1
  <2> HIDE DEF e
  <2>3. Len(Between(text, s, e)) = e - s
    BY <2>2, BetweenType
  <2> QED
    BY <1>9, <2>3 DEF e
<1>11. \A k \in 0 .. d : Len(FlattenSeq(SubSeq(f.in, 1, k))) = C[k] - C[0]
  <2> SUFFICES ASSUME NEW k \in 0 .. d PROVE Len(FlattenSeq(SubSeq(f.in, 1, k))) = C[k] - C[0]
    OBVIOUS
  <2>1. C[0] \in Nat /\ C[k] \in Nat /\ C[k] <= Len(text) /\ C[0] <= C[k]
    <3>1. k \in Nat
      OBVIOUS
    <3> QED
      BY <1>5, <1>6, <1>26, <3>1 DEF l
  <2> DEFINE b == C[0]
             e == C[k]
  <2>2. b \in Nat /\ e \in Nat /\ e <= Len(text) /\ b <= e
    BY <2>1
  <2> HIDE DEF b, e
  <2>3. Len(Between(text, b, e)) = e - b
    BY <2>2, BetweenType
  <2> QED
    BY <1>8, <2>3 DEF b, e
<1>12. t \in 1 .. d /\ (t = d \/ C[t] >= s + room) /\ C[t - 1] < s + room
  <2>1. \A k : k \in enough <=> k \in 0 .. d /\ (k = d \/ C[k] >= s + room)
    <3>1. \A k \in 0 .. d : Len(f.pend) + Len(FlattenSeq(SubSeq(f.in, 1, k))) = C[k] - s
      <4> SUFFICES ASSUME NEW k \in 0 .. d
                   PROVE  Len(f.pend) + Len(FlattenSeq(SubSeq(f.in, 1, k))) = C[k] - s
        OBVIOUS
      <4>1. C[k] \in Nat
        BY <1>5
      <4> QED
        BY <1>10, <1>11, <1>26, <4>1
    <3>2. \A k \in 0 .. d : C[k] - s >= room <=> C[k] >= s + room
      <4> SUFFICES ASSUME NEW k \in 0 .. d PROVE C[k] - s >= room <=> C[k] >= s + room
        OBVIOUS
      <4>1. C[k] \in Nat
        BY <1>5
      <4> QED
        BY <4>1
    <3> QED
      BY <1>3, <3>1, <3>2
  <2> HIDE DEF enough
  <2>2. enough \in SUBSET Nat /\ d \in enough
    BY <2>1
  <2>3. t \in enough /\ \A k \in enough : t <= k
    BY <2>2, Smallest
  <2> HIDE DEF t
  <2>4. t \in 0 .. d /\ (t = d \/ C[t] >= s + room)
    BY <2>1, <2>3
  <2>5. t # 0
    BY <1>5, <1>9, <2>4
  <2>6. t - 1 \in 0 .. d /\ t - 1 # d /\ t - 1 \notin enough /\ t - 1 \in Nat
    BY <2>3, <2>4, <2>5
  <2>7. C[t - 1] < s + room
    BY <1>5, <2>1, <2>6
  <2> QED
    BY <2>4, <2>5, <2>7
<1> HIDE DEF t
<1>13. t \in Nat /\ t >= 1 /\ t <= d /\ C[t] \in Nat /\ C[t] <= l /\ C[0] <= C[t] /\ s < C[t]
       /\ C[t] < s + room + UNIT
  <2>1. t \in Nat /\ t >= 1 /\ t <= d /\ t - 1 \in 0 .. (d - 1) /\ t - 1 \in Nat /\ (t - 1) + 1 = t
    BY <1>12
  <2>2. C[t] \in Nat /\ C[t] <= l /\ C[0] <= C[t] /\ C[t - 1] \in Nat /\ C[0] <= C[t - 1] /\ C[0] \in Nat
    BY <1>5, <1>6, <2>1
  <2>3. C[t - 1] < C[(t - 1) + 1] /\ C[(t - 1) + 1] <= C[t - 1] + UNIT
    BY <1>7, <2>1
  <2>4. C[t - 1] < C[t] /\ C[t] <= C[t - 1] + UNIT
    BY <2>1, <2>3
  <2>5. s <= C[0] /\ C[t - 1] < s + room
    BY <1>9, <1>12
  <2> DEFINE c == C[t]
             e == C[t - 1]
             z == C[0]
  <2>6. /\ c \in Nat /\ e \in Nat /\ z \in Nat /\ c <= l /\ z <= c /\ z <= e /\ e < c /\ c <= e + UNIT
        /\ s <= z /\ e < s + room
    BY <2>2, <2>4, <2>5
  <2> HIDE DEF c, e, z
  <2>7. s < c /\ c < s + room + UNIT
    BY <1>4, <2>6
  <2> QED
    BY <2>1, <2>6, <2>7 DEF c, z
<1>14. held = Between(text, s, C[t]) /\ Len(held) = C[t] - s
  <2>1. /\ s <= C[0] /\ C[0] <= C[t] /\ C[t] <= Len(text) /\ C[0] \in Nat /\ C[t] \in Nat
        /\ s <= C[t]
    BY <1>5, <1>9, <1>13 DEF l
  <2> DEFINE z == C[0]
             c == C[t]
  <2>6. s <= z /\ z <= c /\ c <= Len(text) /\ z \in Nat /\ c \in Nat
    BY <2>1
  <2> HIDE DEF z, c
  <2>7. Between(text, s, z) \o Between(text, z, c) = Between(text, s, c)
    BY <2>6, BetweenJoin
  <2>2. Between(text, s, C[0]) \o Between(text, C[0], C[t]) = Between(text, s, C[t])
    BY <2>7 DEF z, c
  <2>3. t \in 0 .. d
    BY <1>12
  <2>4. held = Between(text, s, C[t])
    BY <1>8, <1>9, <2>2, <2>3
  <2>8. s <= c
    BY <2>1 DEF c
  <2>9. Len(Between(text, s, c)) = c - s
    BY <2>6, <2>8, BetweenType
  <2>5. Len(Between(text, s, C[t])) = C[t] - s
    BY <2>9 DEF c
  <2> QED
    BY <2>4, <2>5
<1> HIDE DEF held
<1>15. n = IF room <= C[t] - s THEN room ELSE C[t] - s
  <2>1. C[t] - s \in Nat
    BY <1>13
  <2> QED
    BY <1>14, <2>1, MinOfTwo
<1> HIDE DEF n
<1>16. n \in 1 .. room /\ n <= C[t] - s /\ s + n \in Nat /\ s + n <= C[t] /\ C[t] < s + n + UNIT
  <2>1. room >= 1 /\ C[t] - s >= 1
    BY <1>9, <1>13, <1>26
  <2>2. n \in Nat /\ n >= 1 /\ n <= room /\ n <= C[t] - s
    BY <1>13, <1>15, <2>1
  <2>3. C[t] < s + n + UNIT
    BY <1>4, <1>13, <1>15
  <2> QED
    BY <1>13, <2>2, <2>3
<1>17. n < room => t = d /\ s + n = C[t]
  BY <1>12, <1>13, <1>15
<1>18. SubSeq(held, 1, n) = Between(text, s, s + n) /\ left = Between(text, s + n, C[t])
  <2>1. s <= C[t] /\ C[t] <= Len(text) /\ C[t] \in Nat /\ n \in Nat /\ n <= C[t] - s
    BY <1>13, <1>16 DEF l
  <2> DEFINE e == C[t]
  <2>2. s <= e /\ e <= Len(text) /\ e \in Nat /\ n <= e - s
    BY <2>1
  <2> HIDE DEF e
  <2>3. /\ SubSeq(Between(text, s, e), 1, n) = Between(text, s, s + n)
        /\ SubSeq(Between(text, s, e), n + 1, e - s) = Between(text, s + n, e)
    BY <2>1, <2>2, BetweenSplit
  <2> QED
    BY <1>14, <2>3 DEF e
<1>19. left \in Seq(A)
  <2>1. s + n \in Nat /\ C[t] \in Nat /\ s + n <= C[t] /\ C[t] <= Len(text)
    BY <1>13, <1>16 DEF l
  <2>2. Between(text, s + n, C[t]) \in Seq(A)
    BY <2>1, BetweenType
  <2> QED
    BY <1>18, <2>2
<1> HIDE DEF left
<1>20. rest \in Seq(Seq(A)) /\ Len(rest) = d - t /\ \A i \in 1 .. (d - t) : rest[i] = f.in[t + i]
  <2> DEFINE Z == Seq(A)
  <2>1. f.in \in Seq(Z) /\ t <= d /\ d <= Len(f.in) /\ rest = SubSeq(f.in, t + 1, d)
    BY <1>2, <1>3, <1>13
  <2> HIDE DEF Z, rest
  <2> DEFINE in == f.in
  <2>4. in \in Seq(Z)
    BY <2>1
  <2>5. t \in Nat /\ t <= d /\ d <= Len(in)
    BY <1>13, <2>1
  <2> HIDE DEF in
  <2>2. SubSeq(in, t + 1, d) = Between(in, t, d)
    BY <2>4, <2>5, SliceIsBetween
  <2>3. /\ Between(in, t, d) \in Seq(Z) /\ Len(Between(in, t, d)) = d - t
        /\ \A i \in 1 .. (d - t) : Between(in, t, d)[i] = in[t + i]
    BY <2>4, <2>5, BetweenType
  <2> QED
    BY <2>1, <2>2, <2>3 DEF Z, in
<1> HIDE DEF rest
<1>21. used \in Nat /\ d - t <= used /\ used <= IN_BUF /\ (d - t = 0 => used = 0)
  <2>1. CASE t = d
    <3>1. used = 0
      BY <1>3, <2>1
    <3>2. d - t = 0 /\ IN_BUF \in Nat
      BY <1>13, <2>1, EspFsAssumption
    <3> HIDE DEF used
    <3> QED
      BY <3>1, <3>2
  <2>2. CASE t # d
    <3>1. used = f.used /\ d - t # 0
      BY <1>3, <1>13, <2>2
    <3>2. d <= f.used /\ f.used <= IN_BUF
      BY <1>3
    <3>3. f.used \in Nat
      BY <1>2
    <3>4. t \in Nat /\ t <= d
      BY <1>13
    <3> HIDE DEF used
    <3> QED
      BY <3>1, <3>2, <3>3, <3>4
  <2> QED
    BY <2>1, <2>2
<1> HIDE DEF used
<1>22. /\ g.pos = f.pos /\ g.used = used /\ g.in = rest /\ g.pend = left
       /\ g.start = f.start /\ g.comp = f.comp /\ g.flen = f.flen /\ g \in FileType(A)
  <2> DEFINE Z == Seq(Seq(A))
             Y == Seq(A)
             R == [found: BOOLEAN, comp: {NONE, HEATSHRINK}, start: Nat, flen: Nat, pos: Nat,
                   in: Z, used: Nat, pend: Y]
  <2>1. rest \in Z /\ left \in Y /\ used \in Nat
    BY <1>19, <1>20, <1>21
  <2> HIDE DEF Z, Y
  <2>2. f \in R
    BY DEF FileType, Z, Y
  <2>3. /\ g.pos = f.pos /\ g.used = used /\ g.in = rest /\ g.pend = left
        /\ g.start = f.start /\ g.comp = f.comp /\ g.flen = f.flen
    BY <2>2
  <2>4. g \in R
    BY <2>1, <2>2
  <2> QED
    BY <2>3, <2>4 DEF FileType, Z, Y
<1> HIDE DEF g
<1>23. HeldAs(text, g, s + n, a + t, d - t)
  <2>1. (a + t) + (d - t) = a + d
    BY <1>13
  <2>2. a + d <= Units(l) /\ g.flen = Units(l) + 1 /\ g.pos = a + d + 1
    BY <1>3, <1>22
  <2>3. \A i \in 1 .. (d - t) : rest[i] = UnitOf(text, (a + t) + i)
    <3> SUFFICES ASSUME NEW i \in 1 .. (d - t) PROVE rest[i] = UnitOf(text, (a + t) + i)
      OBVIOUS
    <3>1. t + i \in 1 .. d /\ a + (t + i) = (a + t) + i
      BY <1>13
    <3>2. f.in[t + i] = UnitOf(text, a + (t + i))
      BY <1>3, <3>1
    <3> QED
      BY <1>20, <3>1, <3>2
  <2>4. C[t] = CutAt(l, a + t)
    BY <1>13 DEF C
  <2>5. s + n <= CutAt(l, a + t) /\ CutAt(l, a + t) < s + n + UNIT
    BY <1>16, <2>4
  <2>6. left = Between(text, s + n, CutAt(l, a + t))
    BY <1>18, <2>4
  <2> QED
    BY <1>20, <1>21, <1>22, <2>1, <2>2, <2>3, <2>5, <2>6 DEF HeldAs, l
<1>24. PolledAs(text, f, s, a, d, room, t, n)
  <2>1. P.f = g /\ P.out = Between(text, s, s + n)
    BY <1>1, <1>18
  <2>2. n < room => t = d /\ s + n = CutAt(l, a + d)
    BY <1>17 DEF C
  <2> QED
    BY <1>23, <2>1, <2>2 DEF PolledAs, P, l
<1>25. P.f \in FileType(A) /\ P.f.start = f.start /\ P.f.comp = f.comp
  BY <1>1, <1>22
<1> QED
  BY <1>12, <1>16, <1>24, <1>25 DEF P
-----------------------------------------------------------------------------
(* One read of a compressed file. *)

\* m characters have been read since the decoder had put out s; it has put out
\* all it had unless none have been, or len.
ReadingAs(text, s, len, x, m, a, d) ==
  /\ x.out = Between(text, s, s + m)
  /\ HeldAs(text, x.f, s + m, a, d)
  /\ d < IN_BUF
  /\ m # 0 /\ m # len => s + m = CutAt(Len(text), a) /\ d = 0

Reading(A, text, f, s, len) ==
  {x \in [f: FileType(A), out: Seq(A)] :
     /\ x.f.start = f.start /\ x.f.comp = f.comp
     /\ \E m \in 0 .. len, a \in Nat, d \in Nat : ReadingAs(text, s, len, x, m, a, d)}

\* What is out is part of the text.
LEMMA HeldInside ==
  ASSUME NEW A, NEW text \in Seq(A), NEW f, NEW s \in Nat, NEW a \in Nat, NEW d \in Nat,
         HeldAs(text, f, s, a, d)
  PROVE  s <= Len(text)
<1>1. CutAt(Len(text), a) \in Nat /\ CutAt(Len(text), a) <= Len(text) /\ s <= CutAt(Len(text), a)
  <2>1. Len(text) \in Nat
    OBVIOUS
  <2> QED
    BY <2>1, CutType DEF HeldAs
<1> QED
  BY <1>1

LEMMA OutLength ==
  ASSUME NEW A, NEW text \in Seq(A), NEW s \in Nat, NEW len, NEW x, NEW m \in Nat, NEW a \in Nat, NEW d \in Nat,
         ReadingAs(text, s, len, x, m, a, d)
  PROVE  Len(x.out) = m /\ s + m <= Len(text)
<1>1. s + m \in Nat /\ s <= s + m /\ x.out = Between(text, s, s + m) /\ HeldAs(text, x.f, s + m, a, d)
  BY DEF ReadingAs
<1>2. s + m <= Len(text)
  BY <1>1, HeldInside
<1>3. Len(Between(text, s, s + m)) = (s + m) - s
  BY <1>1, <1>2, BetweenType
<1> QED
  BY <1>1, <1>2, <1>3

\* One round: there is nothing left to do, or something more has been read.
LEMMA PassHolds ==
  ASSUME NEW A, NEW text \in Seq(A), NEW img, NEW f, UnitsAt(img, text, f.start),
         NEW s \in Nat, NEW len \in Nat, UNIT <= len, NEW x \in Reading(A, text, f, s, len)
  PROVE  /\ PassStep(img, len, x) \in Reading(A, text, f, s, len)
         /\ \/ PassStep(img, len, x) = x /\ (Len(x.out) >= len \/ x.f.pos = x.f.flen)
            \/ Len(PassStep(img, len, x).out) > Len(x.out)
<1>1. /\ x.f \in FileType(A) /\ x.out \in Seq(A) /\ x.f.start = f.start /\ x.f.comp = f.comp
      /\ \E m \in 0 .. len, a \in Nat, d \in Nat : ReadingAs(text, s, len, x, m, a, d)
  BY DEF Reading
<1>2. PICK m \in 0 .. len, a \in Nat, d \in Nat : ReadingAs(text, s, len, x, m, a, d)
  BY <1>1
<1>3. m \in Nat /\ m <= len /\ Len(x.out) = m
  BY <1>2, OutLength
<1>4. CASE Len(x.out) >= len \/ x.f.pos = x.f.flen
  BY <1>4 DEF PassStep
<1>5. CASE ~(Len(x.out) >= len \/ x.f.pos = x.f.flen)
  <2> DEFINE g == Sink(img, x.f)
             room == len - Len(x.out)
             got == Poll(g, room)
             y == PassStep(img, len, x)
             r == s + m
             l == Len(text)
  <2>1. y = [f |-> got.f, out |-> x.out \o got.out]
    BY <1>5 DEF PassStep
  <2>2. r \in Nat /\ room \in Nat /\ room = len - m /\ m < len /\ l \in Nat
    BY <1>3, <1>5
  <2>3. x.f.pos # x.f.flen /\ UnitsAt(img, text, x.f.start)
    BY <1>1, <1>5
  <2> HIDE DEF y, got, g, room, l
  <2>4. HeldAs(text, x.f, r, a, d) /\ (m # 0 => r = CutAt(l, a)) /\ x.out = Between(text, s, r)
    BY <1>2, <2>2 DEF ReadingAs, l
  <2> HIDE DEF r
  <2>5. /\ g \in FileType(A) /\ g.start = x.f.start /\ g.comp = x.f.comp
        /\ \E e \in Nat : HeldAs(text, g, r, a, e) /\ (x.f.pos # x.f.flen => e > 0)
    BY <1>1, <2>2, <2>3, <2>4, SinkHolds DEF g
  <2>6. PICK e \in Nat : HeldAs(text, g, r, a, e) /\ e > 0
    BY <2>3, <2>5
  <2>7. CutAt(l, a) \in Nat /\ CutAt(l, a) < r + UNIT
    BY <2>2, <2>6, CutType DEF HeldAs, l
  <2>8. CutAt(l, a) < r + room
    <3>1. CASE m = 0
      BY <2>2, <2>7, <3>1, EspFsAssumption
    <3>2. CASE m # 0
      BY <2>2, <2>4, <2>7, <3>2
    <3> QED
      BY <3>1, <3>2
  <2>9. /\ got.f \in FileType(A) /\ got.f.start = g.start /\ got.f.comp = g.comp
        /\ \E t \in 1 .. e, n \in 1 .. room : PolledAs(text, g, r, a, e, room, t, n)
    BY <2>2, <2>5, <2>6, <2>8, PollHolds DEF got, l
  <2>10. PICK t \in 1 .. e, n \in 1 .. room : PolledAs(text, g, r, a, e, room, t, n)
    BY <2>9
  <2>11. /\ got.out = Between(text, r, r + n)
         /\ HeldAs(text, got.f, r + n, a + t, e - t)
         /\ n < room => t = e /\ r + n = CutAt(l, a + e)
    BY <2>10 DEF PolledAs, got, l
  <2>12. /\ a + t \in Nat /\ e - t \in Nat /\ r + n \in Nat /\ r <= r + n /\ s <= r
         /\ m + n \in 0 .. len /\ r + n = s + (m + n) /\ n \in Nat /\ n >= 1
         /\ m + n # len => n < room
    BY <1>3, <2>2 DEF r
  <2>13. r + n <= Len(text)
    BY <2>11, <2>12, HeldInside
  <2>14. Between(text, s, r) \o Between(text, r, r + n) = Between(text, s, r + n)
    BY <2>2, <2>12, <2>13, BetweenJoin
  <2>15. y.out = Between(text, s, r + n) /\ y.f = got.f
    BY <2>1, <2>4, <2>11, <2>14
  <2>16. y.out \in Seq(A)
    <3>1. s <= r + n
      BY <2>2, <2>12
    <3>2. Between(text, s, r + n) \in Seq(A)
      BY <2>12, <2>13, <3>1, BetweenType
    <3> QED
      BY <2>15, <3>2
  <2>17. e - t < IN_BUF
    <3>1. Len(g.in) = e /\ e <= g.used /\ g.used <= IN_BUF /\ g.used \in Nat
      BY <2>5, <2>6 DEF HeldAs, FileType
    <3> QED
      BY <3>1, EspFsAssumption
  <2>18. ReadingAs(text, s, len, y, m + n, a + t, e - t)
    <3>1. HeldAs(text, y.f, s + (m + n), a + t, e - t) /\ y.out = Between(text, s, s + (m + n))
      BY <2>11, <2>12, <2>15
    <3>2. m + n # len => s + (m + n) = CutAt(Len(text), a + t) /\ e - t = 0
      <4> SUFFICES ASSUME m + n # len
                   PROVE  s + (m + n) = CutAt(Len(text), a + t) /\ e - t = 0
        OBVIOUS
      <4>1. t = e /\ r + n = CutAt(l, a + e)
        BY <2>11, <2>12
      <4> QED
        BY <2>12, <4>1 DEF l
    <3> QED
      BY <2>17, <3>1, <3>2 DEF ReadingAs
  <2>19. y \in [f: FileType(A), out: Seq(A)]
    <3>1. x.out \o got.out \in Seq(A) /\ got.f \in FileType(A)
      BY <2>1, <2>9, <2>16
    <3> QED
      BY <2>1, <3>1
  <2>20. y \in Reading(A, text, f, s, len)
    <3>1. y.f.start = f.start /\ y.f.comp = f.comp
      BY <1>1, <2>5, <2>9, <2>15
    <3> QED
      BY <2>12, <2>18, <2>19, <3>1 DEF Reading
  <2>21. Len(y.out) = m + n
    <3>1. m + n \in Nat
      BY <2>12
    <3> QED
      BY <2>12, <2>18, <3>1, OutLength
  <2>22. Len(y.out) > Len(x.out)
    BY <1>3, <2>12, <2>21
  <2> QED
    BY <2>20, <2>22 DEF y
<1> QED
  BY <1>4, <1>5

\* A read gives the next characters: len of them, or all there are, or, when the
\* input had been used up before, none.
ReadAs(A, img, text, f, s, len, m, a, d) ==
  LET R == ReadHeatshrink(img, f, len) IN
  /\ R.f \in FileType(A) /\ R.f.start = f.start /\ R.f.comp = f.comp
  /\ R.out = Between(text, s, s + m)
  /\ HeldAs(text, R.f, s + m, a, d)
  /\ d < IN_BUF
  /\ m # len => a + d = Units(Len(text)) /\ (m = 0 \/ s + m = Len(text))

LEMMA ReadHolds ==
  ASSUME NEW A, NEW text \in Seq(A), NEW img, NEW f \in FileType(A), UnitsAt(img, text, f.start),
         NEW s \in Nat, NEW a \in Nat, NEW d \in Nat, HeldAs(text, f, s, a, d), d < IN_BUF,
         NEW len \in Nat, UNIT <= len
  PROVE  \E m \in 0 .. len, a2 \in Nat, d2 \in Nat : ReadAs(A, img, text, f, s, len, m, a2, d2)
<1> DEFINE T == Reading(A, text, f, s, len)
           base == [f |-> f, out |-> <<>>]
<1>1. base \in T
  <2>1. Between(text, s, s + 0) = <<>> /\ s + 0 = s
    BY BetweenNone
  <2>2. base.f = f /\ base.out = <<>> /\ base \in [f: FileType(A), out: Seq(A)]
    OBVIOUS
  <2> HIDE DEF base
  <2>3. ReadingAs(text, s, len, base, 0, a, d)
    BY <2>1, <2>2 DEF ReadingAs
  <2>4. 0 \in 0 .. len
    OBVIOUS
  <2> QED
    BY <2>2, <2>3, <2>4 DEF Reading
<1>2. \A x \in T : PassStep(img, len, x) \in T
  BY PassHolds
<1>3. \A x \in T : \/ PassStep(img, len, x) = x /\ (Len(x.out) >= len \/ x.f.pos = x.f.flen)
                   \/ Len(PassStep(img, len, x).out) > Len(x.out)
  BY PassHolds
<1>4. \A x \in T : /\ x.f \in FileType(A) /\ x.f.start = f.start /\ x.f.comp = f.comp
                   /\ \E m \in 0 .. len, b \in Nat, c \in Nat : ReadingAs(text, s, len, x, m, b, c)
  BY DEF Reading
<1> HIDE DEF T
<1>5. PICK g : IsReading(img, f, len, T, g)
  BY <1>1, <1>2, PassUnfolds
<1>6. /\ \A n \in Nat : g[n] \in T
      /\ g[0] = [f |-> f, out |-> <<>>]
      /\ \A n \in Nat : g[n + 1] = PassStep(img, len, g[n])
      /\ ReadHeatshrink(img, f, len) = g[len + 1]
  BY <1>5 DEF IsReading
<1>7. \A x \in T : Len(x.out) \in Nat /\ Len(x.out) <= len
  <2> SUFFICES ASSUME NEW x \in T PROVE Len(x.out) \in Nat /\ Len(x.out) <= len
    OBVIOUS
  <2>1. PICK m \in 0 .. len, b \in Nat, c \in Nat : ReadingAs(text, s, len, x, m, b, c)
    BY <1>4
  <2>2. m \in Nat
    OBVIOUS
  <2> QED
    BY <2>1, <2>2, OutLength
<1> DEFINE Over(x) == Len(x.out) >= len \/ x.f.pos = x.f.flen
           D == {n \in Nat : Over(g[n]) \/ Len(g[n].out) >= n}
<1>8. 0 \in D
  <2>1. g[0] \in T /\ Len(g[0].out) \in Nat
    BY <1>6, <1>7
  <2> QED
    BY <2>1
<1>9. ASSUME NEW n \in Nat, n \in D PROVE n + 1 \in D
  <2>1. g[n] \in T /\ g[n + 1] \in T /\ g[n + 1] = PassStep(img, len, g[n]) /\ n + 1 \in Nat
    <3>1. n + 1 \in Nat
      OBVIOUS
    <3> QED
      BY <1>6, <3>1
  <2>2. Len(g[n].out) \in Nat /\ Len(g[n + 1].out) \in Nat
    BY <1>7, <2>1
  <2>3. CASE g[n + 1] = g[n] /\ Over(g[n])
    BY <2>1, <2>3
  <2>4. CASE Len(g[n + 1].out) > Len(g[n].out) /\ Len(g[n].out) >= n
    <3>1. Len(g[n + 1].out) >= n + 1
      BY <2>2, <2>4
    <3> QED
      BY <2>1, <3>1
  <2>5. CASE Over(g[n])
    <3>1. PassStep(img, len, g[n]) = g[n]
      BY <2>5 DEF PassStep
    <3> QED
      BY <2>1, <2>3, <2>5, <3>1
  <2> QED
    BY <1>3, <1>9, <2>1, <2>3, <2>4, <2>5
<1> HIDE DEF D
<1>10. Nat \subseteq D
  BY <1>8, <1>9, Induction
<1> DEFINE R == g[len + 1]
<1>11. R \in T /\ Over(R)
  <2>1. len + 1 \in Nat
    OBVIOUS
  <2>2. len + 1 \in D
    BY <1>10, <2>1
  <2>3. R \in T /\ (Over(R) \/ Len(R.out) >= len + 1)
    BY <1>6, <2>1, <2>2 DEF D
  <2>4. Len(R.out) \in Nat /\ Len(R.out) <= len
    BY <1>7, <2>3
  <2> QED
    BY <2>3, <2>4
<1> HIDE DEF R
<1>12. PICK m \in 0 .. len, b \in Nat, c \in Nat : ReadingAs(text, s, len, R, m, b, c)
  BY <1>4, <1>11
<1>13. Len(R.out) = m /\ m \in Nat /\ m <= len
  <2>1. m \in Nat /\ m <= len
    OBVIOUS
  <2> QED
    BY <1>12, <2>1, OutLength
<1>14. m # len => b + c = Units(Len(text)) /\ (m = 0 \/ s + m = Len(text))
  <2> SUFFICES ASSUME m # len
               PROVE  b + c = Units(Len(text)) /\ (m = 0 \/ s + m = Len(text))
    OBVIOUS
  <2>1. R.f.pos = R.f.flen
    BY <1>11, <1>13
  <2>2. R.f.flen = Units(Len(text)) + 1 /\ R.f.pos = b + c + 1
    BY <1>12 DEF ReadingAs, HeldAs
  <2>3. Len(text) \in Nat /\ Units(Len(text)) \in Nat
    BY UnitCount
  <2>4. b + c = Units(Len(text))
    BY <2>1, <2>2, <2>3
  <2>5. ASSUME m # 0 PROVE s + m = Len(text)
    <3>1. s + m = CutAt(Len(text), b) /\ c = 0
      BY <1>12, <2>5 DEF ReadingAs
    <3>2. b = Units(Len(text))
      BY <2>4, <3>1
    <3> QED
      BY <2>3, <3>1, <3>2, CutEnds
  <2> QED
    BY <2>4, <2>5
<1>15. ReadAs(A, img, text, f, s, len, m, b, c)
  <2>1. ReadHeatshrink(img, f, len) = R
    BY <1>6 DEF R
  <2>2. R.f \in FileType(A) /\ R.f.start = f.start /\ R.f.comp = f.comp
    BY <1>4, <1>11
  <2> QED
    BY <1>12, <1>14, <2>1, <2>2 DEF ReadAs, ReadingAs
<1> QED
  BY <1>15
-----------------------------------------------------------------------------
(* A compressed file. *)

\* s characters have been sent: full blocks until the last one, which is short
\* when the text is at its end or when the input was used up before it.
SendingAs(text, len, x, s, a, d) ==
  /\ x.out = Between(text, 0, s)
  /\ HeldAs(text, x.f, s, a, d)
  /\ d < IN_BUF
  /\ (\E q \in Nat : s = q * len) \/ (~x.more /\ s = Len(text))
  /\ ~x.more => s = Len(text) \/ a + d = Units(Len(text))

Sending(A, text, start, len) ==
  {x \in [f: FileType(A), out: Seq(A), more: BOOLEAN] :
     /\ x.f.start = start /\ x.f.comp = HEATSHRINK
     /\ \E s \in Nat, a \in Nat, d \in Nat : SendingAs(text, len, x, s, a, d)}

LEMMA SentLength ==
  ASSUME NEW A, NEW text \in Seq(A), NEW len, NEW x, NEW s \in Nat, NEW a \in Nat, NEW d \in Nat,
         SendingAs(text, len, x, s, a, d)
  PROVE  Len(x.out) = s /\ s <= Len(text)
<1>1. x.out = Between(text, 0, s) /\ HeldAs(text, x.f, s, a, d)
  BY DEF SendingAs
<1>2. s <= Len(text) /\ 0 \in Nat /\ 0 <= s
  BY <1>1, HeldInside
<1>3. Len(Between(text, 0, s)) = s - 0
  BY <1>2, BetweenType
<1> QED
  BY <1>1, <1>2, <1>3

LEMMA BlockHolds ==
  ASSUME NEW A, NEW text \in Seq(A), NEW img, NEW start, UnitsAt(img, text, start),
         NEW len \in Nat, UNIT <= len, NEW x \in Sending(A, text, start, len)
  PROVE  /\ BlockStep(img, len, x) \in Sending(A, text, start, len)
         /\ x.more /\ BlockStep(img, len, x).more =>
              Len(BlockStep(img, len, x).out) > Len(x.out)
<1>1. /\ x.f \in FileType(A) /\ x.out \in Seq(A) /\ x.f.start = start /\ x.f.comp = HEATSHRINK
      /\ x.more \in BOOLEAN
      /\ \E s \in Nat, a \in Nat, d \in Nat : SendingAs(text, len, x, s, a, d)
  BY DEF Sending
<1>2. CASE ~x.more
  BY <1>2 DEF BlockStep
<1>3. CASE x.more
  <2>1. PICK s \in Nat, a \in Nat, d \in Nat : SendingAs(text, len, x, s, a, d)
    BY <1>1
  <2>2. /\ x.out = Between(text, 0, s) /\ HeldAs(text, x.f, s, a, d) /\ d < IN_BUF
        /\ \E q \in Nat : s = q * len
    BY <1>3, <2>1 DEF SendingAs
  <2>3. PICK q \in Nat : s = q * len
    BY <2>2
  <2> DEFINE f == x.f
             R == ReadHeatshrink(img, f, len)
             y == BlockStep(img, len, x)
             l == Len(text)
  <2>4. f \in FileType(A) /\ UnitsAt(img, text, f.start) /\ HeldAs(text, f, s, a, d)
    BY <1>1, <2>2
  <2>5. Read(img, x.f, len) = R
    BY <1>1 DEF Read, NONE, HEATSHRINK
  <2>6. y = [f |-> R.f, out |-> x.out \o R.out, more |-> Len(R.out) = len]
    BY <1>3, <2>5 DEF BlockStep
  <2> HIDE DEF f, R, y, l
  <2>7. PICK m \in 0 .. len, a2 \in Nat, d2 \in Nat : ReadAs(A, img, text, f, s, len, m, a2, d2)
    BY <2>2, <2>4, ReadHolds
  <2>8. /\ R.f \in FileType(A) /\ R.f.start = start /\ R.f.comp = HEATSHRINK
        /\ R.out = Between(text, s, s + m)
        /\ HeldAs(text, R.f, s + m, a2, d2)
        /\ d2 < IN_BUF
        /\ m # len => a2 + d2 = Units(l) /\ (m = 0 \/ s + m = l)
    BY <1>1, <2>7 DEF ReadAs, R, f, l
  <2>9. s + m \in Nat /\ s <= s + m /\ m \in Nat /\ 0 \in Nat /\ 0 <= s
    OBVIOUS
  <2>10. s + m <= Len(text)
    BY <2>8, <2>9, HeldInside
  <2>11. Len(R.out) = m
    <3>1. Len(Between(text, s, s + m)) = (s + m) - s
      BY <2>9, <2>10, BetweenType
    <3> QED
      BY <2>8, <2>9, <3>1
  <2>12. Between(text, 0, s) \o Between(text, s, s + m) = Between(text, 0, s + m)
    BY <2>9, <2>10, BetweenJoin
  <2>13. y.f = R.f /\ y.out = Between(text, 0, s + m) /\ (y.more <=> m = len)
         /\ y.more \in BOOLEAN
    BY <2>2, <2>6, <2>8, <2>11, <2>12
  <2>14. Between(text, 0, s + m) \in Seq(A)
    <3>1. 0 <= s + m
      BY <2>9
    <3> QED
      BY <2>9, <2>10, <3>1, BetweenType
  <2>15. y \in [f: FileType(A), out: Seq(A), more: BOOLEAN]
    <3> DEFINE F == FileType(A)
               Y == Seq(A)
               b == (Len(R.out) = len)
               o == x.out \o R.out
    <3>1. R.f \in F /\ b \in BOOLEAN
      BY <2>8
    <3>2. o \in Y
      BY <2>2, <2>8, <2>12, <2>14
    <3>3. y = [f |-> R.f, out |-> o, more |-> b]
      BY <2>6
    <3> HIDE DEF F, Y, b, o
    <3>4. y \in [f: F, out: Y, more: BOOLEAN]
      BY <3>1, <3>2, <3>3
    <3> QED
      BY <3>4 DEF F, Y
  <2>16. SendingAs(text, len, y, s + m, a2, d2)
    <3>1. CASE m = len
      <4>1. s + m = (q + 1) * len /\ q + 1 \in Nat
        BY <2>3, <3>1
      <4>2. y.more
        BY <2>13, <3>1
      <4> QED
        BY <2>8, <2>13, <4>1, <4>2 DEF SendingAs
    <3>2. CASE m # len
      <4>1. ~y.more
        BY <2>13, <3>2
      <4>2. a2 + d2 = Units(l) /\ (m = 0 \/ s + m = l)
        BY <2>8, <3>2
      <4>3. (\E p \in Nat : s + m = p * len) \/ s + m = l
        <5>1. CASE m = 0
          <6>1. s + m = q * len
            BY <2>3, <5>1
          <6> QED
            BY <6>1
        <5> QED
          BY <4>2, <5>1
      <4> QED
        BY <2>8, <2>13, <4>1, <4>2, <4>3 DEF SendingAs, l
    <3> QED
      BY <3>1, <3>2
  <2>17. y \in Sending(A, text, start, len)
    BY <2>8, <2>9, <2>13, <2>15, <2>16 DEF Sending
  <2>18. Len(x.out) = s /\ Len(y.out) = s + m
    BY <2>1, <2>9, <2>16, SentLength
  <2>19. y.more => Len(y.out) > Len(x.out)
    <3>1. y.more => m >= 1
      BY <2>13, EspFsAssumption
    <3> QED
      BY <2>9, <2>18, <3>1
  <2> QED
    BY <2>17, <2>19 DEF y
<1> QED
  BY <1>1, <1>2, <1>3

LEMMA WholeBlocks ==
  ASSUME NEW len \in Nat \ {0}, NEW q \in Nat
  PROVE  (q * len) % len = 0
<1> DEFINE n == q * len
           k == n \div len
           e == n % len
<1>1. n \in Int /\ len > 0 /\ len \in Int
  OBVIOUS
<1> HIDE DEF n
<1>2. e = n - len * k
  BY <1>1, Division
<1>3. k \in Int /\ e \in 0 .. (len - 1)
  BY <1>1
<1> HIDE DEF k, e
<1>4. e = len * (q - k)
  <2>1. len * (q - k) = len * q - len * k /\ n = len * q
    BY <1>3 DEF n
  <2> QED
    BY <1>2, <2>1
<1>5. q - k >= 1 => len * (q - k) >= len
  <2> SUFFICES ASSUME q - k >= 1 PROVE len * (q - k) >= len
    OBVIOUS
  <2>1. q - k - 1 \in Nat /\ (q - k - 1) + 1 = q - k
    BY <1>3
  <2>2. len * ((q - k - 1) + 1) = len * (q - k - 1) + len /\ len * (q - k - 1) >= 0
    BY <2>1
  <2> QED
    BY <2>1, <2>2
<1>6. q - k <= -1 => len * (q - k) <= -len
  <2> SUFFICES ASSUME q - k <= -1 PROVE len * (q - k) <= -len
    OBVIOUS
  <2>1. k - q - 1 \in Nat /\ -((k - q - 1) + 1) = q - k
    BY <1>3
  <2>2. len * (-((k - q - 1) + 1)) = -(len * (k - q - 1)) - len /\ len * (k - q - 1) >= 0
    BY <2>1
  <2> QED
    BY <2>1, <2>2
<1>7. q - k = 0
  BY <1>3, <1>4, <1>5, <1>6
<1>8. e = 0
  BY <1>4, <1>7
<1> QED
  BY <1>8 DEF e, n

LEMMA CompressedSent ==
  ASSUME NEW A, NEW text \in Seq(A), NEW img, NEW f \in FileType(A), f.comp = HEATSHRINK,
         UnitsAt(img, text, f.start), HeldAs(text, f, 0, 0, 0), NEW len \in Nat, UNIT <= len
  PROVE  /\ IsPrefix(FileSent(img, f, len), text)
         /\ \/ FileSent(img, f, len) = text
            \/ /\ Len(FileSent(img, f, len)) % len = 0
               /\ Len(text) - Len(FileSent(img, f, len)) < IN_BUF * UNIT
<1> DEFINE T == Sending(A, text, f.start, len)
           l == Len(text)
           base == [f |-> f, out |-> <<>>, more |-> TRUE]
<1>1. l \in Nat /\ UNIT \in Nat /\ UNIT >= 1 /\ IN_BUF \in Nat /\ IN_BUF >= 1 /\ len >= 1
      /\ len \in Nat \ {0}
  BY EspFsAssumption
<1>2. base \in T
  <2>1. base.f = f /\ base.out = <<>> /\ base.more = TRUE
    OBVIOUS
  <2>2. base \in [f: FileType(A), out: Seq(A), more: BOOLEAN]
    OBVIOUS
  <2>3. Between(text, 0, 0) = <<>>
    BY BetweenNone
  <2>4. 0 = 0 * len
    OBVIOUS
  <2> HIDE DEF base
  <2>5. \E q \in Nat : 0 = q * len
    BY <2>4
  <2>6. SendingAs(text, len, base, 0, 0, 0)
    BY <1>1, <2>1, <2>3, <2>5 DEF SendingAs
  <2> QED
    BY <2>1, <2>2, <2>6 DEF Sending
<1>3. GoesOn(img, len, T)
  BY BlockHolds DEF GoesOn
<1>4. \A x \in T : /\ x.more \in BOOLEAN
                   /\ \E s \in Nat, a \in Nat, d \in Nat : SendingAs(text, len, x, s, a, d)
  BY DEF Sending
<1> HIDE DEF T
<1>5. SendsAtMost(T, l)
  <2> SUFFICES ASSUME NEW x \in T
               PROVE  Len(x.out) \in Nat /\ Len(x.out) <= l /\ x.more \in BOOLEAN
    BY DEF SendsAtMost
  <2>1. PICK s \in Nat, a \in Nat, d \in Nat : SendingAs(text, len, x, s, a, d)
    BY <1>4
  <2>2. Len(x.out) = s /\ s <= Len(text)
    BY <2>1, SentLength
  <2> QED
    BY <1>4, <2>2
<1>6. f.flen * UNIT \in Nat /\ l <= f.flen * UNIT
  <2> DEFINE u == Units(l)
  <2>1. f.flen = u + 1
    BY DEF HeldAs
  <2>2. u \in Nat /\ l <= u * UNIT
    BY <1>1, UnitCount
  <2> HIDE DEF u, l
  <2>3. u * UNIT \in Nat /\ (u + 1) * UNIT = u * UNIT + UNIT
    BY <1>1, <2>2
  <2> QED
    BY <1>1, <2>1, <2>2, <2>3
<1>7. SentAtEnd(img, f, len, T)
  <2>1. [f |-> f, out |-> <<>>, more |-> TRUE] \in T
    BY <1>2
  <2> HIDE DEF l
  <2> QED
    BY <1>1, <1>3, <1>5, <1>6, <2>1, SentEnds
<1>8. PICK x \in T : ~x.more /\ FileSent(img, f, len) = x.out
  BY <1>7 DEF SentAtEnd
<1>9. PICK s \in Nat, a \in Nat, d \in Nat : SendingAs(text, len, x, s, a, d)
  BY <1>4
<1>10. /\ x.out = Between(text, 0, s) /\ HeldAs(text, x.f, s, a, d) /\ d < IN_BUF
       /\ (\E q \in Nat : s = q * len) \/ s = l
       /\ s = l \/ a + d = Units(l)
  BY <1>8, <1>9 DEF SendingAs
<1>11. s <= l /\ Len(x.out) = s
  BY <1>9, SentLength
<1>12. IsPrefix(x.out, text)
  <2>1. 0 \in Nat /\ 0 <= s
    OBVIOUS
  <2>2. /\ Between(text, 0, s) \in Seq(A)
        /\ \A k \in 1 .. (s - 0) : Between(text, 0, s)[k] = text[0 + k]
    BY <1>11, <2>1, BetweenType
  <2>3. x.out \in Seq(A)
    BY <1>10, <2>2
  <2>4. \A k \in 1 .. Len(x.out) : x.out[k] = text[k]
    <3> SUFFICES ASSUME NEW k \in 1 .. s PROVE x.out[k] = text[k]
      BY <1>11
    <3>1. k \in 1 .. (s - 0) /\ 0 + k = k
      OBVIOUS
    <3> QED
      BY <1>10, <2>2, <3>1
  <2> QED
    BY <1>11, <2>3, <2>4, PrefixCells DEF PrefixByCells
<1>13. CASE s = l
  <2>1. x.out = text
    BY <1>10, <1>13, BetweenAll
  <2> QED
    BY <1>8, <1>12, <2>1
<1>14. CASE s # l
  <2>1. PICK q \in Nat : s = q * len
    BY <1>10, <1>14
  <2>2. s % len = 0
    BY <1>1, <2>1, WholeBlocks
  <2>3. CutAt(l, a) < s + UNIT /\ a + d = Units(l)
    BY <1>10, <1>14 DEF HeldAs
  <2> HIDE DEF l
  <2>4. CutAt(l, a + d) <= CutAt(l, a) + d * UNIT /\ CutAt(l, a + d) = l /\ CutAt(l, a) \in Nat
    <3>1. CutAt(l, a + d) = l
      BY <1>1, <2>3, CutEnds
    <3> QED
      BY <1>1, <3>1, CutRises, CutType
  <2>5. d * UNIT + UNIT <= IN_BUF * UNIT /\ d * UNIT \in Nat /\ IN_BUF * UNIT \in Nat
    <3> DEFINE e == IN_BUF - (d + 1)
    <3>1. e \in Nat /\ (d + 1) + e = IN_BUF /\ d + 1 \in Nat
      BY <1>1, <1>10
    <3> HIDE DEF e
    <3>2. (d + 1) * UNIT <= ((d + 1) + e) * UNIT
      BY <1>1, <3>1, ProductRises
    <3>3. (d + 1) * UNIT = d * UNIT + UNIT /\ d * UNIT \in Nat /\ IN_BUF * UNIT \in Nat
      BY <1>1
    <3> QED
      BY <3>1, <3>2, <3>3
  <2>6. l - s < IN_BUF * UNIT
    BY <1>1, <2>3, <2>4, <2>5
  <2> QED
    BY <1>8, <1>11, <1>12, <2>2, <2>6 DEF l
<1> QED
  BY <1>13, <1>14
-----------------------------------------------------------------------------
(* What handleFile puts out. *)

\* The cells of an image of files whose names and text are over A.
Cells(A) ==
  {Nul, Parm} \cup {Char(c) : c \in A} \cup {Unit(s) : s \in Seq(A)}
    \cup {HeadCell(l, c, m, n) : l \in BOOLEAN, c \in {NONE, HEATSHRINK}, m \in Nat, n \in Nat}

LEMMA CellsHave ==
  ASSUME NEW A
  PROVE  /\ Nul \in Cells(A) /\ Parm \in Cells(A)
         /\ \A c \in A : Char(c) \in Cells(A)
         /\ \A s \in Seq(A) : Unit(s) \in Cells(A)
         /\ \A l \in BOOLEAN, c \in {NONE, HEATSHRINK}, m \in Nat, n \in Nat :
              HeadCell(l, c, m, n) \in Cells(A)
BY DEF Cells

\* Which cells are headers, and what a header holds.
LEMMA CellKinds ==
  ASSUME NEW A, NEW x \in Cells(A), x[1] = "head"
  PROVE  x[4] \in Nat /\ x[5] \in Nat
<1>1. /\ Nul[1] = "nul" /\ Parm[1] = "parm"
      /\ \A c : Char(c)[1] = "char" /\ \A s : Unit(s)[1] = "unit"
  BY DEF Nul, Parm, Char, Unit
<1>2. \A l, c, m, n : HeadCell(l, c, m, n)[4] = m /\ HeadCell(l, c, m, n)[5] = n
  BY DEF HeadCell
<1>3. "nul" # "head" /\ "parm" # "head" /\ "char" # "head" /\ "unit" # "head"
  OBVIOUS
<1>4. x \notin {Nul, Parm}
  BY <1>1, <1>3
<1>5. x \notin {Char(c) : c \in A}
  BY <1>1, <1>3
<1>6. x \notin {Unit(s) : s \in Seq(A)}
  BY <1>1, <1>3
<1>7. x \in {HeadCell(l, c, m, n) : l \in BOOLEAN, c \in {NONE, HEATSHRINK}, m \in Nat, n \in Nat}
  BY <1>4, <1>5, <1>6 DEF Cells
<1> QED
  BY <1>2, <1>7

LEMMA CharIsPlain ==
  ASSUME NEW c
  PROVE  Char(c) # Nul /\ Char(c)[2] = c
<1>1. Char(c)[1] = "char" /\ Nul[1] = "nul" /\ "char" # "nul"
  BY DEF Char, Nul
<1>2. Char(c)[2] = c
  BY DEF Char
<1> QED
  BY <1>1, <1>2

LEMMA Rounding ==
  ASSUME NEW n \in Nat, NEW q \in Nat
  PROVE  /\ Round4(n) \in Nat /\ n <= Round4(n) /\ \E r \in Nat : Round4(n) = 4 * r
         /\ Round4(4 * q + n) = 4 * q + Round4(n)
<1>1. ((n + 3) \div 4) * 4 \in Nat /\ n <= ((n + 3) \div 4) * 4 /\ (n + 3) \div 4 \in Nat
  BY Z3
<1>2. ((4 * q + n + 3) \div 4) * 4 = 4 * q + ((n + 3) \div 4) * 4
  BY Z3
<1>3. ((n + 3) \div 4) * 4 = 4 * ((n + 3) \div 4)
  BY <1>1
<1> QED
  BY <1>1, <1>2, <1>3 DEF Round4

LEMMA PadCells ==
  ASSUME NEW X, NEW s \in Seq(X), Nul \in X, NEW n \in Nat, Len(s) <= n
  PROVE  /\ Pad(s, n) \in Seq(X) /\ Len(Pad(s, n)) = n
         /\ \A k \in 1 .. Len(s) : Pad(s, n)[k] = s[k]
         /\ \A k \in (Len(s) + 1) .. n : Pad(s, n)[k] = Nul
<1> DEFINE z == [k \in 1 .. (n - Len(s)) |-> Nul]
           u == Pad(s, n)
<1>1. Len(s) \in Nat /\ n - Len(s) \in Nat
  OBVIOUS
<1>2. z \in Seq(X) /\ Len(z) = n - Len(s) /\ \A k \in 1 .. (n - Len(s)) : z[k] = Nul
  BY <1>1
<1>3. u = s \o z
  BY DEF Pad
<1> HIDE DEF z, u
<1>4. /\ u \in Seq(X) /\ Len(u) = Len(s) + Len(z)
      /\ \A k \in 1 .. Len(s) : u[k] = s[k]
      /\ \A k \in 1 .. Len(z) : Len(s) + k \in 1 .. Len(u) /\ u[Len(s) + k] = z[k]
  <2>1. z \in Seq(X)
    BY <1>2
  <2> QED
    BY <1>3, <2>1, ConcatCells
<1>5. ASSUME NEW k \in (Len(s) + 1) .. n PROVE u[k] = Nul
  <2>1. k - Len(s) \in 1 .. (n - Len(s)) /\ Len(s) + (k - Len(s)) = k
    BY <1>1
  <2> QED
    BY <1>2, <1>4, <2>1
<1>6. Len(u) = n
  BY <1>1, <1>2, <1>4
<1> QED
  BY <1>4, <1>5, <1>6 DEF u

LEMMA CharsCells ==
  ASSUME NEW A, NEW text \in Seq(A)
  PROVE  /\ Chars(text) \in Seq(Cells(A)) /\ Len(Chars(text)) = Len(text)
         /\ \A k \in 1 .. Len(text) : Chars(text)[k] = Char(text[k])
<1> DEFINE X == Cells(A)
<1>1. \A c \in A : Char(c) \in X
  BY CellsHave
<1> HIDE DEF X
<1>2. Len(text) \in Nat /\ \A k \in 1 .. Len(text) : Char(text[k]) \in X
  BY <1>1
<1>3. /\ Chars(text) \in Seq(X) /\ Len(Chars(text)) = Len(text)
      /\ \A k \in 1 .. Len(text) : Chars(text)[k] = Char(text[k])
  BY <1>2 DEF Chars
<1> QED
  BY <1>3 DEF X

\* What the encoder puts out, unit by unit.
LEMMA CompressedCells ==
  ASSUME NEW A, NEW text \in Seq(A)
  PROVE  /\ Compressed(text) \in Seq(Cells(A)) /\ Len(Compressed(text)) = Units(Len(text)) + 1
         /\ \A j \in 1 .. Units(Len(text)) : Compressed(text)[j + 1] = Unit(UnitOf(text, j))
<1> DEFINE X == Cells(A)
           l == Len(text)
           n == Units(l)
           cell(k) == Unit(SubSeq(text, (k - 1) * UNIT + 1, Min({k * UNIT, l})))
           us == [k \in 1 .. n |-> cell(k)]
           ps == <<Parm>>
           u == Compressed(text)
<1>1. l \in Nat /\ n \in Nat /\ UNIT \in Nat /\ UNIT >= 1
  BY UnitCount, EspFsAssumption
<1>2. Parm \in X /\ \A s \in Seq(A) : Unit(s) \in X
  BY CellsHave
<1>3. ASSUME NEW k \in 1 .. n
      PROVE  cell(k) = Unit(UnitOf(text, k)) /\ UnitOf(text, k) \in Seq(A)
  <2> DEFINE j == k - 1
             i == CutAt(l, j)
             m == CutAt(l, k)
  <2>1. j \in Nat /\ k \in Nat /\ j + 1 = k /\ j + 1 <= n
    BY <1>1
  <2> HIDE DEF j
  <2>2. CutAt(l, j) < CutAt(l, j + 1) /\ CutAt(l, j) \in Nat /\ CutAt(l, k) \in Nat
        /\ CutAt(l, j) <= l /\ CutAt(l, k) <= l
    BY <1>1, <2>1, CutGrows, CutType
  <2>3. j * UNIT \in Nat /\ k * UNIT \in Nat
    BY <1>1, <2>1, ProductRises
  <2>4. i = j * UNIT
    BY <1>1, <2>1, <2>2, <2>3 DEF CutAt
  <2>5. Min({k * UNIT, l}) = m
    <3>1. Min({k * UNIT, l}) = IF k * UNIT <= l THEN k * UNIT ELSE l
      BY <1>1, <2>3, MinOfTwo
    <3> QED
      BY <3>1 DEF CutAt
  <2>6. UnitOf(text, k) = Between(text, i, m)
    BY DEF UnitOf, j
  <2>7. i \in Nat /\ m \in Nat /\ i <= m /\ m <= Len(text)
    BY <2>1, <2>2
  <2> HIDE DEF i, m
  <2>8. SubSeq(text, i + 1, m) = Between(text, i, m) /\ Between(text, i, m) \in Seq(A)
    BY <2>7, SliceIsBetween, BetweenType
  <2>9. cell(k) = Unit(SubSeq(text, j * UNIT + 1, Min({k * UNIT, l})))
    BY DEF j
  <2> QED
    BY <2>4, <2>5, <2>6, <2>8, <2>9
<1>4. u = ps \o us
  BY DEF Compressed, Units
<1>5. \A k \in 1 .. n : us[k] = Unit(UnitOf(text, k))
  BY <1>3
<1>6. us \in Seq(X) /\ Len(us) = n
  <2>1. \A k \in 1 .. n : cell(k) \in X
    BY <1>2, <1>3
  <2> HIDE DEF cell, X, n
  <2> QED
    BY <1>1, <2>1
<1>7. ps \in Seq(X) /\ Len(ps) = 1
  BY <1>2
<1> HIDE DEF us, ps, X, u, cell, n
<1>8. /\ u \in Seq(X) /\ Len(u) = Len(ps) + Len(us)
      /\ \A k \in 1 .. Len(us) : Len(ps) + k \in 1 .. Len(u) /\ u[Len(ps) + k] = us[k]
  <2>1. us \in Seq(X)
    BY <1>6
  <2>2. ps \in Seq(X)
    BY <1>7
  <2> QED
    BY <1>4, <2>1, <2>2, ConcatCells
<1>9. Len(u) = n + 1
  BY <1>1, <1>6, <1>7, <1>8
<1>10. \A j \in 1 .. n : u[j + 1] = Unit(UnitOf(text, j))
  <2> SUFFICES ASSUME NEW j \in 1 .. n PROVE u[j + 1] = Unit(UnitOf(text, j))
    OBVIOUS
  <2>1. j \in 1 .. Len(us) /\ Len(ps) + j = j + 1
    BY <1>1, <1>6, <1>7
  <2>2. u[j + 1] = us[j]
    BY <1>8, <2>1
  <2> QED
    BY <1>5, <2>2
<1> QED
  BY <1>8, <1>9, <1>10 DEF u, X, n, l

\* The file lies at p of the image.
FileAt(img, p, name, text, kind, nl, dl) ==
  /\ img[p + 1] = HeadCell(FALSE, kind, nl, dl)
  /\ \A k \in 1 .. Len(name) : img[p + HEADER + k] = Char(name[k])
  /\ img[p + HEADER + Len(name) + 1] = Nul
  /\ kind = NONE =>
       dl = Len(text) /\ \A k \in 1 .. Len(text) : img[p + HEADER + nl + k] = Char(text[k])
  /\ kind = HEATSHRINK =>
       /\ dl = Units(Len(text)) + 1
       /\ \A j \in 1 .. Units(Len(text)) : img[p + HEADER + nl + (j + 1)] = Unit(UnitOf(text, j))

\* len cells hold it.
Sized(name, kind, nl, dl, len) ==
  /\ kind \in {NONE, HEATSHRINK} /\ nl \in Nat /\ dl \in Nat
  /\ Len(name) < nl /\ \E q \in Nat : nl = 4 * q
  /\ len = HEADER + nl + Round4(dl)

LEMMA HeaderLaid ==
  ASSUME NEW A, NEW l \in BOOLEAN, NEW c \in {NONE, HEATSHRINK}, NEW m \in Nat, NEW n \in Nat
  PROVE  /\ HeaderCells(l, c, m, n) \in Seq(Cells(A)) /\ Len(HeaderCells(l, c, m, n)) = HEADER
         /\ HeaderCells(l, c, m, n)[1] = HeadCell(l, c, m, n)
<1> DEFINE X == Cells(A)
           h == <<HeadCell(l, c, m, n)>>
<1>1. Nul \in X /\ HeadCell(l, c, m, n) \in X
  BY CellsHave
<1> HIDE DEF X
<1>2. h \in Seq(X) /\ Len(h) = 1 /\ h[1] = HeadCell(l, c, m, n)
  BY <1>1
<1>3. HEADER \in Nat /\ HEADER >= 1
  BY DEF HEADER
<1> HIDE DEF h
<1>4. Len(h) <= HEADER /\ 1 \in 1 .. Len(h)
  BY <1>2, <1>3
<1>5. /\ Pad(h, HEADER) \in Seq(X) /\ Len(Pad(h, HEADER)) = HEADER
      /\ \A k \in 1 .. Len(h) : Pad(h, HEADER)[k] = h[k]
  <2>1. Nul \in X
    BY <1>1
  <2>2. HEADER \in Nat
    BY <1>3
  <2>3. Len(h) <= HEADER
    BY <1>4
  <2>4. h \in Seq(X)
    BY <1>2
  <2> QED
    BY <2>1, <2>2, <2>3, <2>4, PadCells
<1>7. HeaderCells(l, c, m, n) = Pad(h, HEADER)
  BY DEF HeaderCells, h
<1> QED
  BY <1>2, <1>4, <1>5, <1>7 DEF X

LEMMA ThreeParts ==
  ASSUME NEW X, NEW a \in Seq(X), NEW b \in Seq(X), NEW c \in Seq(X), NEW u, u = a \o b \o c
  PROVE  /\ u \in Seq(X) /\ Len(u) = Len(a) + Len(b) + Len(c)
         /\ \A k \in 1 .. Len(a) : u[k] = a[k]
         /\ \A k \in 1 .. Len(b) : u[Len(a) + k] = b[k]
         /\ \A k \in 1 .. Len(c) : u[Len(a) + Len(b) + k] = c[k]
<1> DEFINE v == a \o b
<1>1. /\ v \in Seq(X) /\ Len(a) \in Nat /\ Len(b) \in Nat
      /\ Len(v) = Len(a) + Len(b)
      /\ \A k \in 1 .. Len(a) : v[k] = a[k]
      /\ \A k \in 1 .. Len(b) : Len(a) + k \in 1 .. Len(v) /\ v[Len(a) + k] = b[k]
  BY ConcatCells
<1>2. u = v \o c
  OBVIOUS
<1> HIDE DEF v
<1>3. v \in Seq(X)
  BY <1>1
<1>4. /\ u \in Seq(X) /\ Len(c) \in Nat
      /\ Len(u) = Len(v) + Len(c)
      /\ \A k \in 1 .. Len(v) : u[k] = v[k]
      /\ \A k \in 1 .. Len(c) : Len(v) + k \in 1 .. Len(u) /\ u[Len(v) + k] = c[k]
  BY <1>2, <1>3, ConcatCells
<1>5. ASSUME NEW k \in 1 .. Len(a) PROVE u[k] = a[k]
  <2>1. k \in 1 .. Len(v)
    BY <1>1
  <2> QED
    BY <1>1, <1>4, <2>1
<1> QED
  BY <1>1, <1>4, <1>5

\* The parts of a piece, whichever way its data is kept.
HasParts(piece, name, kind, nl, data) ==
  piece = HeaderCells(FALSE, kind, nl, Len(data))
            \o Pad(Chars(name), nl) \o Pad(data, Round4(Len(data)))

LEMMA PartsLaid ==
  ASSUME NEW A, NEW name \in Seq(A), NEW text \in Seq(A),
         NEW kind \in {NONE, HEATSHRINK}, NEW data,
         kind = NONE => data = Chars(text), kind = HEATSHRINK => data = Compressed(text),
         NEW nl, nl = Round4(Len(name) + 1), NEW dl, dl = Len(data),
         NEW piece, HasParts(piece, name, kind, nl, data)
  PROVE  /\ piece \in Seq(Cells(A))
         /\ Sized(name, kind, nl, dl, Len(piece)) /\ FileAt(piece, 0, name, text, kind, nl, dl)
<1> DEFINE X == Cells(A)
           w == Chars(name)
           a == HeaderCells(FALSE, kind, nl, dl)
           b == Pad(w, nl)
           m == Round4(dl)
           c == Pad(data, m)
<1>1. Len(name) \in Nat /\ Len(name) + 1 \in Nat /\ 0 \in Nat /\ Len(text) \in Nat
  OBVIOUS
<1>2. nl \in Nat /\ Len(name) + 1 <= nl /\ \E q \in Nat : nl = 4 * q
  BY <1>1, Rounding
<1>3. data \in Seq(X) /\ dl \in Nat
  BY CharsCells, CompressedCells
<1>4. m \in Nat /\ dl <= m
  BY <1>1, <1>3, Rounding
<1>5. Nul \in X
  BY CellsHave
<1>6. w \in Seq(X) /\ Len(w) = Len(name) /\ \A k \in 1 .. Len(name) : w[k] = Char(name[k])
  BY CharsCells
<1>7. a \in Seq(X) /\ Len(a) = HEADER /\ a[1] = HeadCell(FALSE, kind, nl, dl)
  <2>1. PICK l \in BOOLEAN : l = FALSE
    OBVIOUS
  <2>2. dl \in Nat
    BY <1>3
  <2>3. nl \in Nat
    BY <1>2
  <2> HIDE DEF X, w, a, b, m, c
  <2>4. /\ HeaderCells(l, kind, nl, dl) \in Seq(Cells(A)) /\ Len(HeaderCells(l, kind, nl, dl)) = HEADER
        /\ HeaderCells(l, kind, nl, dl)[1] = HeadCell(l, kind, nl, dl)
    BY <2>1, <2>2, <2>3, HeaderLaid, SMTT(20)
  <2> QED
    BY <2>1, <2>4 DEF X, a
<1>8. piece = a \o b \o c
  BY DEF HasParts
<1> HIDE DEF X, w, a, b, m, c
<1>9. /\ b \in Seq(X) /\ Len(b) = nl /\ \A k \in 1 .. Len(w) : b[k] = w[k]
      /\ \A k \in (Len(w) + 1) .. nl : b[k] = Nul
  <2>1. w \in Seq(X)
    BY <1>6
  <2>2. nl \in Nat
    BY <1>2
  <2>3. Len(w) <= nl
    BY <1>1, <1>2, <1>6
  <2> QED
    BY <1>5, <2>1, <2>2, <2>3, PadCells DEF b
<1>10. c \in Seq(X) /\ Len(c) = m /\ \A k \in 1 .. Len(data) : c[k] = data[k]
  <2>1. data \in Seq(X)
    BY <1>3
  <2>2. m \in Nat
    BY <1>4
  <2>3. Len(data) <= m
    BY <1>4
  <2> QED
    BY <1>5, <2>1, <2>2, <2>3, PadCells DEF c
<1>11. /\ piece \in Seq(X) /\ Len(piece) = Len(a) + Len(b) + Len(c)
       /\ \A k \in 1 .. Len(a) : piece[k] = a[k]
       /\ \A k \in 1 .. Len(b) : piece[Len(a) + k] = b[k]
       /\ \A k \in 1 .. Len(c) : piece[Len(a) + Len(b) + k] = c[k]
  <2>1. a \in Seq(X)
    BY <1>7
  <2>2. b \in Seq(X)
    BY <1>9
  <2>3. c \in Seq(X)
    BY <1>10
  <2> QED
    BY <1>8, <2>1, <2>2, <2>3, ThreeParts
<1>12. HEADER \in Nat /\ HEADER >= 1
  BY DEF HEADER
<1>13. Len(piece) = HEADER + nl + m
  BY <1>7, <1>9, <1>10, <1>11
<1>14. Sized(name, kind, nl, dl, Len(piece))
  <2>1. Len(name) < nl
    BY <1>1, <1>2
  <2> QED
    BY <1>2, <1>3, <1>13, <2>1 DEF Sized, m
<1>15. piece[0 + 1] = HeadCell(FALSE, kind, nl, dl)
  <2>1. 1 \in 1 .. Len(a) /\ 0 + 1 = 1
    BY <1>7, <1>12
  <2> QED
    BY <1>7, <1>11, <2>1
<1>16. ASSUME NEW k \in 1 .. Len(name) PROVE piece[0 + HEADER + k] = Char(name[k])
  <2>1. k \in 1 .. Len(b) /\ 0 + HEADER + k = Len(a) + k /\ k \in 1 .. Len(w)
    BY <1>1, <1>2, <1>6, <1>7, <1>9, <1>12
  <2>2. piece[Len(a) + k] = b[k] /\ b[k] = w[k] /\ w[k] = Char(name[k])
    BY <1>6, <1>9, <1>11, <2>1
  <2> QED
    BY <2>1, <2>2
<1>17. piece[0 + HEADER + Len(name) + 1] = Nul
  <2> DEFINE k == Len(name) + 1
  <2>1. k \in 1 .. Len(b) /\ 0 + HEADER + Len(name) + 1 = Len(a) + k /\ k \in (Len(w) + 1) .. nl
    BY <1>1, <1>2, <1>6, <1>7, <1>9, <1>12
  <2> HIDE DEF k
  <2>2. piece[Len(a) + k] = b[k] /\ b[k] = Nul
    BY <1>9, <1>11, <2>1
  <2> QED
    BY <2>1, <2>2
<1>18. ASSUME NEW k \in 1 .. dl PROVE piece[0 + HEADER + nl + k] = data[k]
  <2>1. k \in 1 .. Len(c) /\ k \in 1 .. Len(data)
    BY <1>3, <1>4, <1>10
  <2>2. nl \in Nat /\ HEADER \in Nat /\ Len(a) = HEADER /\ Len(b) = nl
    BY <1>2, <1>7, <1>9, <1>12
  <2>0. k \in Nat
    BY <1>3
  <2>3. 0 + HEADER + nl + k = Len(a) + Len(b) + k
    BY <2>0, <2>2
  <2>4. piece[Len(a) + Len(b) + k] = c[k] /\ c[k] = data[k]
    BY <1>10, <1>11, <2>1
  <2> QED
    BY <2>3, <2>4
<1>19. kind = NONE =>
         dl = Len(text) /\ \A k \in 1 .. Len(text) : piece[0 + HEADER + nl + k] = Char(text[k])
  <2> SUFFICES ASSUME kind = NONE
               PROVE  dl = Len(text) /\ \A k \in 1 .. Len(text) : piece[0 + HEADER + nl + k] = Char(text[k])
    OBVIOUS
  <2>1. data = Chars(text)
    OBVIOUS
  <2>2. Len(data) = Len(text) /\ \A k \in 1 .. Len(text) : data[k] = Char(text[k])
    BY <2>1, CharsCells
  <2> QED
    BY <1>18, <2>2
<1>20. kind = HEATSHRINK =>
         /\ dl = Units(Len(text)) + 1
         /\ \A j \in 1 .. Units(Len(text)) : piece[0 + HEADER + nl + (j + 1)] = Unit(UnitOf(text, j))
  <2> SUFFICES ASSUME kind = HEATSHRINK
               PROVE  /\ dl = Units(Len(text)) + 1
                      /\ \A j \in 1 .. Units(Len(text)) :
                           piece[0 + HEADER + nl + (j + 1)] = Unit(UnitOf(text, j))
    OBVIOUS
  <2>1. data = Compressed(text)
    OBVIOUS
  <2>2. Len(data) = Units(Len(text)) + 1
        /\ \A j \in 1 .. Units(Len(text)) : data[j + 1] = Unit(UnitOf(text, j))
    BY <2>1, CompressedCells
  <2>3. Units(Len(text)) \in Nat
    BY <1>1, UnitCount
  <2>4. \A j \in 1 .. Units(Len(text)) : j + 1 \in 1 .. dl
    BY <2>2, <2>3
  <2> QED
    BY <1>18, <2>2, <2>4
<1>21. FileAt(piece, 0, name, text, kind, nl, dl)
  BY <1>15, <1>16, <1>17, <1>19, <1>20 DEF FileAt
<1> QED
  BY <1>11, <1>14, <1>21 DEF X

LEMMA PieceLaid ==
  ASSUME NEW A, NEW name \in Seq(A), NEW text \in Seq(A), text # <<>>,
         NEW comp \in {NONE, HEATSHRINK}, NEW piece, piece = HandleFile(name, text, comp)
  PROVE  /\ piece \in Seq(Cells(A))
         /\ \E kind, nl, dl : /\ Sized(name, kind, nl, dl, Len(piece))
                              /\ FileAt(piece, 0, name, text, kind, nl, dl)
<1> DEFINE grows == comp = HEATSHRINK /\ Len(Compressed(text)) > Len(text)
           kind  == IF grows THEN NONE ELSE comp
           data  == IF kind = NONE THEN Chars(text) ELSE Compressed(text)
           nl    == Round4(Len(name) + 1)
           dl    == Len(data)
<1>1. HasParts(piece, name, kind, nl, data)
  BY DEF HandleFile, HasParts
<1>2. kind \in {NONE, HEATSHRINK}
  OBVIOUS
<1>3. kind = NONE => data = Chars(text)
  OBVIOUS
<1>4. kind = HEATSHRINK => data = Compressed(text)
  BY DEF NONE, HEATSHRINK
<1>5. nl = Round4(Len(name) + 1) /\ dl = Len(data)
  OBVIOUS
<1> HIDE DEF kind, data, nl, dl
<1>6. /\ piece \in Seq(Cells(A))
      /\ Sized(name, kind, nl, dl, Len(piece)) /\ FileAt(piece, 0, name, text, kind, nl, dl)
  BY <1>1, <1>2, <1>3, <1>4, <1>5, PartsLaid
<1> QED
  BY <1>6

\* A piece keeps what it holds wherever it stands.
LEMMA FileMoves ==
  ASSUME NEW img, NEW piece, Len(piece) \in Nat, NEW p \in Nat, Within(img, piece, p),
         NEW name, Len(name) \in Nat, NEW text, Len(text) \in Nat, NEW kind, NEW nl, NEW dl,
         Sized(name, kind, nl, dl, Len(piece)), FileAt(piece, 0, name, text, kind, nl, dl)
  PROVE  FileAt(img, p, name, text, kind, nl, dl)
<1> DEFINE u == Units(Len(text))
           r == Round4(dl)
<1>1. u \in Nat
  BY UnitCount
<1>2. /\ nl \in Nat /\ dl \in Nat /\ Len(name) < nl /\ Len(piece) = HEADER + nl + r
      /\ HEADER \in Nat /\ HEADER >= 1
  BY DEF Sized, HEADER
<1>3. r \in Nat /\ dl <= r
  <2>1. 0 \in Nat /\ dl \in Nat
    BY <1>2
  <2> QED
    BY <2>1, Rounding
<1> HIDE DEF r, u
<1>4. ASSUME NEW k \in Nat, 1 <= k, k <= HEADER + nl + dl PROVE img[p + k] = piece[k]
  <2>1. HEADER + nl + dl <= Len(piece)
    BY <1>2, <1>3
  <2>2. k \in 1 .. Len(piece)
    BY <1>2, <1>4, <2>1
  <2> QED
    BY <2>2 DEF Within
<1>5. img[p + 1] = HeadCell(FALSE, kind, nl, dl)
  <2>1. piece[0 + 1] = HeadCell(FALSE, kind, nl, dl) /\ 0 + 1 = 1
    BY DEF FileAt
  <2>2. PICK i \in Nat : i = 1
    OBVIOUS
  <2>3. 1 <= i /\ i <= HEADER + nl + dl
    BY <1>2, <2>2
  <2>4. img[p + i] = piece[i]
    BY <1>4, <2>3
  <2> QED
    BY <2>1, <2>2, <2>4
<1>6. ASSUME NEW k \in 1 .. Len(name) PROVE img[p + HEADER + k] = Char(name[k])
  <2>1. piece[0 + HEADER + k] = Char(name[k])
    BY DEF FileAt
  <2>2. /\ HEADER + k \in Nat /\ 1 <= HEADER + k /\ HEADER + k <= HEADER + nl + dl
        /\ p + (HEADER + k) = p + HEADER + k /\ 0 + HEADER + k = HEADER + k
    BY <1>2
  <2> QED
    BY <1>4, <2>1, <2>2
<1>7. img[p + HEADER + Len(name) + 1] = Nul
  <2>1. piece[0 + HEADER + Len(name) + 1] = Nul
    BY DEF FileAt
  <2> DEFINE k == HEADER + Len(name) + 1
  <2>2. /\ k \in Nat /\ 1 <= k /\ k <= HEADER + nl + dl
        /\ p + k = p + HEADER + Len(name) + 1 /\ 0 + HEADER + Len(name) + 1 = k
    BY <1>2
  <2> HIDE DEF k
  <2> QED
    BY <1>4, <2>1, <2>2
<1>8. kind = NONE => dl = Len(text) /\ \A k \in 1 .. Len(text) : img[p + HEADER + nl + k] = Char(text[k])
  <2> SUFFICES ASSUME kind = NONE
               PROVE  dl = Len(text) /\ \A k \in 1 .. Len(text) : img[p + HEADER + nl + k] = Char(text[k])
    OBVIOUS
  <2>1. dl = Len(text) /\ \A k \in 1 .. Len(text) : piece[0 + HEADER + nl + k] = Char(text[k])
    BY DEF FileAt
  <2>2. ASSUME NEW k \in 1 .. Len(text) PROVE img[p + HEADER + nl + k] = Char(text[k])
    <3> DEFINE i == HEADER + nl + k
    <3>1. /\ i \in Nat /\ 1 <= i /\ i <= HEADER + nl + dl
          /\ p + i = p + HEADER + nl + k /\ 0 + HEADER + nl + k = i
      BY <1>2, <2>1
    <3> HIDE DEF i
    <3> QED
      BY <1>4, <2>1, <3>1
  <2> QED
    BY <2>1, <2>2
<1>9. kind = HEATSHRINK =>
        dl = u + 1 /\ \A j \in 1 .. u : img[p + HEADER + nl + (j + 1)] = Unit(UnitOf(text, j))
  <2> SUFFICES ASSUME kind = HEATSHRINK
               PROVE  dl = u + 1 /\ \A j \in 1 .. u : img[p + HEADER + nl + (j + 1)] = Unit(UnitOf(text, j))
    OBVIOUS
  <2>1. dl = u + 1 /\ \A j \in 1 .. u : piece[0 + HEADER + nl + (j + 1)] = Unit(UnitOf(text, j))
    BY DEF FileAt, u
  <2>2. ASSUME NEW j \in 1 .. u PROVE img[p + HEADER + nl + (j + 1)] = Unit(UnitOf(text, j))
    <3> DEFINE i == HEADER + nl + (j + 1)
    <3>1. /\ i \in Nat /\ 1 <= i /\ i <= HEADER + nl + dl
          /\ p + i = p + HEADER + nl + (j + 1) /\ 0 + HEADER + nl + (j + 1) = i
      BY <1>1, <1>2, <2>1
    <3> HIDE DEF i
    <3> QED
      BY <1>4, <2>1, <3>1
  <2> QED
    BY <2>1, <2>2
<1> QED
  BY <1>5, <1>6, <1>7, <1>8, <1>9 DEF FileAt, u

LEMMA RealNameType ==
  ASSUME NEW A, NEW name \in Seq(A)
  PROVE  RealName(name) \in Seq(A)
<1>1. \A n \in Seq(A) : \A c : Drop(n, c) \in Seq(A)
  BY DEF Drop
<1> QED
  BY <1>1 DEF RealName

\* The k-th file is between at[k - 1] and at[k]; the last header is behind all.
EntryAt(img, entry, p, q) ==
  /\ entry.text = <<>> => p = q
  /\ entry.text # <<>> =>
       /\ p < q
       /\ \E kind, nl, dl : /\ Sized(RealName(entry.name), kind, nl, dl, q - p)
                            /\ FileAt(img, p, RealName(entry.name), entry.text, kind, nl, dl)

IsLayout(img, entries, at) ==
  /\ at \in [0 .. Len(entries) -> Nat] /\ at[0] = 0
  /\ at[Len(entries)] < Len(img)
  /\ img[at[Len(entries)] + 1] = HeadCell(TRUE, NONE, 0, 0)
  /\ \A k \in 1 .. Len(entries) :
       at[k] < Len(img) /\ EntryAt(img, entries[k], at[k - 1], at[k])

EntryType(A) == [name: Seq(A), text: Seq(A)]

LEMMA ImageLaid ==
  ASSUME NEW A, NEW entries \in Seq(EntryType(A)), NEW comp \in {NONE, HEATSHRINK},
         NEW img, img = Image(entries, comp)
  PROVE  img \in Seq(Cells(A)) /\ \E at : IsLayout(img, entries, at)
<1> DEFINE X == Cells(A)
           n == Len(entries)
           piece(k) == HandleFile(RealName(entries[k].name), entries[k].text, comp)
           ss == [k \in 1 .. n |-> piece(k)]
           all == FlattenSeq(ss)
           e == FinishArchive
<1>0. n \in Nat /\ \A k \in 1 .. n : entries[k] \in EntryType(A)
  OBVIOUS
<1>1. n \in Nat /\ \A k \in 1 .. n : entries[k].name \in Seq(A) /\ entries[k].text \in Seq(A)
  <2> HIDE DEF n
  <2> QED
    BY <1>0 DEF EntryType
<1>2. ASSUME NEW k \in 1 .. n
      PROVE  /\ ss[k] \in Seq(X) /\ Len(ss[k]) \in Nat
             /\ entries[k].text = <<>> => Len(ss[k]) = 0
             /\ entries[k].text # <<>> =>
                  \E kind, nl, dl :
                    /\ Sized(RealName(entries[k].name), kind, nl, dl, Len(ss[k]))
                    /\ FileAt(ss[k], 0, RealName(entries[k].name), entries[k].text, kind, nl, dl)
  <2> DEFINE name == RealName(entries[k].name)
             text == entries[k].text
             s == ss[k]
  <2>1. name \in Seq(A)
    BY <1>1, RealNameType
  <2>2. text \in Seq(A)
    BY <1>1
  <2>3. s = HandleFile(name, text, comp)
    OBVIOUS
  <2> HIDE DEF name, text, s, ss, X
  <2>4. CASE text = <<>>
    <3>1. s = <<>>
      BY <2>3, <2>4 DEF HandleFile
    <3>2. s \in Seq(X) /\ Len(s) \in Nat /\ Len(s) = 0
      BY <3>1
    <3> QED
      BY <2>4, <3>2 DEF s, text
  <2>5. CASE text # <<>>
    <3>1. /\ s \in Seq(X)
          /\ \E kind, nl, dl : /\ Sized(name, kind, nl, dl, Len(s))
                               /\ FileAt(s, 0, name, text, kind, nl, dl)
      BY <2>1, <2>2, <2>3, <2>5, PieceLaid DEF X
    <3>2. Len(s) \in Nat
      BY <3>1
    <3> QED
      BY <2>5, <3>1, <3>2 DEF s, text, name
  <2> QED
    BY <2>4, <2>5
<1>3. ss \in Seq(Seq(X)) /\ Len(ss) = n
  <2>1. \A k \in 1 .. n : ss[k] \in Seq(X)
    BY <1>2
  <2>2. ss = [k \in 1 .. n |-> ss[k]]
    OBVIOUS
  <2> HIDE DEF X, ss, n
  <2> QED
    BY <1>1, <2>1, <2>2
<1>4. img = all \o e
  BY DEF Image
<1>5. e \in Seq(X) /\ Len(e) = HEADER /\ e[1] = HeadCell(TRUE, NONE, 0, 0) /\ HEADER \in Nat /\ HEADER >= 1
  <2>1. PICK l \in BOOLEAN, z \in Nat : l = TRUE /\ z = 0
    OBVIOUS
  <2>2. NONE \in {NONE, HEATSHRINK}
    OBVIOUS
  <2>3. /\ HeaderCells(l, NONE, z, z) \in Seq(Cells(A)) /\ Len(HeaderCells(l, NONE, z, z)) = HEADER
        /\ HeaderCells(l, NONE, z, z)[1] = HeadCell(l, NONE, z, z)
    BY <2>2, HeaderLaid
  <2>4. HEADER \in Nat /\ HEADER >= 1
    BY DEF HEADER
  <2> QED
    BY <2>1, <2>3, <2>4 DEF FinishArchive
<1> HIDE DEF ss, X
<1>6. all \in Seq(X) /\ \E at : IsCut(ss, all, at)
  <2>1. ss \in Seq(Seq(X))
    BY <1>3
  <2> QED
    BY <2>1, FlattenCut
<1>7. PICK at : IsCut(ss, all, at)
  BY <1>6
<1> HIDE DEF all, e, n, piece
<1>8. /\ img \in Seq(X) /\ Len(all) \in Nat /\ Len(e) \in Nat
      /\ Len(img) = Len(all) + Len(e) /\ Len(all) <= Len(img)
      /\ \A k \in 1 .. Len(all) : img[k] = all[k]
      /\ \A k \in 1 .. Len(e) : Len(all) + k \in 1 .. Len(img) /\ img[Len(all) + k] = e[k]
  <2>1. all \in Seq(X)
    BY <1>6
  <2>2. e \in Seq(X)
    BY <1>5
  <2> QED
    BY <1>4, <2>1, <2>2, ConcatCells
<1>9. at \in [0 .. n -> Nat] /\ at[0] = 0 /\ at[n] = Len(all)
  BY <1>3, <1>7 DEF IsCut
<1>10. Len(all) < Len(img)
  BY <1>5, <1>8
<1>11. img[at[n] + 1] = HeadCell(TRUE, NONE, 0, 0)
  <2>1. 1 \in 1 .. Len(e)
    BY <1>5
  <2> QED
    BY <1>5, <1>8, <1>9, <2>1
<1>12. ASSUME NEW k \in 1 .. n
       PROVE  at[k] < Len(img) /\ EntryAt(img, entries[k], at[k - 1], at[k])
  <2> DEFINE s == ss[k]
             p == at[k - 1]
             q == at[k]
             name == RealName(entries[k].name)
             text == entries[k].text
  <2>1. /\ q = p + Len(s) /\ q <= Len(all)
        /\ \A i \in 1 .. Len(s) : all[p + i] = s[i]
    BY <1>3, <1>7 DEF IsCut
  <2>2. p \in Nat /\ q \in Nat /\ Len(s) \in Nat
    BY <1>1, <1>2, <1>9
  <2>3. name \in Seq(A) /\ text \in Seq(A)
    BY <1>1, RealNameType
  <2>4. Len(name) \in Nat /\ Len(text) \in Nat
    BY <2>3
  <2>5. /\ text = <<>> => Len(s) = 0
        /\ text # <<>> => \E kind, nl, dl : /\ Sized(name, kind, nl, dl, Len(s))
                                            /\ FileAt(s, 0, name, text, kind, nl, dl)
    BY <1>2
  <2> HIDE DEF s, p, q, name, text
  <2>6. q < Len(img)
    BY <1>8, <1>10, <2>1, <2>2
  <2>7. Within(img, s, p)
    <3>1. ASSUME NEW i \in 1 .. Len(s) PROVE img[p + i] = s[i]
      <4>1. p + i \in 1 .. Len(all)
        BY <1>8, <2>1, <2>2
      <4> QED
        BY <1>8, <2>1, <4>1
    <3>2. p + Len(s) <= Len(img)
      BY <1>8, <2>1, <2>2
    <3> QED
      BY <3>1, <3>2 DEF Within
  <2>8. CASE text = <<>>
    BY <2>1, <2>2, <2>5, <2>6, <2>8 DEF EntryAt, text, p, q
  <2>9. CASE text # <<>>
    <3>1. PICK kind, nl, dl : /\ Sized(name, kind, nl, dl, Len(s))
                              /\ FileAt(s, 0, name, text, kind, nl, dl)
      BY <2>5, <2>9
    <3>2. FileAt(img, p, name, text, kind, nl, dl)
      BY <2>2, <2>4, <2>7, <3>1, FileMoves
    <3>3. q - p = Len(s)
      BY <2>1, <2>2
    <3>4. Len(s) >= 1
      <4>1. /\ nl \in Nat /\ dl \in Nat /\ Len(s) = HEADER + nl + Round4(dl)
        BY <3>1 DEF Sized
      <4>2. 0 \in Nat
        OBVIOUS
      <4>3. Round4(dl) \in Nat
        BY <4>1, <4>2, Rounding
      <4> QED
        BY <1>5, <4>1, <4>3
    <3>5. p < q
      BY <2>1, <2>2, <3>4
    <3>6. Sized(name, kind, nl, dl, q - p)
      BY <3>1, <3>3
    <3> QED
      BY <2>6, <2>9, <3>2, <3>5, <3>6 DEF EntryAt, text, name, p, q
  <2> QED
    BY <2>8, <2>9
<1>13. IsLayout(img, entries, at)
  BY <1>8, <1>9, <1>10, <1>11, <1>12 DEF IsLayout, n
<1> QED
  BY <1>8, <1>13 DEF X
-----------------------------------------------------------------------------
(* What espFsOpen finds. *)

\* What it does at p, when f is what it makes of the headers behind.
Opened(img, name, f, p) ==
  IF p >= Len(img) \/ img[p + 1][1] # "head" THEN NoFile
  ELSE LET h == img[p + 1] IN
       IF h[2] THEN NoFile
       ELSE IF NameAt(img, p + HEADER) = name THEN OpenAt(p, h)
       ELSE f[NextHeader(p, h)]

IsOpening(img, name, f) == f = [p \in Nat |-> Opened(img, name, f, p)]

LEMMA HeaderIsAhead ==
  ASSUME NEW A, NEW img \in Seq(Cells(A)), NEW p \in Nat, p < Len(img), img[p + 1][1] = "head"
  PROVE  NextHeader(p, img[p + 1]) \in Nat /\ NextHeader(p, img[p + 1]) > p
<1> DEFINE h == img[p + 1]
           n == p + HEADER + h[4] + h[5]
<1>1. h \in Cells(A)
  <2>1. p + 1 \in 1 .. Len(img)
    OBVIOUS
  <2> HIDE DEF h
  <2> QED
    BY <2>1 DEF h
<1>2. h[4] \in Nat /\ h[5] \in Nat
  BY <1>1, CellKinds
<1> HIDE DEF h
<1>3. n \in Nat /\ n > p
  BY <1>2 DEF HEADER
<1>4. 0 \in Nat
  OBVIOUS
<1> HIDE DEF n
<1>5. Round4(n) \in Nat /\ n <= Round4(n)
  BY <1>3, <1>4, Rounding
<1>6. NextHeader(p, h) = Round4(n)
  BY DEF NextHeader, n
<1> QED
  BY <1>3, <1>5, <1>6 DEF h

LEMMA OpeningExists ==
  ASSUME NEW A, NEW img \in Seq(Cells(A)), NEW name
  PROVE  \E f : IsOpening(img, name, f)
<1> DEFINE Good(f, n) == /\ f = [p \in Nat |-> f[p]]
                         /\ \A p \in Nat : p + n >= Len(img) => f[p] = Opened(img, name, f, p)
           D == {n \in Nat : \E f : Good(f, n)}
<1>1. Len(img) \in Nat
  OBVIOUS
<1>2. 0 \in D
  <2> DEFINE f == [p \in Nat |-> NoFile]
  <2>1. \A p \in Nat : p + 0 >= Len(img) => f[p] = Opened(img, name, f, p)
    BY DEF Opened
  <2>2. f = [p \in Nat |-> f[p]]
    OBVIOUS
  <2> HIDE DEF f
  <2>3. Good(f, 0)
    BY <2>1, <2>2
  <2> QED
    BY <2>3
<1>3. ASSUME NEW n \in Nat, n \in D PROVE n + 1 \in D
  <2>1. PICK f : Good(f, n)
    BY <1>3
  <2> DEFINE g == [p \in Nat |-> IF p + n >= Len(img) THEN f[p] ELSE Opened(img, name, f, p)]
  <2>2. \A p \in Nat : g[p] = IF p + n >= Len(img) THEN f[p] ELSE Opened(img, name, f, p)
    OBVIOUS
  <2>3. g = [p \in Nat |-> g[p]]
    OBVIOUS
  <2> HIDE DEF g
  <2>4. ASSUME NEW p \in Nat, p + (n + 1) >= Len(img)
        PROVE  g[p] = Opened(img, name, g, p)
    <3>1. g[p] = Opened(img, name, f, p)
      BY <2>1, <2>2
    <3>2. CASE p >= Len(img) \/ img[p + 1][1] # "head"
      BY <3>1, <3>2 DEF Opened
    <3>3. CASE ~(p >= Len(img) \/ img[p + 1][1] # "head")
      <4> DEFINE q == NextHeader(p, img[p + 1])
      <4>1. q \in Nat /\ q > p
        <5>1. p < Len(img) /\ img[p + 1][1] = "head"
          BY <1>1, <3>3
        <5> QED
          BY <5>1, HeaderIsAhead
      <4>2. q + n >= Len(img)
        <5> HIDE DEF q
        <5> QED
          BY <1>1, <2>4, <4>1
      <4>3. g[q] = f[q]
        BY <2>2, <4>1, <4>2
      <4> QED
        BY <3>1, <4>3 DEF Opened
    <3> QED
      BY <3>2, <3>3
  <2>5. Good(g, n + 1)
    BY <2>3, <2>4
  <2> QED
    BY <2>5
<1> HIDE DEF D
<1>4. Len(img) \in D
  BY <1>1, <1>2, <1>3, Induction
<1>5. PICK f : Good(f, Len(img))
  BY <1>4 DEF D
<1>6. \A p \in Nat : f[p] = Opened(img, name, f, p)
  BY <1>1, <1>5
<1>7. f = [p \in Nat |-> Opened(img, name, f, p)]
  <2>1. [p \in Nat |-> f[p]] = [p \in Nat |-> Opened(img, name, f, p)]
    BY <1>6
  <2> QED
    BY <1>5, <2>1
<1> QED
  BY <1>7 DEF IsOpening

LEMMA OpenUnfolds ==
  ASSUME NEW A, NEW img \in Seq(Cells(A)), NEW url
  PROVE  \E f : /\ Open(img, url) = f[0]
                /\ \A p \in Nat : f[p] = Opened(img, StripSlashes(url), f, p)
<1> DEFINE name == StripSlashes(url)
           f == CHOOSE g : g = [p \in Nat |-> Opened(img, name, g, p)]
<1>1. IsOpening(img, name, f)
  BY OpeningExists DEF IsOpening
<1>2. Open(img, url) = f[0]
  BY DEF Open, Opened
<1> HIDE DEF f
<1>3. \A p \in Nat : f[p] = Opened(img, name, f, p)
  BY <1>1 DEF IsOpening
<1> QED
  BY <1>2, <1>3

\* A name that lies at p is read back.
LEMMA NameIsRead ==
  ASSUME NEW A, NEW img, Len(img) \in Nat, NEW p \in Nat, NEW name \in Seq(A),
         p + Len(name) + 1 <= Len(img),
         \A k \in 1 .. Len(name) : img[p + k] = Char(name[k]),
         img[p + Len(name) + 1] = Nul
  PROVE  NameAt(img, p) = name
<1> DEFINE S == {k \in (p + 1) .. Len(img) : img[k] = Nul}
           e == p + Len(name) + 1
<1>1. Len(name) \in Nat
  OBVIOUS
<1>2. S \in SUBSET Nat /\ e \in S
  BY <1>1
<1>3. \A x \in S : e <= x
  <2> SUFFICES ASSUME NEW x \in S, x < e PROVE FALSE
    BY <1>1
  <2>1. x - p \in 1 .. Len(name) /\ p + (x - p) = x
    BY <1>1
  <2>2. img[x] = Char(name[x - p])
    BY <2>1
  <2>3. img[x] = Nul
    OBVIOUS
  <2> QED
    BY <2>2, <2>3, CharIsPlain
<1>4. Min(S) = e
  <2>1. S \in SUBSET Nat
    BY <1>2
  <2>2. e \in S
    BY <1>2
  <2> HIDE DEF S, e
  <2> QED
    BY <1>3, <2>1, <2>2, LeastIs
<1>5. NameAt(img, p) = [k \in 1 .. (Min(S) - p - 1) |-> img[p + k][2]]
  BY DEF NameAt
<1>6. e - p - 1 = Len(name)
  BY <1>1
<1>7. \A k \in 1 .. Len(name) : img[p + k][2] = name[k]
  BY CharIsPlain
<1> HIDE DEF S, e
<1>8. NameAt(img, p) = [k \in 1 .. Len(name) |-> name[k]]
  BY <1>4, <1>5, <1>6, <1>7
<1> QED
  BY <1>8

\* Headers begin at multiples of four.
OnFour(x) == \E q \in Nat : x = 4 * q

LEMMA LayoutFours ==
  ASSUME NEW img, NEW entries, Len(entries) \in Nat, NEW at, IsLayout(img, entries, at),
         NEW k \in 0 .. Len(entries)
  PROVE  OnFour(at[k])
<1> DEFINE n == Len(entries)
           D == {m \in Nat : m <= n => \E q \in Nat : at[m] = 4 * q}
<1>1. 0 \in D
  <2>1. at[0] = 4 * 0
    BY DEF IsLayout
  <2> QED
    BY <2>1
<1>2. ASSUME NEW m \in Nat, m \in D PROVE m + 1 \in D
  <2> SUFFICES ASSUME m + 1 <= n PROVE \E q \in Nat : at[m + 1] = 4 * q
    OBVIOUS
  <2> DEFINE i == m + 1
             a == at[m]
             b == at[i]
  <2>1. i \in 1 .. n /\ i - 1 = m /\ m \in 0 .. n /\ i \in 0 .. n
    OBVIOUS
  <2>2. PICK q \in Nat : a = 4 * q
    BY <1>2, <2>1
  <2> HIDE DEF i, n
  <2>3. EntryAt(img, entries[i], a, b) /\ a \in Nat /\ b \in Nat
    BY <2>1 DEF IsLayout, n
  <2> HIDE DEF a, b
  <2>4. CASE entries[i].text = <<>>
    BY <2>2, <2>3, <2>4 DEF EntryAt, b, i
  <2>5. CASE entries[i].text # <<>>
    <3>1. PICK kind, nl, dl : Sized(RealName(entries[i].name), kind, nl, dl, b - a)
      BY <2>3, <2>5 DEF EntryAt
    <3>2. PICK r \in Nat : nl = 4 * r
      BY <3>1 DEF Sized
    <3>3. dl \in Nat /\ 0 \in Nat /\ b - a = HEADER + nl + Round4(dl)
      BY <3>1 DEF Sized
    <3>4. PICK s \in Nat : Round4(dl) = 4 * s
      BY <3>3, Rounding
    <3>5. b = 4 * (q + 4 + r + s) /\ q + 4 + r + s \in Nat
      BY <2>2, <2>3, <3>2, <3>3, <3>4 DEF HEADER
    <3> QED
      BY <3>5 DEF b, i
  <2> QED
    BY <2>4, <2>5
<1> HIDE DEF D
<1>3. k \in D
  BY <1>1, <1>2, Induction
<1> QED
  BY <1>3 DEF D, OnFour

\* What the search, from the beginning of the k-th file, comes to.
IsSearch(img, want, f) == \A p \in Nat : f[p] = Opened(img, want, f, p)

Seeks(img, entries, at, want, f, k) ==
  /\ entries[k].text = <<>> \/ RealName(entries[k].name) # want
       => f[at[k - 1]] = f[at[k]]
  /\ entries[k].text # <<>> /\ RealName(entries[k].name) = want
       => f[at[k - 1]] = OpenAt(at[k - 1], img[at[k - 1] + 1])

LEMMA EntrySought ==
  ASSUME NEW A, NEW entries \in Seq(EntryType(A)), NEW img \in Seq(Cells(A)), NEW at,
         IsLayout(img, entries, at), NEW want, NEW f, IsSearch(img, want, f),
         NEW k \in 1 .. Len(entries)
  PROVE  Seeks(img, entries, at, want, f, k)
<1> DEFINE n == Len(entries)
           p == at[k - 1]
           q == at[k]
           text == entries[k].text
           name == RealName(entries[k].name)
           h == img[p + 1]
<1>1. n \in Nat /\ Len(img) \in Nat
  OBVIOUS
<1>2. k \in Nat /\ k - 1 \in 0 .. n /\ k \in 0 .. n
  BY <1>1
<1> HIDE DEF n
<1>3. EntryAt(img, entries[k], p, q) /\ p \in Nat /\ q \in Nat /\ q < Len(img)
  BY <1>2 DEF IsLayout, n
<1>4. entries[k] \in EntryType(A)
  BY DEF n
<1>5. name \in Seq(A)
  <2>1. entries[k].name \in Seq(A)
    BY <1>4 DEF EntryType
  <2> QED
    BY <2>1, RealNameType
<1>6. PICK r \in Nat : p = 4 * r
  <2> DEFINE j == k - 1
  <2>1. j \in 0 .. Len(entries)
    BY <1>2 DEF n
  <2>2. Len(entries) \in Nat
    BY <1>1 DEF n
  <2> HIDE DEF j
  <2>3. OnFour(at[j])
    BY <2>1, <2>2, LayoutFours
  <2> QED
    BY <2>3 DEF OnFour, j, p
<1> HIDE DEF p, q, name, h
<1>7. CASE text = <<>>
  BY <1>3, <1>7 DEF EntryAt, Seeks, p, q
<1>8. CASE text # <<>>
  <2>1. PICK kind, nl, dl : /\ Sized(name, kind, nl, dl, q - p)
                            /\ FileAt(img, p, name, text, kind, nl, dl)
    BY <1>3, <1>8 DEF EntryAt, name
  <2>2. p < q
    BY <1>3, <1>8 DEF EntryAt
  <2>3. h = HeadCell(FALSE, kind, nl, dl)
    BY <2>1 DEF FileAt, h
  <2>4. h[1] = "head" /\ h[2] = FALSE /\ h[4] = nl /\ h[5] = dl
    BY <2>3 DEF HeadCell
  <2>5. nl \in Nat /\ dl \in Nat /\ Len(name) < nl /\ q - p = HEADER + nl + Round4(dl)
    BY <2>1 DEF Sized
  <2>6. PICK t \in Nat : nl = 4 * t
    BY <2>1 DEF Sized
  <2>7. Round4(dl) \in Nat
    BY <1>6, <2>5, Rounding
  <2>8. NextHeader(p, h) = q
    <3> DEFINE s == r + 4 + t
               w == Round4(dl)
    <3>4. /\ p \in Nat /\ q \in Nat /\ nl \in Nat /\ dl \in Nat /\ w \in Nat /\ q - p = 16 + nl + w
          /\ p = 4 * r /\ nl = 4 * t
      BY <1>3, <1>6, <2>5, <2>6, <2>7 DEF HEADER
    <3> HIDE DEF w
    <3>5. s \in Nat /\ 4 * s = p + 16 + nl
      BY <3>4
    <3>6. p + 16 + nl + dl = 4 * s + dl /\ q = 4 * s + w
      BY <3>4, <3>5
    <3>1. s \in Nat /\ p + HEADER + nl + dl = 4 * s + dl /\ q = 4 * s + Round4(dl)
      BY <3>5, <3>6 DEF HEADER, w
    <3> HIDE DEF s
    <3>2. Round4(4 * s + dl) = 4 * s + Round4(dl)
      BY <2>5, <3>1, Rounding
    <3>3. NextHeader(p, h) = Round4(p + HEADER + nl + dl)
      BY <2>4 DEF NextHeader
    <3> QED
      BY <3>1, <3>2, <3>3
  <2>9. NameAt(img, p + HEADER) = name
    <3> DEFINE b == p + HEADER
    <3>1. b \in Nat /\ Len(name) \in Nat /\ b + Len(name) + 1 <= Len(img)
      BY <1>1, <1>3, <1>5, <2>5, <2>7 DEF HEADER
    <3>2. /\ \A i \in 1 .. Len(name) : img[b + i] = Char(name[i])
          /\ img[b + Len(name) + 1] = Nul
      BY <2>1 DEF FileAt
    <3> HIDE DEF b
    <3>3. NameAt(img, b) = name
      BY <1>1, <1>5, <3>1, <3>2, NameIsRead
    <3> QED
      BY <3>3 DEF b
  <2>10. f[p] = IF name = want THEN OpenAt(p, h) ELSE f[q]
    <3>1. f[p] = Opened(img, want, f, p)
      BY <1>3 DEF IsSearch
    <3>2. ~(p >= Len(img))
      BY <1>1, <1>3, <2>2
    <3>3. img[p + 1][1] = "head" /\ ~(img[p + 1][2])
      BY <2>4 DEF h
    <3>4. Opened(img, want, f, p) =
            IF NameAt(img, p + HEADER) = want THEN OpenAt(p, img[p + 1])
            ELSE f[NextHeader(p, img[p + 1])]
      BY <3>2, <3>3 DEF Opened
    <3> QED
      BY <2>8, <2>9, <3>1, <3>4 DEF h
  <2> QED
    BY <1>8, <2>10 DEF Seeks, name, p, q, h
<1> QED
  BY <1>7, <1>8

\* The search that passes the first m files by goes on behind them.
LEMMA PassedBy ==
  ASSUME NEW f, NEW at, NEW m \in Nat, \A k \in 1 .. m : f[at[k - 1]] = f[at[k]]
  PROVE  f[at[0]] = f[at[m]]
<1> DEFINE D == {i \in Nat : i <= m => f[at[0]] = f[at[i]]}
<1>1. 0 \in D
  OBVIOUS
<1>2. ASSUME NEW i \in Nat, i \in D PROVE i + 1 \in D
  <2> SUFFICES ASSUME i + 1 <= m PROVE f[at[0]] = f[at[i + 1]]
    OBVIOUS
  <2>1. i + 1 \in 1 .. m /\ (i + 1) - 1 = i
    OBVIOUS
  <2>2. f[at[(i + 1) - 1]] = f[at[i + 1]]
    BY <2>1
  <2>3. f[at[0]] = f[at[i]]
    BY <1>2, <2>1
  <2> QED
    BY <2>1, <2>2, <2>3
<1> HIDE DEF D
<1>3. m \in D
  BY <1>1, <1>2, Induction
<1> QED
  BY <1>3 DEF D

\* Entries that are different files.
Apart(entries) ==
  \A i, j \in 1 .. Len(entries) :
    RealName(entries[i].name) = RealName(entries[j].name) => i = j

\* What FileServed says of a file that is there, for any size of a read.
Sent(img, f, text, len) ==
  /\ f.found /\ IsPrefix(FileSent(img, f, len), text)
  /\ FileSent(img, f, len) = text
     \/ /\ f.comp = HEATSHRINK /\ Len(FileSent(img, f, len)) % len = 0
        /\ Len(text) - Len(FileSent(img, f, len)) < IN_BUF * UNIT

\* A file that lies at p and is opened there is sent.
LEMMA OpenedIsSent ==
  ASSUME NEW A, NEW img, NEW p \in Nat, NEW name, NEW text \in Seq(A), NEW kind, NEW nl, NEW dl,
         NEW len \in Nat \ {0}, UNIT <= len, NEW size,
         Sized(name, kind, nl, dl, size), FileAt(img, p, name, text, kind, nl, dl)
  PROVE  Sent(img, OpenAt(p, img[p + 1]), text, len)
<1> DEFINE h == img[p + 1]
           f == OpenAt(p, h)
           start == p + HEADER + nl
           l == Len(text)
<1>1. nl \in Nat /\ dl \in Nat /\ kind \in {NONE, HEATSHRINK} /\ start \in Nat /\ l \in Nat
  BY DEF Sized, HEADER
<1>2. h = HeadCell(FALSE, kind, nl, dl)
  BY DEF FileAt
<1>3. h[3] = kind /\ h[4] = nl /\ h[5] = dl
  BY <1>2 DEF HeadCell
<1>4. f = [found |-> TRUE, comp |-> kind, start |-> start, flen |-> dl,
           pos |-> IF kind = HEATSHRINK THEN 1 ELSE 0, in |-> <<>>, used |-> 0, pend |-> <<>>]
  BY <1>3 DEF OpenAt
<1>5. NONE # HEATSHRINK
  BY DEF NONE, HEATSHRINK
<1> HIDE DEF f, h, start
<1>6. CASE kind = NONE
  <2>1. dl = l /\ \A k \in 1 .. l : img[start + k] = Char(text[k])
    BY <1>6 DEF FileAt, start
  <2>2. \A k \in 1 .. Len(text) : img[start + k][2] = text[k]
    BY <2>1, CharIsPlain
  <2>3. f = [found |-> TRUE, comp |-> NONE, start |-> start, flen |-> Len(text),
             pos |-> 0, in |-> <<>>, used |-> 0, pend |-> <<>>]
    BY <1>4, <1>5, <1>6, <2>1
  <2>4. FileSent(img, f, len) = text
    <3>1. FileSent(img, [found |-> TRUE, comp |-> NONE, start |-> start, flen |-> Len(text),
                         pos |-> 0, in |-> <<>>, used |-> 0, pend |-> <<>>], len) = text
      BY <1>1, <2>2, StoredSent
    <3> QED
      BY <2>3, <3>1
  <2>5. f.found
    BY <2>3
  <2>6. IsPrefix(text, text)
    <3>1. l \in Nat /\ l <= l
      BY <1>1
    <3>2. text = SubSeq(text, 1, l)
      OBVIOUS
    <3> QED
      BY <3>1, <3>2 DEF IsPrefix
  <2> QED
    BY <2>4, <2>5, <2>6 DEF Sent, f, h
<1>7. CASE kind = HEATSHRINK
  <2>1. dl = Units(l) + 1 /\ \A j \in 1 .. Units(l) : img[start + (j + 1)] = Unit(UnitOf(text, j))
    BY <1>7 DEF FileAt, start
  <2>2. UnitsAt(img, text, start)
    <3>1. \A s : Unit(s)[2] = s
      BY DEF Unit
    <3> QED
      BY <2>1, <3>1 DEF UnitsAt
  <2>3. f = [found |-> TRUE, comp |-> HEATSHRINK, start |-> start, flen |-> dl,
             pos |-> 1, in |-> <<>>, used |-> 0, pend |-> <<>>]
    BY <1>4, <1>7
  <2>4. /\ f.found = TRUE /\ f.comp = HEATSHRINK /\ f.start = start /\ f.flen = dl
        /\ f.pos = 1 /\ f.in = <<>> /\ f.used = 0 /\ f.pend = <<>>
    BY <2>3
  <2>5. f \in FileType(A)
    <3> DEFINE Z == Seq(Seq(A))
               Y == Seq(A)
    <3>1. <<>> \in Z /\ <<>> \in Y
      OBVIOUS
    <3> HIDE DEF Z, Y
    <3>2. f \in [found: BOOLEAN, comp: {NONE, HEATSHRINK}, start: Nat, flen: Nat, pos: Nat,
                 in: Z, used: Nat, pend: Y]
      BY <1>1, <2>3, <3>1
    <3> QED
      BY <3>2 DEF FileType, Z, Y
  <2>6. HeldAs(text, f, 0, 0, 0)
    <3>1. CutAt(l, 0) = 0 /\ Units(l) \in Nat /\ UNIT \in Nat /\ UNIT >= 1 /\ IN_BUF \in Nat
      BY <1>1, CutEnds, UnitCount, EspFsAssumption
    <3>2. Between(text, 0, 0) = <<>>
      BY BetweenNone
    <3>3. Len(f.in) = 0
      BY <2>4
    <3> HIDE DEF l
    <3>4. 0 + 0 <= Units(l) /\ 0 + 0 + 1 = 1 /\ 0 <= CutAt(l, 0) /\ CutAt(l, 0) < 0 + UNIT
      BY <3>1
    <3>5. /\ 0 <= f.used /\ f.used <= IN_BUF
      BY <2>4, <3>1
    <3>6. \A i \in 1 .. 0 : f.in[i] = UnitOf(text, 0 + i)
      OBVIOUS
    <3> QED
      BY <2>1, <2>4, <3>1, <3>2, <3>3, <3>4, <3>5, <3>6 DEF HeldAs, l
  <2>7. UnitsAt(img, text, f.start)
    BY <2>2, <2>4
  <2>8. f.comp = HEATSHRINK /\ len \in Nat
    BY <2>4
  <2>9. /\ IsPrefix(FileSent(img, f, len), text)
        /\ \/ FileSent(img, f, len) = text
           \/ /\ Len(FileSent(img, f, len)) % len = 0
              /\ Len(text) - Len(FileSent(img, f, len)) < IN_BUF * UNIT
    BY <2>5, <2>6, <2>7, <2>8, CompressedSent
  <2> QED
    BY <2>4, <2>8, <2>9 DEF Sent, f, h
<1> QED
  BY <1>1, <1>6, <1>7

\* espFsOpen finds every file of an image mkespfsimage wrote by its url, and no
\* other, and espFsRead sends it: for any files with different names and any
\* url.  What is missing of a compressed file is what the decoder still holds
\* when the input is used up at the end of a block.  A block must hold what one
\* byte expands to.
THEOREM FileIsServed ==
  ASSUME NEW A, NEW entries \in Seq(EntryType(A)), Apart(entries),
         NEW comp \in {NONE, HEATSHRINK}, NEW url, NEW len \in Nat \ {0}, UNIT <= len,
         NEW img, img = Image(entries, comp), NEW text, text = FileOf(entries, url),
         NEW f, f = Open(img, url)
  PROVE  IF text = <<>> THEN ~f.found ELSE Sent(img, f, text, len)
<1> DEFINE n == Len(entries)
           want == StripSlashes(url)
           hits == {k \in DOMAIN entries : RealName(entries[k].name) = want}
<1>1. n \in Nat /\ DOMAIN entries = 1 .. n
  OBVIOUS
<1>2. img \in Seq(Cells(A)) /\ \E at : IsLayout(img, entries, at)
  BY ImageLaid
<1>3. PICK at : IsLayout(img, entries, at)
  BY <1>2
<1>4. PICK g : Open(img, url) = g[0] /\ \A p \in Nat : g[p] = Opened(img, want, g, p)
  BY <1>2, OpenUnfolds
<1>5. Len(img) \in Nat /\ at[0] = 0 /\ at \in [0 .. n -> Nat] /\ at[n] < Len(img)
  BY <1>2, <1>3 DEF IsLayout
<1>6. ASSUME NEW k \in 1 .. n PROVE Seeks(img, entries, at, want, g, k)
  <2>1. img \in Seq(Cells(A))
    BY <1>2
  <2>2. IsSearch(img, want, g)
    BY <1>4 DEF IsSearch
  <2>3. k \in 1 .. Len(entries)
    OBVIOUS
  <2> HIDE DEF want
  <2> QED
    BY <1>3, <2>1, <2>2, <2>3, EntrySought
<1>7. g[at[n]] = NoFile
  <2> DEFINE p == at[n]
             h == img[p + 1]
  <2>1. h = HeadCell(TRUE, NONE, 0, 0) /\ p \in Nat /\ ~(p >= Len(img))
    BY <1>1, <1>3, <1>5 DEF IsLayout
  <2>2. h[1] = "head" /\ h[2] = TRUE
    BY <2>1 DEF HeadCell
  <2>3. g[p] = Opened(img, want, g, p)
    BY <1>4, <2>1
  <2> HIDE DEF h, p
  <2>4. Opened(img, want, g, p) = NoFile
    BY <2>1, <2>2 DEF Opened, h
  <2> QED
    BY <2>3, <2>4 DEF p
<1>8. \A i, j \in hits : i = j
  BY <1>1 DEF Apart
<1>9. hits \in SUBSET Nat
  BY <1>1
<1>10. text = IF hits = {} THEN <<>> ELSE entries[Min(hits)].text
  BY DEF FileOf
<1> HIDE DEF want
<1>11. CASE text = <<>>
  <2>1. ASSUME NEW k \in 1 .. n PROVE g[at[k - 1]] = g[at[k]]
    <3>1. CASE k \notin hits
      BY <1>1, <1>6, <3>1 DEF Seeks
    <3>2. CASE k \in hits
      <4>1. Min(hits) = k
        <5>1. \A x \in hits : k <= x
          BY <1>8, <1>9, <3>2
        <5> HIDE DEF hits
        <5> QED
          BY <1>9, <3>2, <5>1, LeastIs
      <4>2. entries[k].text = <<>>
        BY <1>10, <1>11, <3>2, <4>1
      <4> QED
        BY <1>6, <4>2 DEF Seeks
    <3> QED
      BY <3>1, <3>2
  <2>2. g[at[0]] = g[at[n]]
    BY <1>1, <2>1, PassedBy
  <2>3. f = NoFile
    BY <1>4, <1>5, <1>7, <2>2
  <2>4. ~f.found
    BY <2>3 DEF NoFile
  <2> QED
    BY <1>11, <2>4
<1>12. CASE text # <<>>
  <2>1. PICK i \in hits : i = i
    BY <1>10, <1>12
  <2>2. Min(hits) = i
    <3>1. \A x \in hits : i <= x
      BY <1>8, <1>9, <2>1
    <3>2. i \in hits
      BY <2>1
    <3> HIDE DEF hits
    <3> QED
      BY <1>9, <3>1, <3>2, LeastIs
  <2>3. i \in 1 .. n /\ RealName(entries[i].name) = want /\ text = entries[i].text
    BY <1>1, <1>10, <1>12, <2>1, <2>2
  <2> DEFINE m == i - 1
             p == at[m]
  <2>4. m \in Nat /\ m + 1 = i /\ m \in 0 .. n /\ \A k \in 1 .. m : k \in 1 .. n /\ k # i
    BY <1>1, <2>3
  <2> HIDE DEF m
  <2>5. ASSUME NEW k \in 1 .. m PROVE g[at[k - 1]] = g[at[k]]
    <3>1. k \in 1 .. n /\ k # i
      BY <2>4
    <3>2. k \notin hits
      BY <1>8, <2>1, <3>1
    <3>3. RealName(entries[k].name) # want
      BY <1>1, <3>1, <3>2
    <3> QED
      BY <1>6, <3>1, <3>3 DEF Seeks
  <2>6. g[at[0]] = g[at[m]]
    BY <2>4, <2>5, PassedBy
  <2>7. p \in Nat /\ i - 1 = m
    BY <1>5, <2>3, <2>4
  <2>8. g[p] = OpenAt(p, img[p + 1])
    <3>1. entries[i].text # <<>> /\ RealName(entries[i].name) = want
      BY <1>12, <2>3
    <3>2. g[at[i - 1]] = OpenAt(at[i - 1], img[at[i - 1] + 1])
      BY <1>6, <2>3, <3>1 DEF Seeks
    <3> QED
      BY <2>7, <3>2
  <2>9. f = OpenAt(p, img[p + 1])
    BY <1>4, <1>5, <2>6, <2>8
  <2>10. EntryAt(img, entries[i], p, at[i])
    <3>1. EntryAt(img, entries[i], at[i - 1], at[i])
      BY <2>3, <1>3 DEF IsLayout
    <3> QED
      BY <2>7, <3>1
  <2>11. PICK kind, nl, dl : /\ Sized(want, kind, nl, dl, at[i] - p)
                             /\ FileAt(img, p, want, text, kind, nl, dl)
    BY <1>12, <2>3, <2>10 DEF EntryAt
  <2>12. text \in Seq(A)
    <3>1. entries[i] \in EntryType(A)
      BY <2>3
    <3>2. entries[i].text \in Seq(A)
      BY <3>1 DEF EntryType
    <3> QED
      BY <2>3, <3>2
  <2> HIDE DEF p
  <2>13. Sent(img, OpenAt(p, img[p + 1]), text, len)
    BY <2>7, <2>11, <2>12, OpenedIsSent
  <2> QED
    BY <1>12, <2>9, <2>13
<1> QED
  BY <1>11, <1>12
-----------------------------------------------------------------------------
(* The files of MCData. *)

FileNames == {<<"n">>, <<"m", "m", "m">>, <<".", "/", "k">>}
FileChars == {"n", "m", ".", "/", "k"} \cup {Alphabet[i] : i \in 1 .. 12}

LEMMA NamesApart ==
  ASSUME NEW x \in FileNames, NEW y \in FileNames, RealName(x) = RealName(y)
  PROVE  x = y
<1> DEFINE n == <<"n">>
           m == <<"m", "m", "m">>
           k == <<".", "/", "k">>
<1>1. RealName(n) = n
  BY DEF RealName, Drop
<1>2. RealName(m) = m
  BY DEF RealName, Drop
<1>3. RealName(k) = <<"k">>
  <2>1. k # <<>> /\ k[1] = "." /\ Tail(k) = <<"/", "k">>
    OBVIOUS
  <2>2. Drop(k, ".") = <<"/", "k">>
    BY <2>1 DEF Drop
  <2>3. <<"/", "k">> # <<>> /\ <<"/", "k">>[1] = "/" /\ Tail(<<"/", "k">>) = <<"k">>
    OBVIOUS
  <2>4. Drop(<<"/", "k">>, "/") = <<"k">>
    BY <2>3 DEF Drop
  <2> QED
    BY <2>2, <2>4 DEF RealName
<1>4. n[1] = "n" /\ m[1] = "m" /\ <<"k">>[1] = "k"
  OBVIOUS
<1>5. x \in {n, m, k} /\ y \in {n, m, k}
  BY DEF FileNames
<1> HIDE DEF n, m, k
<1>6. "n" # "m" /\ "n" # "k" /\ "m" # "k"
  OBVIOUS
<1> QED
  BY <1>1, <1>2, <1>3, <1>4, <1>5, <1>6

LEMMA AlphabetText ==
  ASSUME NEW i \in {1, 2}, NEW n \in {0, 1, 4, 7, 8, 9, 11}
  PROVE  SubSeq(Alphabet, i, i + n - 1) \in Seq(FileChars)
<1> DEFINE X == FileChars
<1>1. Alphabet \in Seq(X) /\ Len(Alphabet) = 12
  <2>1. Len(Alphabet) = 12 /\ Alphabet = [k \in 1 .. 12 |-> Alphabet[k]]
    BY DEF Alphabet
  <2>2. \A k \in 1 .. 12 : Alphabet[k] \in X
    BY DEF FileChars
  <2> HIDE DEF X
  <2> QED
    BY <2>1, <2>2
<1>2. i \in Nat /\ 1 <= i /\ i <= 2 /\ n \in Nat /\ n <= 11
  OBVIOUS
<1> HIDE DEF X
<1>3. CASE n = 0
  <2>1. SubSeq(Alphabet, i, i + n - 1) = <<>>
    <3>1. i + n - 1 < i
      BY <1>2, <1>3
    <3> QED
      BY <1>2, <3>1
  <2> DEFINE s == SubSeq(Alphabet, i, i + n - 1)
  <2>2. s = <<>>
    BY <2>1
  <2> HIDE DEF s
  <2>3. s \in Seq(FileChars)
    BY <2>2
  <2> QED
    BY <2>3 DEF s
<1>4. CASE n # 0
  <2> DEFINE j == i + n - 1
  <2>1. j \in Nat /\ i <= j /\ j <= Len(Alphabet)
    BY <1>1, <1>2, <1>4
  <2>2. Alphabet \in Seq(X)
    BY <1>1
  <2> HIDE DEF j
  <2>3. SubSeq(Alphabet, i, j) \in Seq(X)
    BY <1>2, <2>1, <2>2, Slice
  <2> QED
    BY <2>3 DEF X, j
<1> QED
  BY <1>3, <1>4 DEF X

LEMMA EntriesApart ==
  ASSUME NEW entries \in Texts(Entry, 2),
         Cardinality({entries[k].name : k \in DOMAIN entries}) = Len(entries)
  PROVE  entries \in Seq(EntryType(FileChars)) /\ Apart(entries)
<1> DEFINE C == FileChars
<1>1. entries \in Seq(Entry) /\ DOMAIN entries = 1 .. Len(entries)
  BY TextsAreSequences
<1>2. PICK m \in 0 .. 2 : entries \in [1 .. m -> Entry]
  BY DEF Texts
<1>3. Len(entries) = m /\ m \in {0, 1, 2}
  BY <1>2
<1>4. FileNames \subseteq Seq(C)
  BY DEF FileNames, FileChars
<1>5. ASSUME NEW e \in Entry PROVE e.name \in FileNames /\ e \in EntryType(C)
  <2>1. e.name \in FileNames
    BY DEF Entry, FileNames
  <2>2. PICK i \in {1, 2}, n \in {0, 1, 4, 7, 8, 9, 11} : e.text = SubSeq(Alphabet, i, i + n - 1)
    BY DEF Entry
  <2>3. e.text \in Seq(C)
    BY <2>2, AlphabetText
  <2>4. e = [name |-> e.name, text |-> e.text]
    BY DEF Entry
  <2> HIDE DEF C
  <2> QED
    BY <1>4, <2>1, <2>3, <2>4 DEF EntryType
<1> HIDE DEF C
<1>6. entries \in Seq(EntryType(C))
  <2> DEFINE E == Entry
             T == EntryType(C)
  <2>1. \A e \in E : e \in T
    BY <1>5
  <2>2. entries \in [1 .. m -> E]
    BY <1>2
  <2> HIDE DEF E, T
  <2>3. entries \in [1 .. m -> T] /\ m \in Nat
    BY <2>1, <2>2
  <2>4. entries \in Seq(T)
    BY <2>3
  <2> QED
    BY <2>4 DEF T
<1>7. ASSUME NEW i \in 1 .. m, NEW j \in 1 .. m, entries[i].name = entries[j].name PROVE i = j
  <2> SUFFICES ASSUME i # j PROVE FALSE
    OBVIOUS
  <2>1. m = 2
    BY <1>3
  <2>2. entries[1].name = entries[2].name
    BY <1>7, <2>1
  <2>3. {entries[k].name : k \in DOMAIN entries} = {entries[1].name}
    BY <1>2, <2>1, <2>2
  <2>4. Cardinality({entries[1].name}) = 1
    BY FS_Singleton
  <2> QED
    BY <1>3, <2>1, <2>3, <2>4
<1>8. Apart(entries)
  <2> SUFFICES ASSUME NEW i \in 1 .. m, NEW j \in 1 .. m,
                      RealName(entries[i].name) = RealName(entries[j].name)
               PROVE  i = j
    BY <1>3 DEF Apart
  <2>1. entries[i].name \in FileNames /\ entries[j].name \in FileNames
    BY <1>2, <1>5
  <2>2. entries[i].name = entries[j].name
    BY <2>1, NamesApart
  <2> QED
    BY <1>7, <2>2
<1> QED
  BY <1>6, <1>8 DEF C

\* FileServed holds of every input that is chosen, when a block holds what one
\* byte expands to.
THEOREM FileTheorem ==
  ASSUME UNIT <= BLOCK
  PROVE  Spec => []FileServed
<1>1. Chosen => FileServed
  <2> SUFFICES ASSUME Chosen, input.kind = "file" PROVE FileServed
    BY DEF FileServed
  <2> DEFINE entries == input.entries
             comp == input.comp
             url == input.url
             img == Image(entries, comp)
             text == FileOf(entries, url)
             f == Open(img, url)
  <2>1. /\ input \in FilesIn
        /\ Cardinality({entries[k].name : k \in DOMAIN entries}) = Len(entries)
    BY DEF Chosen
  <2>2. entries \in Texts(Entry, 2) /\ comp \in {NONE, HEATSHRINK}
    BY <2>1 DEF FilesIn
  <2> HIDE DEF entries, comp, url
  <2>3. entries \in Texts(Entry, 2)
    BY <2>2
  <2>4. entries \in Seq(EntryType(FileChars)) /\ Apart(entries)
    BY <2>1, <2>3, EntriesApart
  <2>5. entries \in Seq(EntryType(FileChars))
    BY <2>4
  <2>6. comp \in {NONE, HEATSHRINK}
    BY <2>2
  <2>7. BLOCK \in Nat \ {0}
    BY TemplateAssumption
  <2>8. img = Image(entries, comp) /\ text = FileOf(entries, url) /\ f = Open(img, url)
    OBVIOUS
  <2>9. FileServed = (input.kind = "file" =>
                        IF text = <<>> THEN ~f.found
                        ELSE /\ f.found /\ IsPrefix(FileSent(img, f, BLOCK), text)
                             /\ FileSent(img, f, BLOCK) = text
                                \/ /\ f.comp = HEATSHRINK /\ Len(FileSent(img, f, BLOCK)) % BLOCK = 0
                                   /\ Len(text) - Len(FileSent(img, f, BLOCK)) < IN_BUF * UNIT)
    BY DEF FileServed, entries, comp, url
  <2> HIDE DEF img, text, f
  <2>10. IF text = <<>> THEN ~f.found ELSE Sent(img, f, text, BLOCK)
    BY <2>4, <2>5, <2>6, <2>7, <2>8, FileIsServed
  <2> QED
    BY <2>9, <2>10 DEF Sent
<1> QED
  BY <1>1, ChosenHolds, PTL
=============================================================================
