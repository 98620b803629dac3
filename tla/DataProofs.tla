----------------------------- MODULE DataProofs ----------------------------
(***************************************************************************)
(* What ff_mread_str makes of POST data, base64_decode of the characters   *)
(* of a login and authBasic of who sent it, for data of any length.        *)
(***************************************************************************)
EXTENDS MCData, TLAPS, WellFoundedInduction, SequenceTheorems

LEMMA NatOrdered == IsWellFoundedOn({p \in Nat \X Nat : p[1] < p[2]}, Nat)
BY NatLessThanWellFounded DEF OpToRel

\* Induction, as a statement about sets of numbers.
LEMMA Induction ==
  ASSUME NEW S, 0 \in S, \A n \in Nat : n \in S => n + 1 \in S
  PROVE  Nat \subseteq S
<1> DEFINE R == {p \in Nat \X Nat : p[1] < p[2]}
           T == Nat \ S
<1>1. IsWellFoundedOn(R, Nat)
  BY NatOrdered
<1> HIDE DEF R
<1>2. SUFFICES ASSUME T # {} PROVE FALSE
  OBVIOUS
<1>3. PICK x \in T : \A y \in T : <<y, x>> \notin R
  <2>1. T \subseteq Nat
    OBVIOUS
  <2> HIDE DEF T
  <2> QED
    BY <1>1, <1>2, <2>1, WFMin
<1>4. \A y \in T : ~(y < x)
  BY <1>3 DEF R
<1>5. x \in Nat \ {0} /\ x - 1 \in Nat /\ x - 1 < x
  BY <1>3
<1>6. x - 1 \in S
  BY <1>4, <1>5
<1> QED
  BY <1>3, <1>5, <1>6
-----------------------------------------------------------------------------
(* One line. *)

\* One turn of ff_mread_str at p, when read is what the turns after it make.
Turn(data, read, p) ==
  IF p >= Len(data) THEN [text |-> <<>>, next |-> p]
  ELSE IF Ends(data, p) = {}
  THEN LET more == read[p + CACHE_SIZE] IN
       [more EXCEPT !.text = SubSeq(data, p + 1, p + CACHE_SIZE) \o @]
  ELSE LET i == Min(Ends(data, p)) IN
       [text |-> SubSeq(data, p + 1, p + i),
        next |-> p + i + EolLength(data, p, i)]

IsReader(data, f) == f = [p \in Nat |-> Turn(data, f, p)]

LEMMA TurnAgrees ==
  ASSUME NEW data, NEW f, NEW g, NEW p, f[p + CACHE_SIZE] = g[p + CACHE_SIZE]
  PROVE  Turn(data, f, p) = Turn(data, g, p)
BY DEF Turn

\* The recursion of ff_mread_str ends: every turn is nearer to the end.
LEMMA ReaderExists ==
  ASSUME NEW data, Len(data) \in Nat
  PROVE  \E f : IsReader(data, f)
<1> DEFINE Good(f, n) == /\ f = [p \in Nat |-> f[p]]
                         /\ \A p \in Nat : p + n >= Len(data) => f[p] = Turn(data, f, p)
           D == {n \in Nat : \E f : Good(f, n)}
<1>1. 0 \in D
  <2> DEFINE f == [p \in Nat |-> [text |-> <<>>, next |-> p]]
  <2>1. \A p \in Nat : p + 0 >= Len(data) => f[p] = Turn(data, f, p)
    BY DEF Turn
  <2>2. f = [p \in Nat |-> f[p]]
    OBVIOUS
  <2> HIDE DEF f
  <2>3. Good(f, 0)
    BY <2>1, <2>2
  <2> QED
    BY <2>3
<1>2. ASSUME NEW n \in Nat, n \in D PROVE n + 1 \in D
  <2>1. PICK f : Good(f, n)
    BY <1>2
  <2> DEFINE g == [p \in Nat |-> IF p + n >= Len(data) THEN f[p] ELSE Turn(data, f, p)]
  <2>2. \A p \in Nat : g[p] = IF p + n >= Len(data) THEN f[p] ELSE Turn(data, f, p)
    OBVIOUS
  <2>3. g = [p \in Nat |-> g[p]]
    OBVIOUS
  <2> HIDE DEF g
  <2>4. ASSUME NEW p \in Nat, p + (n + 1) >= Len(data)
        PROVE  g[p] = Turn(data, g, p)
    <3>1. p + CACHE_SIZE \in Nat /\ p + CACHE_SIZE + n >= Len(data)
      BY <2>4, PostLinesAssumption
    <3>2. g[p + CACHE_SIZE] = f[p + CACHE_SIZE]
      BY <2>2, <3>1
    <3>3. Turn(data, g, p) = Turn(data, f, p)
      BY <3>2, TurnAgrees
    <3>4. g[p] = Turn(data, f, p)
      BY <2>1, <2>2
    <3> QED
      BY <3>3, <3>4
  <2>5. Good(g, n + 1)
    BY <2>3, <2>4
  <2> QED
    BY <2>5
<1> HIDE DEF D
<1>3. Len(data) \in D
  BY <1>1, <1>2, Induction
<1>4. PICK f : Good(f, Len(data))
  BY <1>3 DEF D
<1>5. \A p \in Nat : f[p] = Turn(data, f, p)
  BY <1>4
<1>6. f = [p \in Nat |-> Turn(data, f, p)]
  <2>1. [p \in Nat |-> f[p]] = [p \in Nat |-> Turn(data, f, p)]
    BY <1>5
  <2> QED
    BY <1>4, <2>1
<1> QED
  BY <1>6 DEF IsReader

\* ff_mread_str, one turn at a time.
LEMMA ReadUnfolds ==
  ASSUME NEW data, Len(data) \in Nat
  PROVE  \E read : /\ IsReader(data, read)
                   /\ \A p \in Nat : ReadStr(data, p) = read[p]
<1> DEFINE read == CHOOSE f : f = [p \in Nat |-> Turn(data, f, p)]
<1>1. IsReader(data, read)
  BY ReaderExists DEF IsReader
<1>2. \A p \in Nat : ReadStr(data, p) = read[p]
  BY DEF ReadStr, Turn
<1> HIDE DEF read
<1> QED
  BY <1>1, <1>2

LEMMA Smallest ==
  ASSUME NEW S \in SUBSET Nat, S # {}
  PROVE  Min(S) \in S /\ \A x \in S : Min(S) <= x
<1> DEFINE R == {p \in Nat \X Nat : p[1] < p[2]}
<1>1. IsWellFoundedOn(R, Nat)
  BY NatOrdered
<1> HIDE DEF R
<1>2. PICK m \in S : \A x \in S : <<x, m>> \notin R
  BY <1>1, WFMin
<1>3. ASSUME NEW x \in S PROVE m <= x
  <2>1. x \in Nat /\ m \in Nat /\ <<x, m>> \notin R
    BY <1>2
  <2> QED
    BY <2>1 DEF R
<1>4. \E x \in S : \A y \in S : x =< y
  BY <1>3
<1> QED
  BY <1>4, Zenon DEF Min

LEMMA EndsInPiece ==
  ASSUME NEW data, NEW p, Ends(data, p) # {}
  PROVE  /\ Min(Ends(data, p)) \in 0 .. (CACHE_SIZE - 1)
         /\ Min(Ends(data, p)) \in Ends(data, p)
         /\ \A i \in Ends(data, p) : Min(Ends(data, p)) <= i
<1>1. Ends(data, p) \in SUBSET Nat /\ Ends(data, p) \subseteq 0 .. (CACHE_SIZE - 1)
  BY PostLinesAssumption DEF Ends
<1> QED
  BY <1>1, Smallest

\* A call of ff_mread_str goes on in the data.
LEMMA ReadGoesOn ==
  ASSUME NEW Letters, NEW data \in Seq(Letters), NEW p \in Nat
  PROVE  /\ ReadStr(data, p) \in [text: Seq(Letters), next: Nat]
         /\ ReadStr(data, p).next >= p
         /\ p < Len(data) => ReadStr(data, p).next > p
<1> DEFINE Fine(q) == /\ ReadStr(data, q) \in [text: Seq(Letters), next: Nat]
                      /\ ReadStr(data, q).next >= q
                      /\ q < Len(data) => ReadStr(data, q).next > q
           D == {n \in Nat : \A q \in Nat : q + n >= Len(data) => Fine(q)}
<1>1. Len(data) \in Nat
  OBVIOUS
<1>2. PICK read : IsReader(data, read) /\ \A q \in Nat : ReadStr(data, q) = read[q]
  BY <1>1, ReadUnfolds
<1>3. \A q \in Nat : ReadStr(data, q) = Turn(data, read, q)
  BY <1>2 DEF IsReader
<1>4. ASSUME NEW q \in Nat, q >= Len(data) PROVE Fine(q)
  <2>1. ReadStr(data, q) = [text |-> <<>>, next |-> q]
    BY <1>1, <1>3, <1>4 DEF Turn
  <2> QED
    BY <1>4, <2>1
<1>5. ASSUME NEW q \in Nat, q < Len(data), Fine(q + CACHE_SIZE) PROVE Fine(q)
  <2>1. CASE Ends(data, q) = {}
    <3> DEFINE more  == ReadStr(data, q + CACHE_SIZE)
               piece == SubSeq(data, q + 1, q + CACHE_SIZE)
    <3>1. q + CACHE_SIZE \in Nat /\ q + CACHE_SIZE > q
      BY PostLinesAssumption
    <3>2. ReadStr(data, q) = [more EXCEPT !.text = piece \o @]
      <4>1. more = read[q + CACHE_SIZE]
        BY <1>2, <3>1
      <4>2. Turn(data, read, q) = [read[q + CACHE_SIZE] EXCEPT !.text = piece \o @]
        BY <1>1, <1>5, <2>1 DEF Turn
      <4> HIDE DEF more, piece
      <4> QED
        BY <1>3, <4>1, <4>2
    <3>3. q + CACHE_SIZE <= Len(data)
      <4>1. CACHE_SIZE - 1 \in 0 .. (CACHE_SIZE - 1) /\ CACHE_SIZE - 1 \notin Ends(data, q)
        BY <2>1, PostLinesAssumption
      <4>2. ~(q + (CACHE_SIZE - 1) >= Len(data))
        BY <4>1 DEF Ends
      <4> QED
        BY <1>1, <3>1, <4>2, PostLinesAssumption
    <3>4. piece \in Seq(Letters)
      BY <3>1, <3>3, SubSeqProperties
    <3> HIDE DEF piece
    <3>5. piece \o more.text \in Seq(Letters)
      BY <1>5, <3>4
    <3>6. more \in [text: Seq(Letters), next: Nat] /\ more.next >= q + CACHE_SIZE
      BY <1>5
    <3> HIDE DEF more
    <3>7. ReadStr(data, q) = [text |-> piece \o more.text, next |-> more.next]
      BY <3>2, <3>6
    <3> QED
      BY <3>1, <3>5, <3>6, <3>7
  <2>2. CASE Ends(data, q) # {}
    <3> DEFINE i == Min(Ends(data, q))
    <3>1. i \in 0 .. (CACHE_SIZE - 1) /\ i \in Ends(data, q)
          /\ \A j \in Ends(data, q) : i <= j
      BY <2>2, EndsInPiece
    <3>2. ReadStr(data, q) = [text |-> SubSeq(data, q + 1, q + i),
                              next |-> q + i + EolLength(data, q, i)]
      BY <1>1, <1>3, <1>5, <2>2 DEF Turn
    <3> HIDE DEF i
    <3>3. i \in Nat /\ EolLength(data, q, i) \in {1, 2}
      BY <3>1, PostLinesAssumption DEF EolLength
    <3>4. q + i <= Len(data)
      <4>1. CASE i = 0
        BY <1>1, <1>5, <4>1
      <4>2. CASE i # 0
        <5>1. i - 1 \in 0 .. (CACHE_SIZE - 1) /\ i - 1 \notin Ends(data, q)
          BY <3>1, <4>2, PostLinesAssumption
        <5>2. ~(q + (i - 1) >= Len(data))
          BY <5>1 DEF Ends
        <5> QED
          BY <1>1, <3>3, <5>2
      <4> QED
        BY <4>1, <4>2
    <3>5. SubSeq(data, q + 1, q + i) \in Seq(Letters)
      BY <3>3, <3>4, SubSeqProperties
    <3> QED
      BY <3>2, <3>3, <3>5
  <2> QED
    BY <2>1, <2>2
<1>6. 0 \in D
  BY <1>4
<1>7. ASSUME NEW n \in Nat, n \in D PROVE n + 1 \in D
  <2> SUFFICES ASSUME NEW q \in Nat, q + (n + 1) >= Len(data) PROVE Fine(q)
    OBVIOUS
  <2>1. q + CACHE_SIZE \in Nat /\ q + CACHE_SIZE + n >= Len(data)
    BY PostLinesAssumption
  <2>2. Fine(q + CACHE_SIZE)
    BY <1>7, <2>1
  <2> HIDE DEF Fine
  <2> QED
    BY <1>1, <1>4, <1>5, <2>2
<1> HIDE DEF D
<1>8. Len(data) \in D
  BY <1>1, <1>6, <1>7, Induction
<1>9. Fine(p)
  <2> HIDE DEF Fine
  <2> QED
    BY <1>1, <1>8 DEF D
<1> QED
  BY <1>9

LEMMA AddText ==
  ASSUME NEW T, NEW N, NEW r \in [text: T, next: N], NEW piece
  PROVE  [r EXCEPT !.text = piece \o @] = [text |-> piece \o r.text, next |-> r.next]
<1> DEFINE x == piece \o r.text
<1> HIDE DEF x
<1>1. [r EXCEPT !.text = x] = [text |-> x, next |-> r.next]
  OBVIOUS
<1> QED
  BY <1>1 DEF x

LEMMA SmallRemainder ==
  ASSUME NEW c \in Int, NEW n \in 0 .. (c - 1)
  PROVE  n % c = n
OBVIOUS

LEMMA Division ==
  ASSUME NEW n \in Int, NEW c \in Int, c > 0
  PROVE  n % c = n - c * (n \div c)
BY Z3

LEMMA RemainderUnique ==
  ASSUME NEW n \in Int, NEW c \in Int, c > 0, NEW q \in Int, NEW r \in 0 .. (c - 1),
         n = c * q + r
  PROVE  n % c = r
OBVIOUS

LEMMA SameRemainder ==
  ASSUME NEW c \in Int, c > 0, NEW n \in Int
  PROVE  (n + c) % c = n % c
<1>1. n % c = n - c * (n \div c)
  BY Division
<1>2. n \div c \in Int
  OBVIOUS
<1>3. n % c \in 0 .. (c - 1)
  OBVIOUS
<1>4. PICK q \in Int, r \in 0 .. (c - 1) : n = c * q + r /\ n % c = r
  <2> DEFINE r == n % c
             q == n \div c
  <2>1. r = n - c * q /\ q \in Int /\ r \in 0 .. (c - 1) /\ n % c = r
    BY <1>1, <1>2, <1>3
  <2> HIDE DEF r, q
  <2> QED
    BY <2>1
<1>5. n + c = c * (q + 1) + r
  BY <1>4
<1> QED
  BY <1>4, <1>5, RemainderUnique

\* A line of n characters at p, with its end of line.
LineAt(data, p, n) ==
  /\ p + n + 2 <= Len(data)
  /\ \A k \in 1 .. n : ~IsEol(data[p + k])
  /\ data[p + n + 1] = CR /\ data[p + n + 2] = LF

\* ff_mread_str returns the line at the cursor and leaves the cursor behind its
\* end of line, however many reads of the flash the line takes, unless the line
\* ends on the last character of a read.
LEMMA LineIsRead ==
  ASSUME NEW Letters, NEW data \in Seq(Letters), NEW p \in Nat, NEW n \in Nat,
         LineAt(data, p, n), n % CACHE_SIZE # CACHE_SIZE - 1
  PROVE  ReadStr(data, p) = [text |-> SubSeq(data, p + 1, p + n), next |-> p + n + 2]
<1> DEFINE Right(q, m) ==
             LineAt(data, q, m) /\ m % CACHE_SIZE # CACHE_SIZE - 1
               => ReadStr(data, q) = [text |-> SubSeq(data, q + 1, q + m), next |-> q + m + 2]
           D == {l \in Nat : \A m \in 0 .. l : \A q \in Nat : Right(q, m)}
<1>1. Len(data) \in Nat /\ CACHE_SIZE \in Nat /\ CACHE_SIZE >= 1
  BY PostLinesAssumption
<1>2. PICK read : IsReader(data, read) /\ \A q \in Nat : ReadStr(data, q) = read[q]
  BY <1>1, ReadUnfolds
<1>3. \A q \in Nat : ReadStr(data, q) = Turn(data, read, q)
  BY <1>2 DEF IsReader
<1>4. ASSUME NEW m \in Nat, NEW q \in Nat, LineAt(data, q, m)
      PROVE  /\ q < Len(data)
             /\ \A i \in 0 .. (CACHE_SIZE - 1) : i \in Ends(data, q) => i >= m
             /\ m < CACHE_SIZE => m \in Ends(data, q)
  <2>1. q < Len(data) /\ q + m + 2 <= Len(data)
    BY <1>1, <1>4 DEF LineAt
  <2>2. ASSUME NEW i \in 0 .. (CACHE_SIZE - 1), i < m PROVE i \notin Ends(data, q)
    <3>1. i \in Nat /\ q + i < Len(data) /\ i + 1 \in 1 .. m
      BY <1>1, <2>1, <2>2
    <3>2. \A k \in 1 .. m : ~IsEol(data[q + k])
      BY <1>4 DEF LineAt
    <3>3. ~IsEol(data[q + (i + 1)]) /\ q + (i + 1) = q + i + 1
      BY <3>1, <3>2
    <3>4. ~IsEol(At(data, q + i))
      BY <3>1, <3>3 DEF At
    <3> QED
      BY <1>1, <3>1, <3>4 DEF Ends
  <2>3. m < CACHE_SIZE => m \in Ends(data, q)
    <3>1. At(data, q + m) = CR
      BY <1>1, <1>4, <2>1 DEF At, LineAt
    <3> QED
      BY <1>1, <3>1 DEF Ends, IsEol
  <2> QED
    BY <1>1, <2>1, <2>2, <2>3
<1>5. ASSUME NEW m \in Nat, NEW q \in Nat, m < CACHE_SIZE PROVE Right(q, m)
  <2> SUFFICES ASSUME LineAt(data, q, m), m % CACHE_SIZE # CACHE_SIZE - 1
               PROVE  ReadStr(data, q) = [text |-> SubSeq(data, q + 1, q + m), next |-> q + m + 2]
    OBVIOUS
  <2>1. m + 1 < CACHE_SIZE
    <3>1. m % CACHE_SIZE = m
      <4>1. CACHE_SIZE \in Int /\ m \in 0 .. (CACHE_SIZE - 1)
        BY <1>1, <1>5
      <4> QED
        BY <4>1, SmallRemainder
    <3> QED
      BY <1>1, <1>5, <3>1
  <2>2. m \in Ends(data, q) /\ q < Len(data)
    BY <1>4, <1>5
  <2>3. Min(Ends(data, q)) = m
    <3>1. Ends(data, q) # {}
      BY <2>2
    <3> DEFINE i == Min(Ends(data, q))
    <3>2. i \in 0 .. (CACHE_SIZE - 1) /\ i \in Ends(data, q) /\ i <= m
      BY <2>2, <3>1, EndsInPiece
    <3> HIDE DEF i
    <3>3. i >= m
      BY <1>4, <3>2
    <3>4. i = m
      BY <1>1, <3>2, <3>3
    <3> QED
      BY <3>4 DEF i
  <2>4. EolLength(data, q, m) = 2
    <3>1. At(data, q + m + 1) = LF
      BY <1>1 DEF At, LineAt
    <3> QED
      BY <2>1, <3>1 DEF EolLength, IsEol
  <2>5. Turn(data, read, q) = [text |-> SubSeq(data, q + 1, q + m), next |-> q + m + 2]
    BY <1>1, <2>2, <2>3, <2>4 DEF Turn
  <2> QED
    BY <1>3, <2>5
<1>6. ASSUME NEW m \in Nat, NEW q \in Nat, m >= CACHE_SIZE,
             Right(q + CACHE_SIZE, m - CACHE_SIZE)
      PROVE  Right(q, m)
  <2> SUFFICES ASSUME LineAt(data, q, m), m % CACHE_SIZE # CACHE_SIZE - 1
               PROVE  ReadStr(data, q) = [text |-> SubSeq(data, q + 1, q + m), next |-> q + m + 2]
    OBVIOUS
  <2> DEFINE r == q + CACHE_SIZE
             l == m - CACHE_SIZE
             piece == SubSeq(data, q + 1, r)
             tail  == SubSeq(data, r + 1, r + l)
  <2>1. r \in Nat /\ l \in Nat /\ r + l = q + m
    BY <1>1, <1>6
  <2>2. LineAt(data, r, l)
    <3>1. ASSUME NEW k \in 1 .. l PROVE ~IsEol(data[r + k])
      <4>1. k + CACHE_SIZE \in 1 .. m /\ q + (k + CACHE_SIZE) = r + k
        BY <1>1, <2>1
      <4> QED
        BY <4>1 DEF LineAt
    <3> QED
      BY <2>1, <3>1 DEF LineAt
  <2>3. l % CACHE_SIZE = m % CACHE_SIZE
    <3>1. l + CACHE_SIZE = m
      BY <1>1, <2>1
    <3> HIDE DEF l
    <3>2. l \in Int /\ CACHE_SIZE \in Int /\ CACHE_SIZE > 0
      BY <1>1, <2>1
    <3>3. (l + CACHE_SIZE) % CACHE_SIZE = l % CACHE_SIZE
      BY <3>2, SameRemainder
    <3> QED
      BY <3>1, <3>3
  <2>4. ReadStr(data, r) = [text |-> tail, next |-> r + l + 2]
    BY <1>6, <2>2, <2>3
  <2>5. Ends(data, q) = {}
    <3>1. Ends(data, q) \subseteq 0 .. (CACHE_SIZE - 1)
      BY DEF Ends
    <3>2. \A i \in Ends(data, q) : i >= m
      BY <1>4, <3>1
    <3> QED
      BY <1>1, <1>6, <3>1, <3>2
  <2>6. ReadStr(data, q) = [text |-> piece \o tail, next |-> q + m + 2]
    <3>1. read[r] = [text |-> tail, next |-> r + l + 2]
      BY <1>2, <2>1, <2>4
    <3>2. q < Len(data)
      BY <1>4
    <3>3. Turn(data, read, q) = [read[r] EXCEPT !.text = piece \o @]
      BY <1>1, <2>5, <3>2 DEF Turn
    <3> HIDE DEF piece, tail, r, l
    <3>4. [read[r] EXCEPT !.text = piece \o @] = [text |-> piece \o tail, next |-> r + l + 2]
      <4> DEFINE more == read[r]
      <4>1. more = [text |-> tail, next |-> r + l + 2]
        BY <3>1
      <4> HIDE DEF more
      <4>2. [more EXCEPT !.text = piece \o @] = [text |-> piece \o tail, next |-> r + l + 2]
        <5>1. more \in [text: {tail}, next: {r + l + 2}] /\ more.text = tail
              /\ more.next = r + l + 2
          BY <4>1
        <5> QED
          BY <5>1, AddText
      <4> QED
        BY <4>2 DEF more
    <3> QED
      BY <1>3, <2>1, <3>3, <3>4
  <2>7. piece \o tail = SubSeq(data, q + 1, q + m)
    <3>1. q + m <= Len(data) /\ m \in Nat /\ r <= q + m /\ r >= q
      BY <1>1, <1>6, <2>1 DEF LineAt
    <3> QED
      BY <1>1, <2>1, <3>1
  <2> QED
    BY <2>6, <2>7
<1> HIDE DEF Right
<1>7. 0 \in D
  BY <1>1, <1>5
<1>8. ASSUME NEW l \in Nat, l \in D PROVE l + 1 \in D
  <2> SUFFICES ASSUME NEW m \in 0 .. (l + 1), NEW q \in Nat PROVE Right(q, m)
    OBVIOUS
  <2>1. CASE m < CACHE_SIZE
    BY <1>5, <2>1
  <2>2. CASE m >= CACHE_SIZE
    <3>1. q + CACHE_SIZE \in Nat /\ m - CACHE_SIZE \in 0 .. l
      BY <1>1, <2>2
    <3>2. Right(q + CACHE_SIZE, m - CACHE_SIZE)
      BY <1>8, <3>1
    <3> QED
      BY <1>6, <2>2, <3>2
  <2> QED
    BY <1>1, <2>1, <2>2
<1> HIDE DEF D
<1>9. n \in D
  BY <1>7, <1>8, Induction
<1>10. Right(p, n)
  BY <1>9 DEF D
<1> QED
  BY <1>10 DEF Right
-----------------------------------------------------------------------------
(* All lines. *)

\* One call of ff_mread_str at p, when f are the lines of the calls after it.
Call(data, f, p) ==
  IF AtEnd(data, p) THEN <<>>
  ELSE <<ReadStr(data, p).text>> \o f[ReadStr(data, p).next]

IsWalk(data, f) == f = [p \in Nat |-> Call(data, f, p)]

\* The calls until NULL come to an end.
LEMMA WalkExists ==
  ASSUME NEW Letters, NEW data \in Seq(Letters)
  PROVE  \E f : IsWalk(data, f)
<1> DEFINE Good(f, n) == /\ f = [p \in Nat |-> f[p]]
                         /\ \A p \in Nat : p + n >= Len(data) => f[p] = Call(data, f, p)
           D == {n \in Nat : \E f : Good(f, n)}
<1>1. Len(data) \in Nat
  OBVIOUS
<1>2. 0 \in D
  <2> DEFINE f == [p \in Nat |-> <<>>]
  <2>1. \A p \in Nat : p + 0 >= Len(data) => f[p] = Call(data, f, p)
    BY DEF Call, AtEnd
  <2>2. f = [p \in Nat |-> f[p]]
    OBVIOUS
  <2> HIDE DEF f
  <2>3. Good(f, 0)
    BY <2>1, <2>2
  <2> QED
    BY <2>3
<1>3. ASSUME NEW n \in Nat, n \in D PROVE n + 1 \in D
  <2>1. PICK f : Good(f, n)
    BY <1>3
  <2> DEFINE g == [p \in Nat |-> IF p + n >= Len(data) THEN f[p] ELSE Call(data, f, p)]
  <2>2. \A p \in Nat : g[p] = IF p + n >= Len(data) THEN f[p] ELSE Call(data, f, p)
    OBVIOUS
  <2>3. g = [p \in Nat |-> g[p]]
    OBVIOUS
  <2> HIDE DEF g
  <2>4. ASSUME NEW p \in Nat, p + (n + 1) >= Len(data)
        PROVE  g[p] = Call(data, g, p)
    <3>1. g[p] = Call(data, f, p)
      BY <2>1, <2>2
    <3>2. CASE AtEnd(data, p)
      BY <3>1, <3>2 DEF Call
    <3>3. CASE ~AtEnd(data, p)
      <4> DEFINE q == ReadStr(data, p).next
      <4>1. q \in Nat /\ q > p
        <5>1. p < Len(data)
          BY <1>1, <3>3 DEF AtEnd
        <5> QED
          BY <5>1, ReadGoesOn
      <4>2. q + n >= Len(data)
        BY <1>1, <2>4, <4>1
      <4>3. g[q] = f[q]
        BY <2>2, <4>1, <4>2
      <4> QED
        BY <3>1, <4>3 DEF Call
    <3> QED
      BY <3>2, <3>3
  <2>5. Good(g, n + 1)
    BY <2>3, <2>4
  <2> QED
    BY <2>5
<1> HIDE DEF D
<1>4. Len(data) \in D
  BY <1>1, <1>2, <1>3, Induction
<1>5. PICK f : Good(f, Len(data))
  BY <1>4 DEF D
<1>6. \A p \in Nat : f[p] = Call(data, f, p)
  BY <1>1, <1>5
<1>7. f = [p \in Nat |-> Call(data, f, p)]
  <2>1. [p \in Nat |-> f[p]] = [p \in Nat |-> Call(data, f, p)]
    BY <1>6
  <2> QED
    BY <1>5, <2>1
<1> QED
  BY <1>7 DEF IsWalk

LEMMA LinesUnfold ==
  ASSUME NEW Letters, NEW data \in Seq(Letters)
  PROVE  \E f : IsWalk(data, f) /\ AllLines(data) = f[0]
<1> DEFINE f == CHOOSE g : g = [p \in Nat |-> Call(data, g, p)]
<1>1. IsWalk(data, f)
  BY WalkExists DEF IsWalk
<1>2. AllLines(data) = f[0]
  BY DEF AllLines, Call
<1> HIDE DEF f
<1> QED
  BY <1>1, <1>2

\* Where the sequences of ss lie in the sequence they are joined to.
Joins(ss, f, i) == IF i = 1 THEN ss[i] ELSE f[i - 1] \o ss[i]

IsFlat(ss, f) == f = [i \in 1 .. Len(ss) |-> Joins(ss, f, i)]

LEMMA FlatExists ==
  ASSUME NEW X, NEW ss \in Seq(Seq(X))
  PROVE  \E f : IsFlat(ss, f)
<1> DEFINE Good(f, n) == /\ f = [i \in 1 .. Len(ss) |-> f[i]]
                         /\ \A i \in 1 .. Len(ss) : i <= n => f[i] = Joins(ss, f, i)
           D == {n \in Nat : \E f : Good(f, n)}
<1>1. Len(ss) \in Nat
  OBVIOUS
<1>2. 0 \in D
  <2> DEFINE f == [i \in 1 .. Len(ss) |-> <<>>]
  <2>1. f = [i \in 1 .. Len(ss) |-> f[i]]
    OBVIOUS
  <2> HIDE DEF f
  <2>2. Good(f, 0)
    BY <1>1, <2>1
  <2> HIDE DEF Good
  <2> QED
    BY <2>2
<1>3. ASSUME NEW n \in Nat, n \in D PROVE n + 1 \in D
  <2>1. PICK f : Good(f, n)
    BY <1>3
  <2> DEFINE g == [i \in 1 .. Len(ss) |-> IF i <= n THEN f[i] ELSE Joins(ss, f, i)]
  <2>2. \A i \in 1 .. Len(ss) : g[i] = IF i <= n THEN f[i] ELSE Joins(ss, f, i)
    OBVIOUS
  <2>3. g = [i \in 1 .. Len(ss) |-> g[i]]
    OBVIOUS
  <2> HIDE DEF g
  <2>4. ASSUME NEW i \in 1 .. Len(ss), i <= n + 1
        PROVE  g[i] = Joins(ss, g, i)
    <3>1. g[i] = Joins(ss, f, i)
      BY <2>1, <2>2
    <3>2. CASE i = 1
      BY <3>1, <3>2 DEF Joins
    <3>3. CASE i # 1
      <4>1. i - 1 \in 1 .. Len(ss) /\ i - 1 <= n
        BY <1>1, <2>4, <3>3
      <4>2. g[i - 1] = f[i - 1]
        BY <2>2, <4>1
      <4> QED
        BY <3>1, <3>3, <4>2 DEF Joins
    <3> QED
      BY <3>2, <3>3
  <2>5. Good(g, n + 1)
    BY <2>3, <2>4
  <2> HIDE DEF Good
  <2> QED
    BY <2>5
<1> HIDE DEF D
<1>4. Len(ss) \in D
  BY <1>1, <1>2, <1>3, Induction
<1>5. PICK f : Good(f, Len(ss))
  BY <1>4 DEF D
<1>6. \A i \in 1 .. Len(ss) : f[i] = Joins(ss, f, i)
  BY <1>1, <1>5
<1>7. f = [i \in 1 .. Len(ss) |-> Joins(ss, f, i)]
  <2>1. [i \in 1 .. Len(ss) |-> f[i]] = [i \in 1 .. Len(ss) |-> Joins(ss, f, i)]
    BY <1>6
  <2> QED
    BY <1>5, <2>1
<1> QED
  BY <1>7 DEF IsFlat

LEMMA FlattenUnfolds ==
  ASSUME NEW X, NEW ss \in Seq(Seq(X)), ss # <<>>
  PROVE  \E f : IsFlat(ss, f) /\ FlattenSeq(ss) = f[Len(ss)]
<1> DEFINE f == CHOOSE g : g = [i \in 1 .. Len(ss) |->
                                  IF i = 1 THEN ss[i] ELSE g[i - 1] \o ss[i]]
<1>1. IsFlat(ss, f)
  BY FlatExists DEF IsFlat, Joins
<1>2. Len(ss) # 0
  OBVIOUS
<1>3. FlattenSeq(ss) = f[Len(ss)]
  BY <1>2 DEF FlattenSeq, Joins
<1> HIDE DEF f
<1> QED
  BY <1>1, <1>3

LEMMA ConcatCells ==
  ASSUME NEW X, NEW s \in Seq(X), NEW t \in Seq(X), NEW u, u = s \o t
  PROVE  /\ u \in Seq(X) /\ Len(s) \in Nat /\ Len(t) \in Nat
         /\ Len(u) = Len(s) + Len(t) /\ Len(s) <= Len(u)
         /\ \A k \in 1 .. Len(s) : u[k] = s[k]
         /\ \A k \in 1 .. Len(t) : Len(s) + k \in 1 .. Len(u) /\ u[Len(s) + k] = t[k]
OBVIOUS

\* at[i] is where the sequence after the i-th begins.
IsCut(ss, all, at) ==
  /\ at \in [0 .. Len(ss) -> Nat] /\ at[0] = 0 /\ at[Len(ss)] = Len(all)
  /\ \A i \in 1 .. Len(ss) :
       /\ at[i] = at[i - 1] + Len(ss[i]) /\ at[i] <= Len(all)
       /\ \A k \in 1 .. Len(ss[i]) : all[at[i - 1] + k] = ss[i][k]

LEMMA FlattenCut ==
  ASSUME NEW X, NEW ss \in Seq(Seq(X))
  PROVE  FlattenSeq(ss) \in Seq(X) /\ \E at : IsCut(ss, FlattenSeq(ss), at)
<1>1. Len(ss) \in Nat /\ \A i \in 1 .. Len(ss) : ss[i] \in Seq(X)
  OBVIOUS
<1>2. CASE ss = <<>>
  <2>1. Len(ss) = 0 /\ FlattenSeq(ss) = ss
    BY <1>2 DEF FlattenSeq
  <2>2. IsCut(ss, ss, [i \in 0 .. 0 |-> 0])
    BY <2>1 DEF IsCut
  <2> QED
    BY <1>2, <2>1, <2>2
<1>3. CASE ss # <<>>
  <2>1. PICK f : IsFlat(ss, f) /\ FlattenSeq(ss) = f[Len(ss)]
    BY <1>3, FlattenUnfolds
  <2>2. \A i \in 1 .. Len(ss) : f[i] = Joins(ss, f, i)
    BY <2>1 DEF IsFlat
  <2>3. Len(ss) >= 1 /\ 1 \in 1 .. Len(ss)
    BY <1>1, <1>3
  <2> DEFINE D == {n \in Nat : n + 1 <= Len(ss) =>
                     \A i \in 1 .. (n + 1) :
                          /\ f[i] \in Seq(X)
                          /\ Len(f[i]) <= Len(f[n + 1])
                          /\ \A k \in 1 .. Len(f[i]) : f[n + 1][k] = f[i][k]}
  <2>4. 0 \in D
    <3>1. f[1] = ss[1] /\ ss[1] \in Seq(X)
      BY <1>1, <2>2, <2>3 DEF Joins
    <3> QED
      BY <3>1
  <2>5. ASSUME NEW n \in Nat, n \in D PROVE n + 1 \in D
    <3> SUFFICES ASSUME n + 2 <= Len(ss)
                 PROVE  \A i \in 1 .. (n + 2) :
                             /\ f[i] \in Seq(X)
                             /\ Len(f[i]) <= Len(f[n + 2])
                             /\ \A k \in 1 .. Len(f[i]) : f[n + 2][k] = f[i][k]
      BY <1>1
    <3>1. n + 1 \in 1 .. Len(ss) /\ n + 2 \in 1 .. Len(ss) /\ n + 2 # 1 /\ (n + 2) - 1 = n + 1
      BY <1>1
    <3>2. \A i \in 1 .. (n + 1) :
               /\ f[i] \in Seq(X)
               /\ Len(f[i]) <= Len(f[n + 1])
               /\ \A k \in 1 .. Len(f[i]) : f[n + 1][k] = f[i][k]
      BY <1>1, <2>5
    <3>3. f[n + 2] = f[n + 1] \o ss[n + 2] /\ ss[n + 2] \in Seq(X)
      BY <1>1, <2>2, <3>1 DEF Joins
    <3>4. /\ f[n + 2] \in Seq(X) /\ Len(f[n + 1]) \in Nat /\ Len(f[n + 1]) <= Len(f[n + 2])
          /\ \A k \in 1 .. Len(f[n + 1]) : f[n + 2][k] = f[n + 1][k]
      <4>1. f[n + 1] \in Seq(X)
        BY <3>1, <3>2
      <4> DEFINE a == f[n + 1]
                 b == ss[n + 2]
                 u == f[n + 2]
      <4>2. a \in Seq(X) /\ b \in Seq(X) /\ u = a \o b
        BY <3>3, <4>1
      <4> HIDE DEF a, b, u
      <4>3. /\ u \in Seq(X) /\ Len(a) \in Nat /\ Len(a) <= Len(u)
            /\ \A k \in 1 .. Len(a) : u[k] = a[k]
        BY <4>2, ConcatCells
      <4> QED
        BY <4>3 DEF a, u
    <3>5. ASSUME NEW i \in 1 .. (n + 2)
          PROVE  /\ f[i] \in Seq(X) /\ Len(f[i]) <= Len(f[n + 2])
                 /\ \A k \in 1 .. Len(f[i]) : f[n + 2][k] = f[i][k]
      <4>1. CASE i = n + 2
        BY <3>4, <4>1
      <4>2. CASE i # n + 2
        <5>1. i \in 1 .. (n + 1)
          BY <4>2
        <5>2. /\ f[i] \in Seq(X) /\ Len(f[i]) <= Len(f[n + 1])
              /\ \A k \in 1 .. Len(f[i]) : f[n + 1][k] = f[i][k]
          BY <3>2, <5>1
        <5>3. Len(f[i]) \in Nat /\ Len(f[n + 2]) \in Nat
          BY <3>4, <5>2
        <5>4. \A k \in 1 .. Len(f[i]) : k \in 1 .. Len(f[n + 1])
          BY <3>4, <5>2, <5>3
        <5> QED
          BY <3>4, <5>2, <5>3, <5>4
      <4> QED
        BY <4>1, <4>2
    <3> QED
      BY <3>5
  <2> HIDE DEF D
  <2>6. Nat \subseteq D
    BY <2>4, <2>5, Induction
  <2>7. ASSUME NEW i \in 1 .. Len(ss)
        PROVE  /\ f[i] \in Seq(X) /\ Len(f[i]) <= Len(f[Len(ss)])
               /\ \A k \in 1 .. Len(f[i]) : f[Len(ss)][k] = f[i][k]
    <3>1. i - 1 \in D /\ (i - 1) + 1 = i /\ i <= Len(ss)
      BY <1>1, <2>6
    <3>2. Len(ss) - 1 \in D /\ (Len(ss) - 1) + 1 = Len(ss)
      BY <1>1, <2>3, <2>6
    <3>3. f[i] \in Seq(X)
      BY <3>1 DEF D
    <3>4. \A j \in 1 .. Len(ss) :
            /\ Len(f[j]) <= Len(f[Len(ss)])
            /\ \A k \in 1 .. Len(f[j]) : f[Len(ss)][k] = f[j][k]
      BY <3>2 DEF D
    <3> QED
      BY <3>3, <3>4
  <2> DEFINE all == f[Len(ss)]
             at  == [i \in 0 .. Len(ss) |-> IF i = 0 THEN 0 ELSE Len(f[i])]
  <2>8. all \in Seq(X)
    BY <2>3, <2>7
  <2>9. at \in [0 .. Len(ss) -> Nat] /\ at[0] = 0 /\ at[Len(ss)] = Len(all)
    <3>1. \A i \in 1 .. Len(ss) : Len(f[i]) \in Nat
      BY <2>7
    <3> QED
      BY <1>1, <2>3, <3>1
  <2>10. ASSUME NEW i \in 1 .. Len(ss)
         PROVE  /\ at[i] = at[i - 1] + Len(ss[i]) /\ at[i] <= Len(all)
                /\ \A k \in 1 .. Len(ss[i]) : all[at[i - 1] + k] = ss[i][k]
    <3>1. at[i] = Len(f[i]) /\ f[i] \in Seq(X) /\ ss[i] \in Seq(X)
      BY <1>1, <2>7
    <3>2. CASE i = 1
      <4>1. f[i] = ss[i] /\ at[i - 1] = 0
        BY <1>1, <2>2, <3>2 DEF Joins
      <4>2. Len(ss[i]) \in Nat /\ at[i] = at[i - 1] + Len(ss[i])
        BY <3>1, <4>1
      <4>3. Len(f[i]) <= Len(all) /\ \A k \in 1 .. Len(f[i]) : all[k] = f[i][k]
        BY <2>7
      <4> HIDE DEF at, all
      <4>4. \A k \in 1 .. Len(ss[i]) : at[i - 1] + k = k
        BY <4>1
      <4> QED
        BY <3>1, <4>1, <4>2, <4>3, <4>4
    <3>3. CASE i # 1
      <4>1. i - 1 \in 1 .. Len(ss)
        BY <1>1, <3>3
      <4>2. f[i] = f[i - 1] \o ss[i]
        BY <2>2, <3>3 DEF Joins
      <4>3. at[i - 1] = Len(f[i - 1]) /\ f[i - 1] \in Seq(X)
        BY <1>1, <2>7, <4>1
      <4>4. Len(f[i]) = Len(f[i - 1]) + Len(ss[i])
            /\ \A k \in 1 .. Len(ss[i]) : /\ Len(f[i - 1]) + k \in 1 .. Len(f[i])
                                          /\ f[i][Len(f[i - 1]) + k] = ss[i][k]
        <5> DEFINE a == f[i - 1]
                   b == ss[i]
                   u == f[i]
        <5>1. a \in Seq(X) /\ b \in Seq(X) /\ u = a \o b
          BY <3>1, <4>2, <4>3
        <5> HIDE DEF a, b, u
        <5>2. /\ Len(u) = Len(a) + Len(b)
              /\ \A k \in 1 .. Len(b) : Len(a) + k \in 1 .. Len(u) /\ u[Len(a) + k] = b[k]
          BY <5>1, ConcatCells
        <5> QED
          BY <5>2 DEF a, b, u
      <4> HIDE DEF at
      <4> QED
        BY <2>7, <3>1, <4>3, <4>4
    <3> QED
      BY <3>2, <3>3
  <2>11. IsCut(ss, all, at)
    <3> HIDE DEF all, at
    <3> QED
      BY <2>9, <2>10 DEF IsCut
  <2> HIDE DEF at
  <2> QED
    BY <2>1, <2>8, <2>11
<1> QED
  BY <1>2, <1>3

\* Lines joined to data lie in it, one behind the other.
LEMMA JoinedLines ==
  ASSUME NEW Letters, CR \notin Letters, LF \notin Letters, NEW texts \in Seq(Seq(Letters))
  PROVE  /\ Joined(texts) \in Seq(Letters \cup {CR, LF})
         /\ \E at \in [0 .. Len(texts) -> Nat] :
              /\ at[0] = 0 /\ at[Len(texts)] = Len(Joined(texts))
              /\ \A i \in 1 .. Len(texts) :
                   /\ at[i] = at[i - 1] + Len(texts[i]) + 2
                   /\ LineAt(Joined(texts), at[i - 1], Len(texts[i]))
                   /\ SubSeq(Joined(texts), at[i - 1] + 1, at[i - 1] + Len(texts[i])) = texts[i]
<1> DEFINE X    == Letters \cup {CR, LF}
           ss   == [k \in 1 .. Len(texts) |-> texts[k] \o CRLF]
           data == FlattenSeq(ss)
<1>1. Len(texts) \in Nat /\ \A i \in 1 .. Len(texts) : texts[i] \in Seq(Letters)
  OBVIOUS
<1>2. ASSUME NEW i \in 1 .. Len(texts)
      PROVE  /\ texts[i] \in Seq(X) /\ Len(texts[i]) \in Nat
             /\ \A k \in 1 .. Len(texts[i]) : ~IsEol(texts[i][k])
  <2>1. texts[i] \in Seq(Letters)
    BY <1>1
  <2> QED
    BY <2>1 DEF IsEol
<1>3. CRLF \in Seq(X) /\ Len(CRLF) = 2 /\ CRLF[1] = CR /\ CRLF[2] = LF
  BY DEF CRLF
<1> HIDE DEF X
<1>4. ASSUME NEW i \in 1 .. Len(texts)
      PROVE  /\ texts[i] \o CRLF \in Seq(X)
             /\ Len(texts[i] \o CRLF) = Len(texts[i]) + 2
             /\ \A k \in 1 .. Len(texts[i]) : (texts[i] \o CRLF)[k] = texts[i][k]
             /\ (texts[i] \o CRLF)[Len(texts[i]) + 1] = CR
             /\ (texts[i] \o CRLF)[Len(texts[i]) + 2] = LF
  <2> DEFINE t == texts[i]
             e == CRLF
  <2>1. t \in Seq(X) /\ e \in Seq(X) /\ Len(e) = 2 /\ e[1] = CR /\ e[2] = LF
    BY <1>2, <1>3
  <2> DEFINE u == t \o e
  <2> HIDE DEF t, e, u
  <2>2. u = t \o e
    BY DEF u
  <2>3. /\ u \in Seq(X) /\ Len(u) = Len(t) + 2
        /\ \A k \in 1 .. Len(t) : u[k] = t[k]
        /\ \A k \in 1 .. Len(e) : u[Len(t) + k] = e[k]
    <3>1. t \in Seq(X) /\ e \in Seq(X)
      BY <2>1
    <3>2. /\ u \in Seq(X) /\ Len(u) = Len(t) + Len(e)
          /\ \A k \in 1 .. Len(t) : u[k] = t[k]
          /\ \A k \in 1 .. Len(e) : u[Len(t) + k] = e[k]
      BY <2>2, <3>1, ConcatCells
    <3> QED
      BY <2>1, <3>2
  <2>4. u[Len(t) + 1] = CR /\ u[Len(t) + 2] = LF
    <3>1. 1 \in 1 .. Len(e) /\ 2 \in 1 .. Len(e)
      BY <2>1
    <3> QED
      BY <2>1, <2>3, <3>1
  <2> QED
    BY <2>3, <2>4 DEF t, e, u
<1>5. ss \in Seq(Seq(X)) /\ Len(ss) = Len(texts)
      /\ \A i \in 1 .. Len(texts) : ss[i] = texts[i] \o CRLF
  BY <1>1, <1>4
<1>6. Joined(texts) = data
  BY DEF Joined
<1> HIDE DEF ss, data
<1>7. data \in Seq(X)
  BY <1>5, FlattenCut DEF data
<1>8. PICK at : IsCut(ss, data, at)
  BY <1>5, FlattenCut DEF data
<1>9. at \in [0 .. Len(texts) -> Nat] /\ at[0] = 0 /\ at[Len(texts)] = Len(data)
  BY <1>5, <1>8 DEF IsCut
<1>10. ASSUME NEW i \in 1 .. Len(texts)
       PROVE  /\ at[i] = at[i - 1] + Len(texts[i]) + 2
              /\ LineAt(data, at[i - 1], Len(texts[i]))
              /\ SubSeq(data, at[i - 1] + 1, at[i - 1] + Len(texts[i])) = texts[i]
  <2> DEFINE p == at[i - 1]
             n == Len(texts[i])
  <2>1. p \in Nat /\ n \in Nat
    BY <1>1, <1>2, <1>9
  <2>2. /\ at[i] = p + (n + 2) /\ at[i] <= Len(data)
        /\ \A k \in 1 .. (n + 2) : data[p + k] = (texts[i] \o CRLF)[k]
    <3> DEFINE s == ss[i]
    <3>1. s = texts[i] \o CRLF /\ i \in 1 .. Len(ss) /\ Len(s) = n + 2
      BY <1>4, <1>5
    <3>2. /\ at[i] = at[i - 1] + Len(s) /\ at[i] <= Len(data)
          /\ \A k \in 1 .. Len(s) : data[at[i - 1] + k] = s[k]
      BY <1>8, <3>1 DEF IsCut
    <3> HIDE DEF s, n
    <3> QED
      BY <3>1, <3>2
  <2> HIDE DEF p
  <2>3. \A k \in 1 .. n : data[p + k] = texts[i][k]
    <3> DEFINE t == texts[i]
               u == texts[i] \o CRLF
    <3>1. \A k \in 1 .. n : u[k] = t[k]
      BY <1>4
    <3>2. \A k \in 1 .. (n + 2) : data[p + k] = u[k]
      BY <2>2
    <3> HIDE DEF n, t, u
    <3>3. ASSUME NEW k \in 1 .. n PROVE data[p + k] = t[k]
      <4>1. k \in 1 .. (n + 2)
        BY <2>1
      <4> QED
        BY <3>1, <3>2, <4>1
    <3> QED
      BY <3>3 DEF t
  <2>4. data[p + n + 1] = CR /\ data[p + n + 2] = LF
    <3>1. n + 1 \in 1 .. (n + 2) /\ n + 2 \in 1 .. (n + 2)
      BY <2>1
    <3>2. (texts[i] \o CRLF)[n + 1] = CR /\ (texts[i] \o CRLF)[n + 2] = LF
      BY <1>4
    <3> HIDE DEF n
    <3>3. data[p + (n + 1)] = CR /\ data[p + (n + 2)] = LF
      BY <2>2, <3>1, <3>2
    <3> QED
      BY <2>1, <3>3
  <2>5. LineAt(data, p, n)
    <3>1. \A k \in 1 .. n : ~IsEol(texts[i][k])
      BY <1>2
    <3> HIDE DEF n
    <3>2. p + n + 2 <= Len(data)
      <4>1. Len(data) \in Nat
        BY <1>7
      <4> QED
        BY <2>1, <2>2, <4>1
    <3> QED
      BY <2>3, <2>4, <3>1, <3>2 DEF LineAt
  <2>6. SubSeq(data, p + 1, p + n) = texts[i]
    <3> DEFINE t == texts[i]
               u == SubSeq(data, p + 1, p + n)
    <3>1. t \in Seq(X) /\ Len(t) = n
      BY <1>2
    <3>2. \A j \in (p + 1) .. (p + n) : data[j] \in X
      BY <1>7, <2>1, <2>2
    <3>3. u \in Seq(X) /\ Len(u) = n /\ \A k \in 1 .. n : u[k] = data[p + k]
      <4>1. /\ u \in Seq(X) /\ Len(u) = IF p + 1 <= p + n THEN p + n - (p + 1) + 1 ELSE 0
            /\ \A k \in 1 .. (p + n - (p + 1) + 1) : u[k] = data[p + 1 + k - 1]
        BY <2>1, <3>2, SubSeqProperties
      <4> HIDE DEF u, n
      <4> QED
        BY <2>1, <4>1
    <3> HIDE DEF u, n
    <3>4. \A k \in 1 .. n : u[k] = t[k]
      BY <2>3, <3>3
    <3> HIDE DEF t
    <3>5. u = t
      BY <2>1, <3>1, <3>3, <3>4, SeqEqual
    <3> QED
      BY <3>5 DEF u, t
  <2> QED
    BY <2>1, <2>2, <2>5, <2>6 DEF p
<1> QED
  BY <1>6, <1>7, <1>9, <1>10 DEF X

\* Whatever lines are posted, ff_mread_str called until NULL returns them one
\* by one, for every length of the lines and of a read of the flash, when no
\* line ends on the last character of a read.
THEOREM LinesReadBack ==
  ASSUME NEW Letters, CR \notin Letters, LF \notin Letters, NEW texts \in Seq(Seq(Letters)),
         \A k \in DOMAIN texts : WellCut(texts[k])
  PROVE  AllLines(Joined(texts)) = texts
<1> DEFINE X    == Letters \cup {CR, LF}
           data == Joined(texts)
           n    == Len(texts)
<1>1. n \in Nat /\ DOMAIN texts = 1 .. n
  OBVIOUS
<1>2. data \in Seq(X)
  BY JoinedLines
<1>3. PICK at \in [0 .. n -> Nat] :
        /\ at[0] = 0 /\ at[n] = Len(data)
        /\ \A i \in 1 .. n :
             /\ at[i] = at[i - 1] + Len(texts[i]) + 2
             /\ LineAt(data, at[i - 1], Len(texts[i]))
             /\ SubSeq(data, at[i - 1] + 1, at[i - 1] + Len(texts[i])) = texts[i]
  BY JoinedLines
<1> HIDE DEF X, data, n
<1>4. PICK f : IsWalk(data, f) /\ AllLines(data) = f[0]
  BY <1>2, LinesUnfold
<1>5. \A p \in Nat : f[p] = Call(data, f, p)
  BY <1>4 DEF IsWalk
<1>6. ASSUME NEW i \in 1 .. n
      PROVE  f[at[i - 1]] = <<texts[i]>> \o f[at[i]]
  <2> DEFINE p == at[i - 1]
             l == Len(texts[i])
  <2>1. p \in Nat /\ l \in Nat
    <3>1. texts[i] \in Seq(Letters)
      BY DEF n
    <3>2. i - 1 \in 0 .. n
      BY <1>1
    <3> QED
      BY <3>1, <3>2
  <2>2. at[i] = p + l + 2 /\ LineAt(data, p, l) /\ SubSeq(data, p + 1, p + l) = texts[i]
    BY <1>3
  <2> HIDE DEF p
  <2>7. l % CACHE_SIZE # CACHE_SIZE - 1
    BY <1>1 DEF WellCut
  <2>3. ReadStr(data, p) = [text |-> SubSeq(data, p + 1, p + l), next |-> p + l + 2]
    BY <1>2, <2>1, <2>2, <2>7, LineIsRead
  <2>4. ~AtEnd(data, p)
    <3>1. Len(data) \in Nat /\ p + l + 2 <= Len(data)
      BY <1>2, <2>2 DEF LineAt
    <3> QED
      BY <2>1, <3>1 DEF AtEnd
  <2>5. f[p] = <<ReadStr(data, p).text>> \o f[ReadStr(data, p).next]
    BY <1>5, <2>1, <2>4 DEF Call
  <2>6. ReadStr(data, p).text = texts[i] /\ ReadStr(data, p).next = at[i]
    BY <2>2, <2>3
  <2> QED
    BY <2>5, <2>6 DEF p
<1> DEFINE D == {m \in Nat : m <= n => f[at[n - m]] = SubSeq(texts, n - m + 1, n)}
<1>7. 0 \in D
  <2>1. AtEnd(data, at[n])
    BY <1>1, <1>2, <1>3 DEF AtEnd
  <2>2. f[at[n]] = <<>>
    <3>1. at[n] \in Nat
      BY <1>1
    <3> QED
      BY <1>5, <2>1, <3>1 DEF Call
  <2>3. SubSeq(texts, n + 1, n) = <<>>
    BY <1>1, SubSeqEmpty
  <2>4. n - 0 = n /\ n - 0 + 1 = n + 1
    BY <1>1
  <2> QED
    BY <2>2, <2>3, <2>4
<1>8. ASSUME NEW m \in Nat, m \in D PROVE m + 1 \in D
  <2> SUFFICES ASSUME m + 1 <= n
               PROVE  f[at[n - (m + 1)]] = SubSeq(texts, n - (m + 1) + 1, n)
    OBVIOUS
  <2> DEFINE i == n - m
  <2>1. i \in 1 .. n /\ i - 1 = n - (m + 1) /\ n - (m + 1) + 1 = i
    BY <1>1
  <2>2. f[at[i]] = SubSeq(texts, i + 1, n)
    BY <1>1, <1>8
  <2> HIDE DEF i
  <2>3. f[at[i - 1]] = <<texts[i]>> \o SubSeq(texts, i + 1, n)
    BY <1>6, <2>1, <2>2
  <2>4. SubSeq(texts, i, n) = <<texts[i]>> \o SubSeq(texts, i + 1, n)
    BY <2>1 DEF n
  <2> QED
    BY <2>1, <2>3, <2>4
<1> HIDE DEF D
<1>9. n \in D
  BY <1>1, <1>7, <1>8, Induction
<1>10. f[at[0]] = SubSeq(texts, 1, n)
  BY <1>1, <1>9 DEF D
<1>11. SubSeq(texts, 1, n) = texts
  BY DEF n
<1> QED
  BY <1>3, <1>4, <1>10, <1>11 DEF data
-----------------------------------------------------------------------------
(* base64_decode. *)

Octets == 0 .. 255

\* What the loop knows after some characters.
State(v, rem, out, stop) == [v |-> v, rem |-> rem, out |-> out, stop |-> stop]

IsDecoding(in, f) ==
  f = [k \in 0 .. Len(in) |->
         IF k = 0 THEN State(0, 0, <<>>, FALSE) ELSE TakeNext(f[k - 1], in[k])]

LEMMA DecodingExists ==
  ASSUME NEW in, Len(in) \in Nat
  PROVE  \E f : IsDecoding(in, f)
<1> DEFINE Turns(f, k) == IF k = 0 THEN State(0, 0, <<>>, FALSE) ELSE TakeNext(f[k - 1], in[k])
           Good(f, n) == /\ f = [k \in 0 .. Len(in) |-> f[k]]
                         /\ \A k \in 0 .. Len(in) : k <= n => f[k] = Turns(f, k)
           D == {n \in Nat : \E f : Good(f, n)}
<1>1. ASSUME NEW f, NEW g, NEW k, f[k - 1] = g[k - 1] PROVE Turns(f, k) = Turns(g, k)
  BY <1>1
<1>2. ASSUME NEW f PROVE Turns(f, 0) = State(0, 0, <<>>, FALSE)
  OBVIOUS
<1> HIDE DEF Turns
<1>3. 0 \in D
  <2> DEFINE f == [k \in 0 .. Len(in) |-> State(0, 0, <<>>, FALSE)]
  <2>1. f = [k \in 0 .. Len(in) |-> f[k]]
    OBVIOUS
  <2>2. \A k \in 0 .. Len(in) : k <= 0 => f[k] = Turns(f, k)
    <3>1. \A k \in 0 .. Len(in) : k <= 0 => k = 0
      OBVIOUS
    <3>2. f[0] = State(0, 0, <<>>, FALSE)
      OBVIOUS
    <3> QED
      BY <1>2, <3>1, <3>2
  <2> HIDE DEF f
  <2>3. Good(f, 0)
    BY <2>1, <2>2
  <2> HIDE DEF Good
  <2> QED
    BY <2>3
<1>4. ASSUME NEW n \in Nat, n \in D PROVE n + 1 \in D
  <2>1. PICK f : Good(f, n)
    BY <1>4
  <2> DEFINE g == [k \in 0 .. Len(in) |-> IF k <= n THEN f[k] ELSE Turns(f, k)]
  <2>2. \A k \in 0 .. Len(in) : g[k] = IF k <= n THEN f[k] ELSE Turns(f, k)
    OBVIOUS
  <2>3. g = [k \in 0 .. Len(in) |-> g[k]]
    OBVIOUS
  <2> HIDE DEF g
  <2>4. ASSUME NEW k \in 0 .. Len(in), k <= n + 1 PROVE g[k] = Turns(g, k)
    <3>1. g[k] = Turns(f, k)
      BY <2>1, <2>2
    <3>2. CASE k = 0
      BY <1>2, <3>1, <3>2
    <3>3. CASE k # 0
      <4>1. k - 1 \in 0 .. Len(in) /\ k - 1 <= n
        BY <2>4, <3>3
      <4>2. g[k - 1] = f[k - 1]
        BY <2>2, <4>1
      <4> QED
        BY <1>1, <3>1, <4>2
    <3> QED
      BY <3>2, <3>3
  <2>5. Good(g, n + 1)
    BY <2>3, <2>4
  <2> HIDE DEF Good
  <2> QED
    BY <2>5
<1> HIDE DEF D
<1>5. Len(in) \in D
  BY <1>3, <1>4, Induction
<1>6. PICK f : Good(f, Len(in))
  BY <1>5 DEF D
<1>7. \A k \in 0 .. Len(in) : f[k] = Turns(f, k)
  BY <1>6
<1>8. f = [k \in 0 .. Len(in) |-> Turns(f, k)]
  <2>1. [k \in 0 .. Len(in) |-> f[k]] = [k \in 0 .. Len(in) |-> Turns(f, k)]
    BY <1>7
  <2> QED
    BY <1>6, <2>1
<1> QED
  BY <1>8 DEF IsDecoding, Turns

\* base64_decode, one turn of its loop at a time.
LEMMA DecodeUnfolds ==
  ASSUME NEW in, Len(in) \in Nat, NEW room
  PROVE  \E f : /\ f[0] = State(0, 0, <<>>, FALSE)
                /\ \A k \in 1 .. Len(in) : f[k] = TakeNext(f[k - 1], in[k])
                /\ Decode(in, room) = IF Len(f[Len(in)].out) > room
                                      THEN [ok |-> FALSE, out |-> <<>>]
                                      ELSE [ok |-> TRUE, out |-> f[Len(in)].out]
<1> DEFINE f == CHOOSE g : g = [k \in 0 .. Len(in) |->
                                  IF k = 0 THEN State(0, 0, <<>>, FALSE)
                                  ELSE TakeNext(g[k - 1], in[k])]
<1>1. IsDecoding(in, f)
  BY DecodingExists DEF IsDecoding
<1>2. Decode(in, room) = IF Len(f[Len(in)].out) > room
                         THEN [ok |-> FALSE, out |-> <<>>]
                         ELSE [ok |-> TRUE, out |-> f[Len(in)].out]
  BY DEF Decode, State
<1> HIDE DEF f
<1>3. f[0] = State(0, 0, <<>>, FALSE)
  BY <1>1 DEF IsDecoding
<1>4. \A k \in 1 .. Len(in) : f[k] = TakeNext(f[k - 1], in[k])
  <2>1. \A k \in 0 .. Len(in) : f[k] = IF k = 0 THEN State(0, 0, <<>>, FALSE)
                                          ELSE TakeNext(f[k - 1], in[k])
    BY <1>1 DEF IsDecoding
  <2>2. \A k \in 1 .. Len(in) : k \in 0 .. Len(in) /\ k # 0
    OBVIOUS
  <2> QED
    BY <2>1, <2>2
<1> QED
  BY <1>2, <1>3, <1>4

\* The alphabet: the table finds what it was made from.
LEMMA TableInverse ==
  ASSUME NEW w \in 0 .. 63
  PROVE  /\ EncTab(w) \in Octets /\ DecTab(EncTab(w)) = w
         /\ ~IsSpace(EncTab(w)) /\ ~Stops(EncTab(w))
<1> DEFINE Found(c) == c \in Octets /\ DecTab(c) = w /\ ~IsSpace(c) /\ ~Stops(c)
<1>1. CASE w \in 0 .. 25
  <2>1. EncTab(w) = 65 + w
    BY <1>1 DEF EncTab
  <2>2. DecTab(65 + w) = w
    BY <1>1 DEF DecTab
  <2>3. Found(65 + w)
    BY <1>1, <2>2 DEF IsSpace, Stops, Octets
  <2> QED
    BY <2>1, <2>3
<1>2. CASE w \in 26 .. 51
  <2>1. EncTab(w) = 97 + w - 26
    BY <1>2 DEF EncTab
  <2>2. DecTab(97 + w - 26) = w
    BY <1>2 DEF DecTab
  <2>3. Found(97 + w - 26)
    BY <1>2, <2>2 DEF IsSpace, Stops, Octets
  <2> QED
    BY <2>1, <2>3
<1>3. CASE w \in 52 .. 61
  <2>1. EncTab(w) = 48 + w - 52
    BY <1>3 DEF EncTab
  <2>2. DecTab(48 + w - 52) = w
    BY <1>3 DEF DecTab
  <2>3. Found(48 + w - 52)
    BY <1>3, <2>2 DEF IsSpace, Stops, Octets
  <2> QED
    BY <2>1, <2>3
<1>4. CASE w = 62
  <2>1. EncTab(w) = 43
    BY <1>4 DEF EncTab
  <2>2. DecTab(43) = 62
    BY DEF DecTab
  <2>3. Found(43)
    BY <1>4, <2>2 DEF IsSpace, Stops, Octets
  <2> QED
    BY <2>1, <2>3
<1>5. CASE w = 63
  <2>1. EncTab(w) = 47
    BY <1>5 DEF EncTab
  <2>2. DecTab(47) = 63
    BY DEF DecTab
  <2>3. Found(47)
    BY <1>5, <2>2 DEF IsSpace, Stops, Octets
  <2> QED
    BY <2>1, <2>3
<1> QED
  BY <1>1, <1>2, <1>3, <1>4, <1>5

\* One character of the alphabet, at the four places it can have in a group.
LEMMA SextetTaken ==
  ASSUME NEW w \in 0 .. 63, NEW v \in Nat, NEW out
  PROVE  /\ TakeNext(State(v, 0, out, FALSE), EncTab(w)) = State(v * 64 + w, 6, out, FALSE)
         /\ TakeNext(State(v, 6, out, FALSE), EncTab(w))
              = State((v * 64 + w) % 16, 4, Append(out, (v * 64 + w) \div 16), FALSE)
         /\ TakeNext(State(v, 4, out, FALSE), EncTab(w))
              = State((v * 64 + w) % 4, 2, Append(out, (v * 64 + w) \div 4), FALSE)
         /\ TakeNext(State(v, 2, out, FALSE), EncTab(w))
              = State(0, 0, Append(out, v * 64 + w), FALSE)
<1> DEFINE c == EncTab(w)
           x == v * 64 + w
<1>1. DecTab(c) = w /\ ~IsSpace(c) /\ ~Stops(c)
  BY TableInverse
<1>2. x \in Nat /\ x % 1 = 0 /\ x \div 1 = x
  BY Z3
<1> HIDE DEF c
<1>3. ASSUME NEW rem PROVE TakeNext(State(v, rem, out, FALSE), c) = TakeChar(State(v, rem, out, FALSE), c)
  BY <1>1 DEF TakeNext, State
<1>4. TakeChar(State(v, 0, out, FALSE), c) = State(x, 6, out, FALSE)
  BY <1>1 DEF TakeChar, State
<1> HIDE DEF x
<1>9. x = v * 64 + DecTab(c)
  BY <1>1 DEF x
<1>5. TakeChar(State(v, 6, out, FALSE), c) = State(x % 16, 4, Append(out, x \div 16), FALSE)
  <2>1. 2^4 = 16 /\ 6 + 6 - 8 = 4 /\ ~(6 + 6 < 8) /\ 6 + 6 = 12
    OBVIOUS
  <2> QED
    BY <1>1, <1>9, <2>1 DEF TakeChar, State
<1>6. TakeChar(State(v, 4, out, FALSE), c) = State(x % 4, 2, Append(out, x \div 4), FALSE)
  <2>1. 2^2 = 4 /\ 4 + 6 - 8 = 2 /\ ~(4 + 6 < 8)
    OBVIOUS
  <2> QED
    BY <1>1, <1>9, <2>1 DEF TakeChar, State
<1>7. TakeChar(State(v, 2, out, FALSE), c) = State(0, 0, Append(out, x), FALSE)
  <2>1. 2^0 = 1 /\ 2 + 6 - 8 = 0 /\ ~(2 + 6 < 8)
    OBVIOUS
  <2>2. 6 + 2 = 8 /\ 8 - 8 = 0
    OBVIOUS
  <2>3. TakeChar(State(v, 2, out, FALSE), c)
          = State(x % 2^0, 0, Append(out, x \div 2^0), FALSE)
    BY <1>9, <2>1, <2>2 DEF TakeChar, State
  <2> QED
    BY <1>2, <2>1, <2>3
<1> QED
  BY <1>3, <1>4, <1>5, <1>6, <1>7 DEF c, x

LEMMA FirstSextet ==
  ASSUME NEW w \in 0 .. 63, NEW out
  PROVE  TakeNext(State(0, 0, out, FALSE), EncTab(w)) = State(w, 6, out, FALSE)
<1>1. 0 \in Nat /\ 0 * 64 + w = w
  OBVIOUS
<1>2. TakeNext(State(0, 0, out, FALSE), EncTab(w)) = State(0 * 64 + w, 6, out, FALSE)
  BY <1>1, SextetTaken, Zenon
<1> QED
  BY <1>1, <1>2

LEMMA SecondSextet ==
  ASSUME NEW w \in 0 .. 63, NEW v \in Nat, NEW out
  PROVE  TakeNext(State(v, 6, out, FALSE), EncTab(w))
           = State((v * 64 + w) % 16, 4, Append(out, (v * 64 + w) \div 16), FALSE)
BY SextetTaken, Zenon

LEMMA ThirdSextet ==
  ASSUME NEW w \in 0 .. 63, NEW v \in Nat, NEW out
  PROVE  TakeNext(State(v, 4, out, FALSE), EncTab(w))
           = State((v * 64 + w) % 4, 2, Append(out, (v * 64 + w) \div 4), FALSE)
BY SextetTaken, Zenon

LEMMA FourthSextet ==
  ASSUME NEW w \in 0 .. 63, NEW v \in Nat, NEW out
  PROVE  TakeNext(State(v, 2, out, FALSE), EncTab(w))
           = State(0, 0, Append(out, v * 64 + w), FALSE)
BY SextetTaken, Zenon

\* The four sextets of three bytes, and how the bytes come out of them.
LEMMA Sextets ==
  ASSUME NEW a \in Octets, NEW b \in Octets, NEW c \in Octets
  PROVE  LET w1 == a \div 4
             w2 == (a % 4) * 16 + b \div 16
             w3 == (b % 16) * 4 + c \div 64
             w4 == c % 64
         IN /\ {w1, w2, w3, w4} \subseteq 0 .. 63
            /\ b \div 16 \in Nat /\ c \div 64 \in Nat
            /\ (w1 * 64 + w2) \div 16 = a /\ (w1 * 64 + w2) % 16 = b \div 16
            /\ ((b \div 16) * 64 + w3) \div 4 = b /\ ((b \div 16) * 64 + w3) % 4 = c \div 64
            /\ (c \div 64) * 64 + w4 = c
BY Z3 DEF Octets

\* The characters of a group, and what the loop knows after two, three and
\* four of them.
Char1(a)    == EncTab(a \div 4)
Char2(a, b) == EncTab((a % 4) * 16 + b \div 16)
Char3(b, c) == EncTab((b % 16) * 4 + c \div 64)
Char4(c)    == EncTab(c % 64)

AfterTwo(out, a, b)      == TakeNext(TakeNext(State(0, 0, out, FALSE), Char1(a)), Char2(a, b))
AfterThree(out, a, b, c) == TakeNext(AfterTwo(out, a, b), Char3(b, c))
AfterFour(out, a, b, c)  == TakeNext(AfterThree(out, a, b, c), Char4(c))

LEMMA TwoTaken ==
  ASSUME NEW a \in Octets, NEW b \in Octets, NEW out
  PROVE  AfterTwo(out, a, b) = State(b \div 16, 4, Append(out, a), FALSE)
<1> DEFINE w1 == a \div 4
           w2 == (a % 4) * 16 + b \div 16
           vb == b \div 16
<1>1. 0 \in Octets
  BY DEF Octets
<1>2. w1 \in 0 .. 63 /\ w2 \in 0 .. 63
  BY <1>1, Sextets
<1>3. (w1 * 64 + w2) \div 16 = a /\ (w1 * 64 + w2) % 16 = vb
  BY <1>1, Sextets
<1>4. Char1(a) = EncTab(w1) /\ Char2(a, b) = EncTab(w2)
  BY DEF Char1, Char2
<1> HIDE DEF w1, w2
<1>5. TakeNext(State(0, 0, out, FALSE), EncTab(w1)) = State(w1, 6, out, FALSE)
  BY <1>2, FirstSextet
<1>6. TakeNext(State(w1, 6, out, FALSE), EncTab(w2)) = State(vb, 4, Append(out, a), FALSE)
  <2>1. w1 \in Nat
    BY <1>2
  <2>2. TakeNext(State(w1, 6, out, FALSE), EncTab(w2))
          = State((w1 * 64 + w2) % 16, 4, Append(out, (w1 * 64 + w2) \div 16), FALSE)
    BY <1>2, <2>1, SecondSextet
  <2> QED
    BY <1>3, <2>2
<1> HIDE DEF vb
<1>7. AfterTwo(out, a, b) = State(vb, 4, Append(out, a), FALSE)
  BY <1>4, <1>5, <1>6 DEF AfterTwo
<1> QED
  BY <1>7 DEF vb

LEMMA ThreeTaken ==
  ASSUME NEW a \in Octets, NEW b \in Octets, NEW c \in Octets, NEW out
  PROVE  AfterThree(out, a, b, c) = State(c \div 64, 2, Append(Append(out, a), b), FALSE)
<1> DEFINE w3 == (b % 16) * 4 + c \div 64
           vb == b \div 16
           vc == c \div 64
<1>1. w3 \in 0 .. 63 /\ vb \in Nat
  BY Sextets
<1>2. (vb * 64 + w3) \div 4 = b /\ (vb * 64 + w3) % 4 = vc
  BY Sextets
<1>3. Char3(b, c) = EncTab(w3)
  BY DEF Char3
<1>4. AfterTwo(out, a, b) = State(vb, 4, Append(out, a), FALSE)
  BY TwoTaken
<1> HIDE DEF w3, vb, vc
<1>5. ASSUME NEW o
      PROVE  TakeNext(State(vb, 4, o, FALSE), EncTab(w3)) = State(vc, 2, Append(o, b), FALSE)
  <2>1. TakeNext(State(vb, 4, o, FALSE), EncTab(w3))
          = State((vb * 64 + w3) % 4, 2, Append(o, (vb * 64 + w3) \div 4), FALSE)
    BY <1>1, ThirdSextet
  <2> QED
    BY <1>2, <2>1
<1>6. AfterThree(out, a, b, c) = State(vc, 2, Append(Append(out, a), b), FALSE)
  BY <1>3, <1>4, <1>5 DEF AfterThree
<1> QED
  BY <1>6 DEF vc

LEMMA FourTaken ==
  ASSUME NEW a \in Octets, NEW b \in Octets, NEW c \in Octets, NEW out
  PROVE  AfterFour(out, a, b, c) = State(0, 0, Append(Append(Append(out, a), b), c), FALSE)
<1> DEFINE w4 == c % 64
           vc == c \div 64
<1>1. w4 \in 0 .. 63 /\ vc \in Nat
  BY Sextets
<1>2. vc * 64 + w4 = c
  BY Sextets
<1>3. Char4(c) = EncTab(w4)
  BY DEF Char4
<1>4. AfterThree(out, a, b, c) = State(vc, 2, Append(Append(out, a), b), FALSE)
  BY ThreeTaken
<1> HIDE DEF w4, vc
<1>5. ASSUME NEW o
      PROVE  TakeNext(State(vc, 2, o, FALSE), EncTab(w4)) = State(0, 0, Append(o, c), FALSE)
  <2>1. TakeNext(State(vc, 2, o, FALSE), EncTab(w4))
          = State(0, 0, Append(o, vc * 64 + w4), FALSE)
    BY <1>1, FourthSextet
  <2> QED
    BY <1>2, <2>1
<1> QED
  BY <1>3, <1>4, <1>5 DEF AfterFour

\* Padding, and whatever follows, adds nothing.
LEMMA PaddingStops ==
  ASSUME NEW v, NEW rem, NEW out, NEW c
  PROVE  /\ TakeNext(State(v, rem, out, FALSE), 61) = State(v, rem, out, TRUE)
         /\ TakeNext(State(v, rem, out, TRUE), c) = State(v, rem, out, TRUE)
<1>1. ~IsSpace(61) /\ Stops(61)
  BY DEF IsSpace, Stops
<1>2. [State(v, rem, out, FALSE) EXCEPT !.stop = TRUE] = State(v, rem, out, TRUE)
  <2>1. ASSUME NEW stop
        PROVE  [State(v, rem, out, FALSE) EXCEPT !.stop = stop] = State(v, rem, out, stop)
    BY DEF State
  <2> QED
    BY <2>1
<1> QED
  BY <1>1, <1>2 DEF TakeNext, State
\* The last group, of one byte or of two.
LEMMA ShortGroup ==
  ASSUME NEW a \in Octets, NEW b \in Octets, NEW out
  PROVE  /\ TakeNext(TakeNext(AfterTwo(out, a, 0), 61), 61).out = Append(out, a)
         /\ TakeNext(AfterThree(out, a, b, 0), 61).out = Append(Append(out, a), b)
<1> DEFINE va == 0 \div 16
           vb == 0 \div 64
<1>1. 0 \in Octets
  BY DEF Octets
<1> HIDE DEF va, vb
<1>2. AfterTwo(out, a, 0) = State(va, 4, Append(out, a), FALSE)
  BY <1>1, TwoTaken DEF va
<1>3. AfterThree(out, a, b, 0) = State(vb, 2, Append(Append(out, a), b), FALSE)
  BY <1>1, ThreeTaken DEF vb
<1>4. TakeNext(TakeNext(AfterTwo(out, a, 0), 61), 61) = State(va, 4, Append(out, a), TRUE)
  BY <1>2, PaddingStops
<1>5. TakeNext(AfterThree(out, a, b, 0), 61) = State(vb, 2, Append(Append(out, a), b), TRUE)
  BY <1>3, PaddingStops
<1> QED
  BY <1>4, <1>5 DEF State
-----------------------------------------------------------------------------
(* Encode, group by group. *)

Groups(bytes)      == (Len(bytes) + 2) \div 3
GroupAt(bytes, k)  == Group(SubSeq(bytes, 3 * k - 2, Min({3 * k, Len(bytes)})))

LEMMA SmallerOfTwo ==
  ASSUME NEW a \in Nat, NEW b \in Nat, a <= b
  PROVE  Min({a, b}) = a /\ Min({b, a}) = a
<1>1. {a, b} \in SUBSET Nat /\ {a, b} # {} /\ {b, a} = {a, b}
  OBVIOUS
<1>2. Min({a, b}) \in {a, b} /\ \A x \in {a, b} : Min({a, b}) <= x
  BY <1>1, Smallest
<1> QED
  BY <1>1, <1>2

LEMMA Slice ==
  ASSUME NEW X, NEW s \in Seq(X), NEW i \in Nat, NEW j \in Nat, 1 <= i, i <= j, j <= Len(s)
  PROVE  /\ SubSeq(s, i, j) \in Seq(X) /\ Len(SubSeq(s, i, j)) = j - i + 1
         /\ \A k \in 1 .. (j - i + 1) : SubSeq(s, i, j)[k] = s[i + k - 1]
<1>1. \A k \in i .. j : s[k] \in X
  OBVIOUS
<1> QED
  BY <1>1, SubSeqProperties

LEMMA Beginning ==
  ASSUME NEW X, NEW s \in Seq(X), NEW n \in Nat, n <= Len(s), NEW t, t = SubSeq(s, 1, n)
  PROVE  t \in Seq(X) /\ Len(t) = n /\ \A k \in 1 .. n : t[k] = s[k]
OBVIOUS

LEMMA OneMore ==
  ASSUME NEW X, NEW s \in Seq(X), NEW n \in Nat, n < Len(s)
  PROVE  SubSeq(s, 1, n + 1) = Append(SubSeq(s, 1, n), s[n + 1])
OBVIOUS

LEMMA TwoMore ==
  ASSUME NEW X, NEW s \in Seq(X), NEW n \in Nat, n + 1 < Len(s)
  PROVE  SubSeq(s, 1, n + 2) = Append(Append(SubSeq(s, 1, n), s[n + 1]), s[n + 2])
<1>1. n + 1 \in Nat /\ n < Len(s) /\ (n + 1) + 1 = n + 2
  OBVIOUS
<1>2. SubSeq(s, 1, n + 1) = Append(SubSeq(s, 1, n), s[n + 1])
  BY <1>1, OneMore
<1>3. SubSeq(s, 1, (n + 1) + 1) = Append(SubSeq(s, 1, n + 1), s[(n + 1) + 1])
  BY <1>1, OneMore
<1> QED
  BY <1>1, <1>2, <1>3

LEMMA ThreeMore ==
  ASSUME NEW X, NEW s \in Seq(X), NEW n \in Nat, n + 2 < Len(s)
  PROVE  SubSeq(s, 1, n + 3)
           = Append(Append(Append(SubSeq(s, 1, n), s[n + 1]), s[n + 2]), s[n + 3])
<1>1. n + 2 \in Nat /\ n + 1 < Len(s) /\ (n + 2) + 1 = n + 3
  OBVIOUS
<1>2. SubSeq(s, 1, n + 2) = Append(Append(SubSeq(s, 1, n), s[n + 1]), s[n + 2])
  BY <1>1, TwoMore
<1>3. SubSeq(s, 1, (n + 2) + 1) = Append(SubSeq(s, 1, n + 2), s[(n + 2) + 1])
  BY <1>1, OneMore
<1> QED
  BY <1>1, <1>2, <1>3

\* The characters of a quadruple are octets.
LEMMA QuadSeq ==
  ASSUME NEW a \in Octets, NEW b \in Octets, NEW c \in Octets
  PROVE  Quad(a, b, c) \in Seq(Octets) /\ Len(Quad(a, b, c)) = 4
<1> DEFINE w1 == a \div 4
           w2 == (a % 4) * 16 + b \div 16
           w3 == (b % 16) * 4 + c \div 64
           w4 == c % 64
           q  == Quad(a, b, c)
<1>1. w1 \in 0 .. 63 /\ w2 \in 0 .. 63 /\ w3 \in 0 .. 63 /\ w4 \in 0 .. 63
  BY Sextets
<1>2. q[1] = EncTab(w1) /\ q[2] = EncTab(w2) /\ q[3] = EncTab(w3) /\ q[4] = EncTab(w4)
  BY DEF Quad
<1> HIDE DEF w1, w2, w3, w4, q
<1>3. q[1] \in Octets /\ q[2] \in Octets /\ q[3] \in Octets /\ q[4] \in Octets
  BY <1>1, <1>2, TableInverse
<1>4. q = <<q[1], q[2], q[3], q[4]>>
  <2>1. q = <<EncTab(w1), EncTab(w2), EncTab(w3), EncTab(w4)>>
    BY DEF q, Quad, w1, w2, w3, w4
  <2> QED
    BY <1>2, <2>1
<1>5. \A x1, x2, x3, x4 \in Octets : \A z :
        z = <<x1, x2, x3, x4>> => z \in Seq(Octets) /\ Len(z) = 4
  OBVIOUS
<1>6. q \in Seq(Octets) /\ Len(q) = 4
  BY <1>3, <1>4, <1>5
<1> QED
  BY <1>6 DEF q

\* What the k-th group of a text is: three bytes, or the last two or one.
LEMMA GroupCells ==
  ASSUME NEW bytes \in Seq(Octets), NEW k \in Nat, k > 0
  PROVE  LET n == Len(bytes)
             g == GroupAt(bytes, k)
         IN /\ 3 * k <= n => g = Quad(bytes[3 * k - 2], bytes[3 * k - 1], bytes[3 * k])
            /\ n = 3 * k - 1 =>
                 LET q == Quad(bytes[3 * k - 2], bytes[3 * k - 1], 0)
                 IN /\ g \in Seq(Octets) /\ Len(g) = 4
                    /\ g[1] = q[1] /\ g[2] = q[2] /\ g[3] = q[3] /\ g[4] = 61
            /\ n = 3 * k - 2 =>
                 LET q == Quad(bytes[3 * k - 2], 0, 0)
                 IN /\ g \in Seq(Octets) /\ Len(g) = 4
                    /\ g[1] = q[1] /\ g[2] = q[2] /\ g[3] = 61 /\ g[4] = 61
<1> DEFINE n == Len(bytes)
<1>1. n \in Nat
  OBVIOUS
<1>2. CASE 3 * k <= n
  <2> DEFINE t == SubSeq(bytes, 3 * k - 2, 3 * k)
  <2>1. Min({3 * k, n}) = 3 * k
    BY <1>1, <1>2, SmallerOfTwo
  <2>2. Len(t) = 3 /\ t[1] = bytes[3 * k - 2] /\ t[2] = bytes[3 * k - 1] /\ t[3] = bytes[3 * k]
    BY <1>2, Slice
  <2>3. GroupAt(bytes, k) = Group(t)
    BY <2>1 DEF GroupAt
  <2> HIDE DEF t
  <2>4. Group(t) = Quad(t[1], t[2], t[3])
    BY <2>2 DEF Group
  <2> QED
    BY <1>2, <2>2, <2>3, <2>4
<1>3. CASE n = 3 * k - 1
  <2> DEFINE t == SubSeq(bytes, 3 * k - 2, 3 * k - 1)
             q == Quad(bytes[3 * k - 2], bytes[3 * k - 1], 0)
  <2>1. Min({3 * k, n}) = 3 * k - 1
    BY <1>1, <1>3, SmallerOfTwo
  <2>2. Len(t) = 2 /\ t[1] = bytes[3 * k - 2] /\ t[2] = bytes[3 * k - 1]
    BY <1>3, Slice
  <2>3. GroupAt(bytes, k) = Group(t)
    BY <2>1 DEF GroupAt
  <2> HIDE DEF t
  <2>4. Group(t) = SubSeq(q, 1, 3) \o <<61>>
    BY <2>2 DEF Group
  <2>5. q \in Seq(Octets) /\ Len(q) = 4
    <3>1. 3 * k - 2 \in 1 .. n /\ 3 * k - 1 \in 1 .. n /\ 0 \in Octets
      BY <1>1, <1>3 DEF Octets
    <3>2. bytes[3 * k - 2] \in Octets /\ bytes[3 * k - 1] \in Octets
      BY <3>1
    <3> QED
      BY <3>1, <3>2, QuadSeq
  <2>6. 61 \in Octets
    BY DEF Octets
  <2> HIDE DEF q
  <2>7. /\ SubSeq(q, 1, 3) \in Seq(Octets) /\ Len(SubSeq(q, 1, 3)) = 3
        /\ \A j \in 1 .. 3 : SubSeq(q, 1, 3)[j] = q[j]
    <3> DEFINE h == SubSeq(q, 1, 3)
    <3>1. q \in Seq(Octets) /\ 3 <= Len(q) /\ h = SubSeq(q, 1, 3)
      BY <2>5
    <3> HIDE DEF h
    <3>2. h \in Seq(Octets) /\ Len(h) = 3 /\ \A j \in 1 .. 3 : h[j] = q[j]
      BY <3>1, Beginning
    <3> QED
      BY <3>2 DEF h
  <2> DEFINE g == SubSeq(q, 1, 3) \o <<61>>
  <2>8. g \in Seq(Octets) /\ Len(g) = 4 /\ g[1] = q[1] /\ g[2] = q[2] /\ g[3] = q[3] /\ g[4] = 61
    BY <2>6, <2>7
  <2> QED
    BY <1>3, <2>3, <2>4, <2>8 DEF q
<1>4. CASE n = 3 * k - 2
  <2> DEFINE t == SubSeq(bytes, 3 * k - 2, 3 * k - 2)
             q == Quad(bytes[3 * k - 2], 0, 0)
  <2>1. Min({3 * k, n}) = 3 * k - 2
    BY <1>1, <1>4, SmallerOfTwo
  <2>2. Len(t) = 1 /\ t[1] = bytes[3 * k - 2]
    BY <1>4, Slice
  <2>3. GroupAt(bytes, k) = Group(t)
    BY <2>1 DEF GroupAt
  <2> HIDE DEF t
  <2>4. Group(t) = SubSeq(q, 1, 2) \o <<61, 61>>
    BY <2>2 DEF Group
  <2>5. q \in Seq(Octets) /\ Len(q) = 4
    <3>1. 3 * k - 2 \in 1 .. n /\ 0 \in Octets
      BY <1>1, <1>4 DEF Octets
    <3>2. bytes[3 * k - 2] \in Octets
      BY <3>1
    <3> QED
      BY <3>1, <3>2, QuadSeq
  <2>6. 61 \in Octets
    BY DEF Octets
  <2> HIDE DEF q
  <2>7. /\ SubSeq(q, 1, 2) \in Seq(Octets) /\ Len(SubSeq(q, 1, 2)) = 2
        /\ \A j \in 1 .. 2 : SubSeq(q, 1, 2)[j] = q[j]
    <3> DEFINE h == SubSeq(q, 1, 2)
    <3>1. q \in Seq(Octets) /\ 2 <= Len(q) /\ h = SubSeq(q, 1, 2)
      BY <2>5
    <3> HIDE DEF h
    <3>2. h \in Seq(Octets) /\ Len(h) = 2 /\ \A j \in 1 .. 2 : h[j] = q[j]
      BY <3>1, Beginning
    <3> QED
      BY <3>2 DEF h
  <2> DEFINE g == SubSeq(q, 1, 2) \o <<61, 61>>
  <2>8. g \in Seq(Octets) /\ Len(g) = 4 /\ g[1] = q[1] /\ g[2] = q[2] /\ g[3] = 61 /\ g[4] = 61
    BY <2>6, <2>7
  <2> QED
    BY <1>4, <2>3, <2>4, <2>8 DEF q
<1> QED
  BY <1>2, <1>3, <1>4

\* The text encoded is made of groups of four characters.
LEMMA EncodedCells ==
  ASSUME NEW bytes \in Seq(Octets)
  PROVE  /\ Encode(bytes) \in Seq(Octets) /\ Groups(bytes) \in Nat
         /\ Len(Encode(bytes)) = 4 * Groups(bytes)
         /\ \A k \in 1 .. Groups(bytes), j \in 1 .. 4 :
              Encode(bytes)[4 * (k - 1) + j] = GroupAt(bytes, k)[j]
<1> DEFINE n  == Len(bytes)
           m  == Groups(bytes)
           ss == [k \in 1 .. m |-> GroupAt(bytes, k)]
           e  == Encode(bytes)
<1>1. n \in Nat /\ m \in Nat
  BY Z3 DEF Groups
<1>2. ASSUME NEW k \in 1 .. m PROVE GroupAt(bytes, k) \in Seq(Octets) /\ Len(GroupAt(bytes, k)) = 4
  <2>1. k \in Nat /\ k > 0 /\ (3 * k <= n \/ n = 3 * k - 1 \/ n = 3 * k - 2)
    BY <1>1, Z3 DEF Groups
  <2> DEFINE g == GroupAt(bytes, k)
  <2>2. CASE 3 * k <= n
    <3>1. 3 * k - 2 \in 1 .. n /\ 3 * k - 1 \in 1 .. n /\ 3 * k \in 1 .. n
      BY <2>1, <2>2
    <3>2. bytes[3 * k - 2] \in Octets /\ bytes[3 * k - 1] \in Octets /\ bytes[3 * k] \in Octets
      BY <3>1
    <3>3. g = Quad(bytes[3 * k - 2], bytes[3 * k - 1], bytes[3 * k])
      BY <2>1, <2>2, GroupCells
    <3> QED
      BY <3>2, <3>3, QuadSeq
  <2>3. CASE n = 3 * k - 1
    BY <2>1, <2>3, GroupCells
  <2>4. CASE n = 3 * k - 2
    BY <2>1, <2>4, GroupCells
  <2> QED
    BY <2>1, <2>2, <2>3, <2>4
<1>3. /\ ss \in Seq(Seq(Octets)) /\ Len(ss) = m
      /\ \A k \in 1 .. m : ss[k] = GroupAt(bytes, k) /\ Len(ss[k]) = 4
  BY <1>1, <1>2
<1>4. e = FlattenSeq(ss)
  BY DEF Encode, Groups, GroupAt
<1> HIDE DEF n, m, ss, e
<1>5. e \in Seq(Octets)
  BY <1>3, <1>4, FlattenCut
<1>6. PICK at : IsCut(ss, e, at)
  BY <1>3, <1>4, FlattenCut
<1>7. /\ at \in [0 .. m -> Nat] /\ at[0] = 0 /\ at[m] = Len(e)
      /\ \A k \in 1 .. m : /\ at[k] = at[k - 1] + 4
                           /\ \A j \in 1 .. 4 : e[at[k - 1] + j] = GroupAt(bytes, k)[j]
  <2>1. at \in [0 .. m -> Nat] /\ at[0] = 0 /\ at[m] = Len(e)
    BY <1>3, <1>6 DEF IsCut
  <2>2. ASSUME NEW k \in 1 .. m
        PROVE  /\ at[k] = at[k - 1] + 4
               /\ \A j \in 1 .. 4 : e[at[k - 1] + j] = GroupAt(bytes, k)[j]
    <3>1. /\ at[k] = at[k - 1] + Len(ss[k])
          /\ \A j \in 1 .. Len(ss[k]) : e[at[k - 1] + j] = ss[k][j]
      BY <1>3, <1>6 DEF IsCut
    <3>2. ss[k] = GroupAt(bytes, k) /\ Len(ss[k]) = 4
      BY <1>3
    <3> QED
      BY <3>1, <3>2
  <2> QED
    BY <2>1, <2>2
<1> DEFINE D == {k \in Nat : k <= m => at[k] = 4 * k}
<1>8. 0 \in D
  BY <1>7
<1>9. ASSUME NEW k \in Nat, k \in D PROVE k + 1 \in D
  <2> SUFFICES ASSUME k + 1 <= m PROVE at[k + 1] = 4 * (k + 1)
    OBVIOUS
  <2>1. at[k] = 4 * k
    BY <1>1, <1>9
  <2>2. k + 1 \in 1 .. m /\ (k + 1) - 1 = k
    BY <1>1
  <2>3. at[k + 1] = at[k] + 4
    BY <1>7, <2>2
  <2> QED
    BY <2>1, <2>3
<1> HIDE DEF D
<1>10. ASSUME NEW k \in 0 .. m PROVE at[k] = 4 * k
  <2>1. k \in Nat /\ k <= m
    BY <1>1
  <2>2. k \in D
    BY <1>8, <1>9, <2>1, Induction
  <2> QED
    BY <2>1, <2>2 DEF D
<1>11. Len(e) = 4 * m
  BY <1>1, <1>7, <1>10
<1>12. ASSUME NEW k \in 1 .. m, NEW j \in 1 .. 4
       PROVE  e[4 * (k - 1) + j] = GroupAt(bytes, k)[j]
  <2>1. k - 1 \in 0 .. m
    BY <1>1
  <2>2. at[k - 1] = 4 * (k - 1)
    BY <1>10, <2>1
  <2> QED
    BY <1>7, <2>2
<1> QED
  BY <1>1, <1>5, <1>11, <1>12 DEF e, m

LEMMA QuadCells ==
  ASSUME NEW a, NEW b, NEW c
  PROVE  /\ Quad(a, b, c)[1] = Char1(a) /\ Quad(a, b, c)[2] = Char2(a, b)
         /\ Quad(a, b, c)[3] = Char3(b, c) /\ Quad(a, b, c)[4] = Char4(c)
BY DEF Quad, Char1, Char2, Char3, Char4

\* base64_decode undoes the encoding of any bytes, and refuses what does not
\* fit in the output.
THEOREM DecodeUndoesEncode ==
  ASSUME NEW bytes \in Seq(Octets), NEW room
  PROVE  Decode(Encode(bytes), room) =
           IF Len(bytes) > room THEN [ok |-> FALSE, out |-> <<>>]
           ELSE [ok |-> TRUE, out |-> bytes]
<1> DEFINE n == Len(bytes)
           m == Groups(bytes)
           e == Encode(bytes)
           whole == n \div 3
<1>1. /\ n \in Nat /\ m \in Nat /\ whole \in Nat /\ 0 \in Octets
      /\ \/ n = 3 * whole /\ m = whole
         \/ n = 3 * whole + 1 /\ m = whole + 1
         \/ n = 3 * whole + 2 /\ m = whole + 1
  <2>1. n \in Nat
    OBVIOUS
  <2>2. 0 \in Octets
    BY DEF Octets
  <2> HIDE DEF n
  <2>3. m = (n + 2) \div 3
    BY DEF Groups, n
  <2> QED
    BY <2>1, <2>2, <2>3, Z3
<1>2. ASSUME NEW i \in 1 .. n PROVE bytes[i] \in Octets
  OBVIOUS
<1>3. /\ Len(e) = 4 * m /\ Len(e) \in Nat
      /\ \A k \in 1 .. m, j \in 1 .. 4 : e[4 * (k - 1) + j] = GroupAt(bytes, k)[j]
  <2>1. /\ Len(e) = 4 * m
        /\ \A k \in 1 .. m, j \in 1 .. 4 : e[4 * (k - 1) + j] = GroupAt(bytes, k)[j]
    BY EncodedCells
  <2> HIDE DEF e, m
  <2>2. Len(e) \in Nat
    BY <1>1, <2>1
  <2> QED
    BY <2>1, <2>2
<1>4. PICK f : /\ f[0] = State(0, 0, <<>>, FALSE)
               /\ \A k \in 1 .. Len(e) : f[k] = TakeNext(f[k - 1], e[k])
               /\ Decode(e, room) = IF Len(f[Len(e)].out) > room
                                    THEN [ok |-> FALSE, out |-> <<>>]
                                    ELSE [ok |-> TRUE, out |-> f[Len(e)].out]
  BY <1>3, DecodeUnfolds
<1> HIDE DEF n, m, e, whole
\* The four turns of group k + 1.
<1>5. ASSUME NEW k \in Nat, k < m
      PROVE  LET g == GroupAt(bytes, k + 1)
             IN /\ f[4 * k + 1] = TakeNext(f[4 * k], g[1])
                /\ f[4 * k + 2] = TakeNext(f[4 * k + 1], g[2])
                /\ f[4 * k + 3] = TakeNext(f[4 * k + 2], g[3])
                /\ f[4 * k + 4] = TakeNext(f[4 * k + 3], g[4])
  <2> DEFINE g == GroupAt(bytes, k + 1)
  <2> HIDE DEF g
  <2>1. ASSUME NEW j \in 1 .. 4 PROVE f[4 * k + j] = TakeNext(f[4 * k + j - 1], g[j])
    <3>1. k + 1 \in 1 .. m /\ 4 * ((k + 1) - 1) + j = 4 * k + j
      BY <1>1, <1>5
    <3>2. e[4 * k + j] = g[j]
      <4>1. e[4 * ((k + 1) - 1) + j] = GroupAt(bytes, k + 1)[j]
        BY <1>3, <3>1
      <4> QED
        BY <3>1, <4>1 DEF g
    <3>3. 4 * k + j \in 1 .. Len(e)
      BY <1>1, <1>3, <1>5
    <3> QED
      BY <1>4, <3>2, <3>3
  <2>2. /\ f[4 * k + 1] = TakeNext(f[4 * k + 1 - 1], g[1])
        /\ f[4 * k + 2] = TakeNext(f[4 * k + 2 - 1], g[2])
        /\ f[4 * k + 3] = TakeNext(f[4 * k + 3 - 1], g[3])
        /\ f[4 * k + 4] = TakeNext(f[4 * k + 4 - 1], g[4])
    BY <2>1
  <2>3. 4 * k + 1 - 1 = 4 * k /\ 4 * k + 2 - 1 = 4 * k + 1
        /\ 4 * k + 3 - 1 = 4 * k + 2 /\ 4 * k + 4 - 1 = 4 * k + 3
    OBVIOUS
  <2> QED
    BY <2>2, <2>3 DEF g
<1> DEFINE Good(k) == f[4 * k] = State(0, 0, SubSeq(bytes, 1, 3 * k), FALSE)
           D == {k \in Nat : 3 * k <= n => Good(k)}
<1> HIDE DEF Good
<1>6. 0 \in D
  <2>1. SubSeq(bytes, 1, 0) = <<>>
    BY SubSeqEmpty
  <2>2. f[0] = State(0, 0, SubSeq(bytes, 1, 0), FALSE)
    BY <1>4, <2>1
  <2>3. 4 * 0 = 0 /\ 3 * 0 = 0
    OBVIOUS
  <2>4. Good(0)
    BY <2>2, <2>3 DEF Good
  <2> QED
    BY <2>4
<1>7. ASSUME NEW k \in Nat, k \in D PROVE k + 1 \in D
  <2> SUFFICES ASSUME 3 * (k + 1) <= n
               PROVE  Good(k + 1)
    OBVIOUS
  <2> DEFINE a == bytes[3 * k + 1]
             b == bytes[3 * k + 2]
             c == bytes[3 * k + 3]
             out == SubSeq(bytes, 1, 3 * k)
             g == GroupAt(bytes, k + 1)
  <2>1. 3 * k + 1 \in 1 .. n /\ 3 * k + 2 \in 1 .. n /\ 3 * k + 3 \in 1 .. n /\ 3 * k <= n /\ k < m
    BY <1>1
  <2>2. a \in Octets /\ b \in Octets /\ c \in Octets
    BY <1>2, <2>1
  <2>3. g[1] = Char1(a) /\ g[2] = Char2(a, b) /\ g[3] = Char3(b, c) /\ g[4] = Char4(c)
    <3>1. 3 * (k + 1) - 2 = 3 * k + 1 /\ 3 * (k + 1) - 1 = 3 * k + 2 /\ 3 * (k + 1) = 3 * k + 3
          /\ k + 1 \in Nat /\ k + 1 > 0
      OBVIOUS
    <3>2. g = Quad(bytes[3 * (k + 1) - 2], bytes[3 * (k + 1) - 1], bytes[3 * (k + 1)])
      BY <3>1, GroupCells DEF n
    <3> QED
      BY <3>1, <3>2, QuadCells
  <2>4. f[4 * k] = State(0, 0, out, FALSE)
    <3>1. Good(k)
      BY <1>7, <2>1
    <3> QED
      BY <3>1 DEF Good
  <2>7. SubSeq(bytes, 1, 3 * k + 3) = Append(Append(Append(out, a), b), c)
    <3>1. 3 * k \in Nat /\ 3 * k + 2 < Len(bytes)
      BY <2>1 DEF n
    <3> QED
      BY <3>1, ThreeMore
  <2> HIDE DEF a, b, c, out, g
  <2>6. f[4 * k + 4] = State(0, 0, Append(Append(Append(out, a), b), c), FALSE)
    <3>0. /\ f[4 * k + 1] = TakeNext(f[4 * k], g[1])
          /\ f[4 * k + 2] = TakeNext(f[4 * k + 1], g[2])
          /\ f[4 * k + 3] = TakeNext(f[4 * k + 2], g[3])
          /\ f[4 * k + 4] = TakeNext(f[4 * k + 3], g[4])
      BY <1>5, <2>1 DEF g
    <3>1. f[4 * k + 2] = AfterTwo(out, a, b)
      BY <2>3, <2>4, <3>0 DEF AfterTwo
    <3>2. f[4 * k + 3] = AfterThree(out, a, b, c)
      BY <2>3, <3>0, <3>1 DEF AfterThree
    <3>3. f[4 * k + 4] = AfterFour(out, a, b, c)
      BY <2>3, <3>0, <3>2 DEF AfterFour
    <3> QED
      <4>1. AfterFour(out, a, b, c) = State(0, 0, Append(Append(Append(out, a), b), c), FALSE)
        BY <2>2, FourTaken, ZenonT(60)
      <4> QED
        BY <3>3, <4>1
  <2>8. 4 * (k + 1) = 4 * k + 4 /\ 3 * (k + 1) = 3 * k + 3
    OBVIOUS
  <2> QED
    BY <2>6, <2>7, <2>8 DEF Good
<1> HIDE DEF D
<1>8. f[4 * whole] = State(0, 0, SubSeq(bytes, 1, 3 * whole), FALSE)
  <2>1. whole \in D
    BY <1>1, <1>6, <1>7, Induction
  <2>2. 3 * whole <= n
    BY <1>1
  <2> QED
    BY <2>1, <2>2 DEF D, Good
<1> DEFINE out == SubSeq(bytes, 1, 3 * whole)
           g   == GroupAt(bytes, whole + 1)
<1>9. f[Len(e)].out = bytes
  <2>1. CASE n = 3 * whole /\ m = whole
    <3>1. SubSeq(bytes, 1, 3 * whole) = bytes
      BY <2>1 DEF n
    <3>2. f[Len(e)] = State(0, 0, bytes, FALSE)
      BY <1>3, <1>8, <2>1, <3>1
    <3> QED
      BY <3>2 DEF State
  <2>2. CASE n = 3 * whole + 1 /\ m = whole + 1
    <3> DEFINE a == bytes[3 * whole + 1]
    <3>1. 3 * whole + 1 \in 1 .. n /\ whole < m
      BY <1>1, <2>2
    <3>2. a \in Octets
      BY <1>2, <3>1
    <3>3. g[1] = Char1(a) /\ g[2] = Char2(a, 0) /\ g[3] = 61 /\ g[4] = 61
      <4>1. 3 * (whole + 1) - 2 = 3 * whole + 1 /\ whole + 1 \in Nat /\ whole + 1 > 0
            /\ n = 3 * (whole + 1) - 2
        BY <1>1, <2>2
      <4>2. LET q == Quad(bytes[3 * (whole + 1) - 2], 0, 0)
            IN g[1] = q[1] /\ g[2] = q[2] /\ g[3] = 61 /\ g[4] = 61
        BY <4>1, GroupCells DEF n
      <4> QED
        BY <4>1, <4>2, QuadCells
    <3>4. SubSeq(bytes, 1, 3 * whole + 1) = Append(out, a)
      <4>1. 3 * whole \in Nat /\ 3 * whole < Len(bytes)
        BY <1>1, <2>2 DEF n
      <4> QED
        BY <4>1, OneMore
    <3>5. Append(out, a) = bytes
      <4>1. SubSeq(bytes, 1, n) = bytes
        BY DEF n
      <4> QED
        BY <2>2, <3>4, <4>1
    <3> HIDE DEF a, out, g
    <3>11. /\ f[4 * whole + 1] = TakeNext(f[4 * whole], g[1])
           /\ f[4 * whole + 2] = TakeNext(f[4 * whole + 1], g[2])
           /\ f[4 * whole + 3] = TakeNext(f[4 * whole + 2], g[3])
           /\ f[4 * whole + 4] = TakeNext(f[4 * whole + 3], g[4])
      BY <1>1, <1>5, <3>1 DEF g
    <3>12. f[4 * whole] = State(0, 0, out, FALSE)
      BY <1>8 DEF out
    <3>6. f[4 * whole + 2] = AfterTwo(out, a, 0)
      BY <3>3, <3>11, <3>12 DEF AfterTwo
    <3>7. f[4 * whole + 4] = TakeNext(TakeNext(AfterTwo(out, a, 0), 61), 61)
      BY <3>3, <3>6, <3>11
    <3>8. Len(e) = 4 * whole + 4
      BY <1>1, <1>3, <2>2
    <3> QED
      <4>1. TakeNext(TakeNext(AfterTwo(out, a, 0), 61), 61).out = Append(out, a)
        BY <3>2, ShortGroup, Zenon
      <4> QED
        BY <3>5, <3>7, <3>8, <4>1
  <2>3. CASE n = 3 * whole + 2 /\ m = whole + 1
    <3> DEFINE a == bytes[3 * whole + 1]
               b == bytes[3 * whole + 2]
    <3>1. 3 * whole + 1 \in 1 .. n /\ 3 * whole + 2 \in 1 .. n /\ whole < m
      BY <1>1, <2>3
    <3>2. a \in Octets /\ b \in Octets
      BY <1>2, <3>1
    <3>3. g[1] = Char1(a) /\ g[2] = Char2(a, b) /\ g[3] = Char3(b, 0) /\ g[4] = 61
      <4>1. 3 * (whole + 1) - 2 = 3 * whole + 1 /\ 3 * (whole + 1) - 1 = 3 * whole + 2
            /\ whole + 1 \in Nat /\ whole + 1 > 0 /\ n = 3 * (whole + 1) - 1
        BY <1>1, <2>3
      <4>2. LET q == Quad(bytes[3 * (whole + 1) - 2], bytes[3 * (whole + 1) - 1], 0)
            IN g[1] = q[1] /\ g[2] = q[2] /\ g[3] = q[3] /\ g[4] = 61
        BY <4>1, GroupCells DEF n
      <4> QED
        BY <4>1, <4>2, QuadCells
    <3>4. SubSeq(bytes, 1, 3 * whole + 2) = Append(Append(out, a), b)
      <4>1. 3 * whole \in Nat /\ 3 * whole + 1 < Len(bytes)
        BY <1>1, <2>3 DEF n
      <4> QED
        BY <4>1, TwoMore
    <3>5. Append(Append(out, a), b) = bytes
      <4>1. SubSeq(bytes, 1, n) = bytes
        BY DEF n
      <4> QED
        BY <2>3, <3>4, <4>1
    <3> HIDE DEF a, b, out, g
    <3>11. /\ f[4 * whole + 1] = TakeNext(f[4 * whole], g[1])
           /\ f[4 * whole + 2] = TakeNext(f[4 * whole + 1], g[2])
           /\ f[4 * whole + 3] = TakeNext(f[4 * whole + 2], g[3])
           /\ f[4 * whole + 4] = TakeNext(f[4 * whole + 3], g[4])
      BY <1>1, <1>5, <3>1 DEF g
    <3>12. f[4 * whole] = State(0, 0, out, FALSE)
      BY <1>8 DEF out
    <3>6. f[4 * whole + 2] = AfterTwo(out, a, b)
      BY <3>3, <3>11, <3>12 DEF AfterTwo
    <3>7. f[4 * whole + 3] = AfterThree(out, a, b, 0)
      BY <3>3, <3>6, <3>11 DEF AfterThree
    <3>8. f[4 * whole + 4] = TakeNext(AfterThree(out, a, b, 0), 61)
      BY <3>3, <3>7, <3>11
    <3>9. Len(e) = 4 * whole + 4
      BY <1>1, <1>3, <2>3
    <3> QED
      <4>1. TakeNext(AfterThree(out, a, b, 0), 61).out = Append(Append(out, a), b)
        BY <3>2, ShortGroup, Zenon
      <4> QED
        BY <3>5, <3>8, <3>9, <4>1
  <2> QED
    BY <1>1, <2>1, <2>2, <2>3
<1> QED
  BY <1>4, <1>9 DEF e
-----------------------------------------------------------------------------
(* authBasic. *)

LEMMA Rest ==
  ASSUME NEW X, NEW s \in Seq(X), NEW m \in Nat, NEW n \in Nat, Len(s) = m + n,
         NEW t, t = SubSeq(s, m + 1, Len(s))
  PROVE  t \in Seq(X) /\ Len(t) = n /\ \A k \in 1 .. n : t[k] = s[m + k]
<1>1. \A k \in (m + 1) .. (m + n) : s[k] \in X
  OBVIOUS
<1>2. /\ t \in Seq(X)
      /\ Len(t) = IF m + 1 <= m + n THEN m + n - (m + 1) + 1 ELSE 0
      /\ \A k \in 1 .. (m + n - (m + 1) + 1) : t[k] = s[m + 1 + k - 1]
  BY <1>1, SubSeqProperties
<1>3. m + n - (m + 1) + 1 = n /\ (m + 1 <= m + n \/ n = 0)
  OBVIOUS
<1>4. ASSUME NEW k \in 1 .. n PROVE t[k] = s[m + k]
  <2>1. m + 1 + k - 1 = m + k
    OBVIOUS
  <2> QED
    BY <1>2, <1>3, <2>1
<1> QED
  BY <1>2, <1>3, <1>4

\* The comparison of the three pieces is the comparison of the whole.
LEMMA MatchesPair ==
  ASSUME NEW X, Colon \in X, NEW text \in Seq(X), NEW user \in Seq(X), NEW pass \in Seq(X)
  PROVE  Matches(text, user, pass) <=> text = user \o <<Colon>> \o pass
<1> DEFINE lu == Len(user)
           lp == Len(pass)
           head == user \o <<Colon>>
           pair == head \o pass
<1>1. lu \in Nat /\ lp \in Nat
  OBVIOUS
<1>2. /\ head \in Seq(X) /\ Len(head) = lu + 1 /\ head[lu + 1] = Colon
      /\ \A k \in 1 .. lu : head[k] = user[k]
  OBVIOUS
<1> HIDE DEF head
<1>3. /\ pair \in Seq(X) /\ Len(pair) = lu + 1 + lp
      /\ \A k \in 1 .. (lu + 1) : pair[k] = head[k]
      /\ \A k \in 1 .. lp : pair[lu + 1 + k] = pass[k]
  <2>1. /\ pair \in Seq(X) /\ Len(pair) = Len(head) + Len(pass)
        /\ \A k \in 1 .. Len(head) : pair[k] = head[k]
        /\ \A k \in 1 .. Len(pass) : pair[Len(head) + k] = pass[k]
    <3>1. pair = head \o pass
      OBVIOUS
    <3>2. head \in Seq(X) /\ pass \in Seq(X)
      BY <1>2
    <3> HIDE DEF pair
    <3> QED
      BY <3>1, <3>2, ConcatCells
  <2> HIDE DEF pair
  <2> QED
    BY <1>1, <1>2, <2>1
<1>4. pair[lu + 1] = Colon /\ \A k \in 1 .. lu : pair[k] = user[k]
  BY <1>1, <1>2, <1>3
<1> HIDE DEF pair
<1>5. ASSUME Matches(text, user, pass) PROVE text = pair
  <2>1. /\ Len(text) = lu + lp + 1 /\ SubSeq(user, 1, lu) = SubSeq(text, 1, lu)
        /\ text[lu + 1] = Colon /\ SubSeq(text, lu + 2, Len(text)) = pass
    BY <1>5 DEF Matches, IsPrefix
  <2>2. ASSUME NEW k \in 1 .. lu PROVE text[k] = user[k]
    <3>1. SubSeq(user, 1, lu)[k] = user[k]
      BY <1>1
    <3>2. SubSeq(text, 1, lu)[k] = text[k]
      BY <1>1, <2>1
    <3> QED
      BY <2>1, <3>1, <3>2
  <2>3. ASSUME NEW k \in 1 .. lp PROVE text[lu + 1 + k] = pass[k]
    <3>1. SubSeq(text, lu + 2, Len(text))[k] = text[lu + 1 + k]
      BY <1>1, <2>1
    <3> QED
      BY <2>1, <3>1
  <2>4. ASSUME NEW k \in 1 .. Len(text) PROVE text[k] = pair[k]
    <3>1. CASE k \in 1 .. lu
      BY <1>4, <2>2, <3>1
    <3>2. CASE k = lu + 1
      BY <1>4, <2>1, <3>2
    <3>3. CASE k > lu + 1
      <4>1. k - lu - 1 \in 1 .. lp /\ lu + 1 + (k - lu - 1) = k
        BY <1>1, <2>1, <3>3
      <4>2. text[lu + 1 + (k - lu - 1)] = pair[lu + 1 + (k - lu - 1)]
        BY <1>3, <2>3, <4>1
      <4> QED
        BY <4>1, <4>2
    <3> QED
      BY <1>1, <3>1, <3>2, <3>3
  <2>5. Len(text) = Len(pair)
    BY <1>1, <1>3, <2>1
  <2> QED
    BY <1>3, <2>4, <2>5, SeqEqual
<1>6. ASSUME text = pair PROVE Matches(text, user, pass)
  <2>1. Len(text) = lu + lp + 1 /\ text[lu + 1] = Colon
    BY <1>1, <1>3, <1>4, <1>6
  <2>2. IsPrefix(user, text)
    <3> DEFINE s == SubSeq(user, 1, lu)
               t == SubSeq(text, 1, lu)
    <3>1. s \in Seq(X) /\ Len(s) = lu /\ \A k \in 1 .. lu : s[k] = user[k]
      BY <1>1
    <3>2. t \in Seq(X) /\ Len(t) = lu /\ \A k \in 1 .. lu : t[k] = text[k]
      BY <1>1, <2>1
    <3> HIDE DEF s, t
    <3>3. \A k \in 1 .. lu : s[k] = t[k]
      BY <1>4, <1>6, <3>1, <3>2
    <3>4. s = t
      BY <3>1, <3>2, <3>3, SeqEqual
    <3>5. lu <= Len(text)
      BY <1>1, <2>1
    <3> QED
      BY <3>4, <3>5 DEF IsPrefix, s, t
  <2>3. SubSeq(text, lu + 2, Len(text)) = pass
    <3> DEFINE t == SubSeq(text, lu + 2, Len(text))
    <3>1. t \in Seq(X) /\ Len(t) = lp /\ \A k \in 1 .. lp : t[k] = text[lu + 1 + k]
      <4>1. lu + 1 \in Nat /\ Len(text) = (lu + 1) + lp /\ (lu + 1) + 1 = lu + 2
        BY <1>1, <2>1
      <4>2. t = SubSeq(text, (lu + 1) + 1, Len(text))
        BY <4>1
      <4> HIDE DEF t
      <4> QED
        BY <1>1, <4>1, <4>2, Rest
    <3> HIDE DEF t
    <3>2. \A k \in 1 .. lp : t[k] = pass[k]
      BY <1>3, <1>6, <3>1
    <3>3. t = pass
      BY <3>1, <3>2, SeqEqual
    <3> QED
      BY <3>3 DEF t
  <2> QED
    BY <2>1, <2>2, <2>3 DEF Matches
<1> QED
  BY <1>5, <1>6 DEF pair, head

\* authBasic lets in exactly those who send the encoded user:password text of a
\* known user that fits the code's buffer: for every text without a zero, every
\* list of users and every size of the buffer.
THEOREM LoginIsExact ==
  ASSUME NEW text \in Seq(Octets \ {0}), NEW room \in Int,
         NEW users \in Seq([user: Seq(Octets), pass: Seq(Octets)])
  PROVE  AuthBasic(Basic \o <<Space>> \o Encode(text), users, room)
           <=> /\ Len(text) <= room
               /\ \E k \in 1 .. Len(users) :
                    text = users[k].user \o <<Colon>> \o users[k].pass
<1> DEFINE e == Encode(text)
           b == Basic \o <<Space>>
           header == b \o e
           got == Decode(e, room).out
<1>1. text \in Seq(Octets) /\ Colon \in Octets /\ Len(text) \in Nat
  BY DEF Octets, Colon
<1>2. e \in Seq(Octets)
  BY <1>1, EncodedCells
<1>3. b \in Seq(Octets) /\ Len(b) = 6 /\ Len(Basic) = 5 /\ Basic \in Seq(Octets)
      /\ \A k \in 1 .. 5 : b[k] = Basic[k]
  <2> DEFINE last == <<Space>>
  <2>1. Basic \in Seq(Octets) /\ Len(Basic) = 5
    BY DEF Basic, Octets
  <2>2. last \in Seq(Octets) /\ Len(last) = 1
    BY DEF Space, Octets
  <2>3. b = Basic \o last
    OBVIOUS
  <2> HIDE DEF b, last
  <2>4. Basic \in Seq(Octets) /\ last \in Seq(Octets)
    BY <2>1, <2>2
  <2>5. /\ b \in Seq(Octets) /\ Len(b) = Len(Basic) + Len(last)
        /\ \A k \in 1 .. Len(Basic) : b[k] = Basic[k]
    BY <2>3, <2>4, ConcatCells
  <2> QED
    BY <2>1, <2>2, <2>5
<1> HIDE DEF e
<1>4. IsPrefix(Basic, header) /\ SubSeq(header, 7, Len(header)) = e
  <2> HIDE DEF b
  <2>2. header \in Seq(Octets) /\ Len(header) = 6 + Len(e) /\ Len(e) \in Nat
        /\ (\A k \in 1 .. 6 : header[k] = b[k]) /\ \A k \in 1 .. Len(e) : header[6 + k] = e[k]
    <3>1. /\ header \in Seq(Octets) /\ Len(header) = Len(b) + Len(e) /\ Len(e) \in Nat
          /\ \A k \in 1 .. Len(b) : header[k] = b[k]
          /\ \A k \in 1 .. Len(e) : header[Len(b) + k] = e[k]
      <4>1. header = b \o e
        OBVIOUS
      <4> HIDE DEF header, b
      <4>2. b \in Seq(Octets) /\ e \in Seq(Octets)
        BY <1>2, <1>3
      <4> QED
        BY <4>1, <4>2, ConcatCells
    <3> HIDE DEF header
    <3> QED
      BY <1>3, <3>1
  <2> HIDE DEF header
  <2>3. IsPrefix(Basic, header)
    <3> DEFINE s == SubSeq(Basic, 1, 5)
               t == SubSeq(header, 1, 5)
    <3>1. s \in Seq(Octets) /\ Len(s) = 5 /\ \A k \in 1 .. 5 : s[k] = Basic[k]
      <4>1. Basic \in Seq(Octets) /\ 5 <= Len(Basic) /\ s = SubSeq(Basic, 1, 5)
        BY <1>3
      <4> HIDE DEF s
      <4> QED
        BY <4>1, Beginning
    <3>2. t \in Seq(Octets) /\ Len(t) = 5 /\ \A k \in 1 .. 5 : t[k] = header[k]
      BY <2>2
    <3> HIDE DEF s, t
    <3>3. \A k \in 1 .. 5 : s[k] = t[k]
      BY <1>3, <2>2, <3>1, <3>2
    <3>4. s = t
      BY <3>1, <3>2, <3>3, SeqEqual
    <3> QED
      BY <1>3, <2>2, <3>4 DEF IsPrefix, s, t
  <2>4. SubSeq(header, 7, Len(header)) = e
    <3> DEFINE t == SubSeq(header, 7, Len(header))
    <3>1. t \in Seq(Octets) /\ Len(t) = Len(e) /\ \A k \in 1 .. Len(e) : t[k] = header[6 + k]
      <4>1. t = SubSeq(header, 6 + 1, Len(header))
        OBVIOUS
      <4> HIDE DEF t
      <4> QED
        BY <2>2, <4>1, Rest
    <3> HIDE DEF t
    <3>2. t = e
      BY <1>2, <2>2, <3>1, SeqEqual
    <3> QED
      BY <3>2 DEF t
  <2> QED
    BY <2>3, <2>4
<1> HIDE DEF header
<1>5. ASSUME NEW k \in 1 .. Len(users)
      PROVE  users[k].user \in Seq(Octets) /\ users[k].pass \in Seq(Octets)
  <2> DEFINE U == [user: Seq(Octets), pass: Seq(Octets)]
  <2>1. users[k] \in U
    <3>1. users \in Seq(U)
      OBVIOUS
    <3> HIDE DEF U
    <3> QED
      BY <3>1
  <2> QED
    BY <2>1
<1>6. Decode(e, room) = IF Len(text) > room THEN [ok |-> FALSE, out |-> <<>>]
                        ELSE [ok |-> TRUE, out |-> text]
  BY <1>1, DecodeUndoesEncode DEF e
<1>7. CASE Len(text) <= room
  <2>1. got = text
    BY <1>1, <1>6, <1>7
  <2>2. CString(text) = text
    <3>1. {k \in 1 .. Len(text) : text[k] = 0} = {}
      OBVIOUS
    <3> QED
      BY <3>1 DEF CString
  <2> HIDE DEF got
  <2>3. AuthBasic(header, users, room) <=>
          \E k \in 1 .. Len(users) : Matches(text, users[k].user, users[k].pass)
    <3>1. CString(Decode(SubSeq(header, 7, Len(header)), room).out) = text
      BY <1>4, <2>1, <2>2 DEF got
    <3> QED
      BY <1>4, <3>1, Zenon DEF AuthBasic
  <2>4. ASSUME NEW k \in 1 .. Len(users)
        PROVE  Matches(text, users[k].user, users[k].pass)
                 <=> text = users[k].user \o <<Colon>> \o users[k].pass
    BY <1>1, <1>5, MatchesPair, ZenonT(60)
  <2> QED
    BY <1>7, <2>3, <2>4 DEF header, e
<1>8. CASE Len(text) > room
  <2>1. got = <<>>
    BY <1>6, <1>8
  <2>2. CString(<<>>) = <<>>
    <3>1. {k \in 1 .. Len(<<>>) : <<>>[k] = 0} = {}
      OBVIOUS
    <3> QED
      BY <3>1 DEF CString
  <2> HIDE DEF got
  <2>3. AuthBasic(header, users, room) <=>
          \E k \in 1 .. Len(users) : Matches(<<>>, users[k].user, users[k].pass)
    <3>1. CString(Decode(SubSeq(header, 7, Len(header)), room).out) = <<>>
      BY <1>4, <2>1, <2>2 DEF got
    <3> QED
      BY <1>4, <3>1, Zenon DEF AuthBasic
  <2>4. ASSUME NEW k \in 1 .. Len(users) PROVE ~Matches(<<>>, users[k].user, users[k].pass)
    <3> DEFINE u == users[k].user
               p == users[k].pass
    <3>0. u \in Seq(Octets) /\ p \in Seq(Octets)
      BY <1>5
    <3> HIDE DEF u, p
    <3>1. Len(u) \in Nat /\ Len(p) \in Nat
      BY <3>0
    <3>2. Len(<<>>) = 0 /\ ~(0 = Len(u) + Len(p) + 1)
      BY <3>1
    <3> QED
      BY <3>2 DEF Matches, u, p
  <2>5. ~(Len(text) <= room)
    BY <1>1, <1>8
  <2> QED
    BY <2>3, <2>4, <2>5 DEF header, e
<1>9. Len(text) <= room \/ Len(text) > room
  BY <1>1
<1> QED
  BY <1>7, <1>8, <1>9
-----------------------------------------------------------------------------
(* The inputs of MCData. *)

LinesIn == [kind: {"lines"}, lengths: Texts(0 .. 6, 3)]
CodesIn == [kind: {"code"}, bytes: Texts({0, 1, 97, 255}, 4), room: {3, 4}]
LoginsIn == [kind: {"login"}, given: Person, users: Texts(Person, 1), room: {4, 9}]
PartsIn == [kind: {"part"}, parts: Texts(Part, 2), arg: Names2 \cup {<<"a">>}]
FormsIn == [kind: {"form"}, fields: Texts([name: FieldNames, value: Texts(Bytes, 2)], 2),
            arg: FieldNames, room: {1, 2, 3}]
PagesIn == [kind: {"page"}, page: Texts({"x", "%"}, 7), grow: {0, 2, 6}]
FilesIn == [kind: {"file"}, entries: Texts(Entry, 2), comp: {NONE, HEATSHRINK},
            url: {<<"/", "n">>, <<"m", "m", "m">>, <<"/", "/", "k">>}]

Chosen ==
  /\ input.kind = "lines" => input \in LinesIn
  /\ input.kind = "code" => input \in CodesIn
  /\ input.kind = "login" => input \in LoginsIn
  /\ input.kind = "part" => input \in PartsIn
  /\ input.kind = "form" => input \in FormsIn
  /\ input.kind = "page" => input \in PagesIn
  /\ input.kind = "file" =>
       /\ input \in FilesIn
       /\ Cardinality({input.entries[k].name : k \in DOMAIN input.entries}) = Len(input.entries)

LEMMA ChosenHolds == Spec => []Chosen
<1>1. Init => Chosen
  BY DEF Init, Chosen
<1>2. Chosen /\ [Next]_input => Chosen'
  <2> SUFFICES ASSUME Chosen, [Next]_input PROVE Chosen'
    OBVIOUS
  <2>1. CASE ReadLines
    <3>1. input' \in LinesIn
      BY <2>1 DEF ReadLines, Choose, LinesIn
    <3>2. input'.kind = "lines"
      BY <3>1 DEF LinesIn
    <3> QED
      BY <3>1, <3>2 DEF Chosen
  <2>2. CASE DecodeText
    <3>1. input' \in CodesIn
      BY <2>2 DEF DecodeText, Choose, CodesIn
    <3>2. input'.kind = "code"
      BY <3>1 DEF CodesIn
    <3> QED
      BY <3>1, <3>2 DEF Chosen
  <2>3. CASE Login
    <3>1. input' \in LoginsIn
      BY <2>3 DEF Login, Choose, LoginsIn
    <3>2. input'.kind = "login"
      BY <3>1 DEF LoginsIn
    <3> QED
      BY <3>1, <3>2 DEF Chosen
  <2>4. CASE FindPart
    <3>1. input' \in PartsIn
      BY <2>4 DEF FindPart, Choose, PartsIn
    <3>2. input'.kind = "part"
      BY <3>1 DEF PartsIn
    <3> QED
      BY <3>1, <3>2 DEF Chosen
  <2>5. CASE FindField
    <3>1. input' \in FormsIn
      BY <2>5 DEF FindField, Choose, FormsIn
    <3>2. input'.kind = "form"
      BY <3>1 DEF FormsIn
    <3> QED
      BY <3>1, <3>2 DEF Chosen
  <2>6. CASE ServePage
    <3>1. input' \in PagesIn
      BY <2>6 DEF ServePage, Choose, PagesIn
    <3>2. input'.kind = "page"
      BY <3>1 DEF PagesIn
    <3> QED
      BY <3>1, <3>2 DEF Chosen
  <2>7. CASE ServeFile
    <3>1. /\ input' \in FilesIn
          /\ Cardinality({input'.entries[k].name : k \in DOMAIN input'.entries})
               = Len(input'.entries)
      BY <2>7 DEF ServeFile, Choose, FilesIn
    <3>2. input'.kind = "file"
      BY <3>1 DEF FilesIn
    <3> QED
      BY <3>1, <3>2 DEF Chosen
  <2>8. CASE UNCHANGED input
    BY <2>8 DEF Chosen
  <2> QED
    BY <2>1, <2>2, <2>3, <2>4, <2>5, <2>6, <2>7, <2>8 DEF Next
<1> QED
  BY <1>1, <1>2, PTL DEF Spec

LEMMA TextsAreSequences ==
  ASSUME NEW S, NEW n \in Nat, NEW t \in Texts(S, n)
  PROVE  t \in Seq(S) /\ DOMAIN t = 1 .. Len(t)
<1>1. PICK k \in 0 .. n : t \in [1 .. k -> S]
  BY DEF Texts
<1> QED
  BY <1>1

LEMMA LinesInTexts ==
  ASSUME input \in LinesIn
  PROVE  [k \in DOMAIN input.lengths |-> Line(input.lengths[k])] \in Seq(Seq({"x"}))
<1> DEFINE l == input.lengths
<1>1. PICK n \in 0 .. 3 : l \in [1 .. n -> 0 .. 6]
  BY DEF LinesIn, Texts
<1> HIDE DEF l
<1>2. \A k \in 1 .. n : Line(l[k]) \in Seq({"x"})
  BY <1>1 DEF Line
<1>3. [k \in 1 .. n |-> Line(l[k])] \in Seq(Seq({"x"}))
  BY <1>2
<1>4. DOMAIN l = 1 .. n
  BY <1>1
<1> QED
  BY <1>3, <1>4 DEF l

\* LinesRead holds of every input that is chosen.
THEOREM LinesTheorem == Spec => []LinesRead
<1>1. Chosen => LinesRead
  <2> SUFFICES ASSUME Chosen, input.kind = "lines",
                      \A k \in DOMAIN [j \in DOMAIN input.lengths |-> Line(input.lengths[j])] :
                        WellCut([j \in DOMAIN input.lengths |-> Line(input.lengths[j])][k])
               PROVE  AllLines(Joined([j \in DOMAIN input.lengths |-> Line(input.lengths[j])]))
                        = [j \in DOMAIN input.lengths |-> Line(input.lengths[j])]
    BY DEF LinesRead
  <2> DEFINE texts == [j \in DOMAIN input.lengths |-> Line(input.lengths[j])]
  <2>1. texts \in Seq(Seq({"x"})) /\ CR \notin {"x"} /\ LF \notin {"x"}
    BY LinesInTexts DEF Chosen, CR, LF
  <2> HIDE DEF texts
  <2>2. \A k \in DOMAIN texts : WellCut(texts[k])
    BY DEF texts
  <2>3. AllLines(Joined(texts)) = texts
    BY <2>1, <2>2, LinesReadBack
  <2> QED
    BY <2>3 DEF texts
<1> QED
  BY <1>1, ChosenHolds, PTL

\* CodeUndone holds of every input that is chosen.
THEOREM CodeTheorem == Spec => []CodeUndone
<1>1. Chosen => CodeUndone
  <2> SUFFICES ASSUME Chosen, input.kind = "code"
               PROVE  Decode(Encode(input.bytes), input.room) =
                        IF Len(input.bytes) > input.room THEN [ok |-> FALSE, out |-> <<>>]
                        ELSE [ok |-> TRUE, out |-> input.bytes]
    BY DEF CodeUndone
  <2>1. input.bytes \in Texts({0, 1, 97, 255}, 4)
    BY DEF Chosen, CodesIn
  <2>2. input.bytes \in Seq(Octets)
    <3>1. input.bytes \in Seq({0, 1, 97, 255})
      BY <2>1, TextsAreSequences
    <3> QED
      BY <3>1 DEF Octets
  <2> QED
    BY <2>2, DecodeUndoesEncode
<1> QED
  BY <1>1, ChosenHolds, PTL

LEMMA SecretsAreTexts == Secrets \subseteq Seq(Octets \ {0})
BY DEF Secrets, Octets

\* LoginExact holds of every input that is chosen.
THEOREM LoginTheorem == Spec => []LoginExact
<1>1. Chosen => LoginExact
  <2> DEFINE Z == Octets \ {0}
             pair(p) == p.user \o <<Colon>> \o p.pass
  <2> SUFFICES ASSUME Chosen, input.kind = "login"
               PROVE  AuthBasic(Basic \o <<Space>> \o Encode(pair(input.given)), input.users, input.room)
                        <=> /\ Len(pair(input.given)) <= input.room
                            /\ \E k \in DOMAIN input.users : pair(input.users[k]) = pair(input.given)
    BY DEF LoginExact
  <2>1. input.given \in Person /\ input.users \in Texts(Person, 1) /\ input.room \in Int
    BY DEF Chosen, LoginsIn
  <2>2. \A p \in Person : p.user \in Seq(Z) /\ p.pass \in Seq(Z)
    BY SecretsAreTexts DEF Person
  <2>3. pair(input.given) \in Seq(Z)
    <3> DEFINE u == input.given.user
               p == input.given.pass
               c == <<Colon>>
    <3>1. u \in Seq(Z) /\ p \in Seq(Z)
      BY <2>1, <2>2
    <3>2. c \in Seq(Z)
      BY DEF Colon, Octets
    <3> HIDE DEF u, p, c, Z
    <3>3. (u \o c) \o p \in Seq(Z)
      BY <3>1, <3>2
    <3> QED
      BY <3>3 DEF u, p, c
  <2>4. Person \subseteq [user: Seq(Octets), pass: Seq(Octets)]
    <3>1. Secrets \subseteq Seq(Octets)
      BY DEF Secrets, Octets
    <3> QED
      BY <3>1 DEF Person
  <2>5. input.users \in Seq([user: Seq(Octets), pass: Seq(Octets)])
        /\ DOMAIN input.users = 1 .. Len(input.users)
    <3> DEFINE U == [user: Seq(Octets), pass: Seq(Octets)]
    <3>1. input.users \in Seq(Person) /\ DOMAIN input.users = 1 .. Len(input.users)
      BY <2>1, TextsAreSequences
    <3>2. Person \subseteq U
      BY <2>4
    <3> HIDE DEF U
    <3>3. input.users \in Seq(U)
      BY <3>1, <3>2
    <3> QED
      BY <3>1, <3>3 DEF U
  <2> DEFINE text == pair(input.given)
  <2> HIDE DEF text
  <2>6. AuthBasic(Basic \o <<Space>> \o Encode(text), input.users, input.room)
          <=> /\ Len(text) <= input.room
              /\ \E k \in 1 .. Len(input.users) :
                   text = input.users[k].user \o <<Colon>> \o input.users[k].pass
    BY <2>1, <2>3, <2>5, LoginIsExact DEF text
  <2> QED
    BY <2>5, <2>6 DEF text
<1> QED
  BY <1>1, ChosenHolds, PTL
=============================================================================
