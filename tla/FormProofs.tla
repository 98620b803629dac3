----------------------------- MODULE FormProofs ----------------------------
(***************************************************************************)
(* What is read from a request: the field httpdFindArg finds in a form and *)
(* what httpdUrlDecode makes of it, and the part httpdFindMultipartArg     *)
(* finds in a multipart body, for forms and bodies of any length.          *)
(***************************************************************************)
EXTENDS DataProofs

(* Folds. *)

LEMMA LargestElement ==
  ASSUME NEW n \in Nat, NEW S \in SUBSET (1 .. n), S # {}
  PROVE  Max(S) \in S /\ \A x \in S : x <= Max(S)
<1> DEFINE T == {m \in Nat : \A x \in S : x <= m}
<1>1. T \in SUBSET Nat /\ T # {}
  <2>1. n \in T
    OBVIOUS
  <2> QED
    BY <2>1
<1>2. PICK m \in T : \A y \in T : m <= y
  BY <1>1, Smallest
<1>3. m \in S
  <2> SUFFICES ASSUME m \notin S PROVE FALSE
    OBVIOUS
  <2>1. PICK x \in S : TRUE
    OBVIOUS
  <2>2. x \in Nat /\ x <= m /\ x # m /\ x >= 1
    BY <1>2
  <2>3. m - 1 \in Nat /\ \A y \in S : y <= m - 1
    BY <1>2, <2>2
  <2>4. m - 1 \in T
    BY <2>3
  <2> QED
    BY <1>2, <2>4
<1>4. \E x \in S : \A y \in S : x >= y
  BY <1>2, <1>3
<1>5. Max(S) \in S /\ \A y \in S : Max(S) >= y
  BY <1>4, Zenon DEF Max
<1> QED
  BY <1>5

\* The fold over the places in seq, as MapThenFoldSet makes it, when F is one
\* step.
IsFold(F, base, seq, n, f) ==
  f = [s \in SUBSET (1 .. n) |->
         IF s = {} THEN base ELSE F[<<f[s \ {Max(s)}], seq[Max(s)]>>]]

LEMMA FoldExists ==
  ASSUME NEW F, NEW base, NEW seq, NEW n \in Nat
  PROVE  \E f : IsFold(F, base, seq, n, f)
<1> DEFINE Val(f, s) == IF s = {} THEN base ELSE F[<<f[s \ {Max(s)}], seq[Max(s)]>>]
           Dom       == SUBSET (1 .. n)
           Good(f, m) == /\ f = [s \in Dom |-> f[s]]
                         /\ \A s \in Dom : s \subseteq 1 .. m => f[s] = Val(f, s)
           D == {m \in Nat : \E f : Good(f, m)}
<1>1. 0 \in D
  <2> DEFINE f == [s \in Dom |-> base]
  <2>1. f = [s \in Dom |-> f[s]]
    OBVIOUS
  <2>2. \A s \in Dom : s \subseteq 1 .. 0 => f[s] = Val(f, s)
    OBVIOUS
  <2> HIDE DEF f
  <2>3. Good(f, 0)
    BY <2>1, <2>2
  <2> HIDE DEF Good
  <2> QED
    BY <2>3
<1>2. ASSUME NEW m \in Nat, m \in D PROVE m + 1 \in D
  <2>1. PICK f : Good(f, m)
    BY <1>2
  <2> DEFINE g == [s \in Dom |-> IF s \subseteq 1 .. m THEN f[s] ELSE Val(f, s)]
  <2>2. \A s \in Dom : g[s] = IF s \subseteq 1 .. m THEN f[s] ELSE Val(f, s)
    OBVIOUS
  <2>3. g = [s \in Dom |-> g[s]]
    OBVIOUS
  <2> HIDE DEF g
  <2>4. ASSUME NEW s \in Dom, s \subseteq 1 .. (m + 1) PROVE g[s] = Val(g, s)
    <3>1. g[s] = Val(f, s)
      BY <2>1, <2>2
    <3>2. CASE s = {}
      BY <3>1, <3>2
    <3>3. CASE s # {}
      <4>1. Max(s) \in s /\ \A x \in s : x <= Max(s)
        BY <3>3, LargestElement
      <4>2. s \ {Max(s)} \in Dom
        OBVIOUS
      <4>3. s \ {Max(s)} \subseteq 1 .. m
        <5> SUFFICES ASSUME NEW x \in s, x # Max(s) PROVE x \in 1 .. m
          OBVIOUS
        <5>1. x \in 1 .. (m + 1) /\ Max(s) \in 1 .. (m + 1) /\ x <= Max(s)
          BY <2>4, <4>1
        <5> QED
          BY <5>1
      <4>4. g[s \ {Max(s)}] = f[s \ {Max(s)}]
        BY <2>2, <4>2, <4>3
      <4> QED
        BY <3>1, <3>3, <4>4
    <3> QED
      BY <3>2, <3>3
  <2>5. Good(g, m + 1)
    BY <2>3, <2>4
  <2> HIDE DEF Good
  <2> QED
    BY <2>5
<1> HIDE DEF D
<1>3. n \in D
  BY <1>1, <1>2, Induction
<1>4. PICK f : Good(f, n)
  BY <1>3 DEF D
<1>5. \A s \in Dom : f[s] = Val(f, s)
  BY <1>4
<1>6. f = [s \in Dom |-> Val(f, s)]
  <2>1. [s \in Dom |-> f[s]] = [s \in Dom |-> Val(f, s)]
    BY <1>5
  <2> QED
    BY <1>4, <2>1
<1> QED
  BY <1>6 DEF IsFold

\* What a step keeps, the fold keeps.
LEMMA FoldType ==
  ASSUME NEW S, NEW C, NEW F \in [S \X C -> S], NEW base \in S, NEW seq \in Seq(C),
         NEW f, IsFold(F, base, seq, Len(seq), f)
  PROVE  \A s \in SUBSET (1 .. Len(seq)) : f[s] \in S
<1> DEFINE n == Len(seq)
           Dom == SUBSET (1 .. n)
<1>0. n \in Nat /\ DOMAIN seq = 1 .. n /\ \A k \in 1 .. n : seq[k] \in C
  OBVIOUS
<1> HIDE DEF n
<1>1. \A s \in Dom : f[s] = IF s = {} THEN base ELSE F[<<f[s \ {Max(s)}], seq[Max(s)]>>]
  BY DEF IsFold, n
<1> DEFINE D == {m \in Nat : \A s \in Dom : s \subseteq 1 .. m => f[s] \in S}
<1>2. 0 \in D
  <2>1. \A s \in Dom : s \subseteq 1 .. 0 => s = {}
    OBVIOUS
  <2>2. \A s \in Dom : s = {} => f[s] = base
    BY <1>1
  <2> QED
    BY <2>1, <2>2
<1>3. ASSUME NEW m \in Nat, m \in D PROVE m + 1 \in D
  <2>1. ASSUME NEW s \in Dom, s \subseteq 1 .. (m + 1) PROVE f[s] \in S
    <3>1. CASE s = {}
      BY <1>1, <3>1
    <3>2. CASE s # {}
      <4>1. Max(s) \in s /\ \A x \in s : x <= Max(s)
        BY <1>0, <3>2, LargestElement
      <4>2. s \ {Max(s)} \in Dom
        OBVIOUS
      <4>3. s \ {Max(s)} \subseteq 1 .. m
        <5> SUFFICES ASSUME NEW x \in s, x # Max(s) PROVE x \in 1 .. m
          OBVIOUS
        <5>1. x \in 1 .. (m + 1) /\ Max(s) \in 1 .. (m + 1) /\ x <= Max(s)
          BY <2>1, <4>1
        <5> QED
          BY <5>1
      <4>4. f[s \ {Max(s)}] \in S /\ seq[Max(s)] \in C
        BY <1>0, <1>3, <4>1, <4>2, <4>3
      <4>5. f[s] = F[<<f[s \ {Max(s)}], seq[Max(s)]>>]
        BY <1>1, <3>2
      <4> QED
        BY <4>4, <4>5
    <3> QED
      BY <3>1, <3>2
  <2> QED
    BY <2>1
<1> HIDE DEF D
<1>4. n \in D
  BY <1>0, <1>2, <1>3, Induction
<1>5. \A s \in Dom : f[s] \in S
  BY <1>4 DEF D
<1> QED
  BY <1>5 DEF n

LEMMA WholePrefix ==
  ASSUME NEW n \in Nat, NEW k \in 1 .. n
  PROVE  /\ (1 .. k) \in SUBSET (1 .. n) /\ (1 .. k) # {} /\ Max(1 .. k) = k
         /\ (1 .. k) \ {k} = 1 .. (k - 1)
<1> DEFINE s == 1 .. k
<1>1. s \in SUBSET (1 .. n) /\ s # {} /\ k \in s
  <2>1. k \in s /\ \A x \in s : x \in 1 .. n
    OBVIOUS
  <2> QED
    BY <2>1
<1>2. s \ {k} = 1 .. (k - 1)
  OBVIOUS
<1>3. \A x \in s : x <= k /\ x \in Nat
  OBVIOUS
<1> HIDE DEF s
<1>4. Max(s) \in s /\ \A x \in s : x <= Max(s)
  BY <1>1, LargestElement
<1>5. Max(s) = k
  <2> DEFINE m == Max(s)
  <2>1. m \in Nat /\ m <= k /\ k <= m /\ k \in Nat
    BY <1>1, <1>3, <1>4
  <2> HIDE DEF m
  <2>2. m = k
    BY <2>1
  <2> QED
    BY <2>2 DEF m
<1> QED
  BY <1>1, <1>2, <1>5 DEF s
-----------------------------------------------------------------------------
(* httpdUrlDecode. *)

DecodeState == [out: Seq(Int), esced: {0, 1, 2}, val: Int]
DecodeStart == [out |-> <<>>, esced |-> 0, val |-> 0]
DecodeNext(room, s, c) == IF Len(s.out) < room THEN DecodeStep(s, c) ELSE s

LEMMA HexValType ==
  ASSUME NEW c \in Int
  PROVE  HexVal(c) \in Int
BY DEF HexVal

Midway(o, e, v) == [out |-> o, esced |-> e, val |-> v]

LEMMA AfterMark ==
  ASSUME NEW o, NEW v, NEW c
  PROVE  DecodeStep(Midway(o, 1, v), c) = Midway(o, 2, HexVal(c) * 16)
<1> DEFINE h == HexVal(c)
<1> HIDE DEF h
<1>1. DecodeStep(Midway(o, 1, v), c) = [Midway(o, 1, v) EXCEPT !.esced = 2, !.val = h * 16]
  BY DEF DecodeStep, Midway, h
<1> QED
  BY <1>1 DEF Midway, h

LEMMA AfterDigit ==
  ASSUME NEW o, NEW v, NEW c
  PROVE  DecodeStep(Midway(o, 2, v), c) = Midway(Append(o, v + HexVal(c)), 0, 0)
<1> DEFINE h == HexVal(c)
<1> HIDE DEF h
<1> QED
  BY DEF DecodeStep, Midway, h

LEMMA AtPercent ==
  ASSUME NEW o, NEW v
  PROVE  DecodeStep(Midway(o, 0, v), Percent) = Midway(o, 1, v)
<1> DEFINE s == Midway(o, 0, v)
<1>1. s.esced = 0 /\ s.esced # 1 /\ s.esced # 2
  BY DEF Midway
<1>2. PICK one : one = 1
  OBVIOUS
<1>3. [s EXCEPT !.esced = one] = Midway(o, one, v)
  BY DEF Midway
<1> HIDE DEF s
<1>4. DecodeStep(s, Percent) = [s EXCEPT !.esced = one]
  BY <1>1, <1>2, SMT DEF DecodeStep, Percent, Plus
<1> QED
  BY <1>2, <1>3, <1>4 DEF s

LEMMA AtPlus ==
  ASSUME NEW o, NEW v
  PROVE  DecodeStep(Midway(o, 0, v), Plus) = Midway(Append(o, Space), 0, v)
<1>1. DecodeStep(Midway(o, 0, v), Plus) = [Midway(o, 0, v) EXCEPT !.out = Append(@, Space)]
  BY DEF DecodeStep, Midway, Plus, Percent
<1> QED
  BY <1>1 DEF Midway

LEMMA AtPlain ==
  ASSUME NEW o, NEW v, NEW c, c # Percent, c # Plus
  PROVE  DecodeStep(Midway(o, 0, v), c) = Midway(Append(o, c), 0, v)
<1>1. DecodeStep(Midway(o, 0, v), c) = [Midway(o, 0, v) EXCEPT !.out = Append(@, c)]
  BY DEF DecodeStep, Midway
<1> QED
  BY <1>1 DEF Midway

LEMMA DecodeStepType ==
  ASSUME NEW s \in DecodeState, NEW c \in Int
  PROVE  DecodeStep(s, c) \in DecodeState
<1> DEFINE o == s.out
           v == s.val
<1>1. o \in Seq(Int) /\ v \in Int /\ s.esced \in {0, 1, 2} /\ s = Midway(o, s.esced, v)
  BY DEF DecodeState, Midway
<1>2. HexVal(c) \in Int
  BY HexValType
<1> HIDE DEF o, v
<1>3. \A p \in Seq(Int), e \in {0, 1, 2}, w \in Int : Midway(p, e, w) \in DecodeState
  BY DEF Midway, DecodeState
<1>4. CASE s.esced = 1
  <2>1. DecodeStep(s, c) = Midway(o, 2, HexVal(c) * 16)
    BY <1>1, <1>4, AfterMark
  <2> QED
    BY <1>1, <1>2, <1>3, <2>1
<1>5. CASE s.esced = 2
  <2>1. DecodeStep(s, c) = Midway(Append(o, v + HexVal(c)), 0, 0)
    BY <1>1, <1>5, AfterDigit
  <2>2. Append(o, v + HexVal(c)) \in Seq(Int)
    BY <1>1, <1>2
  <2>3. Midway(Append(o, v + HexVal(c)), 0, 0) \in DecodeState
    <3> DEFINE a == Append(o, v + HexVal(c))
    <3> HIDE DEF a
    <3>1. a \in Seq(Int) => Midway(a, 0, 0) \in DecodeState
      BY <1>3
    <3> QED
      BY <2>2, <3>1 DEF a
  <2> QED
    BY <2>1, <2>3
<1>6. CASE s.esced = 0 /\ c = Percent
  <2>1. DecodeStep(s, c) = Midway(o, 1, v)
    BY <1>1, <1>6, AtPercent
  <2> QED
    BY <1>1, <1>3, <2>1
<1>7. CASE s.esced = 0 /\ c = Plus
  <2>1. DecodeStep(s, c) = Midway(Append(o, Space), 0, v)
    BY <1>1, <1>7, AtPlus
  <2>2. Append(o, Space) \in Seq(Int)
    BY <1>1 DEF Space
  <2> QED
    BY <1>1, <1>3, <2>1, <2>2
<1>8. CASE s.esced = 0 /\ c # Percent /\ c # Plus
  <2>1. DecodeStep(s, c) = Midway(Append(o, c), 0, v)
    BY <1>1, <1>8, AtPlain
  <2>2. Append(o, c) \in Seq(Int)
    BY <1>1
  <2> QED
    BY <1>1, <1>3, <2>1, <2>2
<1> QED
  BY <1>1, <1>4, <1>5, <1>6, <1>7, <1>8

IsFieldDecoding(val, room, after) ==
  /\ after \in [0 .. Len(val) -> DecodeState] /\ after[0] = DecodeStart
  /\ \A k \in 1 .. Len(val) : after[k] = DecodeNext(room, after[k - 1], val[k])

\* httpdUrlDecode takes the characters one after the other.
LEMMA UrlDecodeUnfolds ==
  ASSUME NEW val \in Seq(Int), NEW room \in Nat
  PROVE  \E after : IsFieldDecoding(val, room, after) /\ UrlDecode(val, room) = after[Len(val)].out
<1> DEFINE F == [p \in DecodeState \X Int |-> DecodeNext(room, p[1], p[2])]
           It(f) == f = [s \in SUBSET DOMAIN val |->
                           IF s = {} THEN DecodeStart
                           ELSE DecodeNext(room, f[s \ {Max(s)}], val[Max(s)])]
           iter == CHOOSE f : It(f)
<1>1. F \in [DecodeState \X Int -> DecodeState]
  BY DecodeStepType DEF DecodeNext
<1>2. DecodeStart \in DecodeState
  BY DEF DecodeStart, DecodeState
<1>3. DOMAIN val = 1 .. Len(val) /\ Len(val) \in Nat /\ \A k \in 1 .. Len(val) : val[k] \in Int
  OBVIOUS
<1>4. UrlDecode(val, room) = iter[DOMAIN val].out
  BY DEF UrlDecode, FoldLeft, MapThenFoldSet, DecodeNext, DecodeStart
<1>5. \A s \in DecodeState, c \in Int : F[<<s, c>>] = DecodeNext(room, s, c)
  OBVIOUS
<1> HIDE DEF F
<1>6. PICK f : IsFold(F, DecodeStart, val, Len(val), f)
  BY <1>3, FoldExists
<1>7. \A s \in SUBSET (1 .. Len(val)) : f[s] \in DecodeState
  BY <1>1, <1>2, <1>6, FoldType
<1>8. It(f)
  <2>1. ASSUME NEW s \in SUBSET (1 .. Len(val)), s # {}
        PROVE  F[<<f[s \ {Max(s)}], val[Max(s)]>>] = DecodeNext(room, f[s \ {Max(s)}], val[Max(s)])
    <3>1. Max(s) \in 1 .. Len(val)
      BY <1>3, <2>1, LargestElement
    <3>2. f[s \ {Max(s)}] \in DecodeState
      BY <1>7
    <3> QED
      BY <1>3, <1>5, <3>1, <3>2
  <2>2. [s \in SUBSET (1 .. Len(val)) |-> IF s = {} THEN DecodeStart
                                          ELSE F[<<f[s \ {Max(s)}], val[Max(s)]>>]]
         = [s \in SUBSET (1 .. Len(val)) |-> IF s = {} THEN DecodeStart
                                ELSE DecodeNext(room, f[s \ {Max(s)}], val[Max(s)])]
    BY <2>1
  <2> QED
    BY <1>3, <1>6, <2>2 DEF IsFold
<1>9. It(iter)
  BY <1>8
<1> HIDE DEF iter
<1> DEFINE after == [k \in 0 .. Len(val) |-> iter[1 .. k]]
<1>10. after[0] = DecodeStart
  <2>1. 1 .. 0 = {} /\ {} \in SUBSET DOMAIN val
    OBVIOUS
  <2> QED
    BY <1>3, <1>9, <2>1
<1>11. ASSUME NEW k \in 1 .. Len(val)
       PROVE  after[k] = DecodeNext(room, after[k - 1], val[k])
  <2>1. iter[1 .. k] = DecodeNext(room, iter[1 .. (k - 1)], val[k])
    <3>1. 1 .. k \in SUBSET DOMAIN val /\ 1 .. k # {}
      BY <1>3, WholePrefix
    <3>2. Max(1 .. k) = k /\ (1 .. k) \ {k} = 1 .. (k - 1)
      BY <1>3, WholePrefix
    <3>3. iter[1 .. k] = DecodeNext(room, iter[(1 .. k) \ {Max(1 .. k)}], val[Max(1 .. k)])
      BY <1>9, <3>1
    <3> QED
      BY <3>2, <3>3
  <2>2. k \in 0 .. Len(val) /\ k - 1 \in 0 .. Len(val)
    BY <1>3
  <2> QED
    BY <2>1, <2>2
<1>12. after[Len(val)] = iter[DOMAIN val]
  BY <1>3
<1>13. DOMAIN after = 0 .. Len(val) /\ after = [k \in 0 .. Len(val) |-> after[k]]
  OBVIOUS
<1> HIDE DEF after
<1> DEFINE D == {k \in Nat : k <= Len(val) => after[k] \in DecodeState}
<1>14. 0 \in D
  BY <1>2, <1>10
<1>15. ASSUME NEW k \in Nat, k \in D PROVE k + 1 \in D
  <2> SUFFICES ASSUME k + 1 <= Len(val) PROVE after[k + 1] \in DecodeState
    OBVIOUS
  <2>1. after[k] \in DecodeState /\ k + 1 \in 1 .. Len(val) /\ (k + 1) - 1 = k
    BY <1>3, <1>15
  <2>2. after[k + 1] = DecodeNext(room, after[k], val[k + 1]) /\ val[k + 1] \in Int
    BY <1>3, <1>11, <2>1
  <2> QED
    BY <2>1, <2>2, DecodeStepType DEF DecodeNext
<1> HIDE DEF D
<1>16. \A k \in 0 .. Len(val) : after[k] \in DecodeState
  <2>1. Nat \subseteq D
    BY <1>14, <1>15, Induction
  <2>2. \A k \in 0 .. Len(val) : k \in Nat /\ k <= Len(val)
    BY <1>3
  <2> QED
    BY <2>1, <2>2 DEF D
<1>17. IsFieldDecoding(val, room, after)
  BY <1>10, <1>11, <1>13, <1>16 DEF IsFieldDecoding
<1> QED
  BY <1>4, <1>12, <1>17

\* What a browser makes of one character.
Escaped(c) ==
  IF c = Space THEN <<Plus>>
  ELSE IF c \in 48 .. 57 \cup 65 .. 90 \cup 97 .. 122 THEN <<c>>
  ELSE <<Percent, HexDigit(c \div 16), HexDigit(c % 16)>>

LEMMA HexDigitInverse ==
  ASSUME NEW v \in 0 .. 15
  PROVE  HexDigit(v) \in 48 .. 70 /\ HexVal(HexDigit(v)) = v
<1>1. CASE v < 10
  BY <1>1 DEF HexDigit, HexVal
<1>2. CASE v >= 10
  BY <1>2 DEF HexDigit, HexVal
<1> QED
  BY <1>1, <1>2

LEMMA OctetDigits ==
  ASSUME NEW c \in Octets
  PROVE  c \div 16 \in 0 .. 15 /\ c % 16 \in 0 .. 15 /\ (c \div 16) * 16 + (c % 16) = c
<1>1. c \in Int /\ 0 <= c /\ c <= 255
  BY DEF Octets
<1>2. c \div 16 \in Int /\ c % 16 \in 0 .. 15
  BY <1>1, Z3
<1>3. c % 16 = c - 16 * (c \div 16)
  BY <1>1, Division
<1> DEFINE q == c \div 16
           r == c % 16
<1> HIDE DEF q, r
<1>4. c = q * 16 + r
  BY <1>1, <1>2, <1>3 DEF q, r
<1>5. 0 <= q /\ q <= 15
  <2>1. q \in Int /\ r \in 0 .. 15
    BY <1>2 DEF q, r
  <2> QED
    BY <1>1, <1>4, <2>1
<1>6. q \in 0 .. 15 /\ r \in 0 .. 15 /\ q * 16 + r = c
  <2>1. q \in Int /\ r \in 0 .. 15
    BY <1>2 DEF q, r
  <2> QED
    BY <1>4, <1>5, <2>1
<1> QED
  BY <1>6, Zenon DEF q, r

\* No character of an encoded value ends the field.
LEMMA EscapedCells ==
  ASSUME NEW c \in Octets
  PROVE  /\ Escaped(c) \in Seq(Octets \ {Amp}) /\ Len(Escaped(c)) \in {1, 3}
         /\ Len(Escaped(c)) = 3 => c # Space /\ Escaped(c) =
              <<Percent, HexDigit(c \div 16), HexDigit(c % 16)>>
         /\ Len(Escaped(c)) = 1 =>
              Escaped(c)[1] = (IF c = Space THEN Plus ELSE c) /\ c # Percent /\ c # Plus
<1>1. HexDigit(c \div 16) \in Octets \ {Amp} /\ HexDigit(c % 16) \in Octets \ {Amp}
  <2>1. HexDigit(c \div 16) \in 48 .. 70 /\ HexDigit(c % 16) \in 48 .. 70
    BY OctetDigits, HexDigitInverse
  <2> QED
    BY <2>1 DEF Octets, Amp
<1> DEFINE x == HexDigit(c \div 16)
           y == HexDigit(c % 16)
<1>2. CASE c = Space
  <2>1. Escaped(c) = <<Plus>>
    BY <1>2 DEF Escaped
  <2>2. Plus \in Octets \ {Amp} /\ Space # Percent /\ Space # Plus
    BY DEF Octets, Amp, Plus, Space, Percent
  <2>3. <<Plus>> \in Seq(Octets \ {Amp}) /\ Len(<<Plus>>) = 1 /\ <<Plus>>[1] = Plus
    BY <2>2
  <2> QED
    BY <1>2, <2>1, <2>2, <2>3
<1>3. CASE c # Space /\ c \in 48 .. 57 \cup 65 .. 90 \cup 97 .. 122
  <2>1. Escaped(c) = <<c>>
    BY <1>3 DEF Escaped
  <2> QED
    BY <1>3, <2>1 DEF Octets, Amp, Plus, Percent
<1>4. CASE c # Space /\ ~(c \in 48 .. 57 \cup 65 .. 90 \cup 97 .. 122)
  <2>1. Escaped(c) = <<Percent, x, y>>
    BY <1>4 DEF Escaped
  <2>2. Percent \in Octets \ {Amp}
    BY DEF Octets, Amp, Percent
  <2> HIDE DEF x, y
  <2>3. <<Percent, x, y>> \in Seq(Octets \ {Amp}) /\ Len(<<Percent, x, y>>) = 3
    BY <1>1, <2>2 DEF x, y
  <2> QED
    BY <1>4, <2>1, <2>3 DEF x, y
<1> QED
  BY <1>2, <1>3, <1>4

LEMMA EncodedIsFlat ==
  ASSUME NEW value \in Seq(Octets)
  PROVE  /\ Encoded(value) \in Seq(Octets \ {Amp})
         /\ \E at : IsCut([k \in 1 .. Len(value) |-> Escaped(value[k])], Encoded(value), at)
<1> DEFINE ss == [k \in 1 .. Len(value) |-> Escaped(value[k])]
<1>1. \A k \in 1 .. Len(value) : Escaped(value[k]) \in Seq(Octets \ {Amp})
  BY EscapedCells
<1>2. ss \in Seq(Seq(Octets \ {Amp}))
  BY <1>1
<1>3. Encoded(value) = FlattenSeq(ss)
  BY DEF Encoded, Escaped
<1> HIDE DEF ss
<1> QED
  BY <1>2, <1>3, FlattenCut DEF ss

\* One character of the value, when the buffer has room for it.
LEMMA CharDecoded ==
  ASSUME NEW val \in Seq(Int), NEW room \in Nat, NEW after, IsFieldDecoding(val, room, after),
         NEW a \in Nat, NEW c \in Octets, a + Len(Escaped(c)) <= Len(val),
         \A j \in 1 .. Len(Escaped(c)) : val[a + j] = Escaped(c)[j],
         NEW o \in Seq(Octets), after[a] = Midway(o, 0, 0)
  PROVE  after[a + Len(Escaped(c))]
           = Midway(IF Len(o) < room THEN Append(o, c) ELSE o, 0, 0)
<1> DEFINE e == Escaped(c)
<1>1. Len(val) \in Nat /\ \A k \in 1 .. Len(val) : after[k] = DecodeNext(room, after[k - 1], val[k])
  BY DEF IsFieldDecoding
<1>2. Len(e) \in {1, 3}
  BY EscapedCells
<1>3. \A p, x, w : Midway(p, x, w).out = p
  BY DEF Midway
<1>4. ASSUME NEW j \in 1 .. Len(e)
      PROVE  after[a + j] = DecodeNext(room, after[a + (j - 1)], e[j])
  <2>1. a + j \in 1 .. Len(val) /\ (a + j) - 1 = a + (j - 1)
    BY <1>1, <1>2
  <2> QED
    BY <1>1, <2>1
<1>5. CASE Len(o) < room /\ Len(e) = 1
  <2>1. e[1] = (IF c = Space THEN Plus ELSE c) /\ c # Percent /\ c # Plus
    BY <1>5, EscapedCells
  <2>2. after[a + 1] = DecodeStep(Midway(o, 0, 0), e[1])
    <3>1. 1 \in 1 .. Len(e) /\ a + (1 - 1) = a
      BY <1>5
    <3>2. after[a + 1] = DecodeNext(room, after[a], e[1])
      BY <1>4, <3>1
    <3> QED
      BY <1>3, <1>5, <3>2 DEF DecodeNext
  <2>3. DecodeStep(Midway(o, 0, 0), e[1]) = Midway(Append(o, c), 0, 0)
    <3>1. CASE c = Space
      BY <2>1, <3>1, AtPlus
    <3>2. CASE c # Space
      BY <2>1, <3>2, AtPlain
    <3> QED
      BY <3>1, <3>2
  <2> QED
    BY <1>5, <2>2, <2>3
<1>6. CASE Len(o) < room /\ Len(e) = 3
  <2> DEFINE x == HexDigit(c \div 16)
             y == HexDigit(c % 16)
  <2>1. e[1] = Percent /\ e[2] = x /\ e[3] = y
    BY <1>6, EscapedCells
  <2>2. HexVal(x) * 16 + HexVal(y) = c
    <3> DEFINE q == c \div 16
               r == c % 16
    <3>1. q \in 0 .. 15 /\ r \in 0 .. 15 /\ q * 16 + r = c
      BY OctetDigits
    <3> HIDE DEF q, r
    <3>2. HexVal(HexDigit(q)) = q /\ HexVal(HexDigit(r)) = r
      BY <3>1, HexDigitInverse
    <3> QED
      BY <3>1, <3>2 DEF q, r
  <2> HIDE DEF x, y
  <2>3. after[a + 1] = Midway(o, 1, 0)
    <3>1. 1 \in 1 .. Len(e) /\ a + (1 - 1) = a
      BY <1>6
    <3>2. after[a + 1] = DecodeNext(room, after[a], e[1])
      BY <1>4, <3>1
    <3>3. after[a + 1] = DecodeStep(Midway(o, 0, 0), Percent)
      BY <1>3, <1>6, <2>1, <3>2 DEF DecodeNext
    <3> QED
      BY <3>3, AtPercent
  <2>4. after[a + 2] = Midway(o, 2, HexVal(x) * 16)
    <3>1. 2 \in 1 .. Len(e) /\ a + (2 - 1) = a + 1
      BY <1>6
    <3>2. after[a + 2] = DecodeNext(room, after[a + 1], e[2])
      BY <1>4, <3>1
    <3>3. after[a + 2] = DecodeStep(Midway(o, 1, 0), x)
      BY <1>3, <1>6, <2>1, <2>3, <3>2 DEF DecodeNext
    <3> QED
      BY <3>3, AfterMark
  <2>5. after[a + 3] = Midway(Append(o, HexVal(x) * 16 + HexVal(y)), 0, 0)
    <3>1. 3 \in 1 .. Len(e) /\ a + (3 - 1) = a + 2
      BY <1>6
    <3>2. after[a + 3] = DecodeNext(room, after[a + 2], e[3])
      BY <1>4, <3>1
    <3>3. after[a + 3] = DecodeStep(Midway(o, 2, HexVal(x) * 16), y)
      BY <1>3, <1>6, <2>1, <2>4, <3>2 DEF DecodeNext
    <3> QED
      BY <3>3, AfterDigit
  <2> QED
    BY <1>6, <2>2, <2>5
<1>7. CASE ~(Len(o) < room)
  <2> DEFINE D == {j \in Nat : j <= Len(e) => after[a + j] = Midway(o, 0, 0)}
  <2>1. 0 \in D
    OBVIOUS
  <2>2. ASSUME NEW j \in Nat, j \in D PROVE j + 1 \in D
    <3> SUFFICES ASSUME j + 1 <= Len(e) PROVE after[a + (j + 1)] = Midway(o, 0, 0)
      OBVIOUS
    <3>1. j + 1 \in 1 .. Len(e) /\ (j + 1) - 1 = j /\ j <= Len(e)
      BY <1>2
    <3>2. after[a + (j + 1)] = DecodeNext(room, after[a + j], e[j + 1])
      BY <1>4, <3>1
    <3>3. after[a + j] = Midway(o, 0, 0)
      BY <2>2, <3>1
    <3> QED
      BY <1>3, <1>7, <3>2, <3>3 DEF DecodeNext
  <2> HIDE DEF D
  <2>3. Len(e) \in D
    BY <1>2, <2>1, <2>2, Induction
  <2> QED
    BY <1>2, <1>7, <2>3 DEF D
<1> QED
  BY <1>2, <1>5, <1>6, <1>7

\* httpdUrlDecode gives back the value a browser encoded, cut to the buffer.
THEOREM DecodeUndoesEncoding ==
  ASSUME NEW value \in Seq(Octets), NEW room \in Nat
  PROVE  UrlDecode(Encoded(value), room) = SubSeq(value, 1, Min({Len(value), room}))
<1> DEFINE n  == Len(value)
           e  == Encoded(value)
           ss == [k \in 1 .. n |-> Escaped(value[k])]
           kept(k) == SubSeq(value, 1, IF k <= room THEN k ELSE room)
<1>1. n \in Nat /\ \A k \in 1 .. n : value[k] \in Octets
  OBVIOUS
<1>2. e \in Seq(Int)
  <2>1. e \in Seq(Octets \ {Amp})
    BY EncodedIsFlat
  <2>2. \A x \in Octets \ {Amp} : x \in Int
    BY DEF Octets
  <2> HIDE DEF e
  <2> QED
    BY <2>1, <2>2
<1>3. PICK at : IsCut(ss, e, at)
  BY EncodedIsFlat
<1>4. PICK after : IsFieldDecoding(e, room, after) /\ UrlDecode(e, room) = after[Len(e)].out
  BY <1>2, UrlDecodeUnfolds
<1>5. /\ at \in [0 .. n -> Nat] /\ at[0] = 0 /\ at[n] = Len(e)
      /\ \A k \in 1 .. n : /\ at[k] = at[k - 1] + Len(Escaped(value[k])) /\ at[k] <= Len(e)
                           /\ \A j \in 1 .. Len(Escaped(value[k])) :
                                e[at[k - 1] + j] = Escaped(value[k])[j]
  <2>1. Len(ss) = n /\ \A k \in 1 .. n : ss[k] = Escaped(value[k])
    OBVIOUS
  <2> HIDE DEF ss, n, e
  <2> QED
    BY <1>3, <2>1 DEF IsCut
<1> HIDE DEF n, e, ss
<1> DEFINE D == {k \in Nat : k <= n => after[at[k]] = Midway(kept(k), 0, 0)}
<1>6. 0 \in D
  <2>1. kept(0) = <<>>
    OBVIOUS
  <2> QED
    BY <1>4, <1>5, <2>1 DEF IsFieldDecoding, DecodeStart, Midway
<1>7. ASSUME NEW k \in Nat, k \in D PROVE k + 1 \in D
  <2> SUFFICES ASSUME k + 1 <= n PROVE after[at[k + 1]] = Midway(kept(k + 1), 0, 0)
    OBVIOUS
  <2> DEFINE c == value[k + 1]
             o == kept(k)
             a == at[k]
             m == IF k <= room THEN k ELSE room
  <2>1. after[a] = Midway(o, 0, 0)
    BY <1>1, <1>7
  <2>2. m \in Nat /\ m <= Len(value) /\ m < Len(value)
    BY <1>1 DEF n
  <2>3. o \in Seq(Octets) /\ Len(o) = m
    BY <2>2, Beginning
  <2>4. k + 1 \in 1 .. n /\ (k + 1) - 1 = k /\ k \in 0 .. n
    BY <1>1
  <2>5. c \in Octets /\ a \in Nat
    BY <1>1, <1>5, <2>4
  <2>6. /\ at[k + 1] = a + Len(Escaped(c)) /\ a + Len(Escaped(c)) <= Len(e)
        /\ \A j \in 1 .. Len(Escaped(c)) : e[a + j] = Escaped(c)[j]
    BY <1>5, <2>4
  <2>7. kept(k + 1) = IF m < room THEN Append(o, c) ELSE o
    <3>1. CASE k < room
      <4>1. kept(k + 1) = SubSeq(value, 1, k + 1) /\ o = SubSeq(value, 1, k) /\ m = k
        BY <3>1
      <4>2. k < Len(value)
        BY <1>1 DEF n
      <4>3. SubSeq(value, 1, k + 1) = Append(SubSeq(value, 1, k), value[k + 1])
        BY <4>2, OneMore
      <4> HIDE DEF o, m
      <4> QED
        BY <3>1, <4>1, <4>3
    <3>2. CASE ~(k < room)
      <4>1. kept(k + 1) = SubSeq(value, 1, room) /\ m = room
        BY <3>2
      <4>2. o = SubSeq(value, 1, room)
        BY <3>2
      <4> HIDE DEF o, m
      <4> QED
        BY <3>2, <4>1, <4>2
    <3> QED
      BY <3>1, <3>2
  <2> HIDE DEF c, o, a, m, kept
  <2>8. after[a + Len(Escaped(c))] = Midway(IF Len(o) < room THEN Append(o, c) ELSE o, 0, 0)
    <3>1. IsFieldDecoding(e, room, after)
      BY <1>4
    <3>2. o \in Seq(Octets)
      BY <2>3
    <3>3. a + Len(Escaped(c)) <= Len(e) /\ \A j \in 1 .. Len(Escaped(c)) : e[a + j] = Escaped(c)[j]
      BY <2>6
    <3> QED
      BY <1>2, <2>1, <2>5, <3>1, <3>2, <3>3, CharDecoded
  <2> QED
    BY <2>3, <2>6, <2>7, <2>8
<1> HIDE DEF D
<1>8. n \in D
  BY <1>1, <1>6, <1>7, Induction
<1>9. UrlDecode(e, room) = kept(n)
  <2>1. after[at[n]] = Midway(kept(n), 0, 0)
    BY <1>1, <1>8 DEF D
  <2> HIDE DEF kept
  <2> QED
    BY <1>4, <1>5, <2>1 DEF Midway
<1>10. Min({n, room}) = IF n <= room THEN n ELSE room
  BY <1>1, SmallerOfTwo
<1> QED
  BY <1>9, <1>10 DEF e, n
-----------------------------------------------------------------------------
(* httpdFindArg. *)

LEMMA LeastIs ==
  ASSUME NEW S \in SUBSET Nat, NEW m \in S, \A x \in S : m <= x
  PROVE  Min(S) = m
<1> DEFINE l == Min(S)
<1>1. l \in S /\ \A x \in S : l <= x
  BY Smallest
<1> HIDE DEF l
<1>2. l = m
  BY <1>1
<1> QED
  BY <1>2 DEF l

\* Places that do not go down: every place up to the last is behind one of
\* them and not behind the next.
Rising(at, n) == /\ at \in [0 .. n -> Nat] /\ at[0] = 0
                 /\ \A k \in 1 .. n : at[k - 1] <= at[k]

LEMMA RisingOrder ==
  ASSUME NEW n \in Nat, NEW at, Rising(at, n), NEW i \in 0 .. n, NEW k \in 0 .. n, i <= k
  PROVE  at[i] <= at[k]
<1> DEFINE D == {d \in Nat : i + d <= n => at[i] <= at[i + d]}
<1>1. 0 \in D
  BY DEF Rising
<1>2. ASSUME NEW d \in Nat, d \in D PROVE d + 1 \in D
  <2> SUFFICES ASSUME i + (d + 1) <= n PROVE at[i] <= at[i + (d + 1)]
    OBVIOUS
  <2>1. i + d <= n /\ i + (d + 1) \in 1 .. n /\ (i + (d + 1)) - 1 = i + d /\ i + d \in 0 .. n
    OBVIOUS
  <2>2. at[i] <= at[i + d] /\ at[i + d] <= at[i + (d + 1)]
    BY <1>2, <2>1 DEF Rising
  <2>3. at[i] \in Nat /\ at[i + d] \in Nat /\ at[i + (d + 1)] \in Nat
    BY <2>1 DEF Rising
  <2> QED
    BY <2>2, <2>3
<1> HIDE DEF D
<1>3. k - i \in D
  BY <1>1, <1>2, Induction
<1> QED
  BY <1>3 DEF D

LEMMA RisingPlace ==
  ASSUME NEW n \in Nat, NEW at, Rising(at, n), NEW p \in 1 .. at[n]
  PROVE  \E k \in 1 .. n : at[k - 1] < p /\ p <= at[k]
<1> DEFINE D == {m \in Nat : m <= n /\ p <= at[m] =>
                     \E k \in 1 .. n : at[k - 1] < p /\ p <= at[k]}
<1>0. p \in Nat /\ p >= 1 /\ \A m \in 0 .. n : at[m] \in Nat
  BY DEF Rising
<1>1. 0 \in D
  BY <1>0 DEF Rising
<1>2. ASSUME NEW m \in Nat, m \in D PROVE m + 1 \in D
  <2> SUFFICES ASSUME m + 1 <= n, p <= at[m + 1]
               PROVE  \E k \in 1 .. n : at[k - 1] < p /\ p <= at[k]
    OBVIOUS
  <2>1. CASE p <= at[m]
    BY <1>2, <2>1
  <2>2. CASE ~(p <= at[m])
    <3>1. m + 1 \in 1 .. n /\ (m + 1) - 1 = m /\ m \in 0 .. n
      OBVIOUS
    <3>2. at[m] < p
      BY <1>0, <2>2, <3>1
    <3> QED
      BY <3>1, <3>2
  <2> QED
    BY <2>1, <2>2
<1> HIDE DEF D
<1>3. n \in D
  BY <1>1, <1>2, Induction
<1> QED
  BY <1>0, <1>3 DEF D

NameChars == Octets \ {Amp, Equals}
FieldType == [name: Seq(NameChars), value: Seq(Octets)]

\* A field as it stands in the line, and where: k-th of the fields, its name
\* begins at b.
FieldText(fields, k) ==
  (IF k = 1 THEN <<>> ELSE <<Amp>>)
    \o fields[k].name \o <<Equals>> \o Encoded(fields[k].value)

FieldBegin(at, k) == at[k - 1] + (IF k = 1 THEN 1 ELSE 2)

FieldAt(line, at, k, name, code) ==
  LET b == FieldBegin(at, k) IN
  /\ at[k] = b + Len(name) + Len(code)
  /\ k # 1 => line[at[k - 1] + 1] = Amp
  /\ \A j \in 1 .. Len(name) : line[b + j - 1] = name[j]
  /\ line[b + Len(name)] = Equals
  /\ \A j \in 1 .. Len(code) : line[b + Len(name) + j] = code[j]

LEMMA FourPieces ==
  ASSUME NEW X, NEW p \in Seq(X), NEW q \in Seq(X), NEW r \in Seq(X), NEW t \in Seq(X),
         NEW s, s = p \o q \o r \o t
  PROVE  /\ s \in Seq(X) /\ Len(s) = Len(p) + Len(q) + Len(r) + Len(t)
         /\ \A j \in 1 .. Len(p) : s[j] = p[j]
         /\ \A j \in 1 .. Len(q) : s[Len(p) + j] = q[j]
         /\ \A j \in 1 .. Len(r) : s[Len(p) + Len(q) + j] = r[j]
         /\ \A j \in 1 .. Len(t) : s[Len(p) + Len(q) + Len(r) + j] = t[j]
<1> DEFINE u == p \o q
           v == u \o r
<1>1. s = v \o t
  OBVIOUS
<1>2. u = p \o q /\ v = u \o r
  OBVIOUS
<1> HIDE DEF u, v
<1>3. /\ u \in Seq(X) /\ Len(u) = Len(p) + Len(q) /\ Len(p) \in Nat /\ Len(q) \in Nat
      /\ \A k \in 1 .. Len(p) : u[k] = p[k]
      /\ \A k \in 1 .. Len(q) : Len(p) + k \in 1 .. Len(u) /\ u[Len(p) + k] = q[k]
  BY <1>2, ConcatCells
<1>4. /\ v \in Seq(X) /\ Len(v) = Len(u) + Len(r) /\ Len(r) \in Nat
      /\ \A k \in 1 .. Len(u) : v[k] = u[k]
      /\ \A k \in 1 .. Len(r) : Len(u) + k \in 1 .. Len(v) /\ v[Len(u) + k] = r[k]
  <2>1. u \in Seq(X)
    BY <1>3
  <2> QED
    BY <1>2, <2>1, ConcatCells
<1>5. /\ s \in Seq(X) /\ Len(s) = Len(v) + Len(t) /\ Len(t) \in Nat
      /\ \A k \in 1 .. Len(v) : s[k] = v[k]
      /\ \A k \in 1 .. Len(t) : s[Len(v) + k] = t[k]
  <2>1. v \in Seq(X)
    BY <1>4
  <2> QED
    BY <1>1, <2>1, ConcatCells
<1>6. ASSUME NEW j \in 1 .. Len(p) PROVE s[j] = p[j]
  <2>1. j \in 1 .. Len(u) /\ j \in 1 .. Len(v)
    BY <1>3, <1>4
  <2> QED
    BY <1>3, <1>4, <1>5, <2>1
<1>7. ASSUME NEW j \in 1 .. Len(q) PROVE s[Len(p) + j] = q[j]
  <2>1. Len(p) + j \in 1 .. Len(u) /\ Len(p) + j \in 1 .. Len(v)
    BY <1>3, <1>4
  <2> QED
    BY <1>3, <1>4, <1>5, <2>1
<1>8. ASSUME NEW j \in 1 .. Len(r) PROVE s[Len(p) + Len(q) + j] = r[j]
  <2>1. Len(u) + j \in 1 .. Len(v)
    BY <1>4
  <2> QED
    BY <1>3, <1>4, <1>5, <2>1
<1>9. ASSUME NEW j \in 1 .. Len(t) PROVE s[Len(p) + Len(q) + Len(r) + j] = t[j]
  BY <1>3, <1>4, <1>5
<1> QED
  BY <1>3, <1>4, <1>5, <1>6, <1>7, <1>8, <1>9

LEMMA FormLayout ==
  ASSUME NEW fields \in Seq(FieldType)
  PROVE  /\ FormLine(fields) \in Seq(Octets)
         /\ \E at : /\ Rising(at, Len(fields)) /\ at[Len(fields)] = Len(FormLine(fields))
                    /\ \A k \in 1 .. Len(fields) :
                         FieldAt(FormLine(fields), at, k, fields[k].name,
                                 Encoded(fields[k].value))
<1> DEFINE n    == Len(fields)
           ss   == [k \in 1 .. n |-> FieldText(fields, k)]
           line == FormLine(fields)
           sep(k)  == IF k = 1 THEN <<>> ELSE <<Amp>>
           name(k) == fields[k].name
           code(k) == Encoded(fields[k].value)
           pre(k)  == IF k = 1 THEN 0 ELSE 1
<1>1. n \in Nat /\ \A k \in 1 .. n : fields[k] \in FieldType
  OBVIOUS
<1>2. line = FlattenSeq(ss)
  BY DEF FormLine, FieldText
<1>3. ASSUME NEW k \in 1 .. n
      PROVE  /\ sep(k) \in Seq(Octets) /\ name(k) \in Seq(Octets) /\ code(k) \in Seq(Octets)
             /\ <<Equals>> \in Seq(Octets) /\ Len(sep(k)) = pre(k) /\ Len(<<Equals>>) = 1
             /\ <<Equals>>[1] = Equals /\ (k # 1 => sep(k)[1] = Amp)
  <2>1. sep(k) \in Seq(Octets) /\ Len(sep(k)) = pre(k) /\ (k # 1 => sep(k)[1] = Amp)
    <3>1. CASE k = 1
      BY <3>1
    <3>2. CASE k # 1
      BY <3>2 DEF Amp, Octets
    <3> QED
      BY <3>1, <3>2
  <2>2. name(k) \in Seq(Octets)
    BY <1>1 DEF FieldType, NameChars
  <2>3. code(k) \in Seq(Octets)
    <3>1. fields[k].value \in Seq(Octets)
      BY <1>1 DEF FieldType
    <3>2. code(k) \in Seq(Octets \ {Amp})
      BY <3>1, EncodedIsFlat
    <3> HIDE DEF code
    <3> QED
      BY <3>2
  <2>4. <<Equals>> \in Seq(Octets) /\ Len(<<Equals>>) = 1 /\ <<Equals>>[1] = Equals
    BY DEF Equals, Octets
  <2> QED
    BY <2>1, <2>2, <2>3, <2>4
<1>4. ASSUME NEW k \in 1 .. n
      PROVE  LET s == FieldText(fields, k)
                 L == Len(name(k))
             IN  /\ s \in Seq(Octets) /\ Len(s) = pre(k) + L + 1 + Len(code(k))
                 /\ k # 1 => s[1] = Amp
                 /\ \A j \in 1 .. L : s[pre(k) + j] = name(k)[j]
                 /\ s[pre(k) + L + 1] = Equals
                 /\ \A j \in 1 .. Len(code(k)) : s[pre(k) + L + 1 + j] = code(k)[j]
  <2> DEFINE p == sep(k)
             q == name(k)
             r == <<Equals>>
             t == code(k)
             s == FieldText(fields, k)
  <2>1. s = p \o q \o r \o t
    BY DEF FieldText
  <2>2. /\ p \in Seq(Octets) /\ q \in Seq(Octets) /\ r \in Seq(Octets) /\ t \in Seq(Octets)
    BY <1>3
  <2>3. Len(p) = pre(k) /\ Len(r) = 1 /\ r[1] = Equals /\ (k # 1 => p[1] = Amp)
    BY <1>3
  <2> HIDE DEF p, q, r, t, s
  <2>4. /\ s \in Seq(Octets) /\ Len(s) = Len(p) + Len(q) + Len(r) + Len(t)
        /\ \A j \in 1 .. Len(p) : s[j] = p[j]
        /\ \A j \in 1 .. Len(q) : s[Len(p) + j] = q[j]
        /\ \A j \in 1 .. Len(r) : s[Len(p) + Len(q) + j] = r[j]
        /\ \A j \in 1 .. Len(t) : s[Len(p) + Len(q) + Len(r) + j] = t[j]
    BY <2>1, <2>2, FourPieces
  <2>5. k # 1 => s[1] = Amp
    BY <2>3, <2>4
  <2>6. s[Len(p) + Len(q) + 1] = Equals
    BY <2>3, <2>4
  <2>7. /\ s \in Seq(Octets) /\ Len(s) = pre(k) + Len(q) + 1 + Len(t)
        /\ k # 1 => s[1] = Amp
        /\ \A j \in 1 .. Len(q) : s[pre(k) + j] = q[j]
        /\ s[pre(k) + Len(q) + 1] = Equals
        /\ \A j \in 1 .. Len(t) : s[pre(k) + Len(q) + 1 + j] = t[j]
    BY <2>3, <2>4, <2>5, <2>6
  <2> QED
    BY <2>7 DEF q, t, s
<1>5. ss \in Seq(Seq(Octets)) /\ Len(ss) = n /\ \A k \in 1 .. n : ss[k] = FieldText(fields, k)
  <2>1. \A k \in 1 .. n : FieldText(fields, k) \in Seq(Octets)
    BY <1>4
  <2> HIDE DEF n
  <2> QED
    BY <1>1, <2>1
<1> HIDE DEF ss, line
<1>6. line \in Seq(Octets)
  BY <1>2, <1>5, FlattenCut
<1>7. PICK at : IsCut(ss, line, at)
  BY <1>2, <1>5, FlattenCut
<1>8. /\ at \in [0 .. n -> Nat] /\ at[0] = 0 /\ at[n] = Len(line)
      /\ \A k \in 1 .. n : /\ at[k] = at[k - 1] + Len(FieldText(fields, k))
                           /\ \A j \in 1 .. Len(FieldText(fields, k)) :
                                line[at[k - 1] + j] = FieldText(fields, k)[j]
  <2>1. /\ at \in [0 .. Len(ss) -> Nat] /\ at[0] = 0 /\ at[Len(ss)] = Len(line)
        /\ \A k \in 1 .. Len(ss) : /\ at[k] = at[k - 1] + Len(ss[k])
                                   /\ \A j \in 1 .. Len(ss[k]) : line[at[k - 1] + j] = ss[k][j]
    BY <1>7 DEF IsCut
  <2>2. Len(ss) = n /\ \A k \in 1 .. n : ss[k] = FieldText(fields, k)
    BY <1>5
  <2> HIDE DEF n
  <2> QED
    BY <2>1, <2>2
<1> HIDE DEF n
<1>9. ASSUME NEW k \in 1 .. n
      PROVE  FieldAt(line, at, k, name(k), code(k)) /\ at[k - 1] <= at[k]
  <2> DEFINE s == FieldText(fields, k)
             q == name(k)
             t == code(k)
             a == at[k - 1]
             z == pre(k)
  <2>1. a \in Nat /\ at[k] \in Nat
    BY <1>1, <1>8
  <2>2. q \in Seq(Octets) /\ t \in Seq(Octets)
    BY <1>3
  <2>3. /\ s \in Seq(Octets) /\ Len(s) = z + Len(q) + 1 + Len(t)
        /\ k # 1 => s[1] = Amp
        /\ \A j \in 1 .. Len(q) : s[z + j] = q[j]
        /\ s[z + Len(q) + 1] = Equals
        /\ \A j \in 1 .. Len(t) : s[z + Len(q) + 1 + j] = t[j]
    BY <1>4
  <2>4. at[k] = a + Len(s) /\ \A j \in 1 .. Len(s) : line[a + j] = s[j]
    BY <1>8
  <2>5. FieldBegin(at, k) = a + z + 1 /\ z \in {0, 1} /\ (k # 1 => z = 1)
    BY <2>1 DEF FieldBegin
  <2> HIDE DEF s, q, t, a, z
  <2>6. Len(q) \in Nat /\ Len(t) \in Nat
    BY <2>2
  <2>7. k # 1 => line[a + 1] = Amp
    BY <2>3, <2>4, <2>5, <2>6
  <2>8. ASSUME NEW j \in 1 .. Len(q) PROVE line[a + z + 1 + j - 1] = q[j]
    <3>1. z + j \in 1 .. Len(s) /\ a + (z + j) = a + z + 1 + j - 1
      <4>1. j \in Nat /\ 1 <= j /\ j <= Len(q) /\ z \in Nat /\ Len(s) = z + Len(q) + 1 + Len(t)
        BY <2>3, <2>5, <2>6
      <4> QED
        BY <2>1, <2>6, <4>1
    <3> QED
      BY <2>3, <2>4, <3>1
  <2>9. line[a + z + 1 + Len(q)] = Equals
    <3>1. z + Len(q) + 1 \in 1 .. Len(s) /\ a + (z + Len(q) + 1) = a + z + 1 + Len(q)
      BY <2>1, <2>3, <2>5, <2>6
    <3> QED
      BY <2>3, <2>4, <3>1
  <2>10. ASSUME NEW j \in 1 .. Len(t) PROVE line[a + z + 1 + Len(q) + j] = t[j]
    <3>1. z + Len(q) + 1 + j \in 1 .. Len(s) /\ a + (z + Len(q) + 1 + j) = a + z + 1 + Len(q) + j
      BY <2>1, <2>3, <2>5, <2>6
    <3> QED
      BY <2>3, <2>4, <3>1
  <2>11. at[k] = a + z + 1 + Len(q) + Len(t) /\ a <= at[k]
    BY <2>1, <2>3, <2>4, <2>5, <2>6
  <2>12. FieldAt(line, at, k, q, t)
    BY <2>5, <2>7, <2>8, <2>9, <2>10, <2>11 DEF FieldAt, a
  <2> QED
    BY <2>11, <2>12 DEF q, t, a
<1>10. Rising(at, n)
  BY <1>8, <1>9 DEF Rising
<1> QED
  BY <1>6, <1>8, <1>9, <1>10 DEF n, line

\* IsPrefix, character by character.
PrefixByCells(s, t) ==
  IsPrefix(s, t) <=> Len(s) <= Len(t) /\ \A j \in 1 .. Len(s) : s[j] = t[j]

LEMMA PrefixCells ==
  ASSUME NEW X, NEW s \in Seq(X), NEW t \in Seq(X)
  PROVE  PrefixByCells(s, t)
<1> SUFFICES IsPrefix(s, t) <=> Len(s) <= Len(t) /\ \A j \in 1 .. Len(s) : s[j] = t[j]
  BY DEF PrefixByCells
<1>1. Len(s) \in Nat /\ Len(t) \in Nat
  OBVIOUS
<1> DEFINE u == SubSeq(s, 1, Len(s))
           v == SubSeq(t, 1, Len(s))
<1>2. u \in Seq(X) /\ Len(u) = Len(s) /\ \A k \in 1 .. Len(s) : u[k] = s[k]
  BY <1>1, Beginning
<1>3. CASE Len(s) <= Len(t)
  <2>1. v \in Seq(X) /\ Len(v) = Len(s) /\ \A k \in 1 .. Len(s) : v[k] = t[k]
    BY <1>1, <1>3, Beginning
  <2>2. IsPrefix(s, t) <=> u = v
    BY <1>3 DEF IsPrefix
  <2> HIDE DEF u, v
  <2>3. u = v <=> \A k \in 1 .. Len(s) : u[k] = v[k]
    BY <1>1, <1>2, <2>1, SeqEqual
  <2>4. (\A k \in 1 .. Len(s) : u[k] = v[k]) <=> \A k \in 1 .. Len(s) : s[k] = t[k]
    BY <1>2, <2>1
  <2> QED
    BY <1>3, <2>2, <2>3, <2>4
<1>4. CASE ~(Len(s) <= Len(t))
  BY <1>4 DEF IsPrefix
<1> QED
  BY <1>3, <1>4

\* arg= at the place p, character by character.
LEMMA IsArgCells ==
  ASSUME NEW line \in Seq(Octets), NEW p \in 1 .. Len(line), NEW arg \in Seq(Octets)
  PROVE  IsArg(line, p, arg) <=>
           /\ p + Len(arg) <= Len(line)
           /\ \A j \in 1 .. Len(arg) : line[p + j - 1] = arg[j]
           /\ line[p + Len(arg)] = Equals
<1> DEFINE w == Append(arg, Equals)
           m == Len(arg)
           r == SubSeq(line, p, Len(line))
<1>1. m \in Nat /\ Len(line) \in Nat /\ p \in Nat /\ 1 <= p /\ p <= Len(line)
  OBVIOUS
<1>2. w \in Seq(Octets) /\ Len(w) = m + 1 /\ w[m + 1] = Equals
      /\ \A j \in 1 .. m : w[j] = arg[j]
  BY DEF Equals, Octets
<1>3. /\ r \in Seq(Octets) /\ Len(r) = Len(line) - p + 1
      /\ \A k \in 1 .. (Len(line) - p + 1) : r[k] = line[p + k - 1]
  BY <1>1, Slice
<1>4. IsArg(line, p, arg) <=> IsPrefix(w, r)
  BY DEF IsArg
<1> HIDE DEF w, m, r
<1>5. IsPrefix(w, r) <=> Len(w) <= Len(r) /\ \A j \in 1 .. Len(w) : w[j] = r[j]
  <2>1. w \in Seq(Octets)
    BY <1>2
  <2>2. r \in Seq(Octets)
    BY <1>3
  <2>3. PrefixByCells(w, r)
    BY <2>1, <2>2, PrefixCells
  <2> QED
    BY <2>3 DEF PrefixByCells
<1>6. Len(w) <= Len(r) <=> p + m <= Len(line)
  BY <1>1, <1>2, <1>3
<1>7. ASSUME p + m <= Len(line)
      PROVE  (\A j \in 1 .. Len(w) : w[j] = r[j])
               <=> (\A j \in 1 .. m : line[p + j - 1] = arg[j]) /\ line[p + m] = Equals
  <2>1. ASSUME NEW j \in 1 .. (m + 1) PROVE r[j] = line[p + j - 1]
    <3>1. j \in 1 .. (Len(line) - p + 1)
      BY <1>1, <1>7
    <3> QED
      BY <1>3, <3>1
  <2>2. r[m + 1] = line[p + m]
    <3>1. m + 1 \in 1 .. (m + 1) /\ p + (m + 1) - 1 = p + m
      BY <1>1
    <3> QED
      BY <2>1, <3>1
  <2>3. \A j \in 1 .. m : j \in 1 .. (m + 1)
    BY <1>1
  <2>4. \A j \in 1 .. m : w[j] = r[j] <=> line[p + j - 1] = arg[j]
    BY <1>2, <2>1, <2>3
  <2>5. (\A j \in 1 .. (m + 1) : w[j] = r[j]) <=> (\A j \in 1 .. m : w[j] = r[j]) /\ w[m + 1] = r[m + 1]
    <3>1. \A j \in 1 .. (m + 1) : j \in 1 .. m \/ j = m + 1
      BY <1>1
    <3>2. m + 1 \in 1 .. (m + 1)
      BY <1>1
    <3> QED
      BY <2>3, <3>1, <3>2
  <2> QED
    BY <1>2, <2>2, <2>4, <2>5
<1> QED
  BY <1>4, <1>5, <1>6, <1>7 DEF m

\* One field: it has the name or it has not, and only its beginning begins a
\* field.
LEMMA FieldFacts ==
  ASSUME NEW line \in Seq(Octets), NEW n \in Nat, NEW at, Rising(at, n), at[n] = Len(line),
         NEW k \in 1 .. n, NEW name \in Seq(NameChars), NEW code \in Seq(Octets \ {Amp}),
         FieldAt(line, at, k, name, code), NEW arg \in Seq(NameChars)
  PROVE  /\ FieldBegin(at, k) \in FieldStarts(line)
         /\ IsArg(line, FieldBegin(at, k), arg) <=> name = arg
         /\ \A q \in (at[k - 1] + 1) .. at[k] : line[q] = Amp => k # 1 /\ q = at[k - 1] + 1
         /\ k # 1 => line[at[k - 1] + 1] = Amp
         /\ FieldBegin(at, k) > at[k - 1] /\ FieldBegin(at, k) + Len(name) <= at[k]
<1> DEFINE a == at[k - 1]
           b == FieldBegin(at, k)
           L == Len(name)
           E == Len(code)
           M == Len(arg)
<1>1. a \in Nat /\ at[k] \in Nat /\ at[k] <= Len(line)
  <2>1. k - 1 \in 0 .. n /\ k \in 0 .. n /\ n \in 0 .. n /\ k <= n
    OBVIOUS
  <2>2. at[k] <= at[n]
    BY <2>1, RisingOrder
  <2> QED
    BY <2>1, <2>2 DEF Rising
<1>2. Len(line) \in Nat /\ L \in Nat /\ E \in Nat /\ M \in Nat
  OBVIOUS
<1>3. (k = 1 => b = a + 1) /\ (k # 1 => b = a + 2)
  BY DEF FieldBegin
<1>4. /\ at[k] = b + L + E /\ (k # 1 => line[a + 1] = Amp)
      /\ \A j \in 1 .. L : line[b + j - 1] = name[j]
      /\ line[b + L] = Equals
      /\ \A j \in 1 .. E : line[b + L + j] = code[j]
  BY DEF FieldAt
<1>5. \A j \in 1 .. L : name[j] \in Octets /\ name[j] # Amp /\ name[j] # Equals
  <2>1. \A j \in 1 .. L : name[j] \in NameChars
    OBVIOUS
  <2> QED
    BY <2>1 DEF NameChars
<1>6. \A j \in 1 .. M : arg[j] \in Octets /\ arg[j] # Amp /\ arg[j] # Equals
  <2>1. \A j \in 1 .. M : arg[j] \in NameChars
    OBVIOUS
  <2> QED
    BY <2>1 DEF NameChars
<1>7. \A j \in 1 .. E : code[j] # Amp
  OBVIOUS
<1>8. arg \in Seq(Octets) /\ name \in Seq(Octets)
  BY DEF NameChars
<1>9. Amp # Equals
  BY DEF Amp, Equals
<1>10. k = 1 => a = 0
  BY DEF Rising
<1> HIDE DEF a, b, L, E, M
<1>11. b \in 1 .. Len(line) /\ b + L <= Len(line) /\ b > a /\ b + L <= at[k]
  <2>1. at[k] = b + L + E
    BY <1>4
  <2>2. b \in Nat /\ b > a
    BY <1>1, <1>3
  <2>3. b + L <= at[k] /\ at[k] <= Len(line)
    BY <1>1, <1>2, <2>1, <2>2
  <2> QED
    BY <1>1, <1>2, <2>2, <2>3
<1>12. b \in FieldStarts(line)
  <2>1. CASE k = 1
    BY <1>3, <1>10, <1>11, <2>1 DEF FieldStarts
  <2>2. CASE k # 1
    <3>1. b - 1 = a + 1
      BY <1>1, <1>3, <2>2
    <3> QED
      BY <1>4, <1>11, <2>2, <3>1 DEF FieldStarts
  <2> QED
    BY <2>1, <2>2
<1>13. IsArg(line, b, arg) <=> name = arg
  <2>1. IsArg(line, b, arg) <=> /\ b + M <= Len(line)
                                /\ \A j \in 1 .. M : line[b + j - 1] = arg[j]
                                /\ line[b + M] = Equals
    BY <1>8, <1>11, IsArgCells DEF M
  <2>2. CASE M < L
    <3>1. M + 1 \in 1 .. L /\ b + (M + 1) - 1 = b + M
      BY <1>2, <1>11, <2>2
    <3>2. line[b + M] = name[M + 1] /\ name[M + 1] # Equals
      BY <1>4, <1>5, <3>1
    <3>3. name # arg
      BY <1>2, <2>2 DEF L, M
    <3> QED
      BY <2>1, <3>2, <3>3
  <2>3. CASE M > L
    <3>1. L + 1 \in 1 .. M /\ b + (L + 1) - 1 = b + L
      BY <1>2, <1>11, <2>3
    <3>2. line[b + (L + 1) - 1] = Equals /\ arg[L + 1] # Equals
      BY <1>4, <1>6, <3>1
    <3>3. name # arg
      BY <1>2, <2>3 DEF L, M
    <3> QED
      BY <2>1, <3>1, <3>2, <3>3
  <2>4. CASE M = L
    <3>1. IsArg(line, b, arg) <=> \A j \in 1 .. L : line[b + j - 1] = arg[j]
      BY <1>4, <1>11, <2>1, <2>4
    <3>2. (\A j \in 1 .. L : line[b + j - 1] = arg[j]) <=> \A j \in 1 .. L : name[j] = arg[j]
      BY <1>4
    <3>3. name = arg <=> \A j \in 1 .. L : name[j] = arg[j]
      BY <1>8, <2>4, SeqEqual DEF L, M
    <3> QED
      BY <3>1, <3>2, <3>3
  <2> QED
    BY <1>2, <2>2, <2>3, <2>4
<1>14. ASSUME NEW q \in (a + 1) .. at[k], line[q] = Amp PROVE k # 1 /\ q = a + 1
  <2> SUFFICES ASSUME k = 1 \/ q # a + 1 PROVE FALSE
    OBVIOUS
  <2>1. b <= q /\ q <= b + L + E /\ q \in Nat
    BY <1>1, <1>2, <1>3, <1>4
  <2>2. CASE q < b + L
    <3>1. q - b + 1 \in 1 .. L /\ b + (q - b + 1) - 1 = q
      BY <1>2, <1>11, <2>1, <2>2
    <3>2. line[b + (q - b + 1) - 1] = name[q - b + 1]
      BY <1>4, <3>1
    <3> QED
      BY <1>5, <1>14, <3>1, <3>2
  <2>3. CASE q = b + L
    BY <1>4, <1>9, <1>14, <2>3
  <2>4. CASE q > b + L
    <3>1. q - (b + L) \in 1 .. E /\ b + L + (q - (b + L)) = q
      BY <1>2, <1>11, <2>1, <2>4
    <3>2. line[b + L + (q - (b + L))] = code[q - (b + L)]
      BY <1>4, <3>1
    <3> QED
      BY <1>7, <1>14, <3>1, <3>2
  <2> QED
    BY <1>2, <1>11, <2>1, <2>2, <2>3, <2>4
<1> QED
  BY <1>4, <1>11, <1>12, <1>13, <1>14 DEF a, b, L

\* The fields begin where their texts begin, and nowhere else.
FieldsBegin(line, at, n) ==
  \A k \in 1 .. n : /\ FieldBegin(at, k) \in FieldStarts(line)
                    /\ \A q \in (at[k - 1] + 1) .. at[k] :
                         line[q] = Amp => k # 1 /\ q = at[k - 1] + 1
                    /\ FieldBegin(at, k) <= at[k]

LEMMA StartsAre ==
  ASSUME NEW line \in Seq(Octets), NEW n \in Nat, NEW at, Rising(at, n), at[n] = Len(line),
         FieldsBegin(line, at, n)
  PROVE  \A p \in FieldStarts(line) : \E k \in 1 .. n : p = FieldBegin(at, k)
<1> SUFFICES ASSUME NEW p \in FieldStarts(line)
             PROVE  \E k \in 1 .. n : p = FieldBegin(at, k)
  OBVIOUS
<1>0. \A k \in 0 .. n : at[k] \in Nat
  BY DEF Rising
<1>1. p \in 1 .. Len(line) /\ (p = 1 \/ line[p - 1] = Amp)
  BY DEF FieldStarts
<1>2. CASE p = 1
  <2>1. PICK k \in 1 .. n : at[k - 1] < p /\ p <= at[k]
    BY <1>1, RisingPlace
  <2>2. 1 \in 1 .. n /\ 0 \in 0 .. n
    OBVIOUS
  <2>3. FieldBegin(at, 1) = 1
    BY DEF FieldBegin, Rising
  <2> QED
    BY <1>2, <2>2, <2>3
<1>3. CASE p # 1
  <2>1. p - 1 \in 1 .. at[n] /\ line[p - 1] = Amp
    BY <1>1, <1>3
  <2>2. PICK k \in 1 .. n : at[k - 1] < p - 1 /\ p - 1 <= at[k]
    BY <2>1, RisingPlace
  <2>3. at[k - 1] \in Nat /\ at[k] \in Nat
    BY <1>0
  <2>4. p - 1 \in (at[k - 1] + 1) .. at[k]
    BY <1>1, <2>2, <2>3
  <2>5. k # 1 /\ p - 1 = at[k - 1] + 1
    BY <2>1, <2>4 DEF FieldsBegin
  <2>6. p = FieldBegin(at, k)
    BY <1>1, <2>3, <2>5 DEF FieldBegin
  <2> QED
    BY <2>6
<1> QED
  BY <1>2, <1>3

\* The character that parts the fields stands only in front of the second
\* and the later ones.
Parted(line, n, at) ==
  \A k \in 1 .. n : /\ \A q \in (at[k - 1] + 1) .. at[k] :
                         line[q] = Amp => k # 1 /\ q = at[k - 1] + 1
                    /\ k # 1 => line[at[k - 1] + 1] = Amp
                    /\ FieldBegin(at, k) <= at[k]

ValueEnd(line, from) ==
  LET ends == {q \in from .. Len(line) : line[q] = Amp}
  IN  IF ends = {} THEN Len(line) ELSE Min(ends) - 1

\* Where the value of a field ends.
LEMMA ValueEnds ==
  ASSUME NEW line \in Seq(Octets), NEW n \in Nat, NEW at, Rising(at, n), at[n] = Len(line),
         Parted(line, n, at),
         NEW k \in 1 .. n, NEW from \in Nat, from > at[k - 1] + 1, from <= at[k] + 1
  PROVE  ValueEnd(line, from) = at[k]
<1> SUFFICES LET ends == {q \in from .. Len(line) : line[q] = Amp}
             IN  (IF ends = {} THEN Len(line) ELSE Min(ends) - 1) = at[k]
  BY DEF ValueEnd
<1> DEFINE ends == {q \in from .. Len(line) : line[q] = Amp}
<1>0. /\ \A i \in 0 .. n : at[i] \in Nat
      /\ Len(line) \in Nat /\ k - 1 \in 0 .. n /\ k \in 0 .. n /\ n \in 0 .. n
  BY DEF Rising
<1>1. at[k] <= Len(line)
  <2>1. at[k] <= at[n]
    BY <1>0, RisingOrder
  <2> QED
    BY <2>1
<1>2. ASSUME NEW q \in from .. at[k] PROVE line[q] # Amp
  <2>1. q \in (at[k - 1] + 1) .. at[k] /\ q # at[k - 1] + 1
    BY <1>0
  <2> QED
    BY <2>1 DEF Parted
<1>3. CASE k = n
  <2>1. ends = {}
    BY <1>2, <1>3
  <2> QED
    BY <1>3, <2>1
<1>4. CASE k # n
  <2>1. k + 1 \in 1 .. n /\ (k + 1) - 1 = k /\ k + 1 # 1 /\ k + 1 \in 0 .. n
    BY <1>0, <1>4
  <2>2. line[at[k] + 1] = Amp
    BY <2>1 DEF Parted
  <2>3. at[k] + 1 <= at[k + 1]
    <3>1. FieldBegin(at, k + 1) = at[k] + 2 /\ FieldBegin(at, k + 1) <= at[k + 1]
      BY <2>1 DEF Parted, FieldBegin
    <3> QED
      BY <1>0, <2>1, <3>1
  <2>4. at[k + 1] <= Len(line)
    <3>1. at[k + 1] <= at[n]
      BY <1>0, <2>1, RisingOrder
    <3> QED
      BY <3>1
  <2>5. at[k] + 1 \in ends
    BY <1>0, <2>1, <2>2, <2>3, <2>4
  <2>6. ASSUME NEW q \in ends PROVE at[k] + 1 <= q
    <3>1. q \in from .. Len(line) /\ line[q] = Amp
      OBVIOUS
    <3>2. ~(q \in from .. at[k])
      BY <1>2, <3>1
    <3> QED
      BY <1>0, <3>1, <3>2
  <2>7. ends \in SUBSET Nat
    OBVIOUS
  <2> HIDE DEF ends
  <2>8. Min(ends) = at[k] + 1
    BY <2>5, <2>6, <2>7, LeastIs
  <2> QED
    BY <1>0, <2>5, <2>8 DEF ends
<1> QED
  BY <1>3, <1>4

\* What fits of a value is its length and text, and ends in a zero if it leaves
\* room for one.
LEMMA CutStored ==
  ASSUME NEW v \in Seq(Octets), NEW room \in Nat
  PROVE  [len |-> Len(SubSeq(v, 1, Min({Len(v), room}))),
          buf |-> Stored(SubSeq(v, 1, Min({Len(v), room})), room)]
           = IF Len(v) < room THEN [len |-> Len(v), buf |-> Append(v, 0)]
             ELSE [len |-> room, buf |-> SubSeq(v, 1, room)]
<1> DEFINE out == SubSeq(v, 1, Min({Len(v), room}))
<1>1. Len(v) \in Nat
  OBVIOUS
<1>2. CASE Len(v) < room
  <2>1. Min({Len(v), room}) = Len(v)
    <3>1. {Len(v), room} \in SUBSET Nat /\ Len(v) \in {Len(v), room}
          /\ \A x \in {Len(v), room} : Len(v) <= x
      BY <1>1, <1>2
    <3> QED
      BY <3>1, LeastIs
  <2>2. SubSeq(v, 1, Len(v)) = v
    OBVIOUS
  <2>3. Stored(v, room) = Append(v, 0)
    BY <1>2 DEF Stored
  <2> QED
    BY <1>2, <2>1, <2>2, <2>3
<1>3. CASE ~(Len(v) < room)
  <2>1. Min({Len(v), room}) = room
    <3>1. {Len(v), room} \in SUBSET Nat /\ room \in {Len(v), room}
          /\ \A x \in {Len(v), room} : room <= x
      BY <1>1, <1>3
    <3> QED
      BY <3>1, LeastIs
  <2>2. Len(SubSeq(v, 1, room)) = room
    BY <1>1, <1>3
  <2>3. Stored(SubSeq(v, 1, room), room) = SubSeq(v, 1, room)
    BY <2>2 DEF Stored
  <2> QED
    BY <1>3, <2>1, <2>2, <2>3
<1> QED
  BY <1>2, <1>3

\* httpdFindArg gives back the value a browser encoded for the first field
\* with the name: whole and zero-terminated when it is shorter than the buffer,
\* else what fills the buffer, with no terminator; and it finds nothing when
\* there is no such field.
THEOREM ArgIsFound ==
  ASSUME NEW fields \in Seq(FieldType), NEW arg \in Seq(NameChars), NEW room \in Nat
  PROVE  FindArg(FormLine(fields), arg, room) = ArgWanted(fields, arg, room)
<1> DEFINE n    == Len(fields)
           line == FormLine(fields)
           name(k) == fields[k].name
           code(k) == Encoded(fields[k].value)
           hits == {p \in FieldStarts(line) : IsArg(line, p, arg)}
           want == {k \in 1 .. n : fields[k].name = arg}
<1>1. n \in Nat /\ \A k \in 1 .. n : /\ fields[k] \in FieldType /\ name(k) \in Seq(NameChars)
                                     /\ fields[k].value \in Seq(Octets)
  <2>1. \A k \in 1 .. n : fields[k] \in FieldType
    OBVIOUS
  <2> QED
    BY <2>1 DEF FieldType
<1>2. line \in Seq(Octets)
  BY FormLayout
<1>3. PICK at : /\ Rising(at, n) /\ at[n] = Len(line)
                /\ \A k \in 1 .. n : FieldAt(line, at, k, name(k), code(k))
  BY FormLayout
<1>4. \A k \in 1 .. n : code(k) \in Seq(Octets \ {Amp})
  BY <1>1, EncodedIsFlat
<1> HIDE DEF n, line, name, code
<1> DEFINE b(k) == FieldBegin(at, k)
<1>5. ASSUME NEW k \in 1 .. n
      PROVE  /\ b(k) \in FieldStarts(line)
             /\ IsArg(line, b(k), arg) <=> name(k) = arg
             /\ \A q \in (at[k - 1] + 1) .. at[k] : line[q] = Amp => k # 1 /\ q = at[k - 1] + 1
             /\ k # 1 => line[at[k - 1] + 1] = Amp
             /\ b(k) > at[k - 1] /\ b(k) + Len(name(k)) <= at[k]
  <2>1. name(k) \in Seq(NameChars) /\ code(k) \in Seq(Octets \ {Amp}) /\ FieldAt(line, at, k, name(k), code(k))
    BY <1>1, <1>3, <1>4
  <2> QED
    BY <1>1, <1>2, <1>3, <2>1, FieldFacts
<1>6. \A i \in 0 .. n : at[i] \in Nat
  BY <1>3 DEF Rising
<1>7. ASSUME NEW k \in 1 .. n PROVE b(k) \in Nat /\ b(k) <= at[k] /\ Len(name(k)) \in Nat
  <2>1. name(k) \in Seq(NameChars)
    BY <1>1
  <2>2. Len(name(k)) \in Nat
    BY <2>1
  <2>3. at[k - 1] \in Nat /\ at[k] \in Nat
    BY <1>1, <1>6
  <2>4. b(k) \in Nat
    BY <2>3 DEF FieldBegin
  <2> HIDE DEF b
  <2> QED
    BY <1>5, <2>2, <2>3, <2>4
<1>8. \A p \in FieldStarts(line) : \E k \in 1 .. n : p = b(k)
  <2>1. FieldsBegin(line, at, n)
    BY <1>5, <1>7 DEF FieldsBegin
  <2> QED
    BY <1>1, <1>2, <1>3, <2>1, StartsAre
<1>9. want = {k \in 1 .. n : name(k) = arg}
  BY DEF name, n
<1>10. ASSUME NEW p PROVE p \in hits <=> \E k \in want : p = b(k)
  <2> HIDE DEF b
  <2>1. ASSUME p \in hits PROVE \E k \in want : p = b(k)
    <3>1. PICK k \in 1 .. n : p = b(k)
      BY <1>8, <2>1
    <3>2. name(k) = arg
      BY <1>5, <2>1, <3>1
    <3>3. k \in want
      BY <1>9, <3>2
    <3> QED
      BY <3>1, <3>3
  <2>2. ASSUME NEW k \in want, p = b(k) PROVE p \in hits
    <3>1. k \in 1 .. n /\ name(k) = arg
      BY <1>9
    <3> QED
      BY <1>5, <2>2, <3>1
  <2> QED
    BY <2>1, <2>2
<1>11. CASE want = {}
  <2>1. hits = {}
    BY <1>10, <1>11
  <2>2. FindArg(line, arg, room) = Missing
    BY <2>1 DEF FindArg
  <2>3. ArgWanted(fields, arg, room) = Missing
    BY <1>11 DEF ArgWanted, n
  <2> QED
    BY <2>2, <2>3 DEF line
<1>12. CASE want # {}
  <2> DEFINE k == Min(want)
             v == fields[k].value
             from == b(k) + Len(arg) + 1
             ends == {q \in from .. Len(line) : line[q] = Amp}
             to   == IF ends = {} THEN Len(line) ELSE Min(ends) - 1
  <2>1. want \in SUBSET Nat
    BY <1>1, <1>9
  <2>2. k \in want /\ \A x \in want : k <= x
    BY <1>12, <2>1, Smallest
  <2> HIDE DEF k
  <2>3. k \in 1 .. n /\ name(k) = arg /\ k \in Nat /\ v \in Seq(Octets)
    BY <1>1, <1>9, <2>2
  <2> HIDE DEF v
  <2>4. hits # {} /\ Min(hits) = b(k)
    <3>1. b(k) \in hits
      BY <1>10, <2>2
    <3>2. ASSUME NEW p \in hits PROVE p \in Nat /\ b(k) <= p
      <4>1. PICK i \in want : p = b(i)
        BY <1>10
      <4>2. i \in 1 .. n /\ i \in Nat /\ k <= i
        BY <1>1, <1>9, <2>2
      <4>3. CASE i = k
        BY <1>7, <2>3, <4>1, <4>3
      <4>4. CASE i # k
        <5>1. k \in 0 .. n /\ i - 1 \in 0 .. n /\ k <= i - 1
          BY <1>1, <2>3, <4>2, <4>4
        <5>2. at[k] <= at[i - 1] /\ at[k] \in Nat /\ at[i - 1] \in Nat
          BY <1>1, <1>3, <1>6, <5>1, RisingOrder
        <5>3. b(i) > at[i - 1] /\ b(k) <= at[k] /\ b(i) \in Nat /\ b(k) \in Nat
          BY <1>5, <1>7, <2>3, <4>2
        <5> HIDE DEF b
        <5> QED
          BY <4>1, <5>2, <5>3
      <4> QED
        BY <4>3, <4>4
    <3>3. hits \in SUBSET Nat
      BY <3>2
    <3> HIDE DEF hits, b
    <3>4. Min(hits) = b(k)
      BY <3>1, <3>2, <3>3, LeastIs
    <3> QED
      BY <3>1, <3>4
  <2>5. FindArg(line, arg, room)
          = [len |-> Len(UrlDecode(SubSeq(line, from, to), room)),
             buf |-> Stored(UrlDecode(SubSeq(line, from, to), room), room)]
    <3> HIDE DEF b
    <3> QED
      BY <2>4 DEF FindArg
  <2>6. /\ at[k] = b(k) + Len(arg) + Len(code(k))
        /\ \A j \in 1 .. Len(code(k)) : line[b(k) + Len(arg) + j] = code(k)[j]
    <3>1. FieldAt(line, at, k, arg, code(k))
      BY <1>3, <2>3
    <3> QED
      BY <3>1 DEF FieldAt
  <2>7. b(k) \in Nat /\ Len(arg) \in Nat /\ b(k) > at[k - 1] /\ at[k - 1] \in Nat /\ at[k] \in Nat
    <3>1. k - 1 \in 0 .. n /\ k \in 0 .. n
      BY <1>1, <2>3
    <3> HIDE DEF b
    <3> QED
      BY <1>5, <1>6, <1>7, <2>3, <3>1
  <2>8. code(k) \in Seq(Octets \ {Amp}) /\ Len(code(k)) \in Nat
    <3>1. code(k) \in Seq(Octets \ {Amp})
      BY <1>4, <2>3
    <3> QED
      BY <3>1
  <2>9. from \in Nat /\ from > at[k - 1] + 1 /\ from <= at[k] + 1
    <3> HIDE DEF b
    <3> QED
      BY <2>6, <2>7, <2>8
  <2>10. to = at[k]
    <3>1. Parted(line, n, at)
      BY <1>5, <1>7 DEF Parted
    <3> HIDE DEF from
    <3>2. ValueEnd(line, from) = at[k]
      <4>1. n \in Nat /\ line \in Seq(Octets) /\ Rising(at, n) /\ at[n] = Len(line)
        BY <1>1, <1>2, <1>3
      <4>2. k \in 1 .. n
        BY <2>3
      <4> QED
        BY <2>9, <3>1, <4>1, <4>2, ValueEnds
    <3> QED
      BY <3>2 DEF ValueEnd
  <2> HIDE DEF to, from
  <2>11. SubSeq(line, from, to) = code(k)
    <3> DEFINE s == SubSeq(line, from, at[k])
               c == code(k)
               d == b(k) + Len(arg)
    <3>1. c \in Seq(Octets) /\ Len(c) \in Nat /\ from = d + 1 /\ at[k] = d + Len(c) /\ d \in Nat
          /\ \A j \in 1 .. Len(c) : line[d + j] = c[j]
      <4> HIDE DEF b
      <4> QED
        BY <2>6, <2>7, <2>8 DEF from
    <3>2. at[k] <= Len(line) /\ Len(line) \in Nat
      <4>1. k \in 0 .. n /\ n \in 0 .. n /\ k <= n
        BY <1>1, <2>3
      <4>2. at[k] <= at[n]
        BY <1>1, <1>3, <4>1, RisingOrder
      <4> QED
        BY <1>2, <1>3, <4>2
    <3> HIDE DEF c, d
    <3>3. s \in Seq(Octets) /\ Len(s) = Len(c) /\ \A j \in 1 .. Len(c) : s[j] = line[d + j]
      <4>1. CASE Len(c) = 0
        BY <1>2, <3>1, <3>2, <4>1
      <4>2. CASE Len(c) # 0
        <5>1. 1 <= from /\ from <= at[k] /\ from \in Nat /\ at[k] \in Nat
          BY <3>1, <4>2
        <5>2. s \in Seq(Octets) /\ Len(s) = at[k] - from + 1
              /\ \A j \in 1 .. (at[k] - from + 1) : s[j] = line[from + j - 1]
          BY <1>2, <3>2, <5>1, Slice
        <5>3. at[k] - from + 1 = Len(c)
          BY <3>1
        <5>4. \A j \in 1 .. Len(c) : from + j - 1 = d + j
          BY <3>1
        <5> QED
          BY <5>2, <5>3, <5>4
      <4> QED
        BY <4>1, <4>2
    <3> HIDE DEF s
    <3>4. s = c
      BY <3>1, <3>3, SeqEqual
    <3> QED
      BY <2>10, <3>4 DEF s, c
  <2>12. UrlDecode(code(k), room) = SubSeq(v, 1, Min({Len(v), room}))
    BY <2>3, DecodeUndoesEncoding DEF code, v
  <2> DEFINE out == SubSeq(v, 1, Min({Len(v), room}))
  <2>13. FindArg(line, arg, room) = [len |-> Len(out), buf |-> Stored(out, room)]
    BY <2>5, <2>11, <2>12
  <2>14. ArgWanted(fields, arg, room)
           = IF Len(v) < room THEN [len |-> Len(v), buf |-> Append(v, 0)]
             ELSE [len |-> room, buf |-> SubSeq(v, 1, room)]
    BY <1>12 DEF ArgWanted, n, k, v
  <2>15. [len |-> Len(out), buf |-> Stored(out, room)]
           = IF Len(v) < room THEN [len |-> Len(v), buf |-> Append(v, 0)]
             ELSE [len |-> room, buf |-> SubSeq(v, 1, room)]
    BY <2>3, CutStored
  <2> QED
    BY <2>13, <2>14, <2>15 DEF line
<1> QED
  BY <1>11, <1>12
-----------------------------------------------------------------------------
\* ArgFound holds of every form that is chosen.
THEOREM ArgTheorem == Spec => []ArgFound
<1>1. Chosen => ArgFound
  <2> SUFFICES ASSUME Chosen, input.kind = "form"
               PROVE  FindArg(FormLine(input.fields), input.arg, input.room)
                        = ArgWanted(input.fields, input.arg, input.room)
    BY DEF ArgFound
  <2> DEFINE F == [name: FieldNames, value: Texts(Bytes, 2)]
  <2>1. input.fields \in Texts(F, 2) /\ input.arg \in FieldNames /\ input.room \in Nat
    BY DEF Chosen, FormsIn
  <2>2. FieldNames \subseteq Seq(NameChars)
    BY DEF FieldNames, NameChars, Octets, Amp, Equals
  <2>3. F \subseteq FieldType
    <3> SUFFICES ASSUME NEW f \in F PROVE f \in FieldType
      OBVIOUS
    <3>1. f.name \in FieldNames /\ f.value \in Texts(Bytes, 2) /\ f = [name |-> f.name, value |-> f.value]
      OBVIOUS
    <3>2. f.value \in Seq(Bytes)
      BY <3>1, TextsAreSequences
    <3>3. Bytes \subseteq Octets
      BY DEF Bytes, Octets
    <3>4. f.value \in Seq(Octets)
      BY <3>2, <3>3
    <3> QED
      BY <2>2, <3>1, <3>4 DEF FieldType
  <2>4. input.fields \in Seq(F)
    BY <2>1, TextsAreSequences
  <2> HIDE DEF F
  <2>5. input.fields \in Seq(FieldType)
    BY <2>3, <2>4
  <2> QED
    BY <2>1, <2>2, <2>5, ArgIsFound
<1> QED
  BY <1>1, ChosenHolds, PTL
-----------------------------------------------------------------------------
(* The lines of data that are read from anywhere. *)

\* From p on there are m characters and then an end of line.
RunAt(data, p, m) ==
  /\ p + m < Len(data)
  /\ \A k \in 1 .. m : ~IsEol(data[p + k])
  /\ IsEol(data[p + m + 1])

LEMMA RunBegins ==
  ASSUME NEW Letters, NEW data \in Seq(Letters), NEW p \in Nat, NEW m \in Nat, RunAt(data, p, m)
  PROVE  /\ p < Len(data)
         /\ \A i \in 0 .. (CACHE_SIZE - 1) : i \in Ends(data, p) => i >= m
         /\ m < CACHE_SIZE => m \in Ends(data, p)
<1>1. Len(data) \in Nat /\ CACHE_SIZE \in Nat /\ CACHE_SIZE >= 1
  BY PostLinesAssumption
<1>2. p < Len(data) /\ p + m < Len(data)
  BY <1>1 DEF RunAt
<1>3. ASSUME NEW i \in 0 .. (CACHE_SIZE - 1), i < m PROVE i \notin Ends(data, p)
  <2>1. i \in Nat /\ p + i < Len(data) /\ i + 1 \in 1 .. m
    BY <1>1, <1>2, <1>3
  <2>2. \A k \in 1 .. m : ~IsEol(data[p + k])
    BY DEF RunAt
  <2>3. ~IsEol(data[p + (i + 1)]) /\ p + (i + 1) = p + i + 1
    BY <2>1, <2>2
  <2>4. ~IsEol(At(data, p + i))
    BY <2>1, <2>3 DEF At
  <2> QED
    BY <1>1, <2>1, <2>4 DEF Ends
<1>4. m < CACHE_SIZE => m \in Ends(data, p)
  <2>1. IsEol(At(data, p + m))
    BY <1>1, <1>2 DEF At, RunAt
  <2> QED
    BY <1>1, <2>1 DEF Ends
<1> QED
  BY <1>1, <1>2, <1>3, <1>4

\* Where ff_mread_str may leave the cursor behind an end of line at e: behind
\* one character of it, or behind two.
Behind(data, e, q) ==
  \/ q = e + 1
  \/ q = e + 2 /\ e + 1 < Len(data) /\ IsEol(data[e + 2])

\* ff_mread_str from anywhere returns the characters up to the next end of line
\* and goes on behind it, however many reads of the flash that takes.
LEMMA RunIsRead ==
  ASSUME NEW Letters, NEW data \in Seq(Letters), NEW p \in Nat, NEW n \in Nat,
         RunAt(data, p, n)
  PROVE  /\ ReadStr(data, p).text = SubSeq(data, p + 1, p + n)
         /\ Behind(data, p + n, ReadStr(data, p).next)
<1> DEFINE Right(q, m) ==
             RunAt(data, q, m) =>
               \E x \in Nat : /\ Behind(data, q + m, x)
                              /\ ReadStr(data, q) = [text |-> SubSeq(data, q + 1, q + m), next |-> x]
           D == {l \in Nat : \A m \in 0 .. l : \A q \in Nat : Right(q, m)}
<1>1. Len(data) \in Nat /\ CACHE_SIZE \in Nat /\ CACHE_SIZE >= 1
  BY PostLinesAssumption
<1>2. PICK read : IsReader(data, read) /\ \A q \in Nat : ReadStr(data, q) = read[q]
  BY <1>1, ReadUnfolds
<1>3. \A q \in Nat : ReadStr(data, q) = Turn(data, read, q)
  BY <1>2 DEF IsReader
<1>5. ASSUME NEW m \in Nat, NEW q \in Nat, m < CACHE_SIZE PROVE Right(q, m)
  <2> SUFFICES ASSUME RunAt(data, q, m)
               PROVE  \E x \in Nat :
                        /\ Behind(data, q + m, x)
                        /\ ReadStr(data, q) = [text |-> SubSeq(data, q + 1, q + m), next |-> x]
    OBVIOUS
  <2>2. m \in Ends(data, q) /\ q < Len(data)
        /\ \A i \in 0 .. (CACHE_SIZE - 1) : i \in Ends(data, q) => i >= m
    BY <1>5, RunBegins
  <2>3. Min(Ends(data, q)) = m
    <3>1. Ends(data, q) # {}
      BY <2>2
    <3> DEFINE i == Min(Ends(data, q))
    <3>2. i \in 0 .. (CACHE_SIZE - 1) /\ i \in Ends(data, q) /\ i <= m
      BY <2>2, <3>1, EndsInPiece
    <3> HIDE DEF i
    <3>3. i >= m
      BY <2>2, <3>2
    <3>4. i = m
      BY <1>1, <3>2, <3>3
    <3> QED
      BY <3>4 DEF i
  <2> DEFINE x == q + m + EolLength(data, q, m)
  <2>4. x \in Nat /\ Behind(data, q + m, x)
    <3>1. \/ EolLength(data, q, m) = 1
          \/ EolLength(data, q, m) = 2 /\ IsEol(At(data, q + m + 1))
      BY DEF EolLength
    <3>2. IsEol(At(data, q + m + 1)) => q + m + 1 < Len(data) /\ IsEol(data[q + m + 2])
      BY <1>1 DEF At, IsEol, CR, LF
    <3> QED
      BY <1>1, <3>1, <3>2 DEF Behind
  <2>5. Turn(data, read, q) = [text |-> SubSeq(data, q + 1, q + m), next |-> x]
    BY <1>1, <2>2, <2>3 DEF Turn
  <2> HIDE DEF x
  <2> QED
    BY <1>3, <2>4, <2>5
<1>6. ASSUME NEW m \in Nat, NEW q \in Nat, m >= CACHE_SIZE,
             Right(q + CACHE_SIZE, m - CACHE_SIZE)
      PROVE  Right(q, m)
  <2> SUFFICES ASSUME RunAt(data, q, m)
               PROVE  \E x \in Nat :
                        /\ Behind(data, q + m, x)
                        /\ ReadStr(data, q) = [text |-> SubSeq(data, q + 1, q + m), next |-> x]
    OBVIOUS
  <2> DEFINE r == q + CACHE_SIZE
             l == m - CACHE_SIZE
             piece == SubSeq(data, q + 1, r)
             tail  == SubSeq(data, r + 1, r + l)
  <2>1. r \in Nat /\ l \in Nat /\ r + l = q + m
    BY <1>1, <1>6
  <2>2. RunAt(data, r, l)
    <3>1. ASSUME NEW k \in 1 .. l PROVE ~IsEol(data[r + k])
      <4>1. k + CACHE_SIZE \in 1 .. m /\ q + (k + CACHE_SIZE) = r + k
        BY <1>1, <2>1
      <4> QED
        BY <4>1 DEF RunAt
    <3> QED
      BY <2>1, <3>1 DEF RunAt
  <2>4. PICK x \in Nat : Behind(data, r + l, x) /\ ReadStr(data, r) = [text |-> tail, next |-> x]
    BY <1>6, <2>2
  <2>5. Ends(data, q) = {}
    <3>1. Ends(data, q) \subseteq 0 .. (CACHE_SIZE - 1)
      BY DEF Ends
    <3>2. \A i \in Ends(data, q) : i >= m
      BY <3>1, RunBegins
    <3> QED
      BY <1>1, <1>6, <3>1, <3>2
  <2>6. ReadStr(data, q) = [text |-> piece \o tail, next |-> x]
    <3>1. read[r] = [text |-> tail, next |-> x]
      BY <1>2, <2>1, <2>4
    <3>2. q < Len(data)
      BY RunBegins
    <3>3. Turn(data, read, q) = [read[r] EXCEPT !.text = piece \o @]
      BY <1>1, <2>5, <3>2 DEF Turn
    <3> HIDE DEF piece, tail, r, l
    <3>4. [read[r] EXCEPT !.text = piece \o @] = [text |-> piece \o tail, next |-> x]
      <4> DEFINE more == read[r]
      <4>1. more = [text |-> tail, next |-> x]
        BY <3>1
      <4> HIDE DEF more
      <4>2. [more EXCEPT !.text = piece \o @] = [text |-> piece \o tail, next |-> x]
        <5>1. more \in [text: {tail}, next: {x}] /\ more.text = tail /\ more.next = x
          BY <4>1
        <5> QED
          BY <5>1, AddText
      <4> QED
        BY <4>2 DEF more
    <3> QED
      BY <1>3, <2>1, <3>3, <3>4
  <2>7. piece \o tail = SubSeq(data, q + 1, q + m)
    <3>1. q + m <= Len(data) /\ m \in Nat /\ r <= q + m /\ r >= q
      BY <1>1, <1>6, <2>1 DEF RunAt
    <3> QED
      BY <1>1, <2>1, <3>1
  <2>8. Behind(data, q + m, x)
    BY <2>1, <2>4
  <2> QED
    BY <2>6, <2>7, <2>8
<1> HIDE DEF Right
<1>7. 0 \in D
  BY <1>1, <1>5
<1>8. ASSUME NEW l \in Nat, l \in D PROVE l + 1 \in D
  <2> SUFFICES ASSUME NEW m \in 0 .. (l + 1), NEW q \in Nat PROVE Right(q, m)
    OBVIOUS
  <2>1. CASE m < CACHE_SIZE
    BY <1>5, <2>1
  <2>2. CASE m >= CACHE_SIZE
    <3>1. q + CACHE_SIZE \in Nat /\ m - CACHE_SIZE \in 0 .. l
      BY <1>1, <2>2
    <3>2. Right(q + CACHE_SIZE, m - CACHE_SIZE)
      BY <1>8, <3>1
    <3> QED
      BY <1>6, <2>2, <3>2
  <2> QED
    BY <1>1, <2>1, <2>2
<1> HIDE DEF D
<1>9. n \in D
  BY <1>7, <1>8, Induction
<1>10. Right(p, n)
  BY <1>9 DEF D
<1>11. PICK x \in Nat : /\ Behind(data, p + n, x)
                        /\ ReadStr(data, p) = [text |-> SubSeq(data, p + 1, p + n), next |-> x]
  BY <1>10 DEF Right
<1> QED
  BY <1>11

\* Before an end of line there is a first one.
LEMMA RunExists ==
  ASSUME NEW Letters, NEW data \in Seq(Letters), NEW p \in Nat, NEW g \in Nat,
         p < g, g <= Len(data), IsEol(data[g])
  PROVE  \E m \in Nat : RunAt(data, p, m) /\ p + m < g
<1> DEFINE S == {m \in Nat : p + m + 1 <= Len(data) /\ IsEol(data[p + m + 1])}
           m == Min(S)
<1>1. Len(data) \in Nat
  OBVIOUS
<1>2. g - p - 1 \in S
  <2>1. g - p - 1 \in Nat /\ p + (g - p - 1) + 1 = g
    BY <1>1
  <2> QED
    BY <2>1
<1>3. m \in S /\ \A x \in S : m <= x
  <2>1. S \in SUBSET Nat /\ S # {}
    BY <1>2
  <2> HIDE DEF S
  <2> QED
    BY <2>1, Smallest
<1> HIDE DEF m
<1>4. ASSUME NEW k \in 1 .. m PROVE ~IsEol(data[p + k])
  <2>1. k - 1 \in Nat /\ k - 1 < m /\ p + (k - 1) + 1 = p + k /\ m \in Nat
    BY <1>3
  <2>2. k - 1 \notin S
    <3> HIDE DEF S
    <3>1. k - 1 \in S => m <= k - 1
      BY <1>3
    <3> QED
      BY <2>1, <3>1
  <2> QED
    BY <1>1, <1>3, <2>1, <2>2
<1>5. RunAt(data, p, m)
  BY <1>1, <1>3, <1>4 DEF RunAt
<1>6. m \in Nat /\ m <= g - p - 1
  BY <1>2, <1>3
<1>7. p + m < g
  BY <1>6
<1> QED
  BY <1>5, <1>6, <1>7
-----------------------------------------------------------------------------
(* The cursor positions that the loops pass. *)

Steps(data, f, p) ==
  IF AtEnd(data, p) THEN {} ELSE {p} \cup f[ReadStr(data, p).next]

IsTrail(data, f) == f = [p \in Nat |-> Steps(data, f, p)]

LEMMA TrailExists ==
  ASSUME NEW Letters, NEW data \in Seq(Letters)
  PROVE  \E f : IsTrail(data, f)
<1> DEFINE Good(f, n) == /\ f = [p \in Nat |-> f[p]]
                         /\ \A p \in Nat : p + n >= Len(data) => f[p] = Steps(data, f, p)
           D == {n \in Nat : \E f : Good(f, n)}
<1>1. Len(data) \in Nat
  OBVIOUS
<1>2. 0 \in D
  <2> DEFINE f == [p \in Nat |-> {}]
  <2>1. \A p \in Nat : p + 0 >= Len(data) => f[p] = Steps(data, f, p)
    BY DEF Steps, AtEnd
  <2>2. f = [p \in Nat |-> f[p]]
    OBVIOUS
  <2> HIDE DEF f
  <2>3. Good(f, 0)
    BY <2>1, <2>2
  <2> QED
    BY <2>3
<1>3. ASSUME NEW n \in Nat, n \in D PROVE n + 1 \in D
  <2>1. PICK f : Good(f, n)
    BY <1>3
  <2> DEFINE g == [p \in Nat |-> IF p + n >= Len(data) THEN f[p] ELSE Steps(data, f, p)]
  <2>2. \A p \in Nat : g[p] = IF p + n >= Len(data) THEN f[p] ELSE Steps(data, f, p)
    OBVIOUS
  <2>3. g = [p \in Nat |-> g[p]]
    OBVIOUS
  <2> HIDE DEF g
  <2>4. ASSUME NEW p \in Nat, p + (n + 1) >= Len(data)
        PROVE  g[p] = Steps(data, g, p)
    <3>1. g[p] = Steps(data, f, p)
      BY <2>1, <2>2
    <3>2. CASE AtEnd(data, p)
      BY <3>1, <3>2 DEF Steps
    <3>3. CASE ~AtEnd(data, p)
      <4> DEFINE q == ReadStr(data, p).next
      <4>1. q \in Nat /\ q > p
        <5>1. p < Len(data)
          BY <1>1, <3>3 DEF AtEnd
        <5> QED
          BY <5>1, ReadGoesOn
      <4>2. q + n >= Len(data)
        BY <1>1, <2>4, <4>1
      <4>3. g[q] = f[q]
        BY <2>2, <4>1, <4>2
      <4> QED
        BY <3>1, <4>3 DEF Steps
    <3> QED
      BY <3>2, <3>3
  <2>5. Good(g, n + 1)
    BY <2>3, <2>4
  <2> QED
    BY <2>5
<1> HIDE DEF D
<1>4. Len(data) \in D
  BY <1>1, <1>2, <1>3, Induction
<1>5. PICK f : Good(f, Len(data))
  BY <1>4 DEF D
<1>6. \A p \in Nat : f[p] = Steps(data, f, p)
  BY <1>1, <1>5
<1>7. f = [p \in Nat |-> Steps(data, f, p)]
  <2>1. [p \in Nat |-> f[p]] = [p \in Nat |-> Steps(data, f, p)]
    BY <1>6
  <2> QED
    BY <1>5, <2>1
<1> QED
  BY <1>7 DEF IsTrail

LEMMA StartsUnfold ==
  ASSUME NEW Letters, NEW data \in Seq(Letters)
  PROVE  \E f : /\ \A p \in Nat : LineStarts(data, p) = f[p]
                /\ \A p \in Nat : f[p] = Steps(data, f, p)
<1> DEFINE f == CHOOSE g : g = [p \in Nat |-> Steps(data, g, p)]
<1>1. IsTrail(data, f)
  BY TrailExists DEF IsTrail
<1>2. \A p \in Nat : LineStarts(data, p) = f[p]
  BY DEF LineStarts, Steps
<1> HIDE DEF f
<1>3. \A p \in Nat : f[p] = Steps(data, f, p)
  BY <1>1 DEF IsTrail
<1> QED
  BY <1>2, <1>3

LEMMA NextStart ==
  ASSUME NEW Letters, NEW data \in Seq(Letters), NEW p \in Nat
  PROVE  /\ p >= Len(data) => LineStarts(data, p) = {}
         /\ p < Len(data) =>
              LineStarts(data, p) = {p} \cup LineStarts(data, ReadStr(data, p).next)
<1>1. Len(data) \in Nat
  OBVIOUS
<1>2. PICK f : /\ \A q \in Nat : LineStarts(data, q) = f[q]
               /\ \A q \in Nat : f[q] = Steps(data, f, q)
  BY StartsUnfold
<1>3. ReadStr(data, p).next \in Nat
  BY ReadGoesOn
<1>4. LineStarts(data, p) = Steps(data, f, p)
  BY <1>2
<1>5. LineStarts(data, ReadStr(data, p).next) = f[ReadStr(data, p).next]
  BY <1>2, <1>3
<1> QED
  BY <1>1, <1>4, <1>5 DEF Steps, AtEnd

\* The loops go forward and stay in the data.
LEMMA StartsAhead ==
  ASSUME NEW Letters, NEW data \in Seq(Letters), NEW p \in Nat
  PROVE  \A q \in LineStarts(data, p) : q \in Nat /\ p <= q /\ q < Len(data)
<1> DEFINE Fine(x) == \A q \in LineStarts(data, x) : q \in Nat /\ x <= q /\ q < Len(data)
           D == {n \in Nat : \A x \in Nat : x + n >= Len(data) => Fine(x)}
<1>1. Len(data) \in Nat
  OBVIOUS
<1>2. 0 \in D
  BY <1>1, NextStart
<1>3. ASSUME NEW n \in Nat, n \in D PROVE n + 1 \in D
  <2> SUFFICES ASSUME NEW x \in Nat, x + (n + 1) >= Len(data) PROVE Fine(x)
    OBVIOUS
  <2>1. CASE x >= Len(data)
    BY <1>1, <2>1, NextStart
  <2>2. CASE x < Len(data)
    <3> DEFINE y == ReadStr(data, x).next
    <3>1. y \in Nat /\ y > x
      BY <2>2, ReadGoesOn
    <3>2. LineStarts(data, x) = {x} \cup LineStarts(data, y)
      BY <2>2, NextStart
    <3> HIDE DEF y
    <3>3. y + n >= Len(data)
      BY <1>1, <3>1
    <3>4. Fine(y)
      BY <1>3, <3>1, <3>3
    <3> QED
      BY <2>2, <3>1, <3>2, <3>4
  <2> QED
    BY <1>1, <2>1, <2>2
<1> HIDE DEF D
<1>4. Len(data) \in D
  BY <1>1, <1>2, <1>3, Induction
<1>5. Fine(p)
  <2> HIDE DEF Fine
  <2> QED
    BY <1>1, <1>4 DEF D
<1> QED
  BY <1>5

\* Wherever the reading begins, it comes to the beginning of every line that
\* is not empty.
LEMMA Synchronised ==
  ASSUME NEW Letters, NEW data \in Seq(Letters), NEW p \in Nat, NEW g \in Nat,
         p <= g, g < Len(data), p < g => IsEol(data[g]), ~IsEol(data[g + 1])
  PROVE  g \in LineStarts(data, p)
<1> DEFINE D == {n \in Nat : \A x \in Nat : x <= g /\ g <= x + n /\ (x < g => IsEol(data[g])) => g \in LineStarts(data, x)}
<1>1. Len(data) \in Nat
  OBVIOUS
<1>2. g \in LineStarts(data, g)
  BY <1>1, NextStart
<1>3. 0 \in D
  <2> SUFFICES ASSUME NEW x \in Nat, x <= g, g <= x + 0 PROVE g \in LineStarts(data, x)
    OBVIOUS
  <2>1. x = g
    OBVIOUS
  <2> QED
    BY <1>2, <2>1
<1>4. ASSUME NEW n \in Nat, n \in D PROVE n + 1 \in D
  <2> SUFFICES ASSUME NEW x \in Nat, x <= g, g <= x + (n + 1), x < g => IsEol(data[g])
               PROVE  g \in LineStarts(data, x)
    OBVIOUS
  <2>1. CASE x = g
    BY <1>2, <2>1
  <2>2. CASE x # g
    <3>1. x < g
      BY <2>2
    <3>2. PICK m \in Nat : RunAt(data, x, m) /\ x + m < g
      BY <1>1, <3>1, RunExists
    <3> DEFINE y == ReadStr(data, x).next
    <3>3. Behind(data, x + m, y)
      BY <3>2, RunIsRead
    <3>4. y \in Nat /\ y > x
      BY <1>1, <3>1, ReadGoesOn
    <3>5. LineStarts(data, x) = {x} \cup LineStarts(data, y)
      BY <1>1, <3>1, NextStart
    <3> HIDE DEF y
    <3>6. y <= g
      <4>1. CASE y = x + m + 1
        BY <3>2, <4>1
      <4>2. CASE y = x + m + 2 /\ IsEol(data[x + m + 2])
        <5>1. x + m + 2 # g + 1
          BY <4>2
        <5> QED
          BY <3>2, <4>2, <5>1
      <4> QED
        BY <3>3, <4>1, <4>2 DEF Behind
    <3>7. g <= y + n
      BY <3>4
    <3>8. g \in LineStarts(data, y)
      BY <1>4, <3>1, <3>4, <3>6, <3>7
    <3> QED
      BY <3>5, <3>8
  <2> QED
    BY <2>1, <2>2
<1> HIDE DEF D
<1>5. g \in D
  BY <1>3, <1>4, Induction
<1> QED
  BY <1>5 DEF D
-----------------------------------------------------------------------------
(* Where the lines of a body are. *)

\* The text t, and an end of line behind it, at p.
LineIn(data, p, t) ==
  LineAt(data, p, Len(t)) /\ \A i \in 1 .. Len(t) : data[p + i] = t[i]

LEMMA LineInRead ==
  ASSUME NEW X, NEW data \in Seq(X), NEW p \in Nat, NEW Y, NEW t \in Seq(Y), LineIn(data, p, t)
  PROVE  /\ p + Len(t) + 2 <= Len(data)
         /\ RunAt(data, p, Len(t))
         /\ ReadStr(data, p).text = t
         /\ WellCut(t) => ReadStr(data, p).next = p + Len(t) + 2
<1> DEFINE n == Len(t)
           u == SubSeq(data, p + 1, p + n)
<1>1. n \in Nat /\ Len(data) \in Nat
  OBVIOUS
<1>2. /\ p + n + 2 <= Len(data)
      /\ \A k \in 1 .. n : ~IsEol(data[p + k])
      /\ data[p + n + 1] = CR
      /\ \A i \in 1 .. n : data[p + i] = t[i]
  BY DEF LineIn, LineAt
<1>3. RunAt(data, p, n)
  BY <1>1, <1>2 DEF RunAt, IsEol
<1>4. ReadStr(data, p).text = u
  BY <1>1, <1>3, RunIsRead
<1>5. u = t
  <2>1. \A j \in (p + 1) .. (p + n) : data[j] \in X
    BY <1>1, <1>2
  <2>2. u \in Seq(X) /\ Len(u) = n /\ \A k \in 1 .. n : u[k] = data[p + k]
    <3>1. /\ u \in Seq(X) /\ Len(u) = IF p + 1 <= p + n THEN p + n - (p + 1) + 1 ELSE 0
          /\ \A k \in 1 .. (p + n - (p + 1) + 1) : u[k] = data[p + 1 + k - 1]
      BY <1>1, <2>1, SubSeqProperties
    <3> HIDE DEF u, n
    <3> QED
      BY <1>1, <3>1
  <2>3. \A k \in 1 .. n : u[k] = t[k]
    BY <1>2, <2>2
  <2>4. t \in Seq(X)
    <3>1. ASSUME NEW k \in 1 .. n PROVE t[k] \in X
      <4>1. p + k \in (p + 1) .. (p + n) /\ t[k] = data[p + k]
        BY <1>1, <1>2
      <4> QED
        BY <2>1, <4>1
    <3> QED
      BY <3>1
  <2> HIDE DEF u
  <2> QED
    BY <1>1, <2>2, <2>3, <2>4, SeqEqual
<1>6. ASSUME WellCut(t) PROVE ReadStr(data, p).next = p + n + 2
  <2>1. LineAt(data, p, n) /\ n % CACHE_SIZE # CACHE_SIZE - 1
    BY <1>6 DEF LineIn, WellCut
  <2> HIDE DEF n
  <2>2. ReadStr(data, p) = [text |-> SubSeq(data, p + 1, p + n), next |-> p + n + 2]
    BY <1>1, <2>1, LineIsRead
  <2> QED
    BY <2>2
<1> QED
  BY <1>2, <1>3, <1>4, <1>5, <1>6

\* The lines texts from at[0] on; line j begins at at[j - 1].
LinesAt(data, texts, at) ==
  /\ at \in [0 .. Len(texts) -> Nat]
  /\ \A j \in 1 .. Len(texts) :
       LineIn(data, at[j - 1], texts[j]) /\ at[j] = at[j - 1] + Len(texts[j]) + 2

\* A part from b to c, with its empty line at e.
PartIn(data, part, b, e, c) ==
  /\ LineIn(data, b, <<"boundary">>)
  /\ \E at : LinesAt(data, Headers(part), at) /\ at[0] = b + 3 /\ at[Len(Headers(part))] = e
  /\ b + 3 <= e
  /\ LineIn(data, e, <<>>)
  /\ c = e + 2 + Len(Joined(part.lines))
  /\ IsEol(data[c])
  /\ \A i \in (b + 1) .. c : /\ data[i] = "boundary" => i = b + 1
                             /\ data[i] = "disp" => i = b + 4

\* The parts one behind the other, and the last boundary.
BodyIn(data, parts, B, E) ==
  /\ Rising(B, Len(parts)) /\ E \in [1 .. Len(parts) -> Nat]
  /\ Len(data) = B[Len(parts)] + 3
  /\ LineIn(data, B[Len(parts)], <<"boundary">>)
  /\ \A k \in 1 .. Len(parts) : PartIn(data, parts[k], B[k - 1], E[k], B[k])
-----------------------------------------------------------------------------
(* What the loops find. *)

LEMMA FirstIs ==
  ASSUME NEW S \in SUBSET Nat, NEW m \in S, \A x \in S : m <= x
  PROVE  First(S) = m
<1>1. S # {} /\ Min(S) = m
  BY LeastIs
<1> QED
  BY <1>1 DEF First

\* The loop that looks for the boundary finds the next one.
LEMMA BoundaryIs ==
  ASSUME NEW X, NEW data \in Seq(X), NEW v \in Nat, NEW b \in Nat, v <= b,
         v < b => IsEol(data[b]), LineIn(data, b, <<"boundary">>),
         \A i \in (v + 1) .. b : data[i] # "boundary"
  PROVE  Boundary(data, v) = b
<1> DEFINE S == {p \in LineStarts(data, v) : HasBoundary(ReadStr(data, p).text)}
<1>1. Len(data) \in Nat
  OBVIOUS
<1>2. <<"boundary">> \in Seq({"boundary"}) /\ Len(<<"boundary">>) = 1
  OBVIOUS
<1>3. b + 3 <= Len(data) /\ RunAt(data, b, 1) /\ ReadStr(data, b).text = <<"boundary">>
  <2> DEFINE t == <<"boundary">>
  <2>1. t \in Seq({"boundary"}) /\ Len(t) = 1 /\ LineIn(data, b, t)
    BY <1>2
  <2> HIDE DEF t
  <2>2. b + Len(t) + 2 <= Len(data) /\ RunAt(data, b, Len(t)) /\ ReadStr(data, b).text = t
    BY <2>1, LineInRead
  <2>3. b + 3 <= Len(data) /\ RunAt(data, b, 1)
    BY <1>1, <2>1, <2>2
  <2> QED
    BY <2>2, <2>3 DEF t
<1>4. b \in S
  <2>1. ~IsEol(data[b + 1])
    BY <1>3 DEF RunAt
  <2>2. b \in LineStarts(data, v)
    BY <1>1, <1>3, <2>1, Synchronised
  <2>3. HasBoundary(<<"boundary">>)
    BY <1>2 DEF HasBoundary
  <2> QED
    BY <1>3, <2>2, <2>3
<1>5. \A p \in LineStarts(data, v) : p \in Nat /\ v <= p /\ p < Len(data)
  BY StartsAhead
<1>6. ASSUME NEW p \in S PROVE b <= p
  <2> SUFFICES ASSUME p < b PROVE FALSE
    BY <1>5
  <2>1. p \in Nat /\ v <= p
    BY <1>5
  <2>2. IsEol(data[b])
    BY <2>1
  <2>3. PICK m \in Nat : RunAt(data, p, m) /\ p + m < b
    BY <1>3, <2>1, <2>2, RunExists
  <2> DEFINE t == ReadStr(data, p).text
  <2>4. t = SubSeq(data, p + 1, p + m)
    BY <2>1, <2>3, RunIsRead
  <2>5. Len(t) = m /\ \A k \in 1 .. m : t[k] = data[p + k]
    <3>1. \A j \in (p + 1) .. (p + m) : data[j] \in X
      BY <1>1, <1>3, <2>1, <2>3
    <3>2. /\ Len(SubSeq(data, p + 1, p + m)) = IF p + 1 <= p + m THEN p + m - (p + 1) + 1 ELSE 0
          /\ \A k \in 1 .. (p + m - (p + 1) + 1) : SubSeq(data, p + 1, p + m)[k] = data[p + 1 + k - 1]
      BY <2>1, <3>1, SubSeqProperties
    <3> HIDE DEF t
    <3> QED
      BY <2>1, <2>4, <3>2
  <2>6. PICK k \in 1 .. Len(t) : t[k] = "boundary"
    BY DEF HasBoundary
  <2> HIDE DEF t
  <2>7. p + k \in (v + 1) .. b /\ data[p + k] = "boundary"
    BY <2>1, <2>3, <2>5, <2>6
  <2> QED
    BY <2>7
<1> HIDE DEF S
<1>7. S \in SUBSET Nat
  BY <1>5 DEF S
<1>8. First(S) = b
  BY <1>4, <1>6, <1>7, FirstIs
<1> QED
  BY <1>8 DEF Boundary, S

\* No line is empty or ends on the last character of a read.
AllWellCut(texts) == \A j \in 1 .. Len(texts) : texts[j] # <<>> /\ WellCut(texts[j])

\* The lines lie one behind the other and an empty one is behind them.
BlankBehind(data, texts, at) == LinesAt(data, texts, at) /\ LineIn(data, at[Len(texts)], <<>>)

\* The loop over the lines from p on ends at q.
BlankFound(data, p, q) == First({i \in LineStarts(data, p) : ReadStr(data, i).text = <<>>}) = q

\* The loop over the header lines ends at the empty one behind them.
LEMMA BlankIs ==
  ASSUME NEW X, NEW data \in Seq(X), NEW Y, NEW texts \in Seq(Seq(Y)), NEW at,
         BlankBehind(data, texts, at), AllWellCut(texts), NEW j \in 0 .. Len(texts)
  PROVE  BlankFound(data, at[j], at[Len(texts)])
<1> SUFFICES First({p \in LineStarts(data, at[j]) : ReadStr(data, p).text = <<>>}) = at[Len(texts)]
  BY DEF BlankFound
<1>0. LinesAt(data, texts, at) /\ LineIn(data, at[Len(texts)], <<>>)
  BY DEF BlankBehind
<1> DEFINE h == Len(texts)
           e == at[h]
           Found(i) == /\ e \in LineStarts(data, at[i])
                       /\ \A p \in LineStarts(data, at[i]) : ReadStr(data, p).text = <<>> => e <= p
           D == {n \in Nat : n <= h => Found(h - n)}
<1>1. h \in Nat /\ Len(data) \in Nat /\ e \in Nat /\ at \in [0 .. h -> Nat]
  <2>1. at \in [0 .. Len(texts) -> Nat]
    BY <1>0 DEF LinesAt
  <2>2. Len(texts) \in Nat /\ Len(texts) \in 0 .. Len(texts) /\ Len(data) \in Nat
    OBVIOUS
  <2>3. at[Len(texts)] \in Nat
    BY <2>1, <2>2
  <2> QED
    BY <2>1, <2>2, <2>3
<1>2. e < Len(data) /\ ReadStr(data, e).text = <<>>
  <2>1. <<>> \in Seq({}) /\ Len(<<>>) = 0
    OBVIOUS
  <2>2. e + 0 + 2 <= Len(data) /\ ReadStr(data, e).text = <<>>
    BY <1>0, <1>1, <2>1, LineInRead
  <2> QED
    BY <1>1, <2>2
<1> HIDE DEF e
<1>3. 0 \in D
  <2>1. at[h - 0] = e
    BY <1>1 DEF e
  <2>2. e \in LineStarts(data, e)
    BY <1>1, <1>2, NextStart
  <2>3. \A p \in LineStarts(data, e) : e <= p
    BY <1>1, StartsAhead
  <2> QED
    BY <2>1, <2>2, <2>3
<1>4. ASSUME NEW n \in Nat, n \in D PROVE n + 1 \in D
  <2> SUFFICES ASSUME n + 1 <= h PROVE Found(h - (n + 1))
    OBVIOUS
  <2> DEFINE i == h - n
             t == texts[i]
             x == at[i - 1]
  <2>1. i \in 1 .. h /\ i - 1 = h - (n + 1) /\ n <= h
    BY <1>1
  <2>2. Found(i)
    BY <1>4, <2>1
  <2> HIDE DEF i, Found
  <2>3. t \in Seq(Y) /\ t # <<>> /\ WellCut(t)
    <3>1. texts[i] \in Seq(Y)
      BY <2>1
    <3> QED
      BY <2>1, <3>1 DEF AllWellCut
  <2>4. x \in Nat /\ LineIn(data, x, t) /\ at[i] = x + Len(t) + 2
    <3>1. i - 1 \in 0 .. h
      BY <1>1, <2>1
    <3>2. x \in Nat
      BY <1>1, <3>1
    <3>3. \A l \in 1 .. Len(texts) :
            LineIn(data, at[l - 1], texts[l]) /\ at[l] = at[l - 1] + Len(texts[l]) + 2
      BY <1>0 DEF LinesAt
    <3>4. LineIn(data, at[i - 1], texts[i]) /\ at[i] = at[i - 1] + Len(texts[i]) + 2
      BY <2>1, <3>3
    <3> QED
      BY <3>2, <3>4
  <2> HIDE DEF t, x
  <2>5. x < Len(data) /\ ReadStr(data, x).text = t /\ ReadStr(data, x).next = at[i]
    <3>1. x + Len(t) + 2 <= Len(data) /\ ReadStr(data, x).text = t /\ ReadStr(data, x).next = x + Len(t) + 2
      BY <2>3, <2>4, LineInRead
    <3>2. Len(t) \in Nat
      BY <2>3
    <3> QED
      BY <1>1, <2>4, <3>1, <3>2
  <2>6. LineStarts(data, x) = {x} \cup LineStarts(data, at[i])
    BY <2>4, <2>5, NextStart
  <2>7. Found(i - 1)
    BY <2>2, <2>3, <2>5, <2>6 DEF Found, x
  <2> QED
    BY <2>1, <2>7
<1> HIDE DEF D, Found
<1>5. Found(j)
  <2>1. h - j \in Nat /\ h - j <= h /\ h - (h - j) = j
    BY <1>1
  <2>2. h - j \in D
    BY <1>3, <1>4, <2>1, Induction
  <2> QED
    BY <2>1, <2>2 DEF D
<1> DEFINE S == {p \in LineStarts(data, at[j]) : ReadStr(data, p).text = <<>>}
<1>6. S \in SUBSET Nat
  <2>1. at[j] \in Nat
    BY <1>1
  <2> QED
    BY <2>1, StartsAhead
<1>7. e \in S /\ \A p \in S : e <= p
  BY <1>2, <1>5 DEF Found
<1> HIDE DEF S
<1>8. First(S) = e
  BY <1>6, <1>7, FirstIs
<1> QED
  BY <1>8 DEF S, e

LEMMA NameCells ==
  ASSUME NEW Letters, NEW s \in Seq(Letters), NEW t \in Seq(Letters)
  PROVE  Names(<<"disp">> \o t, s) <=> IsPrefix(s, t)
<1> DEFINE X == Letters \cup {"disp"}
           d == <<"disp">>
           u == d \o s
           v == d \o t
<1>1. d \in Seq(X) /\ Len(d) = 1 /\ s \in Seq(X) /\ t \in Seq(X)
  OBVIOUS
<1> HIDE DEF X, d
<1>2. /\ u \in Seq(X) /\ Len(s) \in Nat /\ Len(u) = 1 + Len(s)
      /\ \A k \in 1 .. 1 : u[k] = d[k]
      /\ \A k \in 1 .. Len(s) : u[1 + k] = s[k]
  <2>1. d \in Seq(X) /\ s \in Seq(X) /\ u = d \o s
    BY <1>1
  <2> HIDE DEF u
  <2>2. /\ u \in Seq(X) /\ Len(s) \in Nat /\ Len(u) = Len(d) + Len(s)
        /\ \A k \in 1 .. Len(d) : u[k] = d[k]
        /\ \A k \in 1 .. Len(s) : u[Len(d) + k] = s[k]
    BY <2>1, ConcatCells
  <2> QED
    BY <1>1, <2>2
<1>3. /\ v \in Seq(X) /\ Len(t) \in Nat /\ Len(v) = 1 + Len(t)
      /\ \A k \in 1 .. 1 : v[k] = d[k]
      /\ \A k \in 1 .. Len(t) : v[1 + k] = t[k]
  <2>1. d \in Seq(X) /\ t \in Seq(X) /\ v = d \o t
    BY <1>1
  <2> HIDE DEF v
  <2>2. /\ v \in Seq(X) /\ Len(t) \in Nat /\ Len(v) = Len(d) + Len(t)
        /\ \A k \in 1 .. Len(d) : v[k] = d[k]
        /\ \A k \in 1 .. Len(t) : v[Len(d) + k] = t[k]
    BY <2>1, ConcatCells
  <2> QED
    BY <1>1, <2>2
<1>4. Names(<<"disp">> \o t, s) <=> IsPrefix(u, v)
  BY DEF Names, d
<1> HIDE DEF u, v
<1>5. IsPrefix(u, v) <=> Len(u) <= Len(v) /\ \A j \in 1 .. Len(u) : u[j] = v[j]
  <2>1. u \in Seq(X)
    BY <1>2
  <2>2. v \in Seq(X)
    BY <1>3
  <2>3. PrefixByCells(u, v)
    BY <2>1, <2>2, PrefixCells
  <2> QED
    BY <2>3 DEF PrefixByCells
<1>6. IsPrefix(s, t) <=> Len(s) <= Len(t) /\ \A j \in 1 .. Len(s) : s[j] = t[j]
  BY PrefixCells DEF PrefixByCells
<1>7. (\A j \in 1 .. Len(u) : u[j] = v[j]) <=> (\A j \in 1 .. Len(s) : u[1 + j] = v[1 + j])
  <2>1. ASSUME \A j \in 1 .. Len(u) : u[j] = v[j], NEW j \in 1 .. Len(s) PROVE u[1 + j] = v[1 + j]
    <3>1. 1 + j \in 1 .. Len(u)
      BY <1>2
    <3> QED
      BY <2>1, <3>1
  <2>2. ASSUME \A j \in 1 .. Len(s) : u[1 + j] = v[1 + j], NEW j \in 1 .. Len(u) PROVE u[j] = v[j]
    <3>1. CASE j = 1
      BY <1>2, <1>3, <3>1
    <3>2. CASE j # 1
      <4>1. j - 1 \in 1 .. Len(s) /\ 1 + (j - 1) = j
        BY <1>2, <3>2
      <4> QED
        BY <2>2, <4>1
    <3> QED
      BY <3>1, <3>2
  <2> QED
    BY <2>1, <2>2
<1>8. ASSUME Len(s) <= Len(t)
      PROVE  (\A j \in 1 .. Len(s) : u[1 + j] = v[1 + j]) <=> (\A j \in 1 .. Len(s) : s[j] = t[j])
  BY <1>2, <1>3, <1>8
<1> QED
  BY <1>2, <1>3, <1>4, <1>5, <1>6, <1>7, <1>8

\* The text that is read from p begins with what stands at p.
LEMMA TextBegins ==
  ASSUME NEW X, NEW data \in Seq(X), NEW p \in Nat, p < Len(data), IsEol(data[Len(data)]),
         NEW Letters, NEW arg \in Seq(Letters), Names(ReadStr(data, p).text, arg)
  PROVE  data[p + 1] = "disp"
<1> DEFINE t == ReadStr(data, p).text
           a == <<"disp">> \o arg
<1>1. Len(data) \in Nat /\ Len(arg) \in Nat
  OBVIOUS
<1>2. Len(a) = 1 + Len(arg) /\ a[1] = "disp"
  OBVIOUS
<1>3. IsPrefix(a, t)
  BY DEF Names
<1>4. PICK m \in Nat : RunAt(data, p, m) /\ p + m < Len(data)
  BY <1>1, RunExists
<1>5. t = SubSeq(data, p + 1, p + m)
  BY <1>4, RunIsRead
<1> HIDE DEF a, t
<1>6. Len(a) <= Len(t) /\ SubSeq(a, 1, Len(a)) = SubSeq(t, 1, Len(a))
  BY <1>3 DEF IsPrefix
<1>7. t \in Seq(X) /\ Len(t) = m /\ \A k \in 1 .. m : t[k] = data[p + k]
  <2>1. \A j \in (p + 1) .. (p + m) : data[j] \in X
    BY <1>1, <1>4
  <2>2. /\ SubSeq(data, p + 1, p + m) \in Seq(X)
        /\ Len(SubSeq(data, p + 1, p + m)) = IF p + 1 <= p + m THEN p + m - (p + 1) + 1 ELSE 0
        /\ \A k \in 1 .. (p + m - (p + 1) + 1) : SubSeq(data, p + 1, p + m)[k] = data[p + 1 + k - 1]
    BY <1>4, <2>1, SubSeqProperties
  <2> QED
    BY <1>4, <1>5, <2>2
<1>8. m >= 1 /\ t[1] = a[1]
  <2>1. a \in Seq(Letters \cup {"disp"})
    BY DEF a
  <2>2. SubSeq(a, 1, Len(a))[1] = a[1]
    BY <1>1, <1>2, <2>1, Beginning
  <2>3. SubSeq(t, 1, Len(a))[1] = t[1]
    BY <1>1, <1>2, <1>6, <1>7, Beginning
  <2> QED
    BY <1>1, <1>2, <1>4, <1>6, <1>7, <2>2, <2>3
<1> QED
  BY <1>2, <1>4, <1>7, <1>8

PartType(Letters) ==
  [name: Seq(Letters), headers: Seq(Seq(Letters) \ {<<>>}), lines: Seq(Seq(Letters))]

LEMMA HeadersAre ==
  ASSUME NEW Letters, NEW part \in PartType(Letters)
  PROVE  /\ Headers(part) \in Seq(Seq(Letters \cup {"disp"}))
         /\ Len(Headers(part)) >= 1 /\ Headers(part)[1] = <<"disp">> \o part.name
         /\ \A j \in 1 .. Len(Headers(part)) : Headers(part)[j] # <<>>
<1> DEFINE Y == Letters \cup {"disp"}
           d == <<"disp">> \o part.name
           h == part.headers
           H == Headers(part)
<1>1. part.name \in Seq(Letters) /\ h \in Seq(Seq(Letters) \ {<<>>})
  BY DEF PartType
<1>2. d \in Seq(Y) /\ d # <<>>
  <2>1. Len(d) = 1 + Len(part.name) /\ Len(part.name) \in Nat
    BY <1>1
  <2>2. d \in Seq(Y)
    BY <1>1
  <2> HIDE DEF d
  <2> QED
    BY <2>1, <2>2
<1>3. h \in Seq(Seq(Y) \ {<<>>})
  <2>1. Seq(Letters) \subseteq Seq(Y)
    OBVIOUS
  <2> HIDE DEF Y, h
  <2> QED
    BY <1>1, <2>1
<1>4. H = <<d>> \o h
  BY DEF Headers
<1> HIDE DEF d, h, H
<1>5. <<d>> \in Seq(Seq(Y) \ {<<>>}) /\ Len(<<d>>) = 1 /\ <<d>>[1] = d
  BY <1>2
<1> HIDE DEF Y
<1>6. H \in Seq(Seq(Y) \ {<<>>}) /\ Len(H) = 1 + Len(h) /\ H[1] = d /\ Len(h) \in Nat
  BY <1>3, <1>4, <1>5
<1>7. \A j \in 1 .. Len(H) : H[j] # <<>>
  BY <1>6
<1>8. H \in Seq(Seq(Y))
  BY <1>6
<1> QED
  BY <1>6, <1>7, <1>8 DEF H, Y, d

\* The lines that pass the test for the name are the head lines of the parts
\* whose names begin with arg.
LEMMA HeadsAre ==
  ASSUME NEW Letters, NEW X, NEW data \in Seq(X), NEW parts \in Seq(PartType(Letters)),
         NEW B, NEW E, BodyIn(data, parts, B, E), NEW arg \in Seq(Letters)
  PROVE  {p \in LineStarts(data, 0) : Names(ReadStr(data, p).text, arg)}
           = {B[k - 1] + 3 : k \in {i \in 1 .. Len(parts) : IsPrefix(arg, parts[i].name)}}
<1> DEFINE n == Len(parts)
           S == {p \in LineStarts(data, 0) : Names(ReadStr(data, p).text, arg)}
           T == {B[k - 1] + 3 : k \in {i \in 1 .. n : IsPrefix(arg, parts[i].name)}}
<1>1. n \in Nat /\ Len(data) \in Nat /\ B \in [0 .. n -> Nat] /\ B[0] = 0 /\ Len(data) = B[n] + 3
  BY DEF BodyIn, Rising
<1> HIDE DEF T
<1>0. ASSUME NEW k \in 1 .. n
      PROVE  B[k - 1] \in Nat /\ B[k] \in Nat /\ parts[k] \in PartType(Letters) /\ parts[k].name \in Seq(Letters)
  <2>1. k - 1 \in 0 .. n /\ k \in 0 .. n
    BY <1>1
  <2>2. B[k - 1] \in Nat /\ B[k] \in Nat
    BY <1>1, <2>1
  <2>3. parts[k] \in PartType(Letters)
    OBVIOUS
  <2>4. parts[k].name \in Seq(Letters)
    BY <2>3 DEF PartType
  <2> QED
    BY <2>2, <2>3, <2>4
<1>2. data[B[n] + 1] = "boundary" /\ data[B[n] + 2] = CR /\ data[B[n] + 3] = LF
  <2>1. Len(<<"boundary">>) = 1 /\ <<"boundary">>[1] = "boundary"
    OBVIOUS
  <2>2. LineAt(data, B[n], 1) /\ data[B[n] + 1] = "boundary"
    BY <2>1 DEF BodyIn, LineIn
  <2>3. data[B[n] + 1 + 1] = CR /\ data[B[n] + 1 + 2] = LF
    BY <2>2 DEF LineAt
  <2>4. n \in 0 .. n
    BY <1>1
  <2>5. B[n] \in Nat
    BY <1>1, <2>4
  <2>6. B[n] + 1 + 1 = B[n] + 2 /\ B[n] + 1 + 2 = B[n] + 3
    BY <2>5
  <2> QED
    BY <2>2, <2>3, <2>6
<1>3. ASSUME NEW k \in 1 .. n
      PROVE  /\ B[k - 1] \in Nat
             /\ B[k - 1] + 3 < Len(data)
             /\ ReadStr(data, B[k - 1] + 3).text = <<"disp">> \o parts[k].name
             /\ IsEol(data[B[k - 1] + 3])
             /\ ~IsEol(data[B[k - 1] + 4])
  <2> DEFINE b == B[k - 1]
             H == Headers(parts[k])
             d == <<"disp">> \o parts[k].name
  <2>1. b \in Nat
    BY <1>0
  <2>2. PartIn(data, parts[k], b, E[k], B[k])
    BY DEF BodyIn
  <2>3. PICK at : LinesAt(data, H, at) /\ at[0] = b + 3
    BY <2>2 DEF PartIn
  <2>4. Len(H) >= 1 /\ H[1] = d /\ parts[k].name \in Seq(Letters)
    BY <1>0, HeadersAre
  <2>5. LineIn(data, b + 3, d)
    <3>1. 1 \in 1 .. Len(H)
      BY <2>4, HeadersAre
    <3>2. LineIn(data, at[1 - 1], H[1])
      BY <2>3, <3>1 DEF LinesAt
    <3> QED
      BY <2>3, <2>4, <3>2
  <2>6. d \in Seq(Letters \cup {"disp"}) /\ Len(d) \in Nat /\ Len(d) >= 1 /\ d[1] = "disp"
    BY <2>4
  <2>7. IsEol(data[b + 3])
    <3>1. Len(<<"boundary">>) = 1
      OBVIOUS
    <3>2. LineAt(data, b, 1)
      BY <2>2, <3>1 DEF PartIn, LineIn
    <3> QED
      BY <2>1, <3>2 DEF LineAt, IsEol
  <2>8. ~IsEol(data[b + 4])
    <3>1. data[(b + 3) + 1] = "disp"
      BY <2>5, <2>6 DEF LineIn
    <3>2. data[b + 4] = "disp"
      BY <2>1, <3>1
    <3> QED
      BY <3>2 DEF IsEol, CR, LF
  <2> HIDE DEF b, d
  <2>9. (b + 3) + Len(d) + 2 <= Len(data) /\ ReadStr(data, b + 3).text = d
    <3>1. b + 3 \in Nat
      BY <2>1
    <3>2. d \in Seq(Letters \cup {"disp"})
      BY <2>6
    <3> QED
      BY <2>5, <3>1, <3>2, LineInRead
  <2>10. b + 3 < Len(data)
    BY <1>1, <2>1, <2>6, <2>9
  <2> QED
    BY <2>1, <2>7, <2>8, <2>9, <2>10 DEF b, d
<1>4. ASSUME NEW k \in 1 .. n
      PROVE  Names(ReadStr(data, B[k - 1] + 3).text, arg) <=> IsPrefix(arg, parts[k].name)
  <2>1. ReadStr(data, B[k - 1] + 3).text = <<"disp">> \o parts[k].name
    BY <1>3
  <2>2. parts[k].name \in Seq(Letters)
    BY <1>0
  <2>3. Names(<<"disp">> \o parts[k].name, arg) <=> IsPrefix(arg, parts[k].name)
    BY <2>2, NameCells
  <2> QED
    BY <2>1, <2>3
<1>5. ASSUME NEW p \in S PROVE p \in T
  <2>1. p \in Nat /\ p < Len(data) /\ Names(ReadStr(data, p).text, arg)
    BY StartsAhead
  <2>2. data[p + 1] = "disp"
    BY <1>1, <1>2, <2>1, TextBegins DEF IsEol
  <2>3. p + 1 \in 1 .. B[n]
    <3>1. B[n] \in Nat
      BY <1>1
    <3>2. p # B[n] /\ p # B[n] + 1 /\ p # B[n] + 2
      BY <1>2, <2>2, <3>1 DEF CR, LF
    <3> QED
      BY <1>1, <2>1, <3>1, <3>2
  <2>4. PICK k \in 1 .. n : B[k - 1] < p + 1 /\ p + 1 <= B[k]
    BY <1>1, <2>3, RisingPlace DEF BodyIn
  <2>5. p + 1 = B[k - 1] + 4
    <3>1. PartIn(data, parts[k], B[k - 1], E[k], B[k])
      BY DEF BodyIn
    <3>2. B[k - 1] \in Nat /\ B[k] \in Nat
      BY <1>0
    <3>3. p + 1 \in (B[k - 1] + 1) .. B[k]
      BY <2>1, <2>4, <3>2
    <3> QED
      BY <2>2, <3>1, <3>3 DEF PartIn
  <2>6. p = B[k - 1] + 3
    BY <1>3, <2>1, <2>5
  <2>7. IsPrefix(arg, parts[k].name)
    BY <1>4, <2>1, <2>6
  <2> QED
    BY <2>6, <2>7 DEF T
<1>6. ASSUME NEW k \in 1 .. n, IsPrefix(arg, parts[k].name) PROVE B[k - 1] + 3 \in S
  <2> DEFINE g == B[k - 1] + 3
  <2>1. g \in Nat /\ g < Len(data) /\ 0 <= g /\ IsEol(data[g]) /\ ~IsEol(data[g + 1])
    <3>1. g + 1 = B[k - 1] + 4
      BY <1>3
    <3> QED
      BY <1>3, <3>1
  <2> HIDE DEF g
  <2>2. g \in LineStarts(data, 0)
    BY <2>1, Synchronised
  <2> QED
    BY <1>4, <1>6, <2>2 DEF g
<1> QED
  BY <1>5, <1>6 DEF T

\* The first empty line behind the line at p, and what is found behind it.
Blank(data, p) ==
  First({q \in LineStarts(data, ReadStr(data, p).next) : ReadStr(data, q).text = <<>>})

ValueBehind(data, p) == PartValue(data, ReadStr(data, p).next)

\* From the head line of a part the loops come to its value and its end.
LEMMA ValueIs ==
  ASSUME NEW Letters, CR \notin Letters, LF \notin Letters,
         NEW X, NEW data \in Seq(X), NEW parts \in Seq(PartType(Letters)), CutWell(parts),
         NEW B, NEW E, BodyIn(data, parts, B, E), NEW k \in 1 .. Len(parts)
  PROVE  /\ Blank(data, B[k - 1] + 3) = E[k] /\ E[k] \in Nat
         /\ ValueBehind(data, E[k])
              = [size |-> Len(Joined(parts[k].lines)), start |-> E[k] + 2]
<1> DEFINE n == Len(parts)
           b == B[k - 1]
           e == E[k]
           c == B[k]
           H == Headers(parts[k])
           h == Len(H)
           value == Len(Joined(parts[k].lines))
<1>1. n \in Nat /\ Len(data) \in Nat /\ parts[k] \in PartType(Letters)
  OBVIOUS
<1>2. b \in Nat /\ c \in Nat /\ e \in Nat
  <2>1. B \in [0 .. n -> Nat] /\ E \in [1 .. n -> Nat]
    BY DEF BodyIn, Rising
  <2>2. k - 1 \in 0 .. n /\ k \in 0 .. n
    BY <1>1
  <2> QED
    BY <2>1, <2>2
<1>3. value \in Nat
  <2>1. parts[k].lines \in Seq(Seq(Letters))
    BY <1>1 DEF PartType
  <2>2. Joined(parts[k].lines) \in Seq(Letters \cup {CR, LF})
    BY <2>1, JoinedLines
  <2> QED
    BY <2>2
<1>4. PartIn(data, parts[k], b, e, c)
  BY DEF BodyIn
<1>5. LineIn(data, c, <<"boundary">>)
  <2>1. CASE k = n
    BY <2>1 DEF BodyIn
  <2>2. CASE k # n
    <3>1. k + 1 \in 1 .. n /\ (k + 1) - 1 = k
      BY <1>1, <2>2
    <3>2. PartIn(data, parts[k + 1], B[(k + 1) - 1], E[k + 1], B[k + 1])
      BY <3>1 DEF BodyIn
    <3> QED
      BY <3>1, <3>2 DEF PartIn
  <2> QED
    BY <2>1, <2>2
<1>6. PICK at : LinesAt(data, H, at) /\ at[0] = b + 3 /\ at[h] = e
  BY <1>4 DEF PartIn
<1>7. H \in Seq(Seq(Letters \cup {"disp"})) /\ h >= 1 /\ h \in Nat
      /\ \A j \in 1 .. h : H[j] # <<>>
  <2>1. H \in Seq(Seq(Letters \cup {"disp"})) /\ h >= 1 /\ \A j \in 1 .. h : H[j] # <<>>
    BY <1>1, HeadersAre
  <2>2. h \in Nat
    BY <2>1
  <2> QED
    BY <2>1, <2>2
<1>8. \A j \in 1 .. h : WellCut(H[j])
  BY DEF CutWell
<1>9. LineIn(data, e, <<>>) /\ b + 3 <= e /\ c = e + 2 + value /\ IsEol(data[c])
  BY <1>4 DEF PartIn
<1>10. \A i \in (b + 1) .. c : data[i] = "boundary" => i = b + 1
  BY <1>4 DEF PartIn
<1> HIDE DEF b, e, c, H, h, value
<1>11. ReadStr(data, b + 3).next = at[1]
  <2> DEFINE t == H[1]
  <2>1. 1 \in 1 .. h /\ t \in Seq(Letters \cup {"disp"}) /\ WellCut(t)
    BY <1>7, <1>8 DEF h
  <2>2. LineIn(data, at[1 - 1], t) /\ at[1] = at[1 - 1] + Len(t) + 2
    BY <1>6, <2>1 DEF LinesAt, h
  <2> HIDE DEF t
  <2>3. b + 3 \in Nat /\ LineIn(data, b + 3, t) /\ at[1] = (b + 3) + Len(t) + 2
    BY <1>2, <1>6, <2>2
  <2> QED
    BY <2>1, <2>3, LineInRead
<1>12. First({p \in LineStarts(data, at[1]) : ReadStr(data, p).text = <<>>}) = e
  <2>1. 1 \in 0 .. Len(H)
    BY <1>7 DEF h
  <2>2. AllWellCut(H)
    BY <1>7, <1>8 DEF h, AllWellCut
  <2>3. BlankBehind(data, H, at)
    BY <1>6, <1>9 DEF h, BlankBehind
  <2>4. First({p \in LineStarts(data, at[1]) : ReadStr(data, p).text = <<>>}) = at[Len(H)]
    <3> DEFINE Y == Letters \cup {"disp"}
    <3>1. H \in Seq(Seq(Y))
      BY <1>7
    <3>2. PICK j \in 0 .. Len(H) : j = 1
      BY <2>1
    <3> HIDE DEF Y
    <3>3. BlankFound(data, at[j], at[Len(H)])
      BY <2>2, <2>3, <3>1, BlankIs
    <3> QED
      BY <3>2, <3>3 DEF BlankFound
  <2> QED
    BY <1>6, <2>4 DEF h
<1>13. ReadStr(data, e).next = e + 2
  <2>1. CACHE_SIZE # 1
    <3>1. 1 \in 1 .. h /\ WellCut(H[1]) /\ H[1] \in Seq(Letters \cup {"disp"})
      BY <1>7, <1>8 DEF h
    <3>2. Len(H[1]) % CACHE_SIZE # CACHE_SIZE - 1 /\ Len(H[1]) \in Nat
      BY <3>1 DEF WellCut
    <3> DEFINE l == Len(H[1])
    <3> HIDE DEF l
    <3>3. ASSUME NEW m \in Nat PROVE m % 1 = 0
      OBVIOUS
    <3> QED
      BY <3>2, <3>3
  <2>2. WellCut(<<>>)
    <3>1. CACHE_SIZE \in Nat /\ CACHE_SIZE >= 2
      BY <2>1, PostLinesAssumption
    <3>2. 0 % CACHE_SIZE = 0
      <4>1. CACHE_SIZE \in Int /\ 0 \in 0 .. (CACHE_SIZE - 1)
        BY <3>1
      <4> QED
        BY <4>1, SmallRemainder
    <3>3. Len(<<>>) = 0
      OBVIOUS
    <3> QED
      BY <3>1, <3>2, <3>3 DEF WellCut
  <2> DEFINE t == <<>>
  <2>3. t \in Seq({}) /\ Len(t) = 0 /\ WellCut(t) /\ LineIn(data, e, t)
    BY <1>9, <2>2
  <2> HIDE DEF t
  <2>4. ReadStr(data, e).next = e + Len(t) + 2
    BY <1>2, <2>3, LineInRead
  <2> QED
    BY <1>2, <2>3, <2>4
<1>14. Boundary(data, e + 2) = c
  <2>1. e + 2 \in Nat /\ e + 2 <= c
    BY <1>2, <1>3, <1>9
  <2>2. ASSUME NEW i \in (e + 2 + 1) .. c PROVE data[i] # "boundary"
    <3>1. i \in (b + 1) .. c /\ i # b + 1
      BY <1>2, <1>9
    <3> QED
      BY <1>10, <3>1
  <2> QED
    BY <1>2, <1>5, <1>9, <2>1, <2>2, BoundaryIs
<1>15. PartValue(data, e + 2) = [size |-> value, start |-> e + 2]
  <2>1. c # -1 /\ c - (e + 2) = value
    BY <1>2, <1>3, <1>9
  <2> QED
    BY <1>14, <2>1 DEF PartValue
<1>16. Blank(data, b + 3) = e
  BY <1>11, <1>12 DEF Blank
<1>17. ValueBehind(data, e) = [size |-> value, start |-> e + 2]
  BY <1>13, <1>15 DEF ValueBehind
<1> QED
  BY <1>2, <1>16, <1>17 DEF b, e, value

\* The parts whose names begin with arg.
Hits(parts, arg) == {k \in 1 .. Len(parts) : IsPrefix(arg, parts[k].name)}

\* In a body laid out like this the search finds the value of the first part
\* whose name begins with arg.
LEMMA FoundIn ==
  ASSUME NEW Letters, CR \notin Letters, LF \notin Letters,
         NEW X, NEW data \in Seq(X), NEW parts \in Seq(PartType(Letters)), CutWell(parts),
         NEW B, NEW E, BodyIn(data, parts, B, E), NEW arg \in Seq(Letters)
  PROVE  /\ Hits(parts, arg) = {} => FindMultipartArg(data, arg) = NotFound
         /\ Hits(parts, arg) # {} =>
              FindMultipartArg(data, arg)
                = [size  |-> Len(Joined(parts[Min(Hits(parts, arg))].lines)),
                   start |-> E[Min(Hits(parts, arg))] + 2]
<1> DEFINE hits == Hits(parts, arg)
           S == {p \in LineStarts(data, 0) : Names(ReadStr(data, p).text, arg)}
           n == Len(parts)
<1>1. S = {B[k - 1] + 3 : k \in hits}
  BY HeadsAre DEF Hits
<1>0. hits \in SUBSET (1 .. n)
  BY DEF Hits
<1> HIDE DEF S
<1>2. CASE hits = {}
  <2>1. S = {}
    BY <1>1, <1>2
  <2>2. First(S) = -1
    BY <2>1 DEF First
  <2>3. FindMultipartArg(data, arg) = NotFound
    BY <2>2 DEF FindMultipartArg, S
  <2> QED
    BY <1>2, <2>3
<1>3. CASE hits # {}
  <2> DEFINE k == Min(hits)
             head == B[k - 1] + 3
  <2>1. k \in hits /\ \A i \in hits : k <= i
    <3>1. hits \in SUBSET Nat
      BY <1>0
    <3> HIDE DEF hits
    <3> QED
      BY <1>3, <3>1, Smallest
  <2> HIDE DEF k
  <2>2. k \in 1 .. n /\ n \in Nat
    BY <1>0, <2>1
  <2>3. Rising(B, n)
    BY DEF BodyIn
  <2>4. ASSUME NEW i \in hits PROVE B[i - 1] \in Nat /\ B[k - 1] <= B[i - 1]
    <3>1. i \in 1 .. n /\ k <= i
      BY <1>0, <2>1
    <3>2. i - 1 \in 0 .. n /\ k - 1 \in 0 .. n /\ k - 1 <= i - 1
      BY <2>2, <3>1
    <3> HIDE DEF n
    <3> QED
      BY <2>2, <2>3, <3>2, RisingOrder DEF Rising
  <2>5. First(S) = head
    <3>1. S \in SUBSET Nat
      BY <1>1, <2>4
    <3>2. head \in S
      BY <1>1, <2>1
    <3>3. ASSUME NEW x \in S PROVE head <= x
      <4>1. PICK i \in hits : x = B[i - 1] + 3
        BY <1>1
      <4>2. B[i - 1] \in Nat /\ B[k - 1] <= B[i - 1] /\ B[k - 1] \in Nat
        BY <2>1, <2>4
      <4> QED
        BY <4>1, <4>2
    <3> QED
      BY <3>1, <3>2, <3>3, FirstIs
  <2>6. head \in Nat
    BY <2>1, <2>4
  <2> DEFINE found == [size |-> Len(Joined(parts[k].lines)), start |-> E[k] + 2]
  <2>7. Blank(data, head) = E[k] /\ E[k] \in Nat /\ ValueBehind(data, E[k]) = found
    BY <2>2, ValueIs
  <2>8. FindMultipartArg(data, arg)
          = IF First(S) = -1 \/ Blank(data, First(S)) = -1 THEN NotFound
            ELSE ValueBehind(data, Blank(data, First(S)))
    BY DEF FindMultipartArg, S, Blank, ValueBehind
  <2>9. FindMultipartArg(data, arg)
          = IF head = -1 \/ Blank(data, head) = -1 THEN NotFound
            ELSE ValueBehind(data, Blank(data, head))
    BY <2>5, <2>8
  <2> HIDE DEF head, found
  <2>10. head # -1 /\ Blank(data, head) # -1
    BY <2>6, <2>7
  <2>11. FindMultipartArg(data, arg) = found
    BY <2>7, <2>9, <2>10
  <2> QED
    BY <1>3, <2>11 DEF k, found
<1> QED
  BY <1>2, <1>3
-----------------------------------------------------------------------------
(* A body is laid out like this. *)

\* From n on, at goes up as bt does from the beginning.
Alike(at, n, bt, m) ==
  /\ \A i \in 0 .. m : at[n + i] \in Nat /\ bt[i] \in Nat
  /\ \A i \in 1 .. m : at[n + i] - at[n + (i - 1)] = bt[i] - bt[i - 1]

LEMMA SameSteps ==
  ASSUME NEW n \in Nat, NEW m \in Nat, NEW at, NEW bt, Alike(at, n, bt, m)
  PROVE  at[n + m] - at[n] = bt[m] - bt[0]
<1> USE DEF Alike
<1> DEFINE D == {i \in Nat : i <= m => at[n + i] = at[n] + (bt[i] - bt[0])}
<1>1. 0 \in D
  <2>1. n + 0 = n /\ 0 \in 0 .. m
    OBVIOUS
  <2>2. at[n + 0] \in Nat /\ bt[0] \in Nat
    BY <2>1
  <2>3. at[n + 0] = at[n]
    BY <2>1
  <2> QED
    BY <2>2, <2>3
<1>2. ASSUME NEW i \in Nat, i \in D PROVE i + 1 \in D
  <2> SUFFICES ASSUME i + 1 <= m PROVE at[n + (i + 1)] = at[n] + (bt[i + 1] - bt[0])
    OBVIOUS
  <2>1. i + 1 \in 1 .. m /\ (i + 1) - 1 = i /\ i \in 0 .. m /\ i + 1 \in 0 .. m /\ 0 \in 0 .. m /\ i <= m
    OBVIOUS
  <2>2. at[n + i] = at[n] + (bt[i] - bt[0])
    BY <1>2, <2>1
  <2>3. at[n + (i + 1)] - at[n + ((i + 1) - 1)] = bt[i + 1] - bt[(i + 1) - 1]
    BY <2>1
  <2>4. at[n + (i + 1)] - at[n + i] = bt[i + 1] - bt[i]
    BY <2>1, <2>3
  <2>5. at[n + (i + 1)] \in Nat /\ at[n + i] \in Nat /\ bt[i + 1] \in Nat /\ bt[i] \in Nat /\ bt[0] \in Nat
    BY <2>1
  <2>6. at[n] \in Nat
    <3>1. n + 0 = n
      OBVIOUS
    <3>2. at[n + 0] \in Nat
      BY <2>1
    <3> QED
      BY <3>1, <3>2
  <2> QED
    BY <2>2, <2>4, <2>5, <2>6
<1> HIDE DEF D
<1>3. m \in D
  BY <1>1, <1>2, Induction
<1>4. at[n + m] = at[n] + (bt[m] - bt[0])
  BY <1>3 DEF D
<1>5. n + 0 = n /\ 0 \in 0 .. m /\ m \in 0 .. m
  OBVIOUS
<1>6. at[n + 0] \in Nat /\ at[n + m] \in Nat /\ bt[m] \in Nat /\ bt[0] \in Nat
  BY <1>5
<1> QED
  BY <1>4, <1>5, <1>6

\* The lines of a part.
PartLines(part) == <<<<"boundary">>>> \o Headers(part) \o <<<<>>>> \o part.lines

LEMMA PartLinesAre ==
  ASSUME NEW Letters, NEW part \in PartType(Letters)
  PROVE  LET L == PartLines(part)
             h == Len(Headers(part))
             m == Len(part.lines)
         IN /\ L \in Seq(Seq(Letters \cup {"boundary", "disp"}))
            /\ h \in Nat /\ h >= 1 /\ m \in Nat /\ Len(L) = h + 2 + m
            /\ L[1] = <<"boundary">>
            /\ \A j \in 1 .. h : L[1 + j] = Headers(part)[j]
            /\ L[2] = <<"disp">> \o part.name
            /\ L[h + 2] = <<>>
            /\ \A j \in 1 .. m : L[h + 2 + j] = part.lines[j]
            /\ \A j \in 3 .. Len(L) : L[j] \in Seq(Letters)
<1> DEFINE Y == Letters \cup {"boundary", "disp"}
           L == PartLines(part)
           H == Headers(part)
           V == part.lines
           p == <<<<"boundary">>>>
           q == <<<<>>>>
           h == Len(H)
           m == Len(V)
<1>1. part.name \in Seq(Letters) /\ part.headers \in Seq(Seq(Letters) \ {<<>>})
      /\ V \in Seq(Seq(Letters))
  BY DEF PartType
<1>2. p \in Seq(Seq(Y)) /\ Len(p) = 1 /\ p[1] = <<"boundary">>
  OBVIOUS
<1>3. q \in Seq(Seq(Y)) /\ Len(q) = 1 /\ q[1] = <<>>
  OBVIOUS
<1>4. Seq(Letters) \subseteq Seq(Y) /\ Seq(Letters \cup {"disp"}) \subseteq Seq(Y)
  OBVIOUS
<1> HIDE DEF Y
<1>5. V \in Seq(Seq(Y))
  BY <1>1, <1>4
<1>6. H \in Seq(Seq(Letters \cup {"disp"})) /\ h >= 1 /\ H[1] = <<"disp">> \o part.name
  BY HeadersAre
<1>7. H \in Seq(Seq(Y))
  BY <1>4, <1>6
<1>8. h \in Nat /\ m \in Nat
  BY <1>5, <1>7
<1>9. \A j \in 2 .. h : H[j] \in Seq(Letters)
  <2> DEFINE d == <<<<"disp">> \o part.name>>
             g == part.headers
             S == Seq(Letters)
  <2>1. H = d \o g /\ Len(d) = 1
    BY DEF Headers
  <2>2. g \in Seq(S)
    BY <1>1
  <2>3. d \in Seq({d[1]})
    OBVIOUS
  <2> HIDE DEF d, g, S
  <2> DEFINE Z == S \cup {d[1]}
  <2>4. g \in Seq(Z) /\ d \in Seq(Z)
    BY <2>2, <2>3
  <2> HIDE DEF Z, H, h, m, V, L, p, q
  <2>41. g \in Seq(Z)
    BY <2>4
  <2>42. d \in Seq(Z)
    BY <2>4
  <2>43. H = d \o g
    BY <2>1
  <2>5. /\ Len(H) = Len(d) + Len(g) /\ Len(g) \in Nat
        /\ \A j \in 1 .. Len(g) : H[Len(d) + j] = g[j]
    BY <2>41, <2>42, <2>43, ConcatCells
  <2>6. ASSUME NEW j \in 2 .. Len(H) PROVE H[j] \in S
    <3>1. j - 1 \in 1 .. Len(g) /\ Len(d) + (j - 1) = j
      BY <2>1, <2>5
    <3>2. H[j] = g[j - 1]
      BY <2>5, <3>1
    <3> QED
      BY <2>2, <3>1, <3>2
  <2> QED
    BY <2>6 DEF S, h
<1>10. L = p \o H \o q \o V
  BY DEF PartLines
<1> HIDE DEF L, H, V, p, q
<1>11. /\ L \in Seq(Seq(Y)) /\ Len(L) = Len(p) + Len(H) + Len(q) + Len(V)
       /\ \A j \in 1 .. Len(p) : L[j] = p[j]
       /\ \A j \in 1 .. Len(H) : L[Len(p) + j] = H[j]
       /\ \A j \in 1 .. Len(q) : L[Len(p) + Len(H) + j] = q[j]
       /\ \A j \in 1 .. Len(V) : L[Len(p) + Len(H) + Len(q) + j] = V[j]
  <2> DEFINE Z == Seq(Y)
  <2>1. p \in Seq(Z)
    BY <1>2
  <2>2. q \in Seq(Z)
    BY <1>3
  <2>3. H \in Seq(Z)
    BY <1>7
  <2>4. V \in Seq(Z)
    BY <1>5
  <2> HIDE DEF Z
  <2>5. /\ L \in Seq(Z) /\ Len(L) = Len(p) + Len(H) + Len(q) + Len(V)
        /\ \A j \in 1 .. Len(p) : L[j] = p[j]
        /\ \A j \in 1 .. Len(H) : L[Len(p) + j] = H[j]
        /\ \A j \in 1 .. Len(q) : L[Len(p) + Len(H) + j] = q[j]
        /\ \A j \in 1 .. Len(V) : L[Len(p) + Len(H) + Len(q) + j] = V[j]
    BY <1>10, <2>1, <2>2, <2>3, <2>4, FourPieces
  <2> QED
    BY <2>5 DEF Z
<1> HIDE DEF h, m
<1>12. Len(L) = h + 2 + m
  BY <1>2, <1>3, <1>8, <1>11 DEF h, m
<1>13. L[1] = <<"boundary">>
  BY <1>2, <1>11
<1>14. \A j \in 1 .. h : L[1 + j] = H[j]
  BY <1>2, <1>11 DEF h
<1>15. L[2] = <<"disp">> \o part.name
  <2>1. 1 \in 1 .. h /\ 1 + 1 = 2
    BY <1>6, <1>8 DEF h
  <2> QED
    BY <1>6, <1>14, <2>1
<1>16. L[h + 2] = <<>>
  <2>1. 1 \in 1 .. Len(q) /\ Len(p) + Len(H) + 1 = h + 2
    BY <1>2, <1>3, <1>8 DEF h
  <2> QED
    BY <1>3, <1>11, <2>1
<1>17. \A j \in 1 .. m : L[h + 2 + j] = V[j]
  <2> SUFFICES ASSUME NEW j \in 1 .. m PROVE L[h + 2 + j] = V[j]
    OBVIOUS
  <2>1. Len(p) + Len(H) + Len(q) + j = h + 2 + j
    BY <1>2, <1>3, <1>8 DEF h
  <2> QED
    BY <1>11, <2>1 DEF m
<1>18. ASSUME NEW j \in 3 .. Len(L) PROVE L[j] \in Seq(Letters)
  <2>1. CASE j <= h + 1
    <3>1. j - 1 \in 2 .. h /\ j - 1 \in 1 .. h /\ 1 + (j - 1) = j
      BY <1>8, <2>1
    <3> QED
      BY <1>9, <1>14, <3>1 DEF h
  <2>2. CASE j = h + 2
    <3>1. <<>> \in Seq(Letters)
      OBVIOUS
    <3> QED
      BY <1>16, <2>2, <3>1
  <2>3. CASE j > h + 2
    <3>1. j - (h + 2) \in 1 .. m /\ h + 2 + (j - (h + 2)) = j
      BY <1>8, <1>12, <2>3
    <3>2. L[j] = V[j - (h + 2)]
      BY <1>17, <3>1
    <3>3. V[j - (h + 2)] \in Seq(Letters)
      BY <1>1, <3>1 DEF m, V
    <3> QED
      BY <3>2, <3>3
  <2> QED
    BY <1>8, <2>1, <2>2, <2>3
<1> QED
  BY <1>6, <1>8, <1>11, <1>12, <1>13, <1>14, <1>15, <1>16, <1>17, <1>18 DEF L, H, V, h, m, Y

LEMMA LineInIs ==
  ASSUME NEW X, NEW data \in Seq(X), NEW p \in Nat, NEW Y, NEW t \in Seq(Y),
         LineAt(data, p, Len(t)), SubSeq(data, p + 1, p + Len(t)) = t
  PROVE  LineIn(data, p, t)
<1> DEFINE n == Len(t)
           u == SubSeq(data, p + 1, p + n)
<1>1. n \in Nat /\ Len(data) \in Nat /\ p + n + 2 <= Len(data)
  BY DEF LineAt
<1>2. \A j \in (p + 1) .. (p + n) : data[j] \in X
  BY <1>1
<1>3. \A k \in 1 .. n : u[k] = data[p + k]
  <2>1. \A k \in 1 .. (p + n - (p + 1) + 1) : u[k] = data[p + 1 + k - 1]
    BY <1>1, <1>2, SubSeqProperties
  <2> HIDE DEF u, n
  <2> QED
    BY <1>1, <2>1
<1> QED
  BY <1>3 DEF LineIn

\* The characters of a line and of its end.
LEMMA LineCell ==
  ASSUME NEW X, NEW data \in Seq(X), NEW p \in Nat, NEW Y, NEW t \in Seq(Y), LineIn(data, p, t),
         NEW i \in Nat, p < i, i <= p + Len(t) + 2, NEW token, data[i] = token, ~IsEol(token)
  PROVE  i - p \in 1 .. Len(t) /\ t[i - p] = token
<1>1. Len(t) \in Nat
  OBVIOUS
<1>2. i # p + Len(t) + 1 /\ i # p + Len(t) + 2
  <2>1. IsEol(data[p + Len(t) + 1]) /\ IsEol(data[p + Len(t) + 2])
    BY DEF LineIn, LineAt, IsEol
  <2> QED
    BY <2>1
<1>3. i - p \in 1 .. Len(t) /\ p + (i - p) = i
  BY <1>1, <1>2
<1> QED
  BY <1>3 DEF LineIn

LEMMA PartLaid ==
  ASSUME NEW Letters, CR \notin Letters, LF \notin Letters,
         "boundary" \notin Letters, "disp" \notin Letters, NEW part \in PartType(Letters)
  PROVE  /\ PartText(part) \in Seq(Letters \cup {"boundary", "disp"} \cup {CR, LF})
         /\ \E e \in Nat : PartIn(PartText(part), part, 0, e, Len(PartText(part)))
<1> DEFINE Y == Letters \cup {"boundary", "disp"}
           X == Y \cup {CR, LF}
           L == PartLines(part)
           T == PartText(part)
           H == Headers(part)
           V == part.lines
           h == Len(H)
           m == Len(V)
           N == Len(L)
<1>1. CR \notin Y /\ LF \notin Y
  BY DEF CR, LF
<1>2. /\ L \in Seq(Seq(Y))
      /\ h \in Nat /\ h >= 1 /\ m \in Nat /\ N = h + 2 + m
      /\ L[1] = <<"boundary">>
      /\ \A j \in 1 .. h : L[1 + j] = H[j]
      /\ L[2] = <<"disp">> \o part.name
      /\ L[h + 2] = <<>>
      /\ \A j \in 1 .. m : L[h + 2 + j] = V[j]
      /\ \A j \in 3 .. N : L[j] \in Seq(Letters)
  BY PartLinesAre
<1>3. T = Joined(L)
  BY DEF PartText, PartLines
<1>4. part.name \in Seq(Letters) /\ V \in Seq(Seq(Letters))
  BY DEF PartType
<1> HIDE DEF X, Y, L, T, H, V, h, m, N
<1>5. L \in Seq(Seq(Y))
  BY <1>2
<1>6. T \in Seq(X) /\ \E at \in [0 .. N -> Nat] :
        /\ at[0] = 0 /\ at[N] = Len(T)
        /\ \A i \in 1 .. N :
             /\ at[i] = at[i - 1] + Len(L[i]) + 2
             /\ LineAt(T, at[i - 1], Len(L[i]))
             /\ SubSeq(T, at[i - 1] + 1, at[i - 1] + Len(L[i])) = L[i]
  BY <1>1, <1>3, <1>5, JoinedLines DEF X, N
<1>7. PICK at \in [0 .. N -> Nat] :
        /\ at[0] = 0 /\ at[N] = Len(T)
        /\ \A i \in 1 .. N :
             /\ at[i] = at[i - 1] + Len(L[i]) + 2
             /\ LineAt(T, at[i - 1], Len(L[i]))
             /\ SubSeq(T, at[i - 1] + 1, at[i - 1] + Len(L[i])) = L[i]
  BY <1>6
<1>8. T \in Seq(X) /\ Len(T) \in Nat
  BY <1>6
<1>9. ASSUME NEW j \in 1 .. N
      PROVE  /\ at[j - 1] \in Nat /\ at[j] \in Nat /\ L[j] \in Seq(Y) /\ Len(L[j]) \in Nat
             /\ LineIn(T, at[j - 1], L[j])
             /\ at[j] = at[j - 1] + Len(L[j]) + 2
  <2>1. j - 1 \in 0 .. N /\ j \in 0 .. N
    BY <1>2
  <2>2. at[j - 1] \in Nat /\ at[j] \in Nat
    BY <1>7, <2>1
  <2>3. L[j] \in Seq(Y)
    BY <1>5 DEF N
  <2>4. LineAt(T, at[j - 1], Len(L[j]))
        /\ SubSeq(T, at[j - 1] + 1, at[j - 1] + Len(L[j])) = L[j]
        /\ at[j] = at[j - 1] + Len(L[j]) + 2
    BY <1>7
  <2>5. LineIn(T, at[j - 1], L[j])
    BY <1>8, <2>2, <2>3, <2>4, LineInIs
  <2>6. Len(L[j]) \in Nat
    BY <2>3
  <2> QED
    BY <2>2, <2>3, <2>4, <2>5, <2>6
<1>10. N \in Nat /\ N >= 3
  BY <1>2
<1>11. Rising(at, N)
  BY <1>7, <1>9 DEF Rising
<1>12. at[1] = 3 /\ LineIn(T, 0, <<"boundary">>)
  <2>1. 1 \in 1 .. N /\ 1 - 1 = 0 /\ Len(<<"boundary">>) = 1
    BY <1>10
  <2>2. at[1] = at[0] + Len(L[1]) + 2 /\ LineIn(T, at[0], L[1])
    BY <1>9, <2>1
  <2> QED
    BY <1>2, <1>7, <2>1, <2>2
<1> DEFINE e == at[h + 1]
<1>13. e \in Nat /\ 3 <= e
  <2>1. h + 1 \in 0 .. N /\ 1 \in 0 .. N /\ 1 <= h + 1
    BY <1>2
  <2>2. at[1] <= at[h + 1]
    BY <1>10, <1>11, <2>1, RisingOrder
  <2> QED
    BY <1>7, <1>12, <2>1, <2>2
<1>14. LineIn(T, e, <<>>) /\ at[h + 2] = e + 2
  <2>1. h + 2 \in 1 .. N /\ (h + 2) - 1 = h + 1 /\ Len(<<>>) = 0
    BY <1>2
  <2>2. LineIn(T, at[h + 1], L[h + 2]) /\ at[h + 2] = at[h + 1] + Len(L[h + 2]) + 2
    BY <1>9, <2>1
  <2> QED
    BY <1>2, <1>13, <2>1, <2>2
<1>15. \E bt : LinesAt(T, H, bt) /\ bt[0] = 0 + 3 /\ bt[h] = e
  <2> DEFINE bt == [j \in 0 .. h |-> at[1 + j]]
  <2>1. bt \in [0 .. h -> Nat]
    <3>1. \A j \in 0 .. h : 1 + j \in 0 .. N
      BY <1>2
    <3> QED
      BY <1>7, <3>1
  <2>2. bt[0] = 3 /\ bt[h] = e
    <3>1. 0 \in 0 .. h /\ h \in 0 .. h /\ 1 + 0 = 1 /\ 1 + h = h + 1
      BY <1>2
    <3> QED
      BY <1>12, <3>1
  <2>3. ASSUME NEW j \in 1 .. h
        PROVE  LineIn(T, bt[j - 1], H[j]) /\ bt[j] = bt[j - 1] + Len(H[j]) + 2
    <3>1. 1 + j \in 1 .. N /\ (1 + j) - 1 = j /\ j - 1 \in 0 .. h /\ j \in 0 .. h /\ 1 + (j - 1) = j
      BY <1>2
    <3>2. bt[j - 1] = at[j] /\ bt[j] = at[1 + j]
      BY <3>1
    <3>3. LineIn(T, at[(1 + j) - 1], L[1 + j]) /\ at[1 + j] = at[(1 + j) - 1] + Len(L[1 + j]) + 2
      BY <1>9, <3>1
    <3>4. L[1 + j] = H[j]
      BY <1>2
    <3> HIDE DEF bt
    <3> QED
      BY <3>1, <3>2, <3>3, <3>4
  <2> HIDE DEF bt
  <2>4. LinesAt(T, H, bt)
    BY <2>1, <2>3 DEF LinesAt, h
  <2> QED
    BY <2>2, <2>4
<1>16. Len(T) = e + 2 + Len(Joined(V))
  <2>1. PICK bt \in [0 .. m -> Nat] :
          /\ bt[0] = 0 /\ bt[m] = Len(Joined(V))
          /\ \A i \in 1 .. m : bt[i] = bt[i - 1] + Len(V[i]) + 2
    BY <1>4, JoinedLines DEF m
  <2> DEFINE n == h + 2
  <2>2. n \in Nat /\ m \in Nat /\ n + m = N
    <3>1. h \in Nat /\ m \in Nat /\ N = h + 2 + m
      BY <1>2
    <3>2. \A u, v \in Nat : u + 2 \in Nat /\ (u + 2) + v = u + 2 + v
      OBVIOUS
    <3> QED
      BY <3>1, <3>2
  <2> HIDE DEF n
  <2>3. ASSUME NEW i \in 0 .. m PROVE at[n + i] \in Nat /\ bt[i] \in Nat
    <3>1. n + i \in 0 .. N
      BY <2>2
    <3> QED
      BY <1>7, <2>1, <3>1
  <2>4. ASSUME NEW i \in 1 .. m PROVE at[n + i] - at[n + (i - 1)] = bt[i] - bt[i - 1]
    <3>1. n + i \in 1 .. N /\ (n + i) - 1 = n + (i - 1) /\ i - 1 \in 0 .. m /\ i \in 0 .. m
      BY <2>2
    <3>2. at[n + i] = at[(n + i) - 1] + Len(L[n + i]) + 2 /\ Len(L[n + i]) \in Nat
      BY <1>9, <3>1
    <3>3. L[n + i] = V[i]
      BY <1>2 DEF n
    <3>4. bt[i] = bt[i - 1] + Len(V[i]) + 2
      BY <2>1
    <3>5. at[n + i] \in Nat /\ at[n + (i - 1)] \in Nat /\ bt[i] \in Nat /\ bt[i - 1] \in Nat
      BY <2>3, <3>1
    <3> DEFINE l == Len(V[i])
               a == at[n + i]
               b == at[n + (i - 1)]
               c == bt[i]
               d == bt[i - 1]
    <3>6. a = b + l + 2 /\ l \in Nat
      BY <3>1, <3>2, <3>3
    <3>7. c = d + l + 2 /\ a \in Nat /\ b \in Nat /\ c \in Nat /\ d \in Nat
      BY <3>4, <3>5
    <3> HIDE DEF a, b, c, d, l
    <3>8. a - b = c - d
      BY <3>6, <3>7
    <3> QED
      BY <3>8 DEF a, b, c, d
  <2> HIDE DEF e
  <2>5. at[n + m] - at[n] = bt[m] - bt[0]
    <3>1. n \in Nat
      BY <2>2
    <3>2. m \in Nat
      BY <2>2
    <3>3. Alike(at, n, bt, m)
      BY <2>3, <2>4 DEF Alike
    <3>4. \A k \in Nat, l \in Nat : \A x, y : Alike(x, k, y, l) => x[k + l] - x[k] = y[l] - y[0]
      BY SameSteps
    <3>5. \A x, y : Alike(x, n, y, m) => x[n + m] - x[n] = y[m] - y[0]
      BY <3>1, <3>2, <3>4
    <3> QED
      BY <3>3, <3>5
  <2>6. bt[m] \in Nat /\ at[n] = e + 2
    <3>1. m \in 0 .. m
      BY <2>2
    <3> QED
      BY <1>14, <2>1, <3>1 DEF n
  <2> QED
    BY <1>7, <1>8, <1>13, <2>1, <2>2, <2>5, <2>6
<1>17. IsEol(T[Len(T)])
  <2>1. N \in 1 .. N
    BY <1>10
  <2>2. at[N] = at[N - 1] + Len(L[N]) + 2 /\ LineIn(T, at[N - 1], L[N])
    BY <1>9, <2>1
  <2>3. T[at[N - 1] + Len(L[N]) + 2] = LF
    BY <2>2 DEF LineIn, LineAt
  <2> QED
    BY <1>7, <2>2, <2>3 DEF IsEol
<1>18. ASSUME NEW i \in 1 .. Len(T), NEW token \in {"boundary", "disp"}, T[i] = token
       PROVE  \/ token = "boundary" /\ i = 1
              \/ token = "disp" /\ i = 4
  <2>1. PICK j \in 1 .. N : at[j - 1] < i /\ i <= at[j]
    BY <1>7, <1>10, <1>11, RisingPlace
  <2> DEFINE p == at[j - 1]
             t == L[j]
  <2>2. p \in Nat /\ t \in Seq(Y) /\ LineIn(T, p, t) /\ at[j] = p + Len(t) + 2
    BY <1>9
  <2>3. ~IsEol(token) /\ i \in Nat
    BY <1>8 DEF IsEol, CR, LF
  <2> HIDE DEF p, t
  <2>4. p < i /\ i <= p + Len(t) + 2
    BY <2>1, <2>2 DEF p
  <2>5. i - p \in 1 .. Len(t) /\ t[i - p] = token
    BY <1>8, <1>18, <2>2, <2>3, <2>4, LineCell
  <2>6. CASE j = 1
    <3>0. j - 1 = 0
      BY <2>6
    <3>1. t = <<"boundary">> /\ p = 0
      BY <1>2, <1>7, <2>6, <3>0 DEF t, p
    <3>2. Len(t) = 1 /\ t[1] = "boundary"
      BY <3>1
    <3> QED
      BY <2>3, <2>5, <3>1, <3>2
  <2>7. CASE j = 2
    <3>0. j - 1 = 1
      BY <2>7
    <3>1. t = <<"disp">> \o part.name /\ p = 3
      BY <1>2, <1>12, <2>7, <3>0 DEF t, p
    <3>2. Len(t) = 1 + Len(part.name) /\ t[1] = "disp" /\ Len(part.name) \in Nat
          /\ \A k \in 1 .. Len(part.name) : t[1 + k] = part.name[k]
      BY <1>4, <3>1
    <3>3. i - p = 1
      <4> SUFFICES ASSUME i - p # 1 PROVE FALSE
        OBVIOUS
      <4>1. (i - p) - 1 \in 1 .. Len(part.name) /\ 1 + ((i - p) - 1) = i - p
        BY <2>3, <2>5, <3>1, <3>2
      <4>2. token \in Letters
        BY <1>4, <2>5, <3>2, <4>1
      <4> QED
        BY <4>2
    <3> QED
      BY <2>3, <2>5, <3>1, <3>2, <3>3
  <2>8. CASE j \in 3 .. N
    <3>1. t \in Seq(Letters)
      BY <1>2, <2>8 DEF t
    <3>2. token \in Letters
      BY <2>5, <3>1
    <3> QED
      BY <3>2
  <2> QED
    BY <1>10, <2>6, <2>7, <2>8
<1>19. PartIn(T, part, 0, e, Len(T))
  <2> HIDE DEF e
  <2>1. \A i \in (0 + 1) .. Len(T) : /\ T[i] = "boundary" => i = 0 + 1
                                     /\ T[i] = "disp" => i = 0 + 4
    BY <1>18
  <2>2. 0 + 3 <= e
    BY <1>13
  <2> QED
    BY <1>12, <1>14, <1>15, <1>16, <1>17, <2>1, <2>2 DEF PartIn, H, h, V
<1> HIDE DEF e
<1> QED
  BY <1>8, <1>13, <1>19 DEF X, Y, T

\* The text piece stands in data from b on.
Within(data, piece, b) ==
  b + Len(piece) <= Len(data) /\ \A i \in 1 .. Len(piece) : data[b + i] = piece[i]

LEMMA LineMoves ==
  ASSUME NEW data, Len(data) \in Nat, NEW piece, Len(piece) \in Nat, NEW b \in Nat,
         Within(data, piece, b), NEW p \in Nat, NEW t, Len(t) \in Nat, LineIn(piece, p, t)
  PROVE  LineIn(data, b + p, t)
<1> DEFINE n == Len(t)
<1>1. /\ p + n + 2 <= Len(piece)
      /\ \A k \in 1 .. n : ~IsEol(piece[p + k]) /\ piece[p + k] = t[k]
      /\ piece[p + n + 1] = CR /\ piece[p + n + 2] = LF
  BY DEF LineIn, LineAt
<1>2. ASSUME NEW i \in 1 .. (n + 2) PROVE data[(b + p) + i] = piece[p + i]
  <2>1. p + i \in 1 .. Len(piece) /\ b + (p + i) = (b + p) + i
    BY <1>1
  <2>2. data[b + (p + i)] = piece[p + i]
    BY <2>1 DEF Within
  <2> QED
    BY <2>1, <2>2
<1>3. ASSUME NEW k \in 1 .. n PROVE ~IsEol(data[(b + p) + k]) /\ data[(b + p) + k] = t[k]
  <2>1. k \in 1 .. (n + 2)
    OBVIOUS
  <2>2. data[(b + p) + k] = piece[p + k]
    BY <1>2, <2>1
  <2> QED
    BY <1>1, <2>2
<1>4. data[(b + p) + n + 1] = CR /\ data[(b + p) + n + 2] = LF
  <2>1. n + 1 \in 1 .. (n + 2) /\ n + 2 \in 1 .. (n + 2)
    OBVIOUS
  <2>2. data[(b + p) + (n + 1)] = piece[p + (n + 1)] /\ data[(b + p) + (n + 2)] = piece[p + (n + 2)]
    BY <1>2, <2>1
  <2>3. (b + p) + (n + 1) = (b + p) + n + 1 /\ (b + p) + (n + 2) = (b + p) + n + 2
        /\ p + (n + 1) = p + n + 1 /\ p + (n + 2) = p + n + 2
    OBVIOUS
  <2> QED
    BY <1>1, <2>2, <2>3
<1>5. (b + p) + n + 2 <= Len(data)
  BY <1>1 DEF Within
<1> QED
  BY <1>3, <1>4, <1>5 DEF LineIn, LineAt

LEMMA PartMoves ==
  ASSUME NEW Letters, NEW part \in PartType(Letters), NEW data, Len(data) \in Nat,
         NEW piece, Len(piece) \in Nat, NEW b \in Nat, Within(data, piece, b), NEW e \in Nat,
         PartIn(piece, part, 0, e, Len(piece)), Len(Joined(part.lines)) \in Nat
  PROVE  PartIn(data, part, b, b + e, b + Len(piece))
<1> DEFINE H == Headers(part)
           h == Len(H)
           c == Len(piece)
<1>1. LineIn(data, b, <<"boundary">>)
  <2>1. LineIn(piece, 0, <<"boundary">>) /\ Len(<<"boundary">>) \in Nat /\ b + 0 = b
    BY DEF PartIn
  <2> DEFINE t == <<"boundary">>
  <2> HIDE DEF t
  <2>2. LineIn(data, b + 0, t)
    BY <2>1, LineMoves DEF t
  <2> QED
    BY <2>1, <2>2 DEF t
<1>2. LineIn(data, b + e, <<>>)
  <2>1. LineIn(piece, e, <<>>) /\ Len(<<>>) \in Nat
    BY DEF PartIn
  <2> QED
    BY <2>1, LineMoves
<1>3. PICK at : LinesAt(piece, H, at) /\ at[0] = 0 + 3 /\ at[h] = e
  BY DEF PartIn
<1>4. H \in Seq(Seq(Letters \cup {"disp"}))
  BY HeadersAre
<1>5. h \in Nat
  BY <1>4
<1>6. at \in [0 .. h -> Nat]
      /\ \A j \in 1 .. h : LineIn(piece, at[j - 1], H[j]) /\ at[j] = at[j - 1] + Len(H[j]) + 2
  BY <1>3 DEF LinesAt
<1>7. \E bt : LinesAt(data, H, bt) /\ bt[0] = b + 3 /\ bt[h] = b + e
  <2> DEFINE bt == [j \in 0 .. h |-> b + at[j]]
  <2> HIDE DEF H, h
  <2>1. bt \in [0 .. h -> Nat]
    BY <1>6
  <2>2. bt[0] = b + 3 /\ bt[h] = b + e
    <3>1. 0 \in 0 .. h /\ h \in 0 .. h
      BY <1>5
    <3> QED
      BY <1>3, <3>1
  <2>3. ASSUME NEW j \in 1 .. h
        PROVE  LineIn(data, bt[j - 1], H[j]) /\ bt[j] = bt[j - 1] + Len(H[j]) + 2
    <3>1. j - 1 \in 0 .. h /\ j \in 0 .. h
      BY <1>5
    <3>2. at[j - 1] \in Nat /\ at[j] \in Nat /\ bt[j - 1] = b + at[j - 1] /\ bt[j] = b + at[j]
      BY <1>6, <3>1
    <3>3. H[j] \in Seq(Letters \cup {"disp"})
      BY <1>4 DEF h
    <3>4. Len(H[j]) \in Nat
      BY <3>3
    <3>5. LineIn(piece, at[j - 1], H[j]) /\ at[j] = at[j - 1] + Len(H[j]) + 2
      BY <1>6
    <3>6. LineIn(data, b + at[j - 1], H[j])
      BY <3>2, <3>4, <3>5, LineMoves
    <3> HIDE DEF bt
    <3>7. bt[j] = bt[j - 1] + Len(H[j]) + 2
      <4> DEFINE x == at[j - 1]
                 y == at[j]
                 l == Len(H[j])
      <4>1. x \in Nat /\ y \in Nat /\ bt[j - 1] = b + x /\ bt[j] = b + y /\ y = x + l + 2 /\ l \in Nat
        BY <3>2, <3>4, <3>5
      <4> HIDE DEF x, y, l
      <4>2. bt[j] = bt[j - 1] + l + 2
        BY <4>1
      <4> QED
        BY <4>2 DEF l
    <3> QED
      BY <3>2, <3>6, <3>7
  <2> HIDE DEF bt
  <2>4. LinesAt(data, H, bt)
    BY <2>1, <2>3 DEF LinesAt, h
  <2> QED
    BY <2>2, <2>4
<1>8. 3 <= e /\ c = e + 2 + Len(Joined(part.lines)) /\ IsEol(piece[c])
      /\ \A i \in 1 .. c : /\ piece[i] = "boundary" => i = 1
                           /\ piece[i] = "disp" => i = 4
  BY DEF PartIn
<1>9. c \in 1 .. c /\ \A i \in 1 .. c : data[b + i] = piece[i]
  BY <1>8 DEF Within
<1> HIDE DEF c
<1>10. c \in Nat
  BY DEF c
<1>11. IsEol(data[b + c])
  BY <1>8, <1>9
<1>12. b + c = (b + e) + 2 + Len(Joined(part.lines)) /\ b + 3 <= b + e
  BY <1>8, <1>10
<1>13. ASSUME NEW i \in (b + 1) .. (b + c)
       PROVE  /\ data[i] = "boundary" => i = b + 1
              /\ data[i] = "disp" => i = b + 4
  <2>1. i - b \in 1 .. c /\ b + (i - b) = i /\ i \in Nat
    BY <1>10
  <2>2. data[i] = piece[i - b]
    BY <1>9, <2>1
  <2>3. (piece[i - b] = "boundary" => i - b = 1) /\ (piece[i - b] = "disp" => i - b = 4)
    BY <1>8, <2>1
  <2> QED
    BY <2>1, <2>2, <2>3
<1>14. PartIn(data, part, b, b + e, b + c)
  <2> HIDE DEF H, h
  <2>1. \E bt : LinesAt(data, Headers(part), bt) /\ bt[0] = b + 3 /\ bt[Len(Headers(part))] = b + e
    BY <1>7 DEF H, h
  <2> QED
    BY <1>1, <1>2, <1>11, <1>12, <1>13, <2>1 DEF PartIn
<1> QED
  BY <1>14 DEF c

\* Where the parts end in the body they are joined to.
PartEnds(parts, B) ==
  /\ B \in [0 .. Len(parts) -> Nat] /\ B[0] = 0
  /\ \A k \in 1 .. Len(parts) : B[k] = B[k - 1] + Len(PartText(parts[k]))

BodyChars(Letters) == Letters \cup {"boundary", "disp"} \cup {CR, LF}

LEMMA LastBoundary ==
  LET Z == Joined(<<<<"boundary">>>>) IN
  Z \in Seq({"boundary", CR, LF}) /\ Len(Z) = 3 /\ LineIn(Z, 0, <<"boundary">>)
<1> DEFINE t == <<<<"boundary">>>>
           Z == Joined(t)
           d == <<"boundary">>
<1>1. t \in Seq(Seq({"boundary"})) /\ Len(t) = 1 /\ t[1] = d /\ d \in Seq({"boundary"}) /\ Len(d) = 1
  OBVIOUS
<1>2. CR \notin {"boundary"} /\ LF \notin {"boundary"}
  BY DEF CR, LF
<1> HIDE DEF t, Z, d
<1>3. /\ Z \in Seq({"boundary"} \cup {CR, LF})
      /\ \E at \in [0 .. Len(t) -> Nat] :
           /\ at[0] = 0 /\ at[Len(t)] = Len(Z)
           /\ \A i \in 1 .. Len(t) :
                /\ at[i] = at[i - 1] + Len(t[i]) + 2
                /\ LineAt(Z, at[i - 1], Len(t[i]))
                /\ SubSeq(Z, at[i - 1] + 1, at[i - 1] + Len(t[i])) = t[i]
  BY <1>1, <1>2, JoinedLines DEF Z
<1>4. PICK at \in [0 .. Len(t) -> Nat] :
           /\ at[0] = 0 /\ at[Len(t)] = Len(Z)
           /\ \A i \in 1 .. Len(t) :
                /\ at[i] = at[i - 1] + Len(t[i]) + 2
                /\ LineAt(Z, at[i - 1], Len(t[i]))
                /\ SubSeq(Z, at[i - 1] + 1, at[i - 1] + Len(t[i])) = t[i]
  BY <1>3
<1>5. /\ at[1] = at[0] + 1 + 2 /\ LineAt(Z, at[0], 1) /\ SubSeq(Z, at[0] + 1, at[0] + 1) = d
  <2>1. 1 \in 1 .. Len(t) /\ 1 - 1 = 0
    BY <1>1
  <2>2. /\ at[1] = at[1 - 1] + Len(t[1]) + 2
        /\ LineAt(Z, at[1 - 1], Len(t[1]))
        /\ SubSeq(Z, at[1 - 1] + 1, at[1 - 1] + Len(t[1])) = t[1]
    BY <1>4, <2>1
  <2> QED
    BY <1>1, <2>1, <2>2
<1>6. Len(Z) = 3
  <2>1. at[1] = Len(Z) /\ at[0] = 0
    BY <1>1, <1>4
  <2> QED
    BY <1>5, <2>1
<1>7. LineAt(Z, 0, Len(d)) /\ SubSeq(Z, 0 + 1, 0 + Len(d)) = d
  BY <1>1, <1>4, <1>5
<1>8. Z \in Seq({"boundary"} \cup {CR, LF}) /\ 0 \in Nat /\ d \in Seq({"boundary"})
  BY <1>1, <1>3
<1>9. LineIn(Z, 0, d)
  BY <1>7, <1>8, LineInIs
<1>10. {"boundary"} \cup {CR, LF} = {"boundary", CR, LF}
  OBVIOUS
<1> QED
  BY <1>6, <1>8, <1>9, <1>10 DEF Z, d, t

\* The pieces of a body.
LEMMA BodyPieces ==
  ASSUME NEW Letters, CR \notin Letters, LF \notin Letters,
         "boundary" \notin Letters, "disp" \notin Letters, NEW parts \in Seq(PartType(Letters))
  PROVE  /\ Body(parts) \in Seq(BodyChars(Letters))
         /\ \E B : /\ PartEnds(parts, B) /\ Len(Body(parts)) = B[Len(parts)] + 3
                   /\ \A k \in 1 .. Len(parts) : Within(Body(parts), PartText(parts[k]), B[k - 1])
                   /\ Within(Body(parts), Joined(<<<<"boundary">>>>), B[Len(parts)])
<1> DEFINE X  == BodyChars(Letters)
           n  == Len(parts)
           ss == [k \in 1 .. Len(parts) |-> PartText(parts[k])]
           F  == FlattenSeq(ss)
           Z  == Joined(<<<<"boundary">>>>)
           data == Body(parts)
<1>1. n \in Nat
  OBVIOUS
<1>2. ASSUME NEW k \in 1 .. n PROVE PartText(parts[k]) \in Seq(X)
  <2>1. parts[k] \in PartType(Letters)
    OBVIOUS
  <2> QED
    BY <2>1, PartLaid DEF BodyChars
<1>3. Z \in Seq(X) /\ Len(Z) = 3
  <2>1. Z \in Seq({"boundary", CR, LF}) /\ Len(Z) = 3
    BY LastBoundary
  <2> HIDE DEF Z
  <2> QED
    BY <2>1 DEF BodyChars
<1> HIDE DEF X
<1>4. ss \in Seq(Seq(X)) /\ Len(ss) = n /\ \A k \in 1 .. n : ss[k] = PartText(parts[k])
  BY <1>1, <1>2
<1>5. data = F \o Z
  BY DEF Body
<1> HIDE DEF ss, n, Z, data
<1>6. F \in Seq(X) /\ \E at : IsCut(ss, F, at)
  BY <1>4, FlattenCut
<1>7. PICK B : IsCut(ss, F, B)
  BY <1>6
<1> HIDE DEF F
<1>8. /\ data \in Seq(X) /\ Len(F) \in Nat /\ Len(data) = Len(F) + 3
      /\ \A k \in 1 .. Len(F) : data[k] = F[k]
      /\ \A k \in 1 .. 3 : data[Len(F) + k] = Z[k]
  <2>1. F \in Seq(X)
    BY <1>6
  <2>2. Z \in Seq(X)
    BY <1>3
  <2>3. /\ data \in Seq(X) /\ Len(F) \in Nat /\ Len(data) = Len(F) + Len(Z)
        /\ \A k \in 1 .. Len(F) : data[k] = F[k]
        /\ \A k \in 1 .. Len(Z) : data[Len(F) + k] = Z[k]
    BY <1>5, <2>1, <2>2, ConcatCells
  <2> QED
    BY <1>3, <2>3
<1>9. B \in [0 .. n -> Nat] /\ B[0] = 0 /\ B[n] = Len(F)
  BY <1>4, <1>7 DEF IsCut
<1>10. ASSUME NEW k \in 1 .. n
       PROVE  /\ B[k] = B[k - 1] + Len(PartText(parts[k])) /\ B[k] <= Len(F)
              /\ \A i \in 1 .. Len(PartText(parts[k])) : F[B[k - 1] + i] = PartText(parts[k])[i]
  BY <1>4, <1>7 DEF IsCut
<1>11. PartEnds(parts, B)
  BY <1>9, <1>10 DEF PartEnds, n
<1>12. ASSUME NEW k \in 1 .. n PROVE Within(data, PartText(parts[k]), B[k - 1])
  <2> DEFINE s == PartText(parts[k])
             b == B[k - 1]
  <2>1. b \in Nat /\ s \in Seq(X)
    BY <1>1, <1>2, <1>9
  <2>2. B[k] = b + Len(s) /\ B[k] <= Len(F) /\ \A i \in 1 .. Len(s) : F[b + i] = s[i]
    BY <1>10
  <2> HIDE DEF s, b
  <2>3. Len(s) \in Nat
    BY <2>1
  <2>4. b + Len(s) <= Len(data)
    BY <1>8, <2>1, <2>2, <2>3
  <2>5. ASSUME NEW i \in 1 .. Len(s) PROVE data[b + i] = s[i]
    <3>1. b + i \in 1 .. Len(F)
      BY <1>8, <2>1, <2>2, <2>3
    <3> QED
      BY <1>8, <2>2, <3>1
  <2>6. Within(data, s, b)
    BY <2>4, <2>5 DEF Within
  <2> QED
    BY <2>6 DEF s, b
<1>13. Within(data, Z, B[n])
  BY <1>3, <1>8, <1>9 DEF Within
<1> QED
  BY <1>8, <1>9, <1>11, <1>12, <1>13 DEF X, n, Z, data

LEMMA EndsRise ==
  ASSUME NEW Letters, CR \notin Letters, LF \notin Letters,
         "boundary" \notin Letters, "disp" \notin Letters, NEW parts \in Seq(PartType(Letters)),
         NEW B, PartEnds(parts, B)
  PROVE  Rising(B, Len(parts))
<1>1. ASSUME NEW k \in 1 .. Len(parts) PROVE B[k - 1] <= B[k]
  <2>1. parts[k] \in PartType(Letters)
    OBVIOUS
  <2> DEFINE s == PartText(parts[k])
  <2>2. s \in Seq(BodyChars(Letters))
    BY <2>1, PartLaid DEF BodyChars
  <2>3. B[k] = B[k - 1] + Len(s) /\ B[k - 1] \in Nat
    <3>1. k - 1 \in 0 .. Len(parts)
      OBVIOUS
    <3> QED
      BY <3>1 DEF PartEnds
  <2> HIDE DEF s
  <2>4. Len(s) \in Nat
    BY <2>2
  <2> QED
    BY <2>3, <2>4
<1> QED
  BY <1>1 DEF PartEnds, Rising

\* The bodies of the first parts are as long as their parts are.
LEMMA PrefixLength ==
  ASSUME NEW Letters, CR \notin Letters, LF \notin Letters,
         "boundary" \notin Letters, "disp" \notin Letters, NEW parts \in Seq(PartType(Letters)),
         NEW B, PartEnds(parts, B), NEW k \in 1 .. Len(parts)
  PROVE  Len(Body(SubSeq(parts, 1, k))) = B[k] + 3
<1> DEFINE P == PartType(Letters)
           u == SubSeq(parts, 1, k)
<1> HIDE DEF P
<1>1. parts \in Seq(P) /\ Len(parts) \in Nat /\ k \in Nat /\ k <= Len(parts)
  BY DEF P
<1>2. u \in Seq(P) /\ Len(u) = k /\ \A i \in 1 .. k : u[i] = parts[i]
  BY <1>1, Beginning
<1> HIDE DEF u
<1>3. u \in Seq(PartType(Letters))
  BY <1>2 DEF P
<1>4. PICK C : PartEnds(u, C) /\ Len(Body(u)) = C[Len(u)] + 3
  BY <1>3, BodyPieces
<1>5. ASSUME NEW i \in 0 .. k PROVE B[0 + i] \in Nat /\ C[i] \in Nat
  <2>1. i \in 0 .. Len(parts) /\ i \in 0 .. Len(u) /\ 0 + i = i
    BY <1>1, <1>2
  <2> QED
    BY <1>4, <2>1 DEF PartEnds
<1>6. ASSUME NEW i \in 1 .. k PROVE B[0 + i] - B[0 + (i - 1)] = C[i] - C[i - 1]
  <2>1. i \in 1 .. Len(parts) /\ i \in 1 .. Len(u) /\ 0 + i = i /\ 0 + (i - 1) = i - 1
        /\ i \in 0 .. k /\ i - 1 \in 0 .. k
    BY <1>1, <1>2
  <2> DEFINE l == Len(PartText(parts[i]))
  <2>2. B[i] = B[i - 1] + l /\ C[i] = C[i - 1] + l
    BY <1>2, <1>4, <2>1 DEF PartEnds
  <2>3. l \in Nat
    <3>1. parts[i] \in PartType(Letters)
      BY <2>1
    <3>2. PartText(parts[i]) \in Seq(BodyChars(Letters))
      BY <3>1, PartLaid DEF BodyChars
    <3> QED
      BY <3>2
  <2>4. B[0 + i] \in Nat /\ B[0 + (i - 1)] \in Nat /\ C[i] \in Nat /\ C[i - 1] \in Nat
    BY <1>5, <2>1
  <2> HIDE DEF l
  <2> QED
    BY <2>1, <2>2, <2>3, <2>4
<1>7. B[0 + k] - B[0] = C[k] - C[0]
  <2>1. Alike(B, 0, C, k)
    BY <1>5, <1>6 DEF Alike
  <2>2. \A i \in Nat, l \in Nat : \A x, y : Alike(x, i, y, l) => x[i + l] - x[i] = y[l] - y[0]
    BY SameSteps
  <2>3. \A x, y : Alike(x, 0, y, k) => x[0 + k] - x[0] = y[k] - y[0]
    BY <1>1, <2>2
  <2> QED
    BY <2>1, <2>3
<1>8. B[0] = 0 /\ C[0] = 0 /\ B[k] \in Nat /\ C[k] \in Nat /\ 0 + k = k
  <2>1. k \in 0 .. k
    BY <1>1
  <2>2. 0 + k = k
    OBVIOUS
  <2> QED
    BY <1>4, <1>5, <2>1, <2>2 DEF PartEnds
<1>9. B[k] = C[k]
  BY <1>7, <1>8
<1> QED
  BY <1>2, <1>4, <1>9 DEF u

\* A body is laid out as the search needs it.
LEMMA BodyLaid ==
  ASSUME NEW Letters, CR \notin Letters, LF \notin Letters,
         "boundary" \notin Letters, "disp" \notin Letters, NEW parts \in Seq(PartType(Letters))
  PROVE  /\ Body(parts) \in Seq(BodyChars(Letters))
         /\ \E B, E : PartEnds(parts, B) /\ BodyIn(Body(parts), parts, B, E)
<1> DEFINE n == Len(parts)
           data == Body(parts)
           Z == Joined(<<<<"boundary">>>>)
<1>1. n \in Nat /\ data \in Seq(BodyChars(Letters))
  BY BodyPieces
<1>2. PICK B : /\ PartEnds(parts, B) /\ Len(data) = B[n] + 3
               /\ \A k \in 1 .. n : Within(data, PartText(parts[k]), B[k - 1])
               /\ Within(data, Z, B[n])
  BY BodyPieces
<1>3. Len(data) \in Nat
  BY <1>1
<1>4. B \in [0 .. n -> Nat] /\ Rising(B, n)
  BY <1>2, EndsRise DEF PartEnds
<1> HIDE DEF data, Z
<1>5. LineIn(data, B[n], <<"boundary">>)
  <2> DEFINE t == <<"boundary">>
  <2>1. Len(Z) \in Nat /\ LineIn(Z, 0, t) /\ Len(t) \in Nat
    BY LastBoundary DEF Z
  <2>2. n \in 0 .. n
    BY <1>1
  <2>3. B[n] \in Nat /\ B[n] + 0 = B[n]
    BY <1>4, <2>2
  <2> HIDE DEF t, n
  <2>4. LineIn(data, B[n] + 0, t)
    BY <1>2, <1>3, <2>1, <2>3, LineMoves
  <2> QED
    BY <2>3, <2>4 DEF t
<1>6. ASSUME NEW k \in 1 .. n PROVE \E e \in Nat : PartIn(data, parts[k], B[k - 1], e, B[k])
  <2> DEFINE part == parts[k]
             s == PartText(part)
             b == B[k - 1]
  <2>1. part \in PartType(Letters)
    OBVIOUS
  <2>2. b \in Nat /\ B[k] = b + Len(s) /\ Within(data, s, b)
    <3>1. k - 1 \in 0 .. n
      BY <1>1
    <3> QED
      BY <1>2, <1>4, <3>1 DEF PartEnds
  <2> HIDE DEF part, b
  <2>3. s \in Seq(BodyChars(Letters)) /\ \E e \in Nat : PartIn(s, part, 0, e, Len(s))
    BY <2>1, PartLaid DEF BodyChars
  <2>4. PICK e \in Nat : PartIn(s, part, 0, e, Len(s))
    BY <2>3
  <2> HIDE DEF s
  <2>5. Len(s) \in Nat
    BY <2>3
  <2>6. Len(Joined(part.lines)) \in Nat
    <3>1. part.lines \in Seq(Seq(Letters))
      BY <2>1 DEF PartType
    <3>2. Joined(part.lines) \in Seq(Letters \cup {CR, LF})
      BY <3>1, JoinedLines
    <3> QED
      BY <3>2
  <2>7. PartIn(data, part, b, b + e, b + Len(s))
    BY <1>3, <2>1, <2>2, <2>4, <2>5, <2>6, PartMoves
  <2>8. b + e \in Nat
    BY <2>2
  <2> QED
    BY <2>2, <2>7, <2>8 DEF part, b
<1> DEFINE E == [k \in 1 .. n |-> CHOOSE e \in Nat : PartIn(data, parts[k], B[k - 1], e, B[k])]
<1>7. ASSUME NEW k \in 1 .. n PROVE E[k] \in Nat /\ PartIn(data, parts[k], B[k - 1], E[k], B[k])
  BY <1>6
<1>8. E \in [1 .. n -> Nat]
  <2>1. E = [k \in 1 .. n |-> E[k]]
    OBVIOUS
  <2> HIDE DEF E
  <2> QED
    BY <1>7, <2>1
<1> HIDE DEF E
<1>9. BodyIn(data, parts, B, E)
  BY <1>2, <1>4, <1>5, <1>7, <1>8 DEF BodyIn
<1> QED
  BY <1>1, <1>2, <1>9 DEF data
-----------------------------------------------------------------------------
\* httpdFindMultipartArg finds, in every body, the value of the first part
\* whose name begins with arg, from its first byte to the boundary behind it,
\* whatever parts, header lines and empty lines come before: for every length
\* of the lines and of a read of the flash, as long as no header line ends on
\* the last character of a read.
THEOREM PartIsFound ==
  ASSUME NEW Letters, CR \notin Letters, LF \notin Letters,
         "boundary" \notin Letters, "disp" \notin Letters,
         NEW parts \in Seq(PartType(Letters)), NEW arg \in Seq(Letters), CutWell(parts)
  PROVE  FindMultipartArg(Body(parts), arg) = PartWanted(parts, arg)
<1> DEFINE data == Body(parts)
           hits == Hits(parts, arg)
           k    == Min(hits)
           value == Len(Joined(parts[k].lines))
<1>1. data \in Seq(BodyChars(Letters))
  BY BodyLaid
<1>2. PICK B, E : PartEnds(parts, B) /\ BodyIn(data, parts, B, E)
  BY BodyLaid
<1> HIDE DEF data
<1>3. /\ hits = {} => FindMultipartArg(data, arg) = NotFound
      /\ hits # {} => FindMultipartArg(data, arg) = [size |-> value, start |-> E[k] + 2]
  BY <1>1, <1>2, FoundIn
<1>4. PartWanted(parts, arg)
        = IF hits = {} THEN NotFound
          ELSE [size |-> value, start |-> Len(Body(SubSeq(parts, 1, k))) - 3 - value]
  BY DEF PartWanted, Hits
<1>5. ASSUME hits # {} PROVE Len(Body(SubSeq(parts, 1, k))) - 3 - value = E[k] + 2
  <2>1. k \in 1 .. Len(parts)
    <3>1. hits \in SUBSET Nat /\ hits \in SUBSET (1 .. Len(parts))
      BY DEF Hits
    <3>2. k \in hits
      <4> HIDE DEF hits
      <4> QED
        BY <1>5, <3>1, Smallest
    <3> QED
      BY <3>1, <3>2
  <2> HIDE DEF k, hits
  <2>2. Len(Body(SubSeq(parts, 1, k))) = B[k] + 3
    BY <1>2, <2>1, PrefixLength
  <2>3. B[k] = E[k] + 2 + value
    <3>1. PartIn(data, parts[k], B[k - 1], E[k], B[k])
      BY <1>2, <2>1 DEF BodyIn
    <3> QED
      BY <3>1 DEF PartIn
  <2>4. value \in Nat
    <3>1. parts[k] \in PartType(Letters)
      BY <2>1
    <3>2. parts[k].lines \in Seq(Seq(Letters))
      BY <3>1 DEF PartType
    <3>3. Joined(parts[k].lines) \in Seq(Letters \cup {CR, LF})
      BY <3>2, JoinedLines
    <3> QED
      BY <3>3
  <2>5. E[k] \in Nat
    BY <1>2, <2>1 DEF BodyIn
  <2> HIDE DEF value
  <2> QED
    BY <2>2, <2>3, <2>4, <2>5
<1> HIDE DEF hits, k, value
<1>6. FindMultipartArg(data, arg) = PartWanted(parts, arg)
  BY <1>3, <1>4, <1>5
<1> QED
  BY <1>6 DEF data
-----------------------------------------------------------------------------
LEMMA LineIsText == \A n \in Nat : Line(n) \in Seq({"x"}) /\ Len(Line(n)) = n
BY DEF Line

\* PartFound holds of every body that is chosen.
THEOREM PartTheorem == Spec => []PartFound
<1>1. Chosen => PartFound
  <2> SUFFICES ASSUME Chosen, input.kind = "part", CutWell(input.parts)
               PROVE  FindMultipartArg(Body(input.parts), input.arg)
                        = PartWanted(input.parts, input.arg)
    BY DEF PartFound
  <2> DEFINE Letters == {"a", "b", "c", "x"}
  <2>1. input.parts \in Texts(Part, 2) /\ input.arg \in Names2 \cup {<<"a">>}
    BY DEF Chosen, PartsIn
  <2>2. Names2 \subseteq Seq(Letters) /\ <<"a">> \in Seq(Letters)
    BY DEF Names2
  <2>3. CR \notin Letters /\ LF \notin Letters /\ "boundary" \notin Letters /\ "disp" \notin Letters
    BY DEF CR, LF
  <2>4. \A n \in Nat : Line(n) \in Seq(Letters) /\ Len(Line(n)) = n
    <3>1. \A n \in Nat : Line(n) \in Seq({"x"}) /\ Len(Line(n)) = n
      BY LineIsText
    <3>2. Seq({"x"}) \subseteq Seq(Letters)
      OBVIOUS
    <3> QED
      BY <3>1, <3>2
  <2> HIDE DEF Letters
  <2>5. Part \subseteq PartType(Letters)
    <3> SUFFICES ASSUME NEW p \in Part PROVE p \in PartType(Letters)
      OBVIOUS
    <3>1. /\ p.name \in Names2
          /\ p.headers \in {<<>>} \cup {<<Line(n)>> : n \in 1 .. 3}
          /\ p.lines \in {<<>>, <<Line(0)>>, <<Line(2), Line(0)>>, <<Line(3), Line(5)>>}
          /\ p = [name |-> p.name, headers |-> p.headers, lines |-> p.lines]
      BY DEF Part
    <3>2. p.headers \in Seq(Seq(Letters) \ {<<>>})
      <4>1. CASE p.headers = <<>>
        BY <4>1
      <4>2. CASE p.headers \in {<<Line(n)>> : n \in 1 .. 3}
        <5>1. PICK n \in 1 .. 3 : p.headers = <<Line(n)>>
          BY <4>2
        <5>2. Line(n) \in Seq(Letters) /\ Len(Line(n)) = n
          BY <2>4
        <5>3. Line(n) # <<>>
          BY <5>2
        <5> QED
          BY <5>1, <5>2, <5>3
      <4> QED
        BY <3>1, <4>1, <4>2
    <3>3. p.lines \in Seq(Seq(Letters))
      <4>1. Line(0) \in Seq(Letters) /\ Line(2) \in Seq(Letters)
            /\ Line(3) \in Seq(Letters) /\ Line(5) \in Seq(Letters)
        BY <2>4
      <4> DEFINE S == Seq(Letters)
      <4> HIDE DEF S
      <4>2. <<>> \in Seq(S)
        OBVIOUS
      <4>3. \A t \in S : <<t>> \in Seq(S)
        OBVIOUS
      <4>4. \A t \in S, u \in S : <<t, u>> \in Seq(S)
        OBVIOUS
      <4>5. /\ <<Line(0)>> \in Seq(S) /\ <<Line(2), Line(0)>> \in Seq(S)
            /\ <<Line(3), Line(5)>> \in Seq(S)
        BY <4>1, <4>3, <4>4 DEF S
      <4>6. p.lines \in Seq(S)
        BY <3>1, <4>2, <4>5
      <4> QED
        BY <4>6 DEF S
    <3> QED
      BY <2>2, <3>1, <3>2, <3>3 DEF PartType
  <2>6. input.parts \in Seq(Part)
    BY <2>1, TextsAreSequences
  <2>7. input.parts \in Seq(PartType(Letters))
    BY <2>5, <2>6
  <2>8. input.arg \in Seq(Letters)
    BY <2>1, <2>2
  <2> QED
    BY <2>3, <2>7, <2>8, PartIsFound
<1> QED
  BY <1>1, ChosenHolds, PTL
=============================================================================
