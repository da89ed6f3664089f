---------------------------- MODULE KeyBufProofs ----------------------------
(***************************************************************************)
(* Theorems about KeyBuf, for every matrix, every set of keys that may be  *)
(* held and every value of the bounds.  The loops of kb_rmv_ghost_key,     *)
(* kb_remap_key_code and key_buf_merge first, each by what it keeps, then  *)
(* the inductive invariant, then the theorems; last, why keys that are     *)
(* held come to be told.                                                   *)
(***************************************************************************)
EXTENDS KeyBuf, FiniteSetTheorems, FunctionTheorems, SequenceTheorems,
        WellFoundedInduction, TLAPS

\* What holds of zero and with every number of the next one holds of all numbers.
LEMMA SetInduction ==
  ASSUME NEW S, 0 \in S, \A n \in Nat : n \in S => n + 1 \in S
  PROVE  Nat \subseteq S
<1> SUFFICES ASSUME Nat \ S # {} PROVE FALSE
  OBVIOUS
<1> DEFINE R == {ss \in Nat \X Nat : ss[1] < ss[2]}
<1>1. IsWellFoundedOn(R, Nat)
  BY NatLessThanWellFounded DEF OpToRel
<1>2. PICK x \in Nat \ S : \A y \in Nat \ S : ~(<<y, x>> \in R)
  <2>1. Nat \ S \subseteq Nat
    OBVIOUS
  <2> HIDE DEF R
  <2> QED BY <1>1, <2>1, WFMin
<1>3. x # 0 /\ x \in Nat
  OBVIOUS
<1>4. x - 1 \in Nat /\ x - 1 < x /\ (x - 1) + 1 = x
  BY <1>3
<1>5. x - 1 \notin S
  BY <1>4
<1>6. <<x - 1, x>> \in R
  BY <1>3, <1>4
<1> QED  BY <1>2, <1>4, <1>5, <1>6
-----------------------------------------------------------------------------
(* The folds, seen as a loop over the buffer *)

\* Reports with no more keys than kb_data_t has room for.
FitReports == {r \in Reports : Len(r.keys) <= MaxKeys}

MergeStep(acc, r) ==
  IF acc # <<>> /\ Joins(Last(acc), r)
  THEN Append(Front(acc), [Last(acc) EXCEPT !.keys = @ \o r.keys])
  ELSE Append(acc, r)
Strokes(r) == IF Plain(r) THEN [i \in DOMAIN r.keys |-> [r EXCEPT !.keys = <<r.keys[i]>>]]
                          ELSE <<r>>
TypeStep(acc, r) ==
  IF Plain(r) THEN acc \o [i \in DOMAIN r.keys |-> [r EXCEPT !.keys = <<r.keys[i]>>]]
              ELSE Append(acc, r)

LEMMA MaxOfPrefix ==
  ASSUME NEW k \in Nat, NEW s \in SUBSET (1 .. k), k \in s
  PROVE  Max(s) = k
<1>1. \A x \in s : x \in Nat /\ x <= k
  OBVIOUS
<1>2. \A x \in s : (\A y \in s : x >= y) => x = k
  BY <1>1
<1>3. k \in s /\ \A y \in s : k >= y
  BY <1>1
<1> QED  BY <1>2, <1>3 DEF Max

LEMMA MergeLoop ==
  ASSUME NEW b \in Seq(Reports)
  PROVE  \E m : /\ m[0] = <<>> /\ Merged(b) = m[Len(b)]
               /\ \A i \in 1 .. Len(b) : m[i] = MergeStep(m[i - 1], b[i])
<1> DEFINE Iter(f, k) ==
             f = [s \in SUBSET (1 .. k) |->
                    IF s = {} THEN <<>> ELSE MergeStep(f[s \ {Max(s)}], b[Max(s)])]
           S == {k \in Nat : \E f : Iter(f, k)}
           n == Len(b)
<1>1. 0 \in S
  <2> DEFINE f == [s \in SUBSET (1 .. 0) |-> <<>>]
  <2>1. SUBSET (1 .. 0) = {{}}
    OBVIOUS
  <2>2. Iter(f, 0)
    BY <2>1
  <2> QED  BY <2>2
<1>2. ASSUME NEW k \in Nat, k \in S PROVE k + 1 \in S
  <2>1. PICK f : Iter(f, k)
    BY <1>2
  <2> DEFINE h == [s \in SUBSET (1 .. k + 1) |->
                     IF k + 1 \in s THEN MergeStep(f[s \ {k + 1}], b[k + 1]) ELSE f[s]]
  <2>2. ASSUME NEW s \in SUBSET (1 .. k + 1)
        PROVE  h[s] = IF s = {} THEN <<>> ELSE MergeStep(h[s \ {Max(s)}], b[Max(s)])
    <3>1. CASE k + 1 \in s
      <4>1. Max(s) = k + 1
        BY <3>1, MaxOfPrefix
      <4>2. s \ {k + 1} \in SUBSET (1 .. k + 1) /\ k + 1 \notin s \ {k + 1}
        OBVIOUS
      <4>3. h[s \ {k + 1}] = f[s \ {k + 1}]
        BY <4>2
      <4> QED  BY <3>1, <4>1, <4>3
    <3>2. CASE k + 1 \notin s
      <4>1. s \in SUBSET (1 .. k) /\ s \ {Max(s)} \in SUBSET (1 .. k)
        <5>1. ASSUME NEW x \in s PROVE x \in 1 .. k
          <6>1. x \in 1 .. k + 1 /\ x # k + 1
            BY <3>2
          <6> QED  BY <6>1
        <5> QED  BY <5>1
      <4>2. s \ {Max(s)} \in SUBSET (1 .. k + 1) /\ k + 1 \notin s \ {Max(s)}
        BY <3>2
      <4>3. h[s] = f[s] /\ h[s \ {Max(s)}] = f[s \ {Max(s)}]
        BY <3>2, <4>2
      <4>4. f[s] = IF s = {} THEN <<>> ELSE MergeStep(f[s \ {Max(s)}], b[Max(s)])
        BY <2>1, <4>1
      <4> QED  BY <4>3, <4>4
    <3> QED  BY <3>1, <3>2
  <2> HIDE DEF h
  <2>3. Iter(h, k + 1)
    BY <2>2 DEF h
  <2>4. \E g : Iter(g, k + 1)
    BY <2>3
  <2> HIDE DEF Iter
  <2> QED  BY <2>4
<1> HIDE DEF S
<1>3. n \in S /\ n \in Nat /\ DOMAIN b = 1 .. n
  BY <1>1, <1>2, SetInduction
<1> DEFINE f == CHOOSE f : Iter(f, n)
<1>4. Iter(f, n)
  BY <1>3 DEF S
<1>5. Merged(b) = f[1 .. n]
  <2>1. Merged(b) = (CHOOSE g : g = [s \in SUBSET DOMAIN b |->
                     IF s = {} THEN <<>> ELSE MergeStep(g[s \ {Max(s)}], b[Max(s)])])[DOMAIN b]
    BY DEF Merged, MergeStep, FoldLeft, MapThenFoldSet
  <2> QED  BY <1>3, <2>1
<1> HIDE DEF f
<1> DEFINE m == [i \in 0 .. n |-> f[1 .. i]]
<1>6. m[0] = <<>>
  <2>1. 1 .. 0 = {} /\ {} \in SUBSET (1 .. n)
    OBVIOUS
  <2>2. f[{}] = <<>>
    BY <1>4, <2>1
  <2> QED  BY <1>3, <2>1, <2>2
<1>7. ASSUME NEW i \in 1 .. n PROVE m[i] = MergeStep(m[i - 1], b[i])
  <2>1. i \in Nat /\ 1 .. i \in SUBSET (1 .. i) /\ i \in 1 .. i
    BY <1>3
  <2>2. Max(1 .. i) = i
    BY <2>1, MaxOfPrefix
  <2>3. (1 .. i) \ {i} = 1 .. (i - 1) /\ 1 .. i # {} /\ 1 .. i \in SUBSET (1 .. n)
    <3>1. n \in Nat /\ i \in Nat /\ i <= n
      BY <1>3
    <3>2. ASSUME NEW x PROVE x \in (1 .. i) \ {i} <=> x \in 1 .. (i - 1)
      BY <3>1
    <3>3. ASSUME NEW x \in 1 .. i PROVE x \in 1 .. n
      BY <3>1
    <3> QED  BY <2>1, <3>2, <3>3
  <2>4. f[1 .. i] = MergeStep(f[1 .. (i - 1)], b[i])
    BY <1>4, <2>2, <2>3
  <2>5. m[i] = f[1 .. i] /\ m[i - 1] = f[1 .. (i - 1)]
    BY <1>3
  <2> QED  BY <2>4, <2>5
<1>8. m[n] = f[1 .. n]
  BY <1>3
<1> QED  BY <1>5, <1>6, <1>7, <1>8

LEMMA MergeSnoc ==
  /\ Merged(<<>>) = <<>>
  /\ \A b \in Seq(Reports), r \in Reports : Merged(Append(b, r)) = MergeStep(Merged(b), r)
<1>1. Merged(<<>>) = <<>>
  <2>1. <<>> \in Seq(Reports) /\ Len(<<>>) = 0
    OBVIOUS
  <2> QED  BY <2>1, MergeLoop
<1>2. ASSUME NEW b \in Seq(Reports), NEW r \in Reports
      PROVE  Merged(Append(b, r)) = MergeStep(Merged(b), r)
  <2> DEFINE c == Append(b, r)
             n == Len(b)
  <2>1. /\ c \in Seq(Reports) /\ Len(c) = n + 1 /\ n \in Nat
        /\ c[n + 1] = r /\ \A i \in 1 .. n : c[i] = b[i]
    OBVIOUS
  <2> HIDE DEF c, n
  <2>2. PICK m : /\ m[0] = <<>> /\ Merged(b) = m[n]
                 /\ \A i \in 1 .. n : m[i] = MergeStep(m[i - 1], b[i])
    BY MergeLoop DEF n
  <2>3. PICK q : /\ q[0] = <<>> /\ Merged(c) = q[n + 1]
                 /\ \A i \in 1 .. n + 1 : q[i] = MergeStep(q[i - 1], c[i])
    <3>1. \E q : /\ q[0] = <<>> /\ Merged(c) = q[Len(c)]
                 /\ \A i \in 1 .. Len(c) : q[i] = MergeStep(q[i - 1], c[i])
      BY <2>1, MergeLoop
    <3> QED  BY <2>1, <3>1
  <2> DEFINE S == {k \in Nat : k <= n => q[k] = m[k]}
  <2>4. 0 \in S
    BY <2>2, <2>3
  <2>5. ASSUME NEW k \in Nat, k \in S PROVE k + 1 \in S
    <3> SUFFICES ASSUME k + 1 <= n PROVE q[k + 1] = m[k + 1]
      OBVIOUS
    <3>1. k + 1 \in 1 .. n /\ k + 1 \in 1 .. n + 1 /\ (k + 1) - 1 = k /\ k <= n
      BY <2>1
    <3>2. q[k] = m[k] /\ c[k + 1] = b[k + 1]
      BY <2>1, <2>5, <3>1
    <3>3. q[k + 1] = MergeStep(q[k], c[k + 1]) /\ m[k + 1] = MergeStep(m[k], b[k + 1])
      BY <2>2, <2>3, <3>1
    <3> QED  BY <3>2, <3>3
  <2> HIDE DEF S
  <2>6. n \in S
    BY <2>1, <2>4, <2>5, SetInduction
  <2>7. q[n] = m[n]
    BY <2>1, <2>6 DEF S
  <2>8. q[n + 1] = MergeStep(q[n], r)
    <3>1. n + 1 \in 1 .. n + 1 /\ (n + 1) - 1 = n
      BY <2>1
    <3> QED  BY <2>1, <2>3, <3>1
  <2> QED  BY <2>2, <2>3, <2>7, <2>8 DEF c
<1> QED  BY <1>1, <1>2

LEMMA TypeLoop ==
  ASSUME NEW b \in Seq(Reports)
  PROVE  \E m : /\ m[0] = <<>> /\ Typing(b) = m[Len(b)]
               /\ \A i \in 1 .. Len(b) : m[i] = TypeStep(m[i - 1], b[i])
<1> DEFINE Iter(f, k) ==
             f = [s \in SUBSET (1 .. k) |->
                    IF s = {} THEN <<>> ELSE TypeStep(f[s \ {Max(s)}], b[Max(s)])]
           S == {k \in Nat : \E f : Iter(f, k)}
           n == Len(b)
<1>1. 0 \in S
  <2> DEFINE f == [s \in SUBSET (1 .. 0) |-> <<>>]
  <2>1. SUBSET (1 .. 0) = {{}}
    OBVIOUS
  <2>2. Iter(f, 0)
    BY <2>1
  <2> QED  BY <2>2
<1>2. ASSUME NEW k \in Nat, k \in S PROVE k + 1 \in S
  <2>1. PICK f : Iter(f, k)
    BY <1>2
  <2> DEFINE h == [s \in SUBSET (1 .. k + 1) |->
                     IF k + 1 \in s THEN TypeStep(f[s \ {k + 1}], b[k + 1]) ELSE f[s]]
  <2>2. ASSUME NEW s \in SUBSET (1 .. k + 1)
        PROVE  h[s] = IF s = {} THEN <<>> ELSE TypeStep(h[s \ {Max(s)}], b[Max(s)])
    <3>1. CASE k + 1 \in s
      <4>1. Max(s) = k + 1
        BY <3>1, MaxOfPrefix
      <4>2. s \ {k + 1} \in SUBSET (1 .. k + 1) /\ k + 1 \notin s \ {k + 1}
        OBVIOUS
      <4>3. h[s \ {k + 1}] = f[s \ {k + 1}]
        BY <4>2
      <4> QED  BY <3>1, <4>1, <4>3
    <3>2. CASE k + 1 \notin s
      <4>1. s \in SUBSET (1 .. k) /\ s \ {Max(s)} \in SUBSET (1 .. k)
        <5>1. ASSUME NEW x \in s PROVE x \in 1 .. k
          <6>1. x \in 1 .. k + 1 /\ x # k + 1
            BY <3>2
          <6> QED  BY <6>1
        <5> QED  BY <5>1
      <4>2. s \ {Max(s)} \in SUBSET (1 .. k + 1) /\ k + 1 \notin s \ {Max(s)}
        BY <3>2
      <4>3. h[s] = f[s] /\ h[s \ {Max(s)}] = f[s \ {Max(s)}]
        BY <3>2, <4>2
      <4>4. f[s] = IF s = {} THEN <<>> ELSE TypeStep(f[s \ {Max(s)}], b[Max(s)])
        BY <2>1, <4>1
      <4> QED  BY <4>3, <4>4
    <3> QED  BY <3>1, <3>2
  <2> HIDE DEF h
  <2>3. Iter(h, k + 1)
    BY <2>2 DEF h
  <2>4. \E g : Iter(g, k + 1)
    BY <2>3
  <2> HIDE DEF Iter
  <2> QED  BY <2>4
<1> HIDE DEF S
<1>3. n \in S /\ n \in Nat /\ DOMAIN b = 1 .. n
  BY <1>1, <1>2, SetInduction
<1> DEFINE f == CHOOSE f : Iter(f, n)
<1>4. Iter(f, n)
  BY <1>3 DEF S
<1>5. Typing(b) = f[1 .. n]
  <2>1. Typing(b) = (CHOOSE g : g = [s \in SUBSET DOMAIN b |->
                     IF s = {} THEN <<>> ELSE TypeStep(g[s \ {Max(s)}], b[Max(s)])])[DOMAIN b]
    BY DEF Typing, TypeStep, FoldLeft, MapThenFoldSet
  <2> QED  BY <1>3, <2>1
<1> HIDE DEF f
<1> DEFINE m == [i \in 0 .. n |-> f[1 .. i]]
<1>6. m[0] = <<>>
  <2>1. 1 .. 0 = {} /\ {} \in SUBSET (1 .. n)
    OBVIOUS
  <2>2. f[{}] = <<>>
    BY <1>4, <2>1
  <2> QED  BY <1>3, <2>1, <2>2
<1>7. ASSUME NEW i \in 1 .. n PROVE m[i] = TypeStep(m[i - 1], b[i])
  <2>1. i \in Nat /\ 1 .. i \in SUBSET (1 .. i) /\ i \in 1 .. i
    BY <1>3
  <2>2. Max(1 .. i) = i
    BY <2>1, MaxOfPrefix
  <2>3. (1 .. i) \ {i} = 1 .. (i - 1) /\ 1 .. i # {} /\ 1 .. i \in SUBSET (1 .. n)
    <3>1. n \in Nat /\ i \in Nat /\ i <= n
      BY <1>3
    <3>2. ASSUME NEW x PROVE x \in (1 .. i) \ {i} <=> x \in 1 .. (i - 1)
      BY <3>1
    <3>3. ASSUME NEW x \in 1 .. i PROVE x \in 1 .. n
      BY <3>1
    <3> QED  BY <2>1, <3>2, <3>3
  <2>4. f[1 .. i] = TypeStep(f[1 .. (i - 1)], b[i])
    BY <1>4, <2>2, <2>3
  <2>5. m[i] = f[1 .. i] /\ m[i - 1] = f[1 .. (i - 1)]
    BY <1>3
  <2> QED  BY <2>4, <2>5
<1>8. m[n] = f[1 .. n]
  BY <1>3
<1> QED  BY <1>5, <1>6, <1>7, <1>8

LEMMA TypeSnoc ==
  /\ Typing(<<>>) = <<>>
  /\ \A b \in Seq(Reports), r \in Reports : Typing(Append(b, r)) = TypeStep(Typing(b), r)
<1>1. Typing(<<>>) = <<>>
  <2>1. <<>> \in Seq(Reports) /\ Len(<<>>) = 0
    OBVIOUS
  <2> QED  BY <2>1, TypeLoop
<1>2. ASSUME NEW b \in Seq(Reports), NEW r \in Reports
      PROVE  Typing(Append(b, r)) = TypeStep(Typing(b), r)
  <2> DEFINE c == Append(b, r)
             n == Len(b)
  <2>1. /\ c \in Seq(Reports) /\ Len(c) = n + 1 /\ n \in Nat
        /\ c[n + 1] = r /\ \A i \in 1 .. n : c[i] = b[i]
    OBVIOUS
  <2> HIDE DEF c, n
  <2>2. PICK m : /\ m[0] = <<>> /\ Typing(b) = m[n]
                 /\ \A i \in 1 .. n : m[i] = TypeStep(m[i - 1], b[i])
    BY TypeLoop DEF n
  <2>3. PICK q : /\ q[0] = <<>> /\ Typing(c) = q[n + 1]
                 /\ \A i \in 1 .. n + 1 : q[i] = TypeStep(q[i - 1], c[i])
    <3>1. \E q : /\ q[0] = <<>> /\ Typing(c) = q[Len(c)]
                 /\ \A i \in 1 .. Len(c) : q[i] = TypeStep(q[i - 1], c[i])
      BY <2>1, TypeLoop
    <3> QED  BY <2>1, <3>1
  <2> DEFINE S == {k \in Nat : k <= n => q[k] = m[k]}
  <2>4. 0 \in S
    BY <2>2, <2>3
  <2>5. ASSUME NEW k \in Nat, k \in S PROVE k + 1 \in S
    <3> SUFFICES ASSUME k + 1 <= n PROVE q[k + 1] = m[k + 1]
      OBVIOUS
    <3>1. k + 1 \in 1 .. n /\ k + 1 \in 1 .. n + 1 /\ (k + 1) - 1 = k /\ k <= n
      BY <2>1
    <3>2. q[k] = m[k] /\ c[k + 1] = b[k + 1]
      BY <2>1, <2>5, <3>1
    <3>3. q[k + 1] = TypeStep(q[k], c[k + 1]) /\ m[k + 1] = TypeStep(m[k], b[k + 1])
      BY <2>2, <2>3, <3>1
    <3> QED  BY <3>2, <3>3
  <2> HIDE DEF S
  <2>6. n \in S
    BY <2>1, <2>4, <2>5, SetInduction
  <2>7. q[n] = m[n]
    BY <2>1, <2>6 DEF S
  <2>8. q[n + 1] = TypeStep(q[n], r)
    <3>1. n + 1 \in 1 .. n + 1 /\ (n + 1) - 1 = n
      BY <2>1
    <3> QED  BY <2>1, <2>3, <3>1
  <2> QED  BY <2>2, <2>3, <2>7, <2>8 DEF c
<1> QED  BY <1>1, <1>2
-----------------------------------------------------------------------------
(* What merging keeps *)

LEMMA LastOf ==
  ASSUME NEW T, NEW b \in Seq(T), b # <<>>
  PROVE  /\ Front(b) \in Seq(T) /\ Last(b) \in T
         /\ Len(b) \in Nat \ {0} /\ Len(Front(b)) = Len(b) - 1
         /\ b = Append(Front(b), Last(b))
<1>1. PICK s \in Seq(T), e \in T : b = Append(s, e)
  BY SequenceEmptyOrAppend
<1>2. Len(b) = Len(s) + 1 /\ Len(s) \in Nat /\ b[Len(b)] = e /\ \A i \in 1 .. Len(s) : b[i] = s[i]
  BY <1>1, AppendProperties
<1>3. Last(b) = e
  BY <1>2 DEF Last
<1>4. Front(b) = s
  <2>1. Front(b) = SubSeq(b, 1, Len(s))
    BY <1>2 DEF Front
  <2>2. \A i \in 1 .. Len(s) : b[i] \in T
    BY <1>2
  <2>3. /\ SubSeq(b, 1, Len(s)) \in Seq(T) /\ Len(SubSeq(b, 1, Len(s))) = Len(s)
        /\ \A i \in 1 .. Len(s) : SubSeq(b, 1, Len(s))[i] = b[i]
    <3>1. \A i \in 1 .. Len(s) : SubSeq(b, 1, Len(s))[i] = b[1 + i - 1]
      BY <1>2, <2>2, SubSeqProperties
    <3>2. \A i \in 1 .. Len(s) : 1 + i - 1 = i
      BY <1>2
    <3> QED  BY <1>2, <2>2, <3>1, <3>2, SubSeqProperties
  <2> QED  BY <1>2, <2>1, <2>3, SeqEqual
<1> QED  BY <1>1, <1>2, <1>3, <1>4

\* What holds of the empty sequence, and of a sequence if of all but its last, holds
\* of all sequences.
LEMMA SeqInduction ==
  ASSUME NEW T, NEW B, <<>> \in B,
         \A b \in Seq(T), r \in T : b \in B => Append(b, r) \in B
  PROVE  Seq(T) \subseteq B
<1> DEFINE S == {n \in Nat : \A b \in Seq(T) : Len(b) = n => b \in B}
<1>1. 0 \in S
  <2>1. \A b \in Seq(T) : Len(b) = 0 => b = <<>>
    BY EmptySeq
  <2> QED  BY <2>1
<1>2. ASSUME NEW n \in Nat, n \in S PROVE n + 1 \in S
  <2> SUFFICES ASSUME NEW b \in Seq(T), Len(b) = n + 1 PROVE b \in B
    OBVIOUS
  <2>1. b # <<>>
    BY EmptySeq
  <2>2. Front(b) \in Seq(T) /\ Last(b) \in T /\ Len(Front(b)) = n /\ b = Append(Front(b), Last(b))
    BY <2>1, LastOf
  <2> QED  BY <1>2, <2>2
<1> HIDE DEF S
<1>3. Nat \subseteq S
  BY <1>1, <1>2, SetInduction
<1> QED  BY <1>3 DEF S

LEMMA ReportParts ==
  ASSUME NEW r \in Reports
  PROVE  r.keys \in Seq(Codes) /\ Len(r.keys) \in Nat /\ r.ctrl \in SUBSET Ctrls
<1>1. r.keys \in Seq(Codes) /\ r.ctrl \in SUBSET Ctrls
  BY DEF Reports
<1> QED  BY <1>1, LenProperties

LEMMA ReportWith ==
  ASSUME NEW r \in Reports, NEW ks
  PROVE  [r EXCEPT !.keys = ks] = [keys |-> ks, ctrl |-> r.ctrl]
BY DEF Reports

LEMMA StrokesType ==
  ASSUME NEW r \in Reports
  PROVE  Strokes(r) \in Seq(Reports)
<1>1. CASE ~Plain(r)
  BY <1>1 DEF Strokes
<1>2. CASE Plain(r)
  <2>1. r = [keys |-> r.keys, ctrl |-> r.ctrl] /\ r.keys \in Seq(Codes) /\ r.ctrl \in SUBSET Ctrls
    BY DEF Reports
  <2>2. ASSUME NEW i \in DOMAIN r.keys PROVE [r EXCEPT !.keys = <<r.keys[i]>>] \in Reports
    <3>1. r.keys[i] \in Codes
      BY <2>1
    <3>2. [r EXCEPT !.keys = <<r.keys[i]>>] = [keys |-> <<r.keys[i]>>, ctrl |-> r.ctrl]
      BY <2>1
    <3>3. <<r.keys[i]>> \in Seq(Codes)
      BY <3>1
    <3> QED  BY <2>1, <3>2, <3>3 DEF Reports
  <2>3. Strokes(r) \in [1 .. Len(r.keys) -> Reports] /\ Len(r.keys) \in Nat
    BY <1>2, <2>1, <2>2 DEF Strokes
  <2> QED  BY <2>3, SeqDef
<1> QED  BY <1>1, <1>2

\* A report more adds its strokes.
LEMMA TypingSnoc ==
  /\ Typing(<<>>) = <<>>
  /\ \A b \in Seq(Reports) : Typing(b) \in Seq(Reports)
  /\ \A b \in Seq(Reports), r \in Reports : Typing(Append(b, r)) = Typing(b) \o Strokes(r)
<1>1. \A acc \in Seq(Reports), r \in Reports : TypeStep(acc, r) = acc \o Strokes(r)
  BY AppendIsConcat DEF TypeStep, Strokes
<1> DEFINE B == {b \in Seq(Reports) : Typing(b) \in Seq(Reports)}
<1>2. <<>> \in B
  BY TypeSnoc, EmptySeq
<1>3. ASSUME NEW b \in Seq(Reports), NEW r \in Reports, b \in B PROVE Append(b, r) \in B
  <2>1. Typing(Append(b, r)) = Typing(b) \o Strokes(r)
    BY <1>1, <1>3, TypeSnoc
  <2>2. Typing(b) \o Strokes(r) \in Seq(Reports)
    BY <1>3, StrokesType, ConcatProperties
  <2>3. Append(b, r) \in Seq(Reports)
    BY AppendProperties
  <2> QED  BY <2>1, <2>2, <2>3
<1> HIDE DEF B
<1>4. Seq(Reports) \subseteq B
  BY <1>2, <1>3, SeqInduction
<1> QED  BY <1>1, <1>4, TypeSnoc DEF B

\* One step of the loop over the buffer: the last report collected takes the next one
\* in, or the next one is put behind it; what is typed stays the same.
LEMMA MergeStepKeeps ==
  ASSUME NEW acc \in Seq(FitReports), NEW r \in FitReports
  PROVE  /\ MergeStep(acc, r) \in Seq(FitReports)
         /\ Typing(MergeStep(acc, r)) = Typing(acc) \o Strokes(r)
         /\ Len(MergeStep(acc, r)) \in {Len(acc), Len(acc) + 1}
         /\ Len(MergeStep(acc, r)) = Len(acc) + 1 =>
              /\ MergeStep(acc, r) = Append(acc, r)
              /\ acc # <<>> => ~Joins(Last(acc), r)
<1>0. FitReports \subseteq Reports /\ acc \in Seq(Reports) /\ r \in Reports /\ Len(acc) \in Nat
  BY SeqMonotonic DEF FitReports
<1>1. CASE ~(acc # <<>> /\ Joins(Last(acc), r))
  <2>1. MergeStep(acc, r) = Append(acc, r)
    BY <1>1 DEF MergeStep
  <2>2. Append(acc, r) \in Seq(FitReports) /\ Len(Append(acc, r)) = Len(acc) + 1
    BY AppendProperties
  <2>3. Typing(Append(acc, r)) = Typing(acc) \o Strokes(r)
    BY <1>0, TypingSnoc
  <2> QED  BY <1>1, <2>1, <2>2, <2>3
<1>2. CASE acc # <<>> /\ Joins(Last(acc), r)
  <2> DEFINE l == Last(acc)
             f == Front(acc)
             j == [l EXCEPT !.keys = @ \o r.keys]
  <2>1. /\ f \in Seq(FitReports) /\ f \in Seq(Reports) /\ l \in FitReports /\ l \in Reports
        /\ Len(f) + 1 = Len(acc) /\ acc = Append(f, l)
    BY <1>0, <1>2, LastOf
  <2>2. MergeStep(acc, r) = Append(f, j)
    BY <1>2 DEF MergeStep
  <2>3. /\ l.keys # <<>> /\ l.ctrl = {} /\ r.keys # <<>> /\ r.ctrl = {}
        /\ Len(l.keys) + Len(r.keys) <= MaxKeys
    BY <1>2 DEF Joins, Plain
  <2> HIDE DEF l, f
  <2>4. /\ l = [keys |-> l.keys, ctrl |-> l.ctrl] /\ l.keys \in Seq(Codes)
        /\ r = [keys |-> r.keys, ctrl |-> r.ctrl] /\ r.keys \in Seq(Codes)
    BY <1>0, <2>1 DEF Reports
  <2>5. j = [keys |-> l.keys \o r.keys, ctrl |-> {}]
    BY <2>1, <2>3, ReportWith
  <2> HIDE DEF j
  <2>6. /\ j.keys = l.keys \o r.keys /\ j.ctrl = {} /\ j.keys \in Seq(Codes)
        /\ Len(j.keys) = Len(l.keys) + Len(r.keys)
        /\ \A i \in 1 .. Len(l.keys) + Len(r.keys) :
              j.keys[i] = IF i <= Len(l.keys) THEN l.keys[i] ELSE r.keys[i - Len(l.keys)]
    BY <2>4, <2>5, ConcatProperties
  <2>7. j \in Reports
    BY <2>4, <2>5, <2>6 DEF Reports
  <2>8. j \in FitReports
    BY <2>3, <2>6, <2>7 DEF FitReports
  <2>9. Strokes(j) = Strokes(l) \o Strokes(r)
    <3> DEFINE one(x) == [keys |-> <<x>>, ctrl |-> {}]
    <3>1. j.keys # <<>>
      BY <2>3, <2>4, <2>6, ConcatEqualIffEmpty
    <3>2. ASSUME NEW q \in {l, r, j}
          PROVE  Strokes(q) = [i \in 1 .. Len(q.keys) |-> one(q.keys[i])]
      <4>1. q = [keys |-> q.keys, ctrl |-> {}] /\ q.keys # <<>> /\ q.ctrl = {} /\ DOMAIN q.keys = 1 .. Len(q.keys)
        BY <2>3, <2>4, <2>5, <2>6, <3>1
      <4>2. \A i \in DOMAIN q.keys : [q EXCEPT !.keys = <<q.keys[i]>>] = one(q.keys[i])
        <5>1. q \in Reports
          BY <1>0, <2>1, <2>7
        <5> QED  BY <4>1, <5>1, ReportWith
      <4> HIDE DEF one
      <4>3. Strokes(q) = [i \in DOMAIN q.keys |-> [q EXCEPT !.keys = <<q.keys[i]>>]]
        BY <4>1 DEF Strokes, Plain
      <4> QED  BY <4>1, <4>2, <4>3
    <3>3. Strokes(l) \in Seq(Reports) /\ Strokes(r) \in Seq(Reports) /\ Strokes(j) \in Seq(Reports)
      BY <1>0, <2>1, <2>7, StrokesType
    <3>4. Len(l.keys) \in Nat /\ Len(r.keys) \in Nat
      BY <2>4
    <3>5. Len(Strokes(l)) = Len(l.keys) /\ Len(Strokes(r)) = Len(r.keys) /\ Len(Strokes(j)) = Len(l.keys) + Len(r.keys)
      <4>1. \A q \in {l, r, j} : DOMAIN Strokes(q) = 1 .. Len(q.keys)
        BY <3>2
      <4>2. \A q \in {l, r, j} : Len(Strokes(q)) \in Nat /\ DOMAIN Strokes(q) = 1 .. Len(Strokes(q))
        BY <3>3, LenProperties
      <4>3. \A q \in {l, r, j} : Len(q.keys) \in Nat
        BY <2>6, <3>4
      <4>4. \A q \in {l, r, j} : Len(Strokes(q)) = Len(q.keys)
        BY <4>1, <4>2, <4>3
      <4> QED  BY <2>6, <4>4
    <3>6. /\ Strokes(l) \o Strokes(r) \in Seq(Reports)
          /\ Len(Strokes(l) \o Strokes(r)) = Len(l.keys) + Len(r.keys)
          /\ \A i \in 1 .. Len(l.keys) + Len(r.keys) :
                (Strokes(l) \o Strokes(r))[i] =
                   IF i <= Len(l.keys) THEN Strokes(l)[i] ELSE Strokes(r)[i - Len(l.keys)]
      <4>1. /\ Strokes(l) \o Strokes(r) \in Seq(Reports)
            /\ Len(Strokes(l) \o Strokes(r)) = Len(Strokes(l)) + Len(Strokes(r))
            /\ \A i \in 1 .. Len(Strokes(l)) + Len(Strokes(r)) :
                  (Strokes(l) \o Strokes(r))[i] =
                     IF i <= Len(Strokes(l)) THEN Strokes(l)[i] ELSE Strokes(r)[i - Len(Strokes(l))]
        BY <3>3, ConcatProperties
      <4> QED  BY <3>5, <4>1
    <3> HIDE DEF one
    <3>7. ASSUME NEW i \in 1 .. Len(l.keys) + Len(r.keys)
          PROVE  Strokes(j)[i] = (Strokes(l) \o Strokes(r))[i]
      <4>1. Strokes(j)[i] = one(j.keys[i])
        BY <2>6, <3>2
      <4>2. CASE i <= Len(l.keys)
        <5>1. i \in 1 .. Len(l.keys) /\ j.keys[i] = l.keys[i]
          BY <2>6, <3>4, <4>2
        <5>2. Strokes(l)[i] = one(l.keys[i])
          BY <3>2, <5>1
        <5>3. (Strokes(l) \o Strokes(r))[i] = Strokes(l)[i]
          BY <3>6, <4>2
        <5> QED  BY <4>1, <5>1, <5>2, <5>3
      <4>3. CASE ~(i <= Len(l.keys))
        <5>1. i - Len(l.keys) \in 1 .. Len(r.keys)
          <6>1. \A a, c \in Nat : \A x \in 1 .. a + c : ~(x <= a) => x - a \in 1 .. c
            OBVIOUS
          <6> QED  BY <3>4, <4>3, <6>1
        <5>2. j.keys[i] = r.keys[i - Len(l.keys)]
          BY <2>6, <4>3
        <5>3. Strokes(r)[i - Len(l.keys)] = one(r.keys[i - Len(l.keys)])
          BY <3>2, <5>1
        <5>4. (Strokes(l) \o Strokes(r))[i] = Strokes(r)[i - Len(l.keys)]
          BY <3>6, <4>3
        <5> QED  BY <4>1, <5>2, <5>3, <5>4
      <4> QED  BY <4>2, <4>3
    <3> QED  BY <3>3, <3>5, <3>6, <3>7, SeqEqual
  <2>10. Append(f, j) \in Seq(FitReports) /\ Len(Append(f, j)) = Len(acc)
    BY <2>1, <2>8, AppendProperties
  <2>11. Typing(Append(f, j)) = Typing(acc) \o Strokes(r)
    <3>1. Typing(Append(f, j)) = Typing(f) \o (Strokes(l) \o Strokes(r))
      BY <2>1, <2>7, <2>9, TypingSnoc
    <3>2. Typing(acc) = Typing(f) \o Strokes(l) /\ Typing(f) \in Seq(Reports)
      BY <2>1, TypingSnoc
    <3>3. Strokes(l) \in Seq(Reports) /\ Strokes(r) \in Seq(Reports)
      BY <1>0, <2>1, StrokesType
    <3>4. (Typing(f) \o Strokes(l)) \o Strokes(r) = Typing(f) \o (Strokes(l) \o Strokes(r))
      BY <3>2, <3>3, ConcatAssociative
    <3> QED  BY <3>1, <3>2, <3>4
  <2> QED  BY <1>0, <2>2, <2>10, <2>11
<1> QED  BY <1>1, <1>2

Apart(b) == \A i \in 1 .. Len(b) - 1 : ~Joins(b[i], b[i + 1])

\* Merging the buffer never lengthens it and changes nothing of what is typed; when it
\* does not shorten it, no two neighbours fit into one report.
LEMMA MergedKeeps ==
  ASSUME NEW b \in Seq(FitReports)
  PROVE  /\ Merged(b) \in Seq(FitReports) /\ Len(Merged(b)) <= Len(b)
         /\ Typing(Merged(b)) = Typing(b)
         /\ Len(Merged(b)) = Len(b) => Apart(b)
<1> DEFINE B == {c \in Seq(FitReports) :
                   /\ Merged(c) \in Seq(FitReports) /\ Len(Merged(c)) <= Len(c)
                   /\ Typing(Merged(c)) = Typing(c)
                   /\ Len(Merged(c)) = Len(c) => Merged(c) = c /\ Apart(c)}
<1>1. <<>> \in B
  <2> SUFFICES ASSUME NEW e \in Seq(FitReports), e = <<>> PROVE e \in B
    BY EmptySeq
  <2>1. Len(e) = 0
    BY EmptySeq
  <2>2. Apart(e)
    BY <2>1 DEF Apart
  <2>3. Merged(e) = e
    BY MergeSnoc
  <2> HIDE DEF B
  <2>4. Len(Merged(e)) <= Len(e)
    BY <2>1, <2>3
  <2> QED  BY <2>2, <2>3, <2>4 DEF B
<1>2. ASSUME NEW c \in Seq(FitReports), NEW r \in FitReports, c \in B PROVE Append(c, r) \in B
  <2> DEFINE acc == Merged(c)
             d == Append(c, r)
  <2>1. c \in Seq(Reports) /\ r \in Reports
    BY SeqMonotonic DEF FitReports
  <2>2. /\ acc \in Seq(FitReports) /\ Len(acc) <= Len(c) /\ Typing(acc) = Typing(c)
        /\ Len(acc) = Len(c) => acc = c /\ Apart(c)
    BY <1>2
  <2>3. Merged(d) = MergeStep(acc, r)
    BY <2>1, MergeSnoc
  <2>4. d \in Seq(FitReports) /\ Len(d) = Len(c) + 1 /\ d[Len(c) + 1] = r /\ \A i \in 1 .. Len(c) : d[i] = c[i]
    BY AppendProperties
  <2>5. Len(acc) \in Nat /\ Len(c) \in Nat
    BY <2>2
  <2>6. Typing(d) = Typing(c) \o Strokes(r)
    BY <2>1, TypingSnoc
  <2> HIDE DEF acc, d, B
  <2>7. /\ MergeStep(acc, r) \in Seq(FitReports)
        /\ Typing(MergeStep(acc, r)) = Typing(acc) \o Strokes(r)
        /\ Len(MergeStep(acc, r)) \in {Len(acc), Len(acc) + 1}
        /\ Len(MergeStep(acc, r)) = Len(acc) + 1 =>
              /\ MergeStep(acc, r) = Append(acc, r)
              /\ acc # <<>> => ~Joins(Last(acc), r)
    BY <2>2, MergeStepKeeps
  <2>8. Len(Merged(d)) <= Len(d)
    BY <2>2, <2>3, <2>4, <2>5, <2>7
  <2>9. ASSUME Len(Merged(d)) = Len(d) PROVE Merged(d) = d /\ Apart(d)
    <3>1. Len(acc) = Len(c) /\ Len(MergeStep(acc, r)) = Len(acc) + 1
      BY <2>2, <2>3, <2>4, <2>5, <2>7, <2>9
    <3>2. acc = c /\ Apart(c) /\ Merged(d) = d /\ (c # <<>> => ~Joins(Last(c), r))
      BY <2>2, <2>3, <2>7, <3>1 DEF d
    <3>3. ASSUME NEW i \in 1 .. Len(d) - 1 PROVE ~Joins(d[i], d[i + 1])
      <4>1. i \in 1 .. Len(c)
        BY <2>4, <2>5
      <4>2. CASE i = Len(c)
        <5>1. c # <<>>
          BY <4>1, <4>2, EmptySeq
        <5> QED  BY <2>4, <3>2, <4>1, <4>2, <5>1 DEF Last
      <4>3. CASE i # Len(c)
        <5>1. i \in 1 .. Len(c) - 1 /\ i + 1 \in 1 .. Len(c)
          BY <2>5, <4>1, <4>3
        <5> QED  BY <2>4, <3>2, <4>1, <5>1 DEF Apart
      <4> QED  BY <4>2, <4>3
    <3> QED  BY <3>2, <3>3 DEF Apart
  <2> QED  BY <2>2, <2>3, <2>4, <2>6, <2>7, <2>8, <2>9 DEF B, d
<1> HIDE DEF B
<1>3. b \in B
  BY <1>1, <1>2, SeqInduction
<1> QED  BY <1>3 DEF B

\* One report alone.
LEMMA TypingSingle ==
  ASSUME NEW r \in Reports
  PROVE  Typing(<<r>>) = Strokes(r)
<1>1. <<>> \in Seq(Reports) /\ Append(<<>>, r) = <<r>>
  BY EmptySeq
<1>2. Typing(<<r>>) = <<>> \o Strokes(r)
  BY <1>1, TypingSnoc
<1> QED  BY <1>2, StrokesType, ConcatEmptySeq

LEMMA ApartStuck ==
  ASSUME NEW b \in Seq(Reports), Apart(b)
  PROVE  Stuck(b)
<1> SUFFICES ASSUME NEW i \in 1 .. Len(b) - 1
             PROVE  \/ {b[i].keys, b[i + 1].keys} \cap {<<>>} # {} \/ b[i].ctrl \cup b[i + 1].ctrl # {}
                    \/ Len(b[i].keys) + Len(b[i + 1].keys) > MaxKeys
  BY DEF Stuck
<1>1. ~Joins(b[i], b[i + 1])
  BY DEF Apart
<1>2. CASE ~Plain(b[i]) \/ ~Plain(b[i + 1])
  BY <1>2 DEF Plain
<1>3. CASE ~(Len(b[i].keys) + Len(b[i + 1].keys) <= MaxKeys)
  <2>1. Len(b) \in Nat /\ i \in 1 .. Len(b) /\ i + 1 \in 1 .. Len(b)
    OBVIOUS
  <2>2. b[i] \in Reports /\ b[i + 1] \in Reports
    BY <2>1, ElementOfSeq
  <2>3. Len(b[i].keys) \in Nat /\ Len(b[i + 1].keys) \in Nat /\ MaxKeys \in Nat
    BY <2>2, ReportParts, KeyAssumption
  <2>4. \A x, y, z \in Nat : ~(x + y <= z) => x + y > z
    OBVIOUS
  <2> QED  BY <1>3, <2>3, <2>4
<1> QED  BY <1>1, <1>2, <1>3 DEF Joins
-----------------------------------------------------------------------------
(* The ring and the buffer *)

LEMMA HeadTail ==
  ASSUME NEW T, NEW q \in Seq(T), q # <<>>
  PROVE  /\ Head(q) \in T /\ Tail(q) \in Seq(T) /\ Len(Tail(q)) = Len(q) - 1
         /\ Len(q) \in Nat \ {0} /\ Last(q) \in T
         /\ <<Head(q)>> \o Tail(q) = q
         /\ Tail(q) = <<>> => Head(q) = Last(q)
         /\ Tail(q) # <<>> => Last(Tail(q)) = Last(q)
<1>1. /\ Head(q) \in T /\ Tail(q) \in Seq(T) /\ Len(Tail(q)) = Len(q) - 1 /\ Len(q) \in Nat \ {0}
      /\ \A i \in 1 .. Len(Tail(q)) : Tail(q)[i] = q[i + 1]
  BY HeadTailProperties, EmptySeq
<1>2. Head(q) = q[1] /\ \A i \in 1 .. Len(q) : q[i] \in T
  BY <1>1, ElementOfSeq
<1>3. Last(q) = q[Len(q)] /\ Last(q) \in T
  BY <1>1, <1>2 DEF Last
<1>4. <<Head(q)>> \o Tail(q) = q
  <2> DEFINE h == <<Head(q)>>
             c == h \o Tail(q)
  <2>1. h \in Seq(T) /\ Len(h) = 1 /\ h[1] = q[1]
    BY <1>1, <1>2
  <2> HIDE DEF h
  <2>2. /\ c \in Seq(T) /\ Len(c) = 1 + Len(Tail(q))
        /\ \A i \in 1 .. 1 + Len(Tail(q)) : c[i] = IF i <= 1 THEN h[i] ELSE Tail(q)[i - 1]
    <3>1. /\ c \in Seq(T) /\ Len(c) = Len(h) + Len(Tail(q))
          /\ \A i \in 1 .. Len(h) + Len(Tail(q)) : c[i] = IF i <= Len(h) THEN h[i] ELSE Tail(q)[i - Len(h)]
      BY <1>1, <2>1, ConcatProperties
    <3> QED  BY <2>1, <3>1
  <2> HIDE DEF c
  <2>3. Len(c) = Len(q)
    BY <1>1, <2>2
  <2>4. ASSUME NEW i \in 1 .. Len(c) PROVE c[i] = q[i]
    <3>1. CASE i = 1
      BY <1>1, <2>1, <2>2, <3>1
    <3>2. CASE i # 1
      <4>1. i - 1 \in 1 .. Len(Tail(q)) /\ (i - 1) + 1 = i /\ ~(i <= 1)
        BY <1>1, <2>2, <3>2
      <4> QED  BY <1>1, <2>2, <4>1
    <3> QED  BY <3>1, <3>2
  <2>5. c = q
    BY <2>2, <2>3, <2>4, SeqEqual
  <2> QED  BY <2>5 DEF c, h
<1>5. ASSUME Tail(q) = <<>> PROVE Head(q) = Last(q)
  <2>1. Len(Tail(q)) = 0
    BY <1>5, EmptySeq
  <2>2. Len(q) = 1
    <3>1. Len(q) \in Nat \ {0} /\ Len(Tail(q)) = Len(q) - 1
      BY <1>1
    <3>2. \A x \in Nat : x - 1 = 0 => x = 1
      OBVIOUS
    <3> QED  BY <2>1, <3>1, <3>2
  <2> QED  BY <1>2, <1>3, <2>2
<1>6. ASSUME Tail(q) # <<>> PROVE Last(Tail(q)) = Last(q)
  <2>1. Len(Tail(q)) \in Nat \ {0}
    BY <1>1, <1>6, EmptySeq
  <2>2. Tail(q)[Len(Tail(q))] = q[Len(q)]
    BY <1>1, <2>1
  <2> QED  BY <1>3, <2>2 DEF Last
<1> QED  BY <1>1, <1>3, <1>4, <1>5, <1>6

LEMMA LastAppended ==
  ASSUME NEW T, NEW q \in Seq(T), NEW e \in T
  PROVE  Last(Append(q, e)) = e /\ Append(q, e) # <<>>
BY AppendProperties DEF Last

\* The ring takes another matrix and drops the oldest if it must.
LEMMA FitKeepsNewest ==
  ASSUME NEW T, NEW q \in Seq(T), Len(q) <= RingSize, NEW e \in T
  PROVE  /\ Fit(Append(q, e)) \in Seq(T) /\ Len(Fit(Append(q, e))) <= RingSize
         /\ Fit(Append(q, e)) # <<>> /\ Last(Fit(Append(q, e))) = e
<1> DEFINE a == Append(q, e)
<1>1. a \in Seq(T) /\ a # <<>> /\ Last(a) = e /\ Len(a) = Len(q) + 1 /\ Len(q) \in Nat
  BY LastAppended, AppendProperties
<1> HIDE DEF a
<1>2. RingSize \in Nat \ {0}
  BY KeyAssumption
<1>3. CASE Len(a) > RingSize
  <2>1. Fit(a) = Tail(a)
    BY <1>3 DEF Fit
  <2>2. Tail(a) \in Seq(T) /\ Len(Tail(a)) = Len(q)
    BY <1>1, HeadTail
  <2>3. Len(q) # 0
    BY <1>1, <1>2, <1>3
  <2>4. Tail(a) # <<>>
    BY <2>2, <2>3
  <2>5. Last(Tail(a)) = e
    BY <1>1, <2>4, HeadTail
  <2> QED  BY <2>1, <2>2, <2>4, <2>5 DEF a
<1>4. CASE ~(Len(a) > RingSize)
  <2>1. Fit(a) = a /\ Len(a) <= RingSize
    BY <1>1, <1>2, <1>4 DEF Fit
  <2> QED  BY <1>1, <2>1 DEF a
<1> QED  BY <1>3, <1>4

\* What is left of a full buffer to put a report behind.
MakeRoom(b) == IF Len(b) = BufSize THEN Room(b) ELSE b
Kept(b) == {b} \cup IF Len(b) = BufSize /\ Stuck(b) THEN {Tail(b)} ELSE {}

\* There is room for a report then, and what is typed is what was typed before, but
\* for the oldest report if no two neighbours fit together.
LEMMA MakeRoomKeeps ==
  ASSUME NEW b \in Seq(FitReports), Len(b) <= BufSize
  PROVE  /\ MakeRoom(b) \in Seq(FitReports) /\ Len(MakeRoom(b)) < BufSize
         /\ \E k \in Kept(b) : k \in Seq(Reports) /\ Typing(MakeRoom(b)) = Typing(k)
<1>0. FitReports \subseteq Reports /\ b \in Seq(Reports) /\ Len(b) \in Nat /\ BufSize \in Nat \ {0}
  BY SeqMonotonic, KeyAssumption DEF FitReports
<1>1. CASE Len(b) # BufSize
  <2>1. MakeRoom(b) = b /\ b \in Kept(b)
    BY <1>1 DEF MakeRoom, Kept
  <2>2. Len(b) < BufSize
    BY <1>0, <1>1
  <2> QED  BY <1>0, <2>1, <2>2
<1>2. CASE Len(b) = BufSize /\ Len(Merged(b)) < Len(b)
  <2>1. MakeRoom(b) = Merged(b) /\ b \in Kept(b)
    BY <1>2 DEF MakeRoom, Kept, Room
  <2>2. Merged(b) \in Seq(FitReports) /\ Typing(Merged(b)) = Typing(b)
    BY MergedKeeps
  <2> QED  BY <1>0, <1>2, <2>1, <2>2
<1>3. CASE Len(b) = BufSize /\ ~(Len(Merged(b)) < Len(b))
  <2>1. MakeRoom(b) = Tail(b)
    BY <1>3 DEF MakeRoom, Room
  <2>2. Len(Merged(b)) = Len(b)
    <3>1. Len(Merged(b)) \in Nat /\ Len(Merged(b)) <= Len(b)
      BY MergedKeeps, LenProperties
    <3> QED  BY <1>0, <1>3, <3>1
  <2>3. Stuck(b)
    BY <1>0, <2>2, MergedKeeps, ApartStuck
  <2>4. Tail(b) \in Kept(b)
    BY <1>3, <2>3 DEF Kept
  <2>5. b # <<>>
    BY <1>0, <1>3
  <2>6. Tail(b) \in Seq(FitReports) /\ Tail(b) \in Seq(Reports) /\ Len(Tail(b)) = Len(b) - 1
    BY <1>0, <2>5, HeadTail
  <2>7. Len(Tail(b)) < BufSize
    BY <1>0, <1>3, <2>6
  <2> QED  BY <2>1, <2>4, <2>6, <2>7
<1> QED  BY <1>1, <1>2, <1>3
-----------------------------------------------------------------------------
USE KeyAssumption

(* Reports *)

LEMMA KeysFinite ==
  ASSUME NEW keys \in SUBSET Key
  PROVE  IsFiniteSet(keys) /\ Cardinality(keys) \in Nat
<1>1. IsFiniteSet(Key)
  BY FS_Product DEF Key
<1> QED  BY <1>1, FS_Subset, FS_CardinalityType

\* The scan order is a strict order in which any two keys can be compared.
LEMMA ScanOrder ==
  /\ \A k \in Key : ~Before(k, k)
  /\ \A j, k \in Key : j # k => Before(j, k) \/ Before(k, j)
  /\ \A i, j, k \in Key : Before(i, j) /\ Before(j, k) => Before(i, k)
<1>1. ASSUME NEW k \in Key PROVE k[1] \in Nat /\ k[2] \in Nat /\ k = <<k[1], k[2]>>
  <2>1. k[1] \in Drive /\ k[2] \in Scan /\ k = <<k[1], k[2]>>
    BY DEF Key
  <2> QED  BY <2>1
<1>2. ASSUME NEW j \in Key, NEW k \in Key, j # k PROVE Before(j, k) \/ Before(k, j)
  <2>1. j[1] # k[1] \/ j[2] # k[2]
    BY <1>1, <1>2
  <2> QED  BY <1>1, <2>1 DEF Before
<1>3. ASSUME NEW i \in Key, NEW j \in Key, NEW k \in Key, Before(i, j), Before(j, k) PROVE Before(i, k)
  BY <1>1, <1>3 DEF Before
<1>4. \A k \in Key : ~Before(k, k)
  BY <1>1 DEF Before
<1> QED  BY <1>2, <1>3, <1>4

\* The ranks of some keys are the places in a report: each is taken once.
LEMMA RankPlaces ==
  ASSUME NEW keys \in SUBSET Key
  PROVE  /\ \A k \in keys : Rank(k, keys) \in 0 .. Cardinality(keys) - 1
         /\ \A j, k \in keys : Before(j, k) => Rank(j, keys) < Rank(k, keys)
         /\ \A i \in 0 .. Cardinality(keys) - 1 : \E k \in keys : Rank(k, keys) = i
<1> DEFINE lower(k) == {j \in keys : Before(j, k)}
           n == Cardinality(keys)
<1>1. \A k \in Key : IsFiniteSet(lower(k)) /\ Rank(k, keys) = Cardinality(lower(k)) /\ Rank(k, keys) \in Nat
  BY KeysFinite DEF Rank
<1>2. IsFiniteSet(keys) /\ n \in Nat
  BY KeysFinite
<1>3. ASSUME NEW j \in keys, NEW k \in keys, Before(j, k) PROVE Rank(j, keys) < Rank(k, keys)
  <2>1. lower(j) \subseteq lower(k) /\ j \in lower(k) /\ j \notin lower(j)
    BY <1>3, ScanOrder
  <2>2. j \in Key /\ k \in Key
    OBVIOUS
  <2> HIDE DEF lower
  <2>3. Cardinality(lower(j)) <= Cardinality(lower(k)) /\ Cardinality(lower(j)) # Cardinality(lower(k))
    BY <1>1, <2>1, <2>2, FS_Subset
  <2> QED  BY <1>1, <2>2, <2>3
<1>4. ASSUME NEW k \in keys PROVE Rank(k, keys) \in 0 .. n - 1
  <2>1. lower(k) \subseteq keys /\ lower(k) # keys
    BY ScanOrder
  <2>2. Cardinality(lower(k)) <= n /\ Cardinality(lower(k)) # n
    BY <1>2, <2>1, FS_Subset
  <2>3. k \in Key
    OBVIOUS
  <2> HIDE DEF lower, n
  <2>4. Cardinality(lower(k)) \in Nat /\ Rank(k, keys) = Cardinality(lower(k)) /\ n \in Nat
    BY <1>1, <1>2, <2>3
  <2> QED  BY <2>2, <2>4 DEF n
<1> DEFINE rank == [k \in keys |-> Rank(k, keys)]
<1>5. rank \in [keys -> 0 .. n - 1]
  BY <1>4
<1>6. ASSUME NEW j \in keys, NEW k \in keys, rank[j] = rank[k] PROVE j = k
  <2>1. j \in Key /\ k \in Key /\ Rank(j, keys) = Rank(k, keys)
    BY <1>6
  <2>2. Rank(j, keys) \in Nat
    BY <1>1, <2>1
  <2> QED  BY <1>3, <2>1, <2>2, ScanOrder
<1>7. rank \in Injection(keys, 0 .. n - 1)
  BY <1>5, <1>6, Fun_IsInj
<1>8. IsFiniteSet(0 .. n - 1) /\ Cardinality(0 .. n - 1) = n
  <2>1. 0 \in Int /\ n - 1 \in Int
    BY <1>2
  <2>2. IsFiniteSet(0 .. n - 1) /\ Cardinality(0 .. n - 1) = IF 0 > n - 1 THEN 0 ELSE (n - 1) - 0 + 1
    BY <2>1, FS_Interval
  <2> QED  BY <1>2, <2>2
<1>9. rank \in Surjection(keys, 0 .. n - 1)
  BY <1>7, <1>8, FS_Injection
<1>10. \A i \in 0 .. n - 1 : \E k \in keys : Rank(k, keys) = i
  BY <1>9 DEF Surjection
<1> QED  BY <1>3, <1>4, <1>10

\* Whatever matrix kb_remap_key_code is given, at most MaxKeys keys are translated.
LEMMA RemapFits ==
  ASSUME NEW m \in Matrix, NEW layer \in Layers
  PROVE  Remap(m, layer) \in FitReports
<1> DEFINE all == Typed(m, layer)
           taken == Taken(m, layer)
           typed == Typed(taken, layer)
           n == Cardinality(typed)
           places == 0 .. MaxKeys - 1
           code(i) == KeyMap[layer][CHOOSE k \in typed : Rank(k, typed) = i - 1].code
           r == Remap(m, layer)
<1>1. taken \subseteq Key /\ all \in SUBSET Key /\ typed \in SUBSET Key /\ typed \subseteq all
  BY DEF Matrix, Taken, Typed
<1>2. IsFiniteSet(typed) /\ n \in Nat
  BY <1>1, KeysFinite
<1>3. n <= MaxKeys
  <2> DEFINE rank == [k \in typed |-> Rank(k, all)]
  <2>1. rank \in [typed -> places]
    <3>1. ASSUME NEW k \in typed PROVE Rank(k, all) \in places
      <4>1. Rank(k, all) \in 0 .. Cardinality(all) - 1
        BY <1>1, RankPlaces
      <4>2. Rank(k, all) < MaxKeys
        BY DEF Taken, Typed
      <4> HIDE DEF typed, all
      <4>3. MaxKeys \in Nat /\ Cardinality(all) \in Nat
        BY <1>1, KeysFinite
      <4> QED  BY <4>1, <4>2, <4>3
    <3> QED  BY <3>1
  <2>2. ASSUME NEW j \in typed, NEW k \in typed, rank[j] = rank[k] PROVE j = k
    <3>1. j \in Key /\ k \in Key /\ j \in all /\ k \in all /\ Rank(j, all) = Rank(k, all)
      BY <1>1, <2>2
    <3> HIDE DEF typed, all
    <3>2. Rank(j, all) \in 0 .. Cardinality(all) - 1
      BY <1>1, <3>1, RankPlaces
    <3>3. ~Before(j, k) /\ ~Before(k, j)
      <4>1. Before(j, k) => Rank(j, all) < Rank(k, all)
        BY <1>1, <3>1, RankPlaces
      <4>2. Before(k, j) => Rank(k, all) < Rank(j, all)
        BY <1>1, <3>1, RankPlaces
      <4> QED  BY <3>1, <3>2, <4>1, <4>2
    <3> QED  BY <3>1, <3>3, ScanOrder
  <2> HIDE DEF typed, all
  <2>3. rank \in Injection(typed, places)
    BY <2>1, <2>2, Fun_IsInj
  <2>4. IsFiniteSet(places) /\ Cardinality(places) = MaxKeys
    <3>1. MaxKeys \in Nat \ {0} /\ 0 \in Int /\ MaxKeys - 1 \in Int
      OBVIOUS
    <3>2. IsFiniteSet(places) /\ Cardinality(places) = IF 0 > MaxKeys - 1 THEN 0 ELSE (MaxKeys - 1) - 0 + 1
      BY <3>1, FS_Interval
    <3> QED  BY <3>1, <3>2
  <2> HIDE DEF places, rank
  <2>5. Cardinality(typed) <= Cardinality(places)
    BY <2>3, <2>4, FS_Injection
  <2> QED  BY <2>4, <2>5
<1>4. r.keys = [i \in 1 .. n |-> code(i)] /\ r.ctrl = UNION {KeyMap[layer][k].ctrl : k \in taken}
      /\ r = [keys |-> r.keys, ctrl |-> r.ctrl]
  BY DEF Remap
<1>5. ASSUME NEW i \in 1 .. n PROVE code(i) \in Codes
  <2>1. i - 1 \in 0 .. n - 1
    BY <1>2
  <2>2. \E k \in typed : Rank(k, typed) = i - 1
    BY <1>1, <2>1, RankPlaces
  <2>3. (CHOOSE k \in typed : Rank(k, typed) = i - 1) \in typed
    BY <2>2
  <2>4. \A k \in typed : KeyMap[layer][k].code \in Codes
    BY <1>1 DEF Codes
  <2> HIDE DEF typed
  <2> QED  BY <2>3, <2>4
<1>6. r.keys \in Seq(Codes) /\ Len(r.keys) = n
  <2> HIDE DEF code, n, r
  <2>1. r.keys \in [1 .. n -> Codes]
    BY <1>4, <1>5
  <2> QED  BY <1>2, <2>1, SeqDef
<1>7. r.ctrl \in SUBSET Ctrls
  <2> HIDE DEF taken
  <2> QED  BY <1>1, <1>4 DEF Ctrls
<1> HIDE DEF r, n, code
<1>8. r \in Reports
  BY <1>4, <1>6, <1>7 DEF Reports
<1>9. r \in FitReports
  BY <1>3, <1>6, <1>8 DEF FitReports
<1> QED  BY <1>9 DEF r
-----------------------------------------------------------------------------
(* Ghost keys *)

\* A row or a column without a held key stays without current: leaving it out of
\* the matrix keeps the matrix rectangular.
LEMMA WiredCrossing ==
  ASSUME NEW held \in Presses, NEW k \in Wired[held]
  PROVE  /\ k \in Key
         /\ \E d \in Scan : <<k[1], d>> \in held
         /\ \E b \in Drive : <<b, k[2]>> \in held
<1> DEFINE noRow == {q \in Key : q[1] # k[1]}
           noCol == {q \in Key : q[2] # k[2]}
<1>1. Wired[held] = {q \in Key : \A m \in Matrix : held \subseteq m /\ Rectangular(m) => q \in m}
  BY DEF Wired
<1>2. k \in Key /\ held \subseteq Key
  BY <1>1 DEF Matrix
<1>3. ASSUME ~\E d \in Scan : <<k[1], d>> \in held PROVE FALSE
  <2>1. noRow \in Matrix
    BY DEF Matrix
  <2>4. ASSUME NEW q \in held PROVE q \in noRow
    <3>1. q \in Key /\ q = <<q[1], q[2]>> /\ q[1] \in Drive /\ q[2] \in Scan
      BY <1>2 DEF Key
    <3>2. q[1] # k[1]
      BY <1>3, <3>1
    <3> QED  BY <3>1, <3>2
  <2>2. Rectangular(noRow)
    BY <1>2 DEF Rectangular, Key
  <2>3. k \in noRow
    BY <1>1, <2>1, <2>4, <2>2
  <2> QED  BY <2>3
<1>4. ASSUME ~\E b \in Drive : <<b, k[2]>> \in held PROVE FALSE
  <2>1. noCol \in Matrix
    BY DEF Matrix
  <2>4. ASSUME NEW q \in held PROVE q \in noCol
    <3>1. q \in Key /\ q = <<q[1], q[2]>> /\ q[1] \in Drive /\ q[2] \in Scan
      BY <1>2 DEF Key
    <3>2. q[2] # k[2]
      BY <1>4, <3>1
    <3> QED  BY <3>1, <3>2
  <2>2. Rectangular(noCol)
    BY <1>2 DEF Rectangular, Key
  <2>3. k \in noCol
    BY <1>1, <2>1, <2>4, <2>2
  <2> QED  BY <2>3
<1> QED  BY <1>2, <1>3, <1>4

LEMMA WiredRectangular ==
  ASSUME NEW held \in Presses
  PROVE  /\ Wired[held] \subseteq Key /\ held \subseteq Wired[held]
         /\ Rectangular(Wired[held])
<1>1. Wired[held] = {q \in Key : \A m \in Matrix : held \subseteq m /\ Rectangular(m) => q \in m}
  BY DEF Wired
<1>2. held \subseteq Wired[held] /\ Wired[held] \subseteq Key
  BY <1>1 DEF Matrix
<1>3. ASSUME NEW a \in Drive, NEW b \in Drive, NEW c \in Scan, NEW d \in Scan,
             <<a, c>> \in Wired[held], <<b, c>> \in Wired[held], <<b, d>> \in Wired[held]
      PROVE  <<a, d>> \in Wired[held]
  <2>1. <<a, d>> \in Key
    BY DEF Key
  <2>2. ASSUME NEW m \in Matrix, held \subseteq m, Rectangular(m) PROVE <<a, d>> \in m
    <3>1. <<a, c>> \in m /\ <<b, c>> \in m /\ <<b, d>> \in m
      BY <1>1, <1>3, <2>2
    <3> QED  BY <3>1, <2>2 DEF Rectangular
  <2> QED  BY <1>1, <2>1, <2>2
<1> QED  BY <1>2, <1>3 DEF Rectangular

LEMMA TwoShared ==
  ASSUME NEW S, IsFiniteSet(S), NEW c \in S, NEW d \in S, c # d
  PROVE  Cardinality(S) >= 2
<1>1. {c, d} \subseteq S /\ IsFiniteSet({c, d})
  BY FS_Subset
<1>2. Cardinality({c, d}) = 2
  <2>1. IsFiniteSet({c}) /\ Cardinality({c}) = 1
    BY FS_Singleton
  <2>2. Cardinality({c} \cup {d}) = IF d \in {c} THEN Cardinality({c}) ELSE Cardinality({c}) + 1
    BY <2>1, FS_AddElement, Zenon
  <2>3. {c, d} = {c} \cup {d}
    OBVIOUS
  <2> QED  BY <2>1, <2>2, <2>3
<1>3. Cardinality({c, d}) <= Cardinality(S)
  BY <1>1, FS_Subset
<1> QED  BY <1>2, <1>3, FS_CardinalityType

\* kb_rmv_ghost_key leaves no key that is not held: one that only current through
\* others closes shares its own column and that of a held key of its row with the
\* row of a held key of its column.
LEMMA NoGhostLeft ==
  ASSUME NEW held \in Presses
  PROVE  Contacts[held] \subseteq held
<1> DEFINE W == Wired[held]
<1>1. Contacts[held] = Clean(W)
  BY DEF Contacts
<1>2. SUFFICES ASSUME NEW k \in Clean(W), k \notin held PROVE FALSE
  BY <1>1
<1>3. k \in W /\ k \in Key
  BY <1>2, WiredCrossing DEF Clean
<1>4. PICK d \in Scan : <<k[1], d>> \in held
  BY <1>3, WiredCrossing
<1>5. PICK b \in Drive : <<b, k[2]>> \in held
  BY <1>3, WiredCrossing
<1>6. k = <<k[1], k[2]>> /\ k[1] \in Drive /\ k[2] \in Scan
  BY <1>3 DEF Key
<1>7. d # k[2] /\ b # k[1]
  BY <1>2, <1>4, <1>5, <1>6
<1>8. <<k[1], k[2]>> \in W /\ <<b, k[2]>> \in W /\ <<k[1], d>> \in W
  BY <1>3, <1>4, <1>5, <1>6, WiredRectangular
<1>9. <<b, d>> \in W
  BY <1>6, <1>8, WiredRectangular DEF Rectangular
<1>10. \A x, y \in {k[1], b} : x # y => k[2] \in Ghost(W, x, y)
  <2> SUFFICES ASSUME NEW x \in {k[1], b}, NEW y \in {k[1], b}, x # y
               PROVE  k[2] \in Ghost(W, x, y)
    OBVIOUS
  <2> DEFINE mix == Row(W, x) \cap Row(W, y)
  <2>1. k[2] \in mix /\ d \in mix
    BY <1>6, <1>8, <1>9 DEF Row
  <2>2. IsFiniteSet(mix)
    BY FS_Subset DEF Row
  <2>3. Cardinality(mix) >= 2
    BY <1>7, <2>1, <2>2, TwoShared
  <2> QED  BY <2>1, <2>3 DEF Ghost
<1>11. \A x, y \in Drive : x <= k[1] /\ x < y => k[2] \notin Ghost(W, x, y)
  BY <1>2 DEF Clean
<1>12. b \in Nat /\ k[1] \in Nat
  BY <1>6
<1>13. CASE b < k[1]
  BY <1>6, <1>10, <1>11, <1>12, <1>13
<1>14. CASE k[1] < b
  BY <1>6, <1>10, <1>11, <1>12, <1>14
<1> QED  BY <1>7, <1>12, <1>13, <1>14
-----------------------------------------------------------------------------
(* The inductive invariant.  One scan without a key empties mtrx_pre, the next
   mtrx_last, and release_cnt counts both (Releasing); the newest matrix that was put
   into the ring is the debounced one, and the newest report of the buffer was
   translated from it once the ring is empty (LastTellsNow). *)
Types ==
  /\ down \in Presses /\ pre \in Matrix /\ last \in Matrix
  /\ rel \in 0 .. ReleaseScans /\ same \in 0 .. RepeatScans - 1
  /\ ring \in Seq(Matrix) /\ Len(ring) <= RingSize
  /\ buf \in Seq(FitReports) /\ Len(buf) <= BufSize
  /\ told \in FitReports
  /\ touches \in 0 .. MaxTouches

Releasing ==
  /\ rel <= ReleaseScans - 2 => pre = {}
  /\ rel <= ReleaseScans - 3 => last = {}

IInv == Types /\ Releasing /\ LastTellsNow

LEMMA Bounds ==
  /\ RingSize \in Nat \ {0} /\ BufSize \in Nat \ {0} /\ MaxKeys \in Nat \ {0}
  /\ ReleaseScans \in Nat \ {0} /\ RepeatScans \in Nat \ {0} /\ ReleaseScans >= 3
  /\ MaxTouches \in Nat /\ Presses \subseteq Matrix /\ NumLock \subseteq BOOLEAN
BY KeyAssumption

LEMMA NothingFits == Nothing \in FitReports
<1>1. <<>> \in Seq(Codes) /\ Len(<<>>) = 0
  BY EmptySeq
<1>2. Nothing \in Reports /\ Nothing.keys = <<>>
  BY <1>1 DEF Nothing, Reports
<1>3. Len(Nothing.keys) <= MaxKeys
  BY <1>1, <1>2, Bounds
<1> QED  BY <1>2, <1>3 DEF FitReports

LEMMA InitIInv == Init => IInv
<1> SUFFICES ASSUME Init PROVE IInv
  OBVIOUS
<1>1. Contacts[down] \subseteq down /\ down \in Presses
  BY NoGhostLeft DEF Init
<1>2. down \in Presses /\ pre \in Matrix /\ last \in Matrix
  BY <1>1, Bounds DEF Init, Matrix
<1>3. rel \in 0 .. ReleaseScans /\ same \in 0 .. RepeatScans - 1 /\ touches \in 0 .. MaxTouches
  BY Bounds DEF Init
<1>4. /\ ring \in Seq(Matrix) /\ Len(ring) <= RingSize
      /\ buf \in Seq(FitReports) /\ Len(buf) <= BufSize
  BY EmptySeq, Bounds DEF Init
<1>5. Types
  BY <1>2, <1>3, <1>4, NothingFits DEF Types, Init
<1>6. Releasing
  BY <1>1, Bounds DEF Init, Releasing
<1>7. LastTellsNow
  BY DEF Init, LastTellsNow
<1> QED  BY <1>5, <1>6, <1>7 DEF IInv

\* What a scan puts into the ring, the report it translates, the buffer it fills.
Changed(s) == Debounced(Contacts[down]) # last \/ Again(s)
Pushed(s)  == IF Changed(s) THEN Fit(Append(ring, Debounced(Contacts[down]))) ELSE ring
Layer(s)   == <<FnKey \in Wired[down], s.num>>
Report(s)  == Remap(Head(Pushed(s)), Layer(s))
Filled(s)  == IF Pushed(s) = <<>> THEN buf ELSE Append(MakeRoom(buf), Report(s))

\* One scan, whatever kb_scan_key is told.
LEMMA ScanStep ==
  ASSUME NEW s \in Status, KbScanKey(s)
  PROVE  /\ down' = down /\ rel' = RelAfter /\ touches' = touches
         /\ (down # {} \/ rel > 0)
         /\ pre' = Contacts[down] /\ last' = Debounced(Contacts[down])
         /\ same' = IF Debounced(Contacts[down]) # last \/ Due THEN 0 ELSE same + 1
BY DEF KbScanKey

LEMMA ScanForced ==
  ASSUME NEW s \in Status, KbScanKey(s), s.forced
  PROVE  ring' = Pushed(s) /\ buf' = buf /\ told' = Nothing
BY DEF KbScanKey, Pushed, Changed

LEMMA ScanTakes ==
  ASSUME NEW s \in Status, KbScanKey(s), ~s.forced
  PROVE  /\ ring' = IF Pushed(s) = <<>> THEN <<>> ELSE Tail(Pushed(s))
         /\ \/ /\ s.read /\ Filled(s) # <<>>
               /\ told' = Head(Filled(s)) /\ buf' = Tail(Filled(s))
            \/ /\ ~(s.read /\ Filled(s) # <<>>)
               /\ told' = told /\ buf' = Filled(s)
<1>1. ring' = IF Pushed(s) = <<>> THEN <<>> ELSE Tail(Pushed(s))
  BY DEF KbScanKey, Pushed, Changed
<1>2. IF s.read /\ Filled(s) # <<>> THEN told' = Head(Filled(s)) /\ buf' = Tail(Filled(s))
                                    ELSE told' = told /\ buf' = Filled(s)
  BY DEF KbScanKey, Pushed, Changed, Filled, Report, Layer, MakeRoom
<1> QED  BY <1>1, <1>2

\* The ring after a scan: its newest matrix is the debounced one.
LEMMA PushedNow ==
  ASSUME NEW s \in Status, IInv
  PROVE  /\ Debounced(Contacts[down]) \in Matrix
         /\ Pushed(s) \in Seq(Matrix) /\ Len(Pushed(s)) <= RingSize
         /\ Pushed(s) # <<>> => Last(Pushed(s)) = Debounced(Contacts[down])
         /\ Pushed(s) = <<>> => ring = <<>> /\ last = Debounced(Contacts[down])
<1> DEFINE now == Debounced(Contacts[down])
<1>1. /\ ring \in Seq(Matrix) /\ Len(ring) <= RingSize /\ (ring # <<>> => Last(ring) = last)
      /\ pre \in Matrix /\ last \in Matrix /\ down \in Presses
  BY DEF IInv, Types, LastTellsNow
<1>2. now \in Matrix
  BY <1>1 DEF Debounced, Matrix
<1> HIDE DEF now
<1>3. CASE Changed(s)
  <2>1. Pushed(s) = Fit(Append(ring, now))
    BY <1>3 DEF Pushed, now
  <2> QED  BY <1>1, <1>2, <2>1, FitKeepsNewest DEF now
<1>4. CASE ~Changed(s)
  <2>1. Pushed(s) = ring /\ now = last
    BY <1>4 DEF Pushed, Changed, now
  <2> QED  BY <1>1, <1>2, <2>1 DEF now
<1> QED  BY <1>3, <1>4

LEMMA LayerType ==
  ASSUME NEW s \in Status
  PROVE  Layer(s) \in Layers
<1>1. s.num \in NumLock
  BY DEF Status
<1>2. (FnKey \in Wired[down]) \in BOOLEAN
  OBVIOUS
<1> QED  BY <1>1, <1>2, Zenon DEF Layer, Layers

\* The buffer after a scan: its newest report is the one just translated.
LEMMA FilledNow ==
  ASSUME NEW s \in Status, IInv
  PROVE  /\ Filled(s) \in Seq(FitReports) /\ Len(Filled(s)) <= BufSize
         /\ Pushed(s) = <<>> => Filled(s) = buf
         /\ Pushed(s) # <<>> => /\ Filled(s) = Append(MakeRoom(buf), Report(s))
                                /\ Report(s) \in FitReports
                                /\ Filled(s) # <<>> /\ Last(Filled(s)) = Report(s)
<1>1. buf \in Seq(FitReports) /\ Len(buf) <= BufSize
  BY DEF IInv, Types
<1>2. CASE Pushed(s) = <<>>
  BY <1>1, <1>2 DEF Filled
<1>3. CASE Pushed(s) # <<>>
  <2>1. Head(Pushed(s)) \in Matrix
    BY <1>3, PushedNow, HeadTail
  <2>2. Layer(s) \in Layers
    BY LayerType
  <2>3. Report(s) \in FitReports
    BY <2>1, <2>2, RemapFits DEF Report
  <2>4. MakeRoom(buf) \in Seq(FitReports) /\ Len(MakeRoom(buf)) < BufSize
    BY <1>1, MakeRoomKeeps
  <2>5. Filled(s) = Append(MakeRoom(buf), Report(s))
    BY <1>3 DEF Filled
  <2>6. /\ Filled(s) \in Seq(FitReports) /\ Len(Filled(s)) = Len(MakeRoom(buf)) + 1
        /\ Filled(s) # <<>> /\ Last(Filled(s)) = Report(s)
    BY <2>3, <2>4, <2>5, AppendProperties, LastAppended
  <2>7. Len(Filled(s)) <= BufSize
    <3>1. Len(MakeRoom(buf)) \in Nat /\ BufSize \in Nat
      BY <2>4, LenProperties, Bounds
    <3> QED  BY <2>4, <2>6, <3>1
  <2> QED  BY <1>3, <2>3, <2>5, <2>6, <2>7
<1> QED  BY <1>2, <1>3

\* The newest report there is tells the matrix, if the ring has been emptied.
LEMMA FilledTells ==
  ASSUME NEW s \in Status, IInv, Pushed(s) = <<>> \/ Tail(Pushed(s)) = <<>>, Filled(s) # <<>>
  PROVE  Last(Filled(s)) \in Tells(Debounced(Contacts[down]))
<1> DEFINE now == Debounced(Contacts[down])
<1>1. CASE Pushed(s) = <<>>
  <2>1. Filled(s) = buf /\ ring = <<>> /\ last = now
    BY <1>1, PushedNow, FilledNow
  <2> QED  BY <2>1 DEF IInv, LastTellsNow
<1>2. CASE Pushed(s) # <<>>
  <2>1. Head(Pushed(s)) = now
    BY <1>2, PushedNow, HeadTail
  <2>2. Layer(s) \in Layers
    BY LayerType
  <2>3. Report(s) \in Tells(now)
    BY <2>1, <2>2 DEF Report, Tells
  <2> QED  BY <1>2, <2>3, FilledNow
<1> QED  BY <1>1, <1>2

LEMMA ScanKeepsTypes ==
  ASSUME NEW s \in Status, IInv, KbScanKey(s)
  PROVE  Types'
<1>1. Types
  BY DEF IInv
<1>2. /\ down' \in Presses /\ touches' \in 0 .. MaxTouches
      /\ pre' \in Matrix /\ last' \in Matrix
  <2>1. Contacts[down] \subseteq down /\ down \in Presses
    BY <1>1, NoGhostLeft DEF Types
  <2> QED  BY <1>1, <2>1, ScanStep, PushedNow, Bounds DEF Types, Matrix
<1>3. rel' \in 0 .. ReleaseScans
  <2>1. rel' = RelAfter /\ (down # {} \/ rel > 0) /\ rel \in 0 .. ReleaseScans
    BY <1>1, ScanStep DEF Types
  <2> QED  BY <2>1, Bounds DEF RelAfter, RelFull
<1>4. same' \in 0 .. RepeatScans - 1
  <2>1. same' \in {0} \/ (~Due /\ same' = same + 1)
    BY ScanStep
  <2>2. same \in 0 .. RepeatScans - 1
    BY <1>1 DEF Types
  <2> QED  BY <2>1, <2>2, Bounds DEF Due
<1>5. /\ Pushed(s) \in Seq(Matrix) /\ Len(Pushed(s)) <= RingSize /\ Len(Pushed(s)) \in Nat
      /\ Filled(s) \in Seq(FitReports) /\ Len(Filled(s)) <= BufSize /\ Len(Filled(s)) \in Nat
  BY PushedNow, FilledNow, LenProperties
<1>6. /\ ring' \in Seq(Matrix) /\ Len(ring') <= RingSize
      /\ buf' \in Seq(FitReports) /\ Len(buf') <= BufSize
      /\ told' \in FitReports
  <2>1. CASE s.forced
    BY <1>1, <1>5, <2>1, ScanForced, NothingFits DEF Types
  <2>2. CASE ~s.forced
    <3>1. ring' \in Seq(Matrix) /\ Len(ring') <= RingSize
      <4>1. CASE Pushed(s) = <<>>
        BY <1>5, <2>2, <4>1, ScanTakes
      <4>2. CASE Pushed(s) # <<>>
        <5>1. ring' = Tail(Pushed(s))
          BY <2>2, <4>2, ScanTakes
        <5>2. Tail(Pushed(s)) \in Seq(Matrix) /\ Len(Tail(Pushed(s))) = Len(Pushed(s)) - 1
          BY <1>5, <4>2, HeadTail
        <5> QED  BY <1>5, <5>1, <5>2, Bounds
      <4> QED  BY <4>1, <4>2
    <3>2. CASE s.read /\ Filled(s) # <<>>
      <4>1. told' = Head(Filled(s)) /\ buf' = Tail(Filled(s))
        BY <2>2, <3>2, ScanTakes
      <4>2. /\ Head(Filled(s)) \in FitReports
            /\ Tail(Filled(s)) \in Seq(FitReports) /\ Len(Tail(Filled(s))) = Len(Filled(s)) - 1
        BY <1>5, <3>2, HeadTail
      <4>3. Len(buf') <= BufSize
        BY <1>5, <4>1, <4>2, Bounds
      <4> QED  BY <3>1, <4>1, <4>2, <4>3
    <3>3. CASE ~(s.read /\ Filled(s) # <<>>)
      <4>1. told' = told /\ buf' = Filled(s)
        BY <2>2, <3>3, ScanTakes
      <4> QED  BY <1>1, <1>5, <3>1, <4>1 DEF Types
    <3> QED  BY <3>2, <3>3
  <2> QED  BY <2>1, <2>2
<1> QED  BY <1>2, <1>3, <1>4, <1>6 DEF Types

LEMMA ScanKeepsReleasing ==
  ASSUME NEW s \in Status, IInv, KbScanKey(s)
  PROVE  Releasing'
<1>1. rel \in 0 .. ReleaseScans /\ down \in Presses /\ Releasing
  BY DEF IInv, Types
<1>2. CASE down # {}
  BY <1>1, <1>2, ScanStep, Bounds DEF Releasing, RelAfter, RelFull
<1>3. CASE down = {}
  <2>1. Contacts[down] = {}
    BY <1>1, <1>3, NoGhostLeft
  <2>2. pre' = {} /\ last' = last \cap pre /\ rel' = rel - 1 /\ rel > 0
    BY <1>3, <2>1, ScanStep DEF Debounced, RelAfter
  <2> QED  BY <1>1, <2>2, Bounds DEF Releasing
<1> QED  BY <1>2, <1>3

LEMMA ScanKeepsTelling ==
  ASSUME NEW s \in Status, IInv, KbScanKey(s)
  PROVE  LastTellsNow'
<1> DEFINE now == Debounced(Contacts[down])
<1>1. last' = now
  BY ScanStep
<1>2. /\ Pushed(s) \in Seq(Matrix) /\ Filled(s) \in Seq(FitReports)
      /\ Pushed(s) # <<>> => Last(Pushed(s)) = now
  BY PushedNow, FilledNow
<1>3. CASE s.forced
  <2>1. ring' = Pushed(s) /\ buf' = buf /\ told' = Nothing
    BY <1>3, ScanForced
  <2>2. ring' = <<>> /\ buf' # <<>> => Last(buf') \in Tells(now)
    <3>1. Pushed(s) = <<>> => ring = <<>> /\ last = now
      BY PushedNow
    <3> QED  BY <2>1, <3>1 DEF IInv, LastTellsNow
  <2> HIDE DEF now
  <2> QED  BY <1>1, <1>2, <2>1, <2>2 DEF LastTellsNow
<1>4. CASE ~s.forced
  <2>1. ring' # <<>> => Last(ring') = now
    <3>1. ring' = IF Pushed(s) = <<>> THEN <<>> ELSE Tail(Pushed(s))
      BY <1>4, ScanTakes
    <3> HIDE DEF now
    <3> QED  BY <1>2, <3>1, HeadTail
  <2>2. ring' = <<>> => Pushed(s) = <<>> \/ Tail(Pushed(s)) = <<>>
    BY <1>4, ScanTakes
  <2>3. ring' = <<>> /\ Filled(s) # <<>> => Last(Filled(s)) \in Tells(now)
    BY <2>2, FilledTells
  <2> HIDE DEF now
  <2>4. CASE s.read /\ Filled(s) # <<>>
    <3>1. told' = Head(Filled(s)) /\ buf' = Tail(Filled(s))
      BY <1>4, <2>4, ScanTakes
    <3>2. /\ Tail(Filled(s)) = <<>> => Head(Filled(s)) = Last(Filled(s))
          /\ Tail(Filled(s)) # <<>> => Last(Tail(Filled(s))) = Last(Filled(s))
      BY <1>2, <2>4, HeadTail
    <3> QED  BY <1>1, <2>1, <2>3, <2>4, <3>1, <3>2 DEF LastTellsNow
  <2>5. CASE ~(s.read /\ Filled(s) # <<>>)
    <3>1. told' = told /\ buf' = Filled(s)
      BY <1>4, <2>5, ScanTakes
    <3>2. ring' = <<>> /\ Filled(s) = <<>> => told \in Tells(now) \cup {Nothing}
      <4> SUFFICES ASSUME ring' = <<>>, Filled(s) = <<>> PROVE told \in Tells(now) \cup {Nothing}
        OBVIOUS
      <4>1. Pushed(s) = <<>>
        BY FilledNow
      <4>2. buf = <<>> /\ ring = <<>> /\ last = now
        BY <4>1, FilledNow, PushedNow DEF now
      <4> QED  BY <4>2 DEF IInv, LastTellsNow
    <3> QED  BY <1>1, <2>1, <2>3, <3>1, <3>2 DEF LastTellsNow
  <2> QED  BY <2>4, <2>5
<1> QED  BY <1>3, <1>4

LEMMA NextIInv == IInv /\ [Next]_vars => IInv'
<1> SUFFICES ASSUME IInv, [Next]_vars PROVE IInv'
  OBVIOUS
<1>1. CASE Touch
  <2>1. down' \in Presses /\ touches' \in 0 .. MaxTouches
    BY <1>1, Bounds DEF Touch, IInv, Types
  <2> QED  BY <1>1, <2>1 DEF IInv, Types, Releasing, LastTellsNow, Touch
<1>2. CASE ScanKey
  BY <1>2, ScanKeepsTypes, ScanKeepsReleasing, ScanKeepsTelling DEF ScanKey, IInv
<1>3. CASE UNCHANGED vars
  BY <1>3 DEF IInv, Types, Releasing, LastTellsNow, vars
<1> QED  BY <1>1, <1>2, <1>3 DEF Next

LEMMA Invariance == Spec => []IInv
BY InitIInv, NextIInv, PTL DEF Spec

-----------------------------------------------------------------------------
\* Ring and buffer never overflow, whatever is pressed and however long the radio
\* takes nothing, and no report names more keys than kb_data_t holds.
THEOREM KeyTypeCorrect == Spec => []TypeOK
<1>1. IInv => TypeOK
  <2> SUFFICES ASSUME IInv PROVE TypeOK
    OBVIOUS
  <2>1. Types
    BY DEF IInv
  <2>2. buf \in Seq(Reports)
    BY <2>1, SeqMonotonic DEF Types, FitReports
  <2>3. \A r \in Range(buf) \cup {told} : r \in Reports /\ Len(r.keys) <= MaxKeys
    <3>1. Range(buf) \subseteq FitReports
      BY <2>1, RangeOfSeq DEF Types
    <3> QED  BY <2>1, <3>1 DEF Types, FitReports
  <2>4. same \in 0 .. RepeatScans
    BY <2>1, Bounds DEF Types
  <2> QED  BY <2>1, <2>2, <2>3, <2>4 DEF TypeOK, Types
<1> QED  BY <1>1, Invariance, PTL

\* When scanning stops the release has come through the filter: release_cnt of
\* kb_key_pressed is long enough for any matrix and any bounces.
THEOREM KeyReleaseNoticed == Spec => []ReleaseNoticed
<1>1. IInv => ReleaseNoticed
  BY Bounds DEF IInv, Releasing, ReleaseNoticed
<1> QED  BY <1>1, Invariance, PTL

\* However the ring and the buffer drop and merge while the radio takes nothing, what
\* they hold last, or what was told last, is the state of the keys.
THEOREM KeyLastTellsNow == Spec => []LastTellsNow
<1>1. IInv => LastTellsNow
  BY DEF IInv
<1> QED  BY <1>1, Invariance, PTL

\* Whatever keys are held at once, current through them never makes kb_scan_key
\* report a key that is up.
THEOREM KeyNoGhosts == Spec => NoGhosts
<1>1. IInv /\ [Next]_vars => [last' \ last \subseteq down]_vars
  <2> SUFFICES ASSUME IInv, Next PROVE last' \ last \subseteq down
    BY DEF vars
  <2>1. CASE Touch
    BY <2>1 DEF Touch
  <2>2. CASE ScanKey
    <3>1. PICK s \in Status : KbScanKey(s)
      BY <2>2 DEF ScanKey
    <3>2. last' = Debounced(Contacts[down]) /\ Contacts[down] \subseteq down
      BY <3>1, ScanStep, NoGhostLeft DEF IInv, Types
    <3> QED  BY <3>2 DEF Debounced
  <2> QED  BY <2>1, <2>2 DEF Next
<1> QED  BY <1>1, Invariance, PTL DEF Spec, NoGhosts

\* What a step of the buffer may do: reports leave it at the front, one may join at the
\* back, and of what is typed only the oldest report of a stuck buffer is lost.
LosesLittle ==
  \E out \in {buf', <<told'>> \o buf'} :
    LET new  == {<<>>} \cup {<<r>> : r \in IF out = <<>> THEN {} ELSE {Last(out)}}
        kept == {buf} \cup IF Len(buf) = BufSize /\ Stuck(buf) THEN {Tail(buf)} ELSE {}
    IN \E b \in kept, n \in new : Typing(out) = Typing(b) \o Typing(n)

LEMMA UntouchedLosesNothing ==
  ASSUME IInv, NEW out \in {buf', <<told'>> \o buf'}, out = buf
  PROVE  LosesLittle
<1>1. Typing(buf) \in Seq(Reports) /\ Typing(<<>>) = <<>>
  BY SeqMonotonic, TypingSnoc DEF IInv, Types, FitReports
<1>2. Typing(out) = Typing(buf) \o Typing(<<>>)
  BY <1>1, ConcatEmptySeq
<1> QED  BY <1>2 DEF LosesLittle

LEMMA ScanLosesLittle ==
  ASSUME NEW s \in Status, IInv, KbScanKey(s)
  PROVE  LosesLittle
<1>1. CASE s.forced
  <2>1. buf' = buf
    BY <1>1, ScanForced
  <2> QED  BY <2>1, UntouchedLosesNothing
<1>2. CASE ~s.forced
  <2> DEFINE out == Filled(s)
  <2>1. out \in {buf', <<told'>> \o buf'}
    <3>1. CASE s.read /\ Filled(s) # <<>>
      <4>1. told' = Head(Filled(s)) /\ buf' = Tail(Filled(s))
        BY <1>2, <3>1, ScanTakes
      <4>2. <<Head(Filled(s))>> \o Tail(Filled(s)) = Filled(s)
        BY <3>1, FilledNow, HeadTail
      <4> QED  BY <4>1, <4>2
    <3>2. CASE ~(s.read /\ Filled(s) # <<>>)
      BY <1>2, <3>2, ScanTakes
    <3> QED  BY <3>1, <3>2
  <2>2. CASE Pushed(s) = <<>>
    <3>1. out = buf
      BY <2>2, FilledNow
    <3> QED  BY <2>1, <3>1, UntouchedLosesNothing
  <2>3. CASE Pushed(s) # <<>>
    <3> DEFINE r == Report(s)
    <3>1. /\ out = Append(MakeRoom(buf), r) /\ r \in FitReports /\ r \in Reports
          /\ out # <<>> /\ Last(out) = r
      BY <2>3, FilledNow DEF FitReports
    <3>2. PICK k \in Kept(buf) : k \in Seq(Reports) /\ Typing(MakeRoom(buf)) = Typing(k)
      BY MakeRoomKeeps DEF IInv, Types
    <3>3. MakeRoom(buf) \in Seq(Reports)
      BY MakeRoomKeeps, SeqMonotonic DEF IInv, Types, FitReports
    <3> HIDE DEF r, out
    <3>4. Typing(out) = Typing(k) \o Typing(<<r>>)
      BY <3>1, <3>2, <3>3, TypingSnoc, TypingSingle
    <3>5. <<r>> \in {<<q>> : q \in IF out = <<>> THEN {} ELSE {Last(out)}}
      BY <3>1
    <3> QED  BY <2>1, <3>4, <3>5 DEF LosesLittle, Kept
  <2> QED  BY <2>2, <2>3
<1> QED  BY <1>1, <1>2

\* Merging in a full buffer neither loses nor reorders a key, a modifier or a release,
\* for any length of buffer and reports: what is dropped is the oldest report of a
\* buffer in which no two neighbours fit together.
THEOREM KeyLosesOnlyWhenStuck == Spec => LosesOnlyWhenStuck
<1>1. IInv /\ [Next]_vars => [LosesLittle]_vars
  <2> SUFFICES ASSUME IInv, Next PROVE LosesLittle
    OBVIOUS
  <2>1. CASE Touch
    <3>1. buf' = buf
      BY <2>1 DEF Touch
    <3> QED  BY <3>1, UntouchedLosesNothing
  <2>2. CASE ScanKey
    BY <2>2, ScanLosesLittle DEF ScanKey
  <2> QED  BY <2>1, <2>2 DEF Next
<1>2. Spec => [][LosesLittle]_vars
  BY <1>1, Invariance, PTL DEF Spec
<1> QED  BY <1>2 DEF LosesOnlyWhenStuck, LosesLittle
-----------------------------------------------------------------------------
HIDE KeyAssumption

(* Keys that are held: what ring and buffer still tell of earlier ones *)

\* Two reports that tell the same keys, one of them perhaps repeating them.
Alike(r, s) == Range(r.keys) = Range(s.keys) /\ r.ctrl = s.ctrl

\* What the keys p say while num lock is n.
Holds(p, n) == Remap(Contacts[p], <<FnKey \in Wired[p], n>>)

\* Of what waits in the buffer, and behind it in the ring, only the i oldest
\* entries may tell anything but the keys p.
Within(p, n, i) ==
  /\ \A j \in DOMAIN buf : j > i => Alike(buf[j], Holds(p, n))
  /\ \A j \in DOMAIN ring : Len(buf) + j > i => ring[j] = Contacts[p]

\* A scan while the keys p are held, after one that read them, with the host known.
HeldScan(p, n, s) ==
  down = p /\ pre = Contacts[p] /\ s.num = n /\ ~s.forced /\ KbScanKey(s)

\* Keys that are held come nearer to being told: the number of older entries never
\* grows while they are held, a report taken makes it one less, and when none is left
\* nothing but the held keys is told, with the next report taken if one waits or is
\* due (kb_scan_key, matrix_buff, keyEvt_buf).
HeldComesNearer ==
  [][\A p \in Presses, n \in NumLock, s \in Status : HeldScan(p, n, s) =>
       /\ \A i \in Nat : /\ Within(p, n, i) => Within(p, n, i)'
                         /\ s.read /\ Within(p, n, i + 1) => Within(p, n, i)'
       /\ Within(p, n, 0) => told' = told \/ Alike(told', Holds(p, n))
       /\ Within(p, n, 0) /\ s.read /\ (buf # <<>> \/ ring # <<>> \/ Again(s)) =>
            Alike(told', Holds(p, n))]_vars

\* The entries of q behind the i oldest, counted with off before them, are in set.
Beyond(q, off, i, set) == \A j \in 1 .. Len(q) : off + j > i => q[j] \in set
Telling(p, n) == {r \in FitReports : Alike(r, Holds(p, n))}

LEMMA BeyondTail ==
  ASSUME NEW T, NEW q \in Seq(T), q # <<>>, NEW off \in Nat, NEW low \in Nat, low <= off + 1,
         NEW i \in Nat, NEW set, Beyond(q, off, i, set)
  PROVE  Beyond(Tail(q), low, i, set)
<1>1. /\ Tail(q) \in Seq(T) /\ Len(Tail(q)) = Len(q) - 1 /\ Len(q) \in Nat \ {0}
      /\ \A j \in 1 .. Len(Tail(q)) : Tail(q)[j] = q[j + 1]
  BY HeadTailProperties, EmptySeq
<1> SUFFICES ASSUME NEW j \in 1 .. Len(Tail(q)), low + j > i PROVE Tail(q)[j] \in set
  BY DEF Beyond
<1>2. j + 1 \in 1 .. Len(q) /\ off + (j + 1) > i
  BY <1>1
<1> QED  BY <1>1, <1>2 DEF Beyond

LEMMA BeyondTaken ==
  ASSUME NEW T, NEW q \in Seq(T), q # <<>>,
         NEW i \in Nat, NEW set, Beyond(q, 0, i + 1, set)
  PROVE  Beyond(Tail(q), 0, i, set)
<1>1. /\ Tail(q) \in Seq(T) /\ Len(Tail(q)) = Len(q) - 1 /\ Len(q) \in Nat \ {0}
      /\ \A j \in 1 .. Len(Tail(q)) : Tail(q)[j] = q[j + 1]
  BY HeadTailProperties, EmptySeq
<1> SUFFICES ASSUME NEW j \in 1 .. Len(Tail(q)), 0 + j > i PROVE Tail(q)[j] \in set
  BY DEF Beyond
<1>2. j + 1 \in 1 .. Len(q) /\ 0 + (j + 1) > i + 1
  BY <1>1
<1> QED  BY <1>1, <1>2 DEF Beyond

LEMMA BeyondAppend ==
  ASSUME NEW T, NEW q \in Seq(T), NEW e \in T, NEW off \in Nat, NEW i \in Nat, NEW set,
         Beyond(q, off, i, set), off + Len(q) + 1 > i => e \in set
  PROVE  Beyond(Append(q, e), off, i, set)
<1>1. /\ Append(q, e) \in Seq(T) /\ Len(Append(q, e)) = Len(q) + 1 /\ Len(q) \in Nat
      /\ Append(q, e)[Len(q) + 1] = e /\ \A j \in 1 .. Len(q) : Append(q, e)[j] = q[j]
  BY AppendProperties, LenProperties
<1> SUFFICES ASSUME NEW j \in 1 .. Len(Append(q, e)), off + j > i PROVE Append(q, e)[j] \in set
  BY DEF Beyond
<1>2. CASE j = Len(q) + 1
  BY <1>1, <1>2
<1>3. CASE j # Len(q) + 1
  <2>1. j \in 1 .. Len(q)
    BY <1>1, <1>3
  <2> QED  BY <1>1, <2>1 DEF Beyond
<1> QED  BY <1>2, <1>3

\* A report joined from two that tell the same keys tells them, too.
LEMMA AlikeJoined ==
  ASSUME NEW l \in Reports, NEW r \in Reports, Joins(l, r), NEW h, Alike(l, h), Alike(r, h)
  PROVE  Alike([l EXCEPT !.keys = @ \o r.keys], h)
<1>1. [l EXCEPT !.keys = @ \o r.keys] = [keys |-> l.keys \o r.keys, ctrl |-> l.ctrl]
  BY ReportWith
<1>2. l.keys \in Seq(Codes) /\ r.keys \in Seq(Codes)
  BY ReportParts
<1>3. Range(l.keys \o r.keys) = Range(l.keys) \cup Range(r.keys)
  BY <1>2, RangeConcatenation
<1> QED  BY <1>1, <1>3 DEF Alike

LEMMA BeyondMergeStep ==
  ASSUME NEW acc \in Seq(FitReports), NEW r \in FitReports, NEW h, NEW i \in Nat,
         NEW k \in Nat, Len(acc) <= k, k + 1 > i => Alike(r, h),
         Beyond(acc, 0, i, {q \in FitReports : Alike(q, h)})
  PROVE  Beyond(MergeStep(acc, r), 0, i, {q \in FitReports : Alike(q, h)})
<1> DEFINE X == {q \in FitReports : Alike(q, h)}
<1>1. Len(acc) \in Nat /\ MergeStep(acc, r) \in Seq(FitReports)
  BY MergeStepKeeps, LenProperties
<1>2. CASE ~(acc # <<>> /\ Joins(Last(acc), r))
  <2>1. MergeStep(acc, r) = Append(acc, r)
    BY <1>2 DEF MergeStep
  <2>2. 0 + Len(acc) + 1 > i => r \in X
    BY <1>1
  <2> HIDE DEF X
  <2>3. Beyond(Append(acc, r), 0, i, X)
    BY <2>2, BeyondAppend DEF X
  <2> QED  BY <2>1, <2>3 DEF X
<1>3. CASE acc # <<>> /\ Joins(Last(acc), r)
  <2> DEFINE f == Front(acc)
             l == Last(acc)
             j == [l EXCEPT !.keys = @ \o r.keys]
  <2>1. /\ f \in Seq(FitReports) /\ l \in FitReports /\ Len(f) = Len(acc) - 1 /\ acc = Append(f, l)
        /\ Len(acc) \in Nat \ {0}
    BY <1>3, LastOf
  <2>2. MergeStep(acc, r) = Append(f, j)
    BY <1>3 DEF MergeStep
  <2>3. Len(f) \in Nat /\ Len(f) + 1 = Len(acc)
    BY <2>1
  <2>4. l = acc[Len(acc)] /\ \A x \in 1 .. Len(f) : acc[x] = f[x]
    <3> HIDE DEF f, l
    <3> QED  BY <2>1, <2>3, AppendProperties
  <2>5. ASSUME Len(f) + 1 > i PROVE Alike(j, h)
    <3>1. Len(acc) \in 1 .. Len(acc) /\ 0 + Len(acc) > i /\ k + 1 > i
      BY <2>1, <2>3, <2>5
    <3>2. acc[Len(acc)] \in X
      BY <3>1 DEF Beyond
    <3>3. Alike(l, h) /\ Alike(r, h) /\ l \in Reports /\ r \in Reports
      BY <2>1, <2>4, <3>1, <3>2 DEF FitReports
    <3> QED  BY <1>3, <3>3, AlikeJoined
  <2>6. MergeStep(acc, r)[Len(f) + 1] = j /\ Len(MergeStep(acc, r)) = Len(f) + 1
    <3>1. Append(f, j) # <<>> /\ Len(Append(f, j)) = Len(f) + 1 /\ Append(f, j)[Len(f) + 1] = j
      BY <2>1
    <3> QED  BY <2>2, <3>1
  <2>7. \A x \in 1 .. Len(f) : MergeStep(acc, r)[x] = acc[x]
    BY <2>1, <2>2, <2>4
  <2> HIDE DEF f, l, j
  <2>8. ASSUME NEW x \in 1 .. Len(MergeStep(acc, r)), 0 + x > i PROVE MergeStep(acc, r)[x] \in X
    <3>1. CASE x = Len(f) + 1
      <4>1. MergeStep(acc, r)[x] \in FitReports
        BY <1>1, ElementOfSeq
      <4>2. Alike(j, h)
        BY <2>3, <2>5, <2>8, <3>1
      <4> QED  BY <2>6, <3>1, <4>1, <4>2
    <3>2. CASE x # Len(f) + 1
      <4>1. x \in 1 .. Len(f) /\ x \in 1 .. Len(acc)
        BY <2>3, <2>6, <3>2
      <4>2. acc[x] \in X
        BY <2>8, <4>1 DEF Beyond
      <4> QED  BY <2>7, <4>1, <4>2
    <3> QED  BY <3>1, <3>2
  <2> QED  BY <2>8 DEF Beyond
<1> QED  BY <1>2, <1>3

\* Merging moves nothing back in the buffer.
LEMMA BeyondMerged ==
  ASSUME NEW b \in Seq(FitReports), NEW h, NEW i \in Nat,
         Beyond(b, 0, i, {q \in FitReports : Alike(q, h)})
  PROVE  Beyond(Merged(b), 0, i, {q \in FitReports : Alike(q, h)})
<1> DEFINE X == {q \in FitReports : Alike(q, h)}
           B == {c \in Seq(FitReports) : Beyond(c, 0, i, X) => Beyond(Merged(c), 0, i, X)}
<1>1. <<>> \in B
  <2>1. Merged(<<>>) = <<>> /\ <<>> \in Seq(FitReports)
    BY MergeSnoc, EmptySeq
  <2> HIDE DEF X
  <2> QED  BY <2>1
<1>2. ASSUME NEW c \in Seq(FitReports), NEW r \in FitReports, c \in B PROVE Append(c, r) \in B
  <2> DEFINE d == Append(c, r)
  <2>1. c \in Seq(Reports) /\ r \in Reports
    BY SeqMonotonic DEF FitReports
  <2>2. Merged(d) = MergeStep(Merged(c), r)
    BY <2>1, MergeSnoc
  <2>3. d \in Seq(FitReports) /\ Len(d) = Len(c) + 1 /\ d[Len(c) + 1] = r /\ \A x \in 1 .. Len(c) : d[x] = c[x]
    BY AppendProperties
  <2>4. Len(c) \in Nat /\ Merged(c) \in Seq(FitReports) /\ Len(Merged(c)) <= Len(c)
    BY MergedKeeps, LenProperties
  <2>5. ASSUME Beyond(d, 0, i, X) PROVE Beyond(Merged(d), 0, i, X)
    <3> HIDE DEF d
    <3>1. ASSUME NEW x \in 1 .. Len(c), 0 + x > i PROVE c[x] \in X
      <4>1. x \in 1 .. Len(d) /\ d[x] = c[x]
        BY <2>3, <2>4
      <4> QED  BY <2>5, <3>1, <4>1 DEF Beyond
    <3>2. Beyond(c, 0, i, X)
      BY <3>1 DEF Beyond
    <3>3. Beyond(Merged(c), 0, i, X)
      BY <1>2, <3>2
    <3>4. Len(c) + 1 > i => Alike(r, h)
      <4> SUFFICES ASSUME Len(c) + 1 > i PROVE Alike(r, h)
        OBVIOUS
      <4>1. Len(c) + 1 \in 1 .. Len(d) /\ 0 + (Len(c) + 1) > i
        BY <2>3, <2>4
      <4>2. d[Len(c) + 1] \in X
        BY <2>5, <4>1 DEF Beyond
      <4> QED  BY <2>3, <4>2
    <3> QED  BY <2>2, <2>4, <3>3, <3>4, BeyondMergeStep
  <2> HIDE DEF d, X
  <2> QED  BY <2>3, <2>5 DEF d
<1> HIDE DEF B, X
<1>3. b \in B
  BY <1>1, <1>2, SeqInduction
<1> QED  BY <1>3 DEF B, X

\* Making room moves nothing back, either.
LEMMA BeyondRoom ==
  ASSUME NEW b \in Seq(FitReports), Len(b) <= BufSize, NEW h, NEW i \in Nat,
         Beyond(b, 0, i, {q \in FitReports : Alike(q, h)})
  PROVE  /\ Beyond(MakeRoom(b), 0, i, {q \in FitReports : Alike(q, h)})
         /\ Len(MakeRoom(b)) <= Len(b)
<1> DEFINE X == {q \in FitReports : Alike(q, h)}
<1>1. Len(b) \in Nat /\ BufSize \in Nat \ {0} /\ Len(Merged(b)) <= Len(b)
  BY MergedKeeps, LenProperties, Bounds
<1>2. CASE Len(b) # BufSize
  <2>1. MakeRoom(b) = b
    BY <1>2 DEF MakeRoom
  <2> QED  BY <1>1, <2>1
<1>3. CASE Len(b) = BufSize /\ Len(Merged(b)) < Len(b)
  <2>1. MakeRoom(b) = Merged(b)
    BY <1>3 DEF MakeRoom, Room
  <2> QED  BY <1>1, <2>1, BeyondMerged
<1>4. CASE Len(b) = BufSize /\ ~(Len(Merged(b)) < Len(b))
  <2>1. MakeRoom(b) = Tail(b)
    BY <1>4 DEF MakeRoom, Room
  <2>2. b # <<>>
    BY <1>1, <1>4
  <2>3. Len(Tail(b)) <= Len(b)
    BY <1>1, <2>2, HeadTail
  <2> HIDE DEF X
  <2>4. Beyond(Tail(b), 0, i, X)
    <3>1. Beyond(b, 0, i, X)
      BY DEF X
    <3>2. 0 \in Nat /\ 0 <= 0 + 1
      OBVIOUS
    <3> QED  BY <2>2, <3>1, <3>2, BeyondTail
  <2> QED  BY <2>1, <2>3, <2>4 DEF X
<1> QED  BY <1>2, <1>3, <1>4

LEMMA RingBeyond ==
  ASSUME NEW q \in Seq(Matrix), NEW m \in Matrix, NEW off \in Nat, NEW i \in Nat,
         Beyond(q, off, i, {m})
  PROVE  Beyond(Fit(Append(q, m)), off, i, {m})
<1>1. Append(q, m) \in Seq(Matrix) /\ Append(q, m) # <<>>
  BY LastAppended, AppendProperties
<1>2. Beyond(Append(q, m), off, i, {m})
  <2>1. off + Len(q) + 1 > i => m \in {m}
    OBVIOUS
  <2> QED  BY <2>1, BeyondAppend
<1>3. CASE Len(Append(q, m)) > RingSize
  <2>1. Fit(Append(q, m)) = Tail(Append(q, m))
    BY <1>3 DEF Fit
  <2>2. off <= off + 1
    OBVIOUS
  <2> QED  BY <1>1, <1>2, <2>1, <2>2, BeyondTail
<1>4. CASE ~(Len(Append(q, m)) > RingSize)
  <2>1. Fit(Append(q, m)) = Append(q, m)
    BY <1>4 DEF Fit
  <2> QED  BY <1>2, <2>1
<1> QED  BY <1>3, <1>4

\* The debounced matrix is the one read twice.
LEMMA HeldDebounced ==
  ASSUME pre = Contacts[down]
  PROVE  Debounced(Contacts[down]) = Contacts[down]
BY DEF Debounced

\* What waits between the two halves of a scan: the matrix put into the ring, the
\* oldest one translated, nothing taken yet.
LEMMA HeldFilled ==
  ASSUME IInv, NEW p \in Presses, NEW n \in NumLock, NEW s \in Status, HeldScan(p, n, s),
         NEW i \in Nat, Within(p, n, i)
  PROVE  /\ Beyond(Filled(s), 0, i, Telling(p, n))
         /\ ring' # <<>> => Beyond(ring', Len(Filled(s)), i, {Contacts[p]})
         /\ ring' \in Seq(Matrix) /\ Filled(s) \in Seq(FitReports)
<1>1. /\ buf \in Seq(FitReports) /\ Len(buf) <= BufSize /\ Len(buf) \in Nat
      /\ ring \in Seq(Matrix) /\ Len(ring) \in Nat /\ down = p
  BY LenProperties DEF IInv, Types, HeldScan
<1>2. ~s.forced /\ KbScanKey(s) /\ Debounced(Contacts[down]) = Contacts[p]
  BY HeldDebounced DEF HeldScan
<1>3. Pushed(s) \in Seq(Matrix) /\ Contacts[p] \in Matrix
  BY <1>1, <1>2, PushedNow
<1>4. Beyond(buf, 0, i, Telling(p, n))
  <2>1. ASSUME NEW j \in 1 .. Len(buf), 0 + j > i PROVE buf[j] \in Telling(p, n)
    <3>1. j \in DOMAIN buf /\ j > i /\ buf[j] \in FitReports
      BY <1>1, <2>1
    <3> QED  BY <3>1 DEF Within, Telling
  <2> QED  BY <2>1 DEF Beyond
<1>5. Beyond(ring, Len(buf), i, {Contacts[p]})
  <2>1. ASSUME NEW j \in 1 .. Len(ring), Len(buf) + j > i PROVE ring[j] = Contacts[p]
    BY <1>1, <2>1 DEF Within
  <2> QED  BY <2>1 DEF Beyond
<1>6. Beyond(Pushed(s), Len(buf), i, {Contacts[p]})
  <2>1. CASE Changed(s)
    <3>1. Pushed(s) = Fit(Append(ring, Contacts[p]))
      BY <1>2, <2>1 DEF Pushed
    <3> QED  BY <1>1, <1>3, <1>5, <3>1, RingBeyond
  <2>2. CASE ~Changed(s)
    BY <1>5, <2>2 DEF Pushed
  <2> QED  BY <2>1, <2>2
<1>7. ring' = IF Pushed(s) = <<>> THEN <<>> ELSE Tail(Pushed(s))
  BY <1>2, ScanTakes
<1>8. CASE Pushed(s) = <<>>
  <2>1. Filled(s) = buf /\ ring' = <<>>
    BY <1>7, <1>8, FilledNow
  <2>2. ring' \in Seq(Matrix)
    BY <2>1, EmptySeq
  <2> QED  BY <1>1, <1>4, <2>1, <2>2
<1>9. CASE Pushed(s) # <<>>
  <2>1. ring' = Tail(Pushed(s)) /\ Filled(s) = Append(MakeRoom(buf), Report(s)) /\ Report(s) \in FitReports
    BY <1>7, <1>9, FilledNow
  <2>2. /\ Tail(Pushed(s)) \in Seq(Matrix) /\ MakeRoom(buf) \in Seq(FitReports)
        /\ Filled(s) \in Seq(FitReports)
    BY <1>1, <1>3, <1>9, HeadTail, MakeRoomKeeps, FilledNow
  <2>3. Beyond(MakeRoom(buf), 0, i, Telling(p, n)) /\ Len(MakeRoom(buf)) <= Len(buf)
    BY <1>1, <1>4, BeyondRoom DEF Telling
  <2>4. /\ Len(MakeRoom(buf)) \in Nat /\ Len(Filled(s)) \in Nat
        /\ Len(Filled(s)) = Len(MakeRoom(buf)) + 1
    BY <2>1, <2>2, AppendProperties, LenProperties
  <2>5. 0 + Len(MakeRoom(buf)) + 1 > i => Report(s) \in Telling(p, n)
    <3> SUFFICES ASSUME 0 + Len(MakeRoom(buf)) + 1 > i PROVE Report(s) \in Telling(p, n)
      OBVIOUS
    <3>1. 1 \in 1 .. Len(Pushed(s)) /\ Head(Pushed(s)) = Pushed(s)[1]
      BY <1>3, <1>9, HeadTailProperties, EmptySeq
    <3>2. Len(buf) + 1 > i
      BY <1>1, <2>3, <2>4
    <3>3. Head(Pushed(s)) = Contacts[p]
      BY <1>6, <3>1, <3>2 DEF Beyond
    <3>4. Layer(s) = <<FnKey \in Wired[p], n>>
      BY <1>1 DEF Layer, HeldScan
    <3>5. Report(s) = Holds(p, n)
      BY <3>3, <3>4 DEF Report, Holds
    <3> QED  BY <2>1, <3>5 DEF Telling, Alike
  <2>6. Beyond(Filled(s), 0, i, Telling(p, n))
    BY <2>1, <2>2, <2>3, <2>5, BeyondAppend
  <2>7. Beyond(Tail(Pushed(s)), Len(Filled(s)), i, {Contacts[p]})
    <3>1. Len(Filled(s)) <= Len(buf) + 1
      BY <1>1, <2>3, <2>4
    <3> QED  BY <1>1, <1>3, <1>6, <1>9, <2>4, <3>1, BeyondTail
  <2> QED  BY <2>1, <2>2, <2>6, <2>7
<1> QED  BY <1>8, <1>9

LEMMA WithinBeyond ==
  ASSUME NEW p \in Presses, NEW n \in NumLock, NEW i \in Nat,
         NEW b \in Seq(FitReports), NEW q \in Seq(Matrix),
         Beyond(b, 0, i, Telling(p, n)), q # <<>> => Beyond(q, Len(b), i, {Contacts[p]})
  PROVE  /\ \A j \in DOMAIN b : j > i => Alike(b[j], Holds(p, n))
         /\ \A j \in DOMAIN q : Len(b) + j > i => q[j] = Contacts[p]
<1>1. Len(b) \in Nat /\ DOMAIN b = 1 .. Len(b) /\ DOMAIN q = 1 .. Len(q)
  BY LenProperties
<1>2. ASSUME NEW j \in DOMAIN b, j > i PROVE Alike(b[j], Holds(p, n))
  <2>1. j \in 1 .. Len(b) /\ 0 + j > i
    BY <1>1, <1>2
  <2> QED  BY <2>1 DEF Beyond, Telling
<1>3. ASSUME NEW j \in DOMAIN q, Len(b) + j > i PROVE q[j] = Contacts[p]
  <2>1. q # <<>> /\ j \in 1 .. Len(q)
    BY <1>1, <1>3, EmptySeq
  <2> QED  BY <1>3, <2>1 DEF Beyond
<1> QED  BY <1>2, <1>3

\* The entries that may tell something else grow no more, and fewer with every report
\* taken.
LEMMA HeldStays ==
  ASSUME IInv, NEW p \in Presses, NEW n \in NumLock, NEW s \in Status, HeldScan(p, n, s),
         NEW i \in Nat, Within(p, n, i)
  PROVE  Within(p, n, i)'
<1>1. /\ Beyond(Filled(s), 0, i, Telling(p, n))
      /\ ring' # <<>> => Beyond(ring', Len(Filled(s)), i, {Contacts[p]})
      /\ ring' \in Seq(Matrix) /\ Filled(s) \in Seq(FitReports)
  BY HeldFilled
<1>2. ~s.forced /\ KbScanKey(s)
  BY DEF HeldScan
<1>3. CASE s.read /\ Filled(s) # <<>>
  <2>1. buf' = Tail(Filled(s))
    BY <1>2, <1>3, ScanTakes
  <2>2. /\ Tail(Filled(s)) \in Seq(FitReports) /\ Len(Tail(Filled(s))) = Len(Filled(s)) - 1
        /\ Len(Filled(s)) \in Nat \ {0} /\ Len(Tail(Filled(s))) \in Nat
    BY <1>1, <1>3, HeadTail, LenProperties
  <2>3. Beyond(Tail(Filled(s)), 0, i, Telling(p, n))
    <3>1. 0 <= 0 + 1 /\ 0 \in Nat
      OBVIOUS
    <3> QED  BY <1>1, <1>3, <3>1, BeyondTail
  <2>4. ring' # <<>> => Beyond(ring', Len(Tail(Filled(s))), i, {Contacts[p]})
    BY <1>1, <2>2 DEF Beyond
  <2> DEFINE t == Tail(Filled(s))
  <2>5. /\ buf' = t /\ t \in Seq(FitReports) /\ Beyond(t, 0, i, Telling(p, n))
        /\ ring' # <<>> => Beyond(ring', Len(t), i, {Contacts[p]})
    BY <2>1, <2>2, <2>3, <2>4
  <2> HIDE DEF t
  <2>6. /\ \A j \in DOMAIN t : j > i => Alike(t[j], Holds(p, n))
        /\ \A j \in DOMAIN ring' : Len(t) + j > i => ring'[j] = Contacts[p]
    BY <1>1, <2>5, WithinBeyond
  <2> QED  BY <2>5, <2>6 DEF Within
<1>4. CASE ~(s.read /\ Filled(s) # <<>>)
  <2>1. buf' = Filled(s)
    BY <1>2, <1>4, ScanTakes
  <2> QED  BY <1>1, <2>1, WithinBeyond DEF Within
<1> QED  BY <1>3, <1>4

LEMMA HeldComesOn ==
  ASSUME IInv, NEW p \in Presses, NEW n \in NumLock, NEW s \in Status, HeldScan(p, n, s),
         s.read, NEW i \in Nat, Within(p, n, i + 1)
  PROVE  Within(p, n, i)'
<1>0. i + 1 \in Nat
  OBVIOUS
<1>1. /\ Beyond(Filled(s), 0, i + 1, Telling(p, n))
      /\ ring' # <<>> => Beyond(ring', Len(Filled(s)), i + 1, {Contacts[p]})
      /\ ring' \in Seq(Matrix) /\ Filled(s) \in Seq(FitReports)
  BY <1>0, HeldFilled
<1>2. ~s.forced /\ KbScanKey(s)
  BY DEF HeldScan
<1>3. CASE Filled(s) # <<>>
  <2>1. buf' = Tail(Filled(s))
    BY <1>2, <1>3, ScanTakes
  <2>2. /\ Tail(Filled(s)) \in Seq(FitReports) /\ Len(Tail(Filled(s))) = Len(Filled(s)) - 1
        /\ Len(Filled(s)) \in Nat \ {0} /\ Len(Tail(Filled(s))) \in Nat
    BY <1>1, <1>3, HeadTail, LenProperties
  <2>3. Beyond(Tail(Filled(s)), 0, i, Telling(p, n))
    BY <1>1, <1>3, BeyondTaken
  <2>4. ring' # <<>> => Beyond(ring', Len(Tail(Filled(s))), i, {Contacts[p]})
    BY <1>1, <2>2 DEF Beyond
  <2> DEFINE t == Tail(Filled(s))
  <2>5. /\ buf' = t /\ t \in Seq(FitReports) /\ Beyond(t, 0, i, Telling(p, n))
        /\ ring' # <<>> => Beyond(ring', Len(t), i, {Contacts[p]})
    BY <2>1, <2>2, <2>3, <2>4
  <2> HIDE DEF t
  <2>6. /\ \A j \in DOMAIN t : j > i => Alike(t[j], Holds(p, n))
        /\ \A j \in DOMAIN ring' : Len(t) + j > i => ring'[j] = Contacts[p]
    BY <1>1, <2>5, WithinBeyond
  <2> QED  BY <2>5, <2>6 DEF Within
<1>4. CASE Filled(s) = <<>>
  <2>1. buf' = <<>>
    BY <1>2, <1>4, ScanTakes
  <2>2. ring' = <<>>
    <3>1. Pushed(s) = <<>>
      BY <1>4, FilledNow
    <3> QED  BY <1>2, <3>1, ScanTakes
  <2> QED  BY <2>1, <2>2 DEF Within
<1> QED  BY <1>3, <1>4

LEMMA HeldTold ==
  ASSUME IInv, NEW p \in Presses, NEW n \in NumLock, NEW s \in Status, HeldScan(p, n, s),
         Within(p, n, 0)
  PROVE  /\ told' = told \/ Alike(told', Holds(p, n))
         /\ s.read /\ (buf # <<>> \/ ring # <<>> \/ Again(s)) => Alike(told', Holds(p, n))
<1>1. Beyond(Filled(s), 0, 0, Telling(p, n)) /\ Filled(s) \in Seq(FitReports)
  BY HeldFilled
<1>2. ~s.forced /\ KbScanKey(s)
  BY DEF HeldScan
<1>3. ASSUME Filled(s) # <<>> PROVE Alike(Head(Filled(s)), Holds(p, n))
  <2>1. 1 \in 1 .. Len(Filled(s)) /\ Head(Filled(s)) = Filled(s)[1] /\ 0 + 1 > 0
    BY <1>1, <1>3, HeadTailProperties, EmptySeq
  <2> QED  BY <1>1, <2>1 DEF Beyond, Telling
<1>4. buf # <<>> \/ ring # <<>> \/ Again(s) => Filled(s) # <<>>
  <2>1. CASE Pushed(s) # <<>>
    BY <2>1, FilledNow
  <2>2. CASE Pushed(s) = <<>>
    <3>1. Filled(s) = buf /\ ring = <<>>
      BY <2>2, FilledNow, PushedNow
    <3>2. ~Again(s)
      <4>1. SUFFICES ASSUME Again(s) PROVE FALSE
        OBVIOUS
      <4>2. Pushed(s) = Fit(Append(ring, Debounced(Contacts[down])))
        BY <4>1 DEF Pushed, Changed
      <4>3. Debounced(Contacts[down]) \in Matrix /\ ring \in Seq(Matrix) /\ Len(ring) <= RingSize
        BY PushedNow DEF IInv, Types
      <4> QED  BY <2>2, <4>2, <4>3, FitKeepsNewest
    <3> QED  BY <3>1, <3>2
  <2> QED  BY <2>1, <2>2
<1>5. CASE s.read /\ Filled(s) # <<>>
  <2>1. told' = Head(Filled(s))
    BY <1>2, <1>5, ScanTakes
  <2> QED  BY <1>3, <1>5, <2>1
<1>6. CASE ~(s.read /\ Filled(s) # <<>>)
  <2>1. told' = told
    BY <1>2, <1>6, ScanTakes
  <2> QED  BY <1>4, <1>6, <2>1
<1> QED  BY <1>5, <1>6

\* How held keys come to be told (the steps behind HeldIsTold), for any matrix, sizes
\* and keys: what ring and buffer still hold of earlier keys (a number i) never grows
\* while the keys are held, repetitions and merging included; every report the radio
\* takes is one less; and once nothing is left of it, only the held keys are told, by
\* the next report taken if one waits or is due.
THEOREM KeyHeldComesNearer == Spec => HeldComesNearer
<1> DEFINE Nearer ==
      \A p \in Presses, n \in NumLock, s \in Status : HeldScan(p, n, s) =>
        /\ \A i \in Nat : /\ Within(p, n, i) => Within(p, n, i)'
                          /\ s.read /\ Within(p, n, i + 1) => Within(p, n, i)'
        /\ Within(p, n, 0) => told' = told \/ Alike(told', Holds(p, n))
        /\ Within(p, n, 0) /\ s.read /\ (buf # <<>> \/ ring # <<>> \/ Again(s)) =>
             Alike(told', Holds(p, n))
<1>1. IInv => Nearer
  <2> SUFFICES ASSUME IInv, NEW p \in Presses, NEW n \in NumLock, NEW s \in Status,
                      HeldScan(p, n, s)
               PROVE  /\ \A i \in Nat : /\ Within(p, n, i) => Within(p, n, i)'
                                        /\ s.read /\ Within(p, n, i + 1) => Within(p, n, i)'
                      /\ Within(p, n, 0) => told' = told \/ Alike(told', Holds(p, n))
                      /\ Within(p, n, 0) /\ s.read /\ (buf # <<>> \/ ring # <<>> \/ Again(s)) =>
                           Alike(told', Holds(p, n))
    OBVIOUS
  <2>1. ASSUME NEW i \in Nat, Within(p, n, i) PROVE Within(p, n, i)'
    BY <2>1, HeldStays
  <2>2. ASSUME NEW i \in Nat, s.read, Within(p, n, i + 1) PROVE Within(p, n, i)'
    BY <2>2, HeldComesOn
  <2>3. ASSUME Within(p, n, 0)
        PROVE  /\ told' = told \/ Alike(told', Holds(p, n))
               /\ s.read /\ (buf # <<>> \/ ring # <<>> \/ Again(s)) => Alike(told', Holds(p, n))
    BY <2>3, HeldTold
  <2> QED  BY <2>1, <2>2, <2>3
<1> HIDE DEF Nearer
<1>2. Spec => [][Nearer]_vars
  BY <1>1, Invariance, PTL DEF Spec
<1> QED  BY <1>2 DEF HeldComesNearer, Nearer
=============================================================================
