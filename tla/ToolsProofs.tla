----------------------------- MODULE ToolsProofs ----------------------------
(***************************************************************************)
(* The offline tools, for every size of a page and of a buffer, every tree *)
(* of files, every image, every disk and every set of commands: what is    *)
(* reported as done is complete, a copy that was cut short is the          *)
(* beginning of what it copies, the files of an RT-11 disk are extracted,  *)
(* and a text is replaced as a whole.                                      *)
(*                                                                         *)
(* The argument has four layers.                                           *)
(*   - The codecs are folds over characters: what comes out is bytes, and  *)
(*     more input only makes the output longer (ThroughType, Longer).      *)
(*   - A stream through a buffer keeps what it has taken: written, still   *)
(*     held and not yet read are together what the codec makes of the      *)
(*     whole (Reading), and once the input has ended only pieces that are  *)
(*     to be flushed are left (Flushed, Ending).  Both are the two phases  *)
(*     of Copying, which the steps of a copy keep whatever the program.    *)
(*   - Each program says of its phases which copy is open and which files  *)
(*     are done: DiskInv, TextInv and Rt11Inv.                             *)
(*   - IInv is their conjunction with the types; each action keeps it, and *)
(*     the four properties follow from it.                                 *)
(***************************************************************************)
EXTENDS Tools, SequenceTheorems, FiniteSetTheorems, WellFoundedInduction, TLAPS

\* A set of numbers that is not empty has a least one.
LEMMA LeastNumber ==
    ASSUME NEW S, S \subseteq Nat, S # {}
    PROVE  \E m \in S : \A k \in S : m <= k
<1> DEFINE R == OpToRel(<, Nat)
<1>1. IsWellFoundedOn(R, Nat)
  BY NatLessThanWellFounded
<1>2. \A m, k \in Nat : k < m => <<k, m>> \in R
  BY DEF OpToRel
<1> HIDE DEF R
<1>3. PICK m \in S : \A k \in S : ~ (<<k, m>> \in R)
  BY <1>1, WFMin
<1>4. \A k \in S : ~ (k < m) /\ k \in Nat /\ m \in Nat
  BY <1>2, <1>3
<1>5. QED
  BY <1>4

\* A set that holds 0, and k + 1 with every k below n, holds every number up to n.
LEMMA InductionUpTo ==
    ASSUME NEW S, NEW n \in Nat, 0 \in S,
           \A k \in 0 .. n - 1 : k \in S => k + 1 \in S
    PROVE  \A k \in 0 .. n : k \in S
<1> SUFFICES ASSUME NEW k \in 0 .. n, k \notin S PROVE FALSE
  OBVIOUS
<1> DEFINE B == {m \in 0 .. n : m \notin S}
<1>1. PICK m \in B : \A l \in B : m <= l
  <2>1. B \subseteq Nat /\ B # {}
    OBVIOUS
  <2> HIDE DEF B
  <2>2. QED
    BY <2>1, LeastNumber
<1>2. m # 0 /\ m - 1 \in 0 .. n - 1 /\ m - 1 \in S
  BY <1>1
<1>3. QED
  BY <1>1, <1>2

\* The beginning of a sequence grows by one element at a time.
LEMMA Prefix ==
    ASSUME NEW A, NEW t \in Seq(A), NEW m \in 0 .. Len(t) - 1
    PROVE  /\ SubSeq(t, 1, m) \in Seq(A) /\ Len(SubSeq(t, 1, m)) = m
           /\ t[m + 1] \in A
           /\ SubSeq(t, 1, m + 1) = Append(SubSeq(t, 1, m), t[m + 1])
<1>1. /\ SubSeq(t, 1, m) \in Seq(A) /\ Len(SubSeq(t, 1, m)) = m /\ t[m + 1] \in A
      /\ SubSeq(t, 1, m + 1) \in Seq(A) /\ Len(SubSeq(t, 1, m + 1)) = m + 1
  OBVIOUS
<1>2. \A i \in 1 .. m + 1 : SubSeq(t, 1, m + 1)[i] = Append(SubSeq(t, 1, m), t[m + 1])[i]
  BY <1>1
<1>3. QED
  BY <1>1, <1>2, SeqEqual, AppendProperties

\* A set that holds the empty sequence, and with each sequence all that are one
\* element longer, holds every sequence.
LEMMA SequenceInduction ==
    ASSUME NEW A, NEW P, <<>> \in P,
           \A t \in Seq(A), c \in A : t \in P => Append(t, c) \in P
    PROVE  \A t \in Seq(A) : t \in P
<1> SUFFICES ASSUME NEW t \in Seq(A) PROVE t \in P
  OBVIOUS
<1> DEFINE S == {m \in 0 .. Len(t) : SubSeq(t, 1, m) \in P}
<1>1. 0 \in S
  <2>1. SubSeq(t, 1, 0) = <<>>
    BY SubSeqEmpty
  <2>2. 0 \in 0 .. Len(t)
    OBVIOUS
  <2>3. QED
    BY <2>1, <2>2
<1>2. \A m \in 0 .. Len(t) - 1 : m \in S => m + 1 \in S
  <2> SUFFICES ASSUME NEW m \in 0 .. Len(t) - 1, SubSeq(t, 1, m) \in P
               PROVE  SubSeq(t, 1, m + 1) \in P
    OBVIOUS
  <2>1. /\ SubSeq(t, 1, m) \in Seq(A) /\ t[m + 1] \in A
        /\ SubSeq(t, 1, m + 1) = Append(SubSeq(t, 1, m), t[m + 1])
    BY Prefix
  <2>2. QED
    BY <2>1
<1>3. Len(t) \in Nat /\ Len(t) \in 0 .. Len(t)
  OBVIOUS
<1> HIDE DEF S
<1>4. Len(t) \in S
  BY <1>1, <1>2, <1>3, InductionUpTo
<1>5. QED
  BY <1>4, SubSeqFull DEF S

\* The fold takes the elements from the greatest down.
LEMMA GreatestIsMax ==
    ASSUME NEW m \in Nat, NEW S \in SUBSET (1 .. m), m \in S
    PROVE  Max(S) = m
<1> DEFINE Greatest(x) == x \in S /\ \A y \in S : x >= y
<1>1. Greatest(m)
  OBVIOUS
<1>2. \A x : Greatest(x) => x = m
  OBVIOUS
<1>3. Max(S) = CHOOSE x : Greatest(x)
  BY DEF Max
<1> HIDE DEF Greatest
<1>4. QED
  BY <1>1, <1>2, <1>3
-----------------------------------------------------------------------------
(* Folds of a step that is a function.                                     *)

\* The state behind the sequence t when every element takes one step.
Stepped(step, s, t) == FoldLeft(LAMBDA x, y : step[<<x, y>>], s, t)

\* The function that the fold is defined by.
IsSteps(f, step, s, t, m) ==
    f = [S \in SUBSET (1 .. m) |->
            IF S = {} THEN s ELSE step[<<f[S \ {Max(S)}], t[Max(S)]>>]]

LEMMA StepsExist ==
    ASSUME NEW step, NEW s, NEW t, NEW n \in Nat
    PROVE  \E f : IsSteps(f, step, s, t, n)
<1> DEFINE N == {m \in Nat : \E f : IsSteps(f, step, s, t, m)}
<1>1. 0 \in N
  <2> DEFINE g == [S \in SUBSET (1 .. 0) |-> s]
  <2>1. \A S \in SUBSET (1 .. 0) : S = {}
    OBVIOUS
  <2>2. g = [S \in SUBSET (1 .. 0) |->
                IF S = {} THEN s ELSE step[<<g[S \ {Max(S)}], t[Max(S)]>>]]
    BY <2>1
  <2>3. QED
    BY <2>2 DEF IsSteps
<1>2. \A m \in 0 .. n - 1 : m \in N => m + 1 \in N
  <2> SUFFICES ASSUME NEW m \in 0 .. n - 1, NEW f, IsSteps(f, step, s, t, m)
               PROVE  \E g : IsSteps(g, step, s, t, m + 1)
    OBVIOUS
  <2> DEFINE g == [S \in SUBSET (1 .. m + 1) |->
                      IF m + 1 \in S THEN step[<<f[S \ {m + 1}], t[m + 1]>>]
                      ELSE f[S]]
             Folded(S) == IF S = {} THEN s
                          ELSE step[<<g[S \ {Max(S)}], t[Max(S)]>>]
  <2>1. ASSUME NEW S \in SUBSET (1 .. m + 1)
        PROVE  g[S] = Folded(S)
    <3>1. CASE m + 1 \in S
      <4>1. Max(S) = m + 1
        BY <3>1, GreatestIsMax
      <4>2. S \ {m + 1} \in SUBSET (1 .. m + 1) /\ m + 1 \notin S \ {m + 1}
        OBVIOUS
      <4>3. g[S \ {m + 1}] = f[S \ {m + 1}]
        BY <4>2
      <4>4. g[S] = step[<<f[S \ {m + 1}], t[m + 1]>>]
        BY <3>1
      <4> HIDE DEF g
      <4>5. S # {}
        BY <3>1
      <4>6. QED
        BY <4>1, <4>3, <4>4, <4>5
    <3>2. CASE m + 1 \notin S
      <4>1. S \in SUBSET (1 .. m)
        BY <3>2
      <4>2. g[S] = f[S]
        BY <3>2
      <4>3. f[S] = IF S = {} THEN s ELSE step[<<f[S \ {Max(S)}], t[Max(S)]>>]
        BY <4>1 DEF IsSteps
      <4>4. /\ S \ {Max(S)} \in SUBSET (1 .. m + 1)
            /\ m + 1 \notin S \ {Max(S)}
        BY <3>2, Zenon
      <4>5. g[S \ {Max(S)}] = f[S \ {Max(S)}]
        BY <4>4
      <4> HIDE DEF g
      <4>6. QED
        BY <4>2, <4>3, <4>5
    <3>3. QED
      BY <3>1, <3>2
  <2>2. g = [S \in SUBSET (1 .. m + 1) |-> g[S]]
    OBVIOUS
  <2> HIDE DEF g
  <2>3. g = [S \in SUBSET (1 .. m + 1) |-> Folded(S)]
    BY <2>1, <2>2
  <2>4. QED
    BY <2>3 DEF IsSteps
<1> HIDE DEF N
<1>3. n \in N
  BY <1>1, <1>2, InductionUpTo
<1>4. QED
  BY <1>3 DEF N

\* The elements up to m + 1 are those up to m and the greatest.
LEMMA OneMore ==
    ASSUME NEW n \in Nat, NEW m \in 0 .. n - 1
    PROVE  /\ 1 .. m + 1 # {} /\ 1 .. m + 1 \in SUBSET (1 .. n)
           /\ Max(1 .. m + 1) = m + 1 /\ (1 .. m + 1) \ {m + 1} = 1 .. m
<1>1. /\ m + 1 \in 1 .. m + 1 /\ m + 1 \in Nat
      /\ \A i \in 1 .. m + 1 : i \in 1 .. n
  OBVIOUS
<1>2. 1 .. m + 1 # {} /\ 1 .. m + 1 \in SUBSET (1 .. n)
  BY <1>1, Zenon
<1>3. Max(1 .. m + 1) = m + 1
  BY <1>1, GreatestIsMax
<1>4. (1 .. m + 1) \ {m + 1} = 1 .. m
  OBVIOUS
<1>5. QED
  BY <1>2, <1>3, <1>4

\* The states h a fold goes through.
GoesThrough(h, step, s, t) ==
    /\ h[0] = s
    /\ \A i \in 0 .. Len(t) - 1 : h[i + 1] = step[<<h[i], t[i + 1]>>]

\* A fold goes through the states h, one for every beginning of the sequence.
LEMMA SteppedIs ==
    ASSUME NEW step, NEW s, NEW A, NEW t \in Seq(A), NEW h, GoesThrough(h, step, s, t)
    PROVE  Stepped(step, s, t) = h[Len(t)]
<1> USE DEF GoesThrough
<1> DEFINE n == Len(t)
<1>1. DOMAIN t = 1 .. n /\ n \in Nat
  OBVIOUS
<1>2. Stepped(step, s, t) = (CHOOSE f : IsSteps(f, step, s, t, n))[1 .. n]
  BY <1>1, Zenon DEF Stepped, FoldLeft, MapThenFoldSet, IsSteps
<1>3. PICK f : IsSteps(f, step, s, t, n) /\ Stepped(step, s, t) = f[1 .. n]
  <2>1. \E f : IsSteps(f, step, s, t, n)
    BY <1>1, StepsExist
  <2>2. QED
    BY <1>2, <2>1
<1> DEFINE N == {m \in 0 .. n : f[1 .. m] = h[m]}
<1> HIDE DEF n
<1>4. 0 \in N
  <2>1. 1 .. 0 = {} /\ {} \in SUBSET (1 .. n)
    OBVIOUS
  <2>2. f[{}] = s
    BY <1>3, <2>1 DEF IsSteps
  <2>3. QED
    BY <1>1, <2>1, <2>2
<1>5. \A m \in 0 .. n - 1 : m \in N => m + 1 \in N
  <2> SUFFICES ASSUME NEW m \in 0 .. n - 1, f[1 .. m] = h[m]
               PROVE  f[1 .. m + 1] = h[m + 1]
    BY <1>1
  <2>1. f[1 .. m + 1] = step[<<f[1 .. m], t[m + 1]>>]
    <3> DEFINE S == 1 .. m + 1
    <3>1. S # {} /\ S \in SUBSET (1 .. n) /\ Max(S) = m + 1 /\ S \ {m + 1} = 1 .. m
      BY <1>1, OneMore
    <3> HIDE DEF S
    <3>2. f[S] = step[<<f[S \ {Max(S)}], t[Max(S)]>>]
      BY <1>3, <3>1 DEF IsSteps
    <3>3. f[S] = step[<<f[1 .. m], t[m + 1]>>]
      BY <3>1, <3>2
    <3>4. QED
      BY <3>3 DEF S
  <2>2. QED
    BY <2>1 DEF n
<1> HIDE DEF N
<1>6. n \in N
  BY <1>1, <1>4, <1>5, InductionUpTo
<1>7. QED
  BY <1>3, <1>6 DEF N, n

\* Whatever a fold steps through: every state of it.
LEMMA States ==
    ASSUME NEW step, NEW s, NEW A, NEW t \in Seq(A)
    PROVE  \E h : GoesThrough(h, step, s, t)
<1>1. Len(t) \in Nat
  OBVIOUS
<1>2. PICK f : IsSteps(f, step, s, t, Len(t))
  BY <1>1, StepsExist
<1> DEFINE h == [i \in 0 .. Len(t) |-> f[1 .. i]]
<1>3. h[0] = s
  <2>1. 1 .. 0 = {} /\ {} \in SUBSET (1 .. Len(t)) /\ 0 \in 0 .. Len(t)
    BY <1>1
  <2>2. QED
    BY <1>2, <2>1 DEF IsSteps
<1>4. ASSUME NEW i \in 0 .. Len(t) - 1
      PROVE  h[i + 1] = step[<<h[i], t[i + 1]>>]
  <2>1. f[1 .. i + 1] = step[<<f[1 .. i], t[i + 1]>>]
    <3> DEFINE S == 1 .. i + 1
    <3>1. S # {} /\ S \in SUBSET (1 .. Len(t)) /\ Max(S) = i + 1 /\ S \ {i + 1} = 1 .. i
      BY <1>1, OneMore
    <3> HIDE DEF S
    <3>2. f[S] = step[<<f[S \ {Max(S)}], t[Max(S)]>>]
      BY <1>2, <3>1 DEF IsSteps
    <3>3. f[S] = step[<<f[1 .. i], t[i + 1]>>]
      BY <3>1, <3>2
    <3>4. QED
      BY <3>3 DEF S
  <2>2. h[i + 1] = f[1 .. i + 1] /\ h[i] = f[1 .. i]
    BY <1>1
  <2>3. QED
    BY <2>1, <2>2
<1> HIDE DEF h
<1>5. GoesThrough(h, step, s, t)
  BY <1>3, <1>4 DEF GoesThrough
<1>6. QED
  BY <1>5

LEMMA SteppedEmpty ==
    ASSUME NEW step, NEW s
    PROVE  Stepped(step, s, <<>>) = s
<1> DEFINE h == [i \in 0 .. 0 |-> s]
<1>1. <<>> \in Seq({}) /\ Len(<<>>) = 0 /\ h[0] = s
  OBVIOUS
<1>2. \A i \in 0 .. Len(<<>>) - 1 : h[i + 1] = step[<<h[i], <<>>[i + 1]>>]
  BY <1>1
<1> HIDE DEF h
<1>3. Stepped(step, s, <<>>) = h[Len(<<>>)]
  BY <1>1, <1>2, SteppedIs DEF GoesThrough
<1>4. QED
  BY <1>1, <1>3

LEMMA SteppedAppend ==
    ASSUME NEW step, NEW s, NEW A, NEW t \in Seq(A), NEW c \in A
    PROVE  Stepped(step, s, Append(t, c)) = step[<<Stepped(step, s, t), c>>]
<1>1. PICK u \in Seq(A) : u = Append(t, c)
  <2>1. Append(t, c) \in Seq(A)
    OBVIOUS
  <2>2. QED
    BY <2>1
<1>2. /\ Len(u) = Len(t) + 1 /\ u[Len(t) + 1] = c /\ Len(t) \in Nat
      /\ \A i \in 1 .. Len(t) : u[i] = t[i]
  BY <1>1
<1>3. PICK h : GoesThrough(h, step, s, u)
  BY States
<1>4. Stepped(step, s, u) = h[Len(u)]
  BY <1>3, SteppedIs
<1>5. Stepped(step, s, t) = h[Len(t)]
  <2>1. GoesThrough(h, step, s, t)
    BY <1>2, <1>3 DEF GoesThrough
  <2>2. QED
    BY <2>1, SteppedIs
<1>6. h[Len(t) + 1] = step[<<h[Len(t)], c>>]
  BY <1>2, <1>3 DEF GoesThrough
<1>7. QED
  BY <1>1, <1>2, <1>4, <1>5, <1>6

\* The states stay among S, if every step does.
LEMMA SteppedType ==
    ASSUME NEW S, NEW s \in S, NEW A, NEW t \in Seq(A), NEW step,
           \A x \in S, y \in A : step[<<x, y>>] \in S
    PROVE  Stepped(step, s, t) \in S
<1> DEFINE P == {u \in Seq(A) : Stepped(step, s, u) \in S}
<1>1. <<>> \in P
  BY SteppedEmpty
<1>2. \A u \in Seq(A), c \in A : u \in P => Append(u, c) \in P
  <2> SUFFICES ASSUME NEW u \in Seq(A), NEW c \in A, Stepped(step, s, u) \in S
               PROVE  Append(u, c) \in Seq(A) /\ Stepped(step, s, Append(u, c)) \in S
    OBVIOUS
  <2>1. Append(u, c) \in Seq(A)
    OBVIOUS
  <2>2. Stepped(step, s, Append(u, c)) = step[<<Stepped(step, s, u), c>>]
    BY SteppedAppend
  <2>3. QED
    BY <2>1, <2>2
<1> HIDE DEF P
<1>3. t \in P
  BY <1>1, <1>2, SequenceInduction
<1>4. QED
  BY <1>3 DEF P

\* A sequence is gone through in two parts as it is in one.
LEMMA SteppedConcat ==
    ASSUME NEW step, NEW s, NEW A, NEW t \in Seq(A), NEW u \in Seq(A)
    PROVE  Stepped(step, s, t \o u) = Stepped(step, Stepped(step, s, t), u)
<1> DEFINE P == {v \in Seq(A) :
                   Stepped(step, s, t \o v) = Stepped(step, Stepped(step, s, t), v)}
<1>1. <<>> \in P
  <2>1. t \o <<>> = t /\ <<>> \in Seq(A)
    OBVIOUS
  <2>2. QED
    BY <2>1, SteppedEmpty
<1>2. \A v \in Seq(A), c \in A : v \in P => Append(v, c) \in P
  <2> SUFFICES ASSUME NEW v \in Seq(A), NEW c \in A, v \in P
               PROVE  Append(v, c) \in P
    OBVIOUS
  <2>1. t \o Append(v, c) = Append(t \o v, c) /\ t \o v \in Seq(A)
    OBVIOUS
  <2>2. Stepped(step, s, Append(t \o v, c)) = step[<<Stepped(step, s, t \o v), c>>]
    <3>1. PICK w \in Seq(A) : w = t \o v
      BY <2>1
    <3>2. Stepped(step, s, Append(w, c)) = step[<<Stepped(step, s, w), c>>]
      BY SteppedAppend
    <3>3. QED
      BY <3>1, <3>2
  <2>3. Stepped(step, Stepped(step, s, t), Append(v, c))
          = step[<<Stepped(step, Stepped(step, s, t), v), c>>]
    BY SteppedAppend
  <2>4. Append(v, c) \in Seq(A)
    OBVIOUS
  <2>5. QED
    BY <2>1, <2>2, <2>3, <2>4
<1>3. u \in P
  <2> HIDE DEF P
  <2>1. QED
    BY <1>1, <1>2, SequenceInduction
<1>4. QED
  BY <1>3

-----------------------------------------------------------------------------
(* Sequences of sequences, one behind the other.                           *)

\* The function that FlattenSeq is defined by.
IsFlat(f, ss, m) == f = [i \in 1 .. m |-> IF i = 1 THEN ss[i] ELSE f[i - 1] \o ss[i]]

LEMMA FlatExists ==
    ASSUME NEW ss, NEW n \in Nat
    PROVE  \E f : IsFlat(f, ss, n)
<1> DEFINE N == {m \in Nat : \E f : IsFlat(f, ss, m)}
<1>1. 0 \in N
  <2>1. IsFlat([i \in 1 .. 0 |-> <<>>], ss, 0)
    BY DEF IsFlat
  <2>2. QED
    BY <2>1
<1>2. \A m \in 0 .. n - 1 : m \in N => m + 1 \in N
  <2> SUFFICES ASSUME NEW m \in 0 .. n - 1, NEW f, IsFlat(f, ss, m)
               PROVE  \E g : IsFlat(g, ss, m + 1)
    OBVIOUS
  <2> DEFINE g == [i \in 1 .. m + 1 |-> IF i = 1 THEN ss[i] ELSE f[i - 1] \o ss[i]]
  <2>1. \A i \in 1 .. m : f[i] = IF i = 1 THEN ss[i] ELSE f[i - 1] \o ss[i]
    BY DEF IsFlat
  <2>2. \A i \in 1 .. m : g[i] = f[i]
    BY <2>1
  <2>3. \A i \in 1 .. m + 1 : i # 1 => i - 1 \in 1 .. m
    OBVIOUS
  <2>4. \A i \in 1 .. m + 1 : g[i] = IF i = 1 THEN ss[i] ELSE g[i - 1] \o ss[i]
    BY <2>2, <2>3
  <2>5. g = [i \in 1 .. m + 1 |-> g[i]]
    OBVIOUS
  <2> HIDE DEF g
  <2>6. IsFlat(g, ss, m + 1)
    BY <2>4, <2>5 DEF IsFlat
  <2>7. QED
    BY <2>6
<1> HIDE DEF N
<1>3. n \in N
  BY <1>1, <1>2, InductionUpTo
<1>4. QED
  BY <1>3 DEF N

LEMMA FlattenIs ==
    ASSUME NEW A, NEW ss \in Seq(A)
    PROVE  \E f : /\ IsFlat(f, ss, Len(ss))
                  /\ FlattenSeq(ss) = IF Len(ss) = 0 THEN <<>> ELSE f[Len(ss)]
<1>1. FlattenSeq(ss) = IF Len(ss) = 0 THEN ss
                       ELSE (CHOOSE f : IsFlat(f, ss, Len(ss)))[Len(ss)]
  BY Zenon DEF FlattenSeq, IsFlat
<1>2. Len(ss) \in Nat /\ (Len(ss) = 0 => ss = <<>>)
  OBVIOUS
<1>3. PICK f : IsFlat(f, ss, Len(ss))
  BY <1>2, FlatExists
<1>4. QED
  BY <1>1, <1>2, <1>3

LEMMA FlatAt ==
    ASSUME NEW f, NEW ss, NEW n \in Nat, IsFlat(f, ss, n), NEW m \in 0 .. n - 1
    PROVE  f[m + 1] = IF m = 0 THEN ss[1] ELSE f[m] \o ss[m + 1]
<1>1. m + 1 \in 1 .. n /\ m + 1 - 1 = m /\ (m + 1 = 1 <=> m = 0)
  OBVIOUS
<1>2. \A i \in 1 .. n : f[i] = IF i = 1 THEN ss[i] ELSE f[i - 1] \o ss[i]
  BY DEF IsFlat
<1>3. f[m + 1] = IF m + 1 = 1 THEN ss[m + 1] ELSE f[m + 1 - 1] \o ss[m + 1]
  BY <1>1, <1>2
<1>4. QED
  BY <1>1, <1>3

LEMMA FlattenEmpty == FlattenSeq(<<>>) = <<>>
BY DEF FlattenSeq

LEMMA FlatType ==
    ASSUME NEW A, NEW ss \in Seq(Seq(A)), NEW f, IsFlat(f, ss, Len(ss)),
           NEW i \in 1 .. Len(ss)
    PROVE  f[i] \in Seq(A)
<1>1. PICK n \in Nat : n = Len(ss)
  OBVIOUS
<1> DEFINE N == {m \in 0 .. n : m > 0 => f[m] \in Seq(A)}
<1>2. 0 \in N
  OBVIOUS
<1>3. \A m \in 0 .. n - 1 : m \in N => m + 1 \in N
  <2> SUFFICES ASSUME NEW m \in 0 .. n - 1, m > 0 => f[m] \in Seq(A)
               PROVE  f[m + 1] \in Seq(A)
    BY <1>1
  <2>1. ss[m + 1] \in Seq(A)
    BY <1>1
  <2>2. f[m + 1] = IF m = 0 THEN ss[1] ELSE f[m] \o ss[m + 1]
    BY <1>1, FlatAt
  <2>3. QED
    BY <2>1, <2>2
<1> HIDE DEF N
<1>4. \A m \in 0 .. n : m \in N
  BY <1>1, <1>2, <1>3, InductionUpTo
<1>5. QED
  BY <1>1, <1>4 DEF N

LEMMA FlattenType ==
    ASSUME NEW A, NEW ss \in Seq(Seq(A))
    PROVE  FlattenSeq(ss) \in Seq(A)
<1>1. PICK f : /\ IsFlat(f, ss, Len(ss))
               /\ FlattenSeq(ss) = IF Len(ss) = 0 THEN <<>> ELSE f[Len(ss)]
  BY FlattenIs
<1>2. Len(ss) # 0 => Len(ss) \in 1 .. Len(ss)
  OBVIOUS
<1>3. QED
  BY <1>1, <1>2, FlatType

SameUpTo(ss, tt, n) == \A i \in 1 .. n : ss[i] = tt[i]

\* Prefixes of the same sequence are flattened in the same way.
LEMMA FlatAgree ==
    ASSUME NEW ss, NEW tt, NEW k \in Nat, NEW l \in Nat, NEW n \in 1 .. k, n <= l,
           SameUpTo(ss, tt, n),
           NEW f, IsFlat(f, ss, k), NEW g, IsFlat(g, tt, l)
    PROVE  f[n] = g[n]
<1> DEFINE N == {m \in 0 .. n : m > 0 => f[m] = g[m]}
<1>1. 0 \in N
  OBVIOUS
<1>2. \A m \in 0 .. n - 1 : m \in N => m + 1 \in N
  <2> SUFFICES ASSUME NEW m \in 0 .. n - 1, m > 0 => f[m] = g[m]
               PROVE  f[m + 1] = g[m + 1]
    OBVIOUS
  <2>1. f[m + 1] = IF m = 0 THEN ss[1] ELSE f[m] \o ss[m + 1]
    <3>1. m \in 0 .. k - 1
      OBVIOUS
    <3>2. QED
      BY <3>1, FlatAt
  <2>2. g[m + 1] = IF m = 0 THEN tt[1] ELSE g[m] \o tt[m + 1]
    <3>1. m \in 0 .. l - 1
      OBVIOUS
    <3>2. QED
      BY <3>1, FlatAt
  <2>3. ss[m + 1] = tt[m + 1] /\ (m = 0 => ss[1] = tt[1])
    BY DEF SameUpTo
  <2>4. m # 0 => m > 0
    OBVIOUS
  <2>5. QED
    BY <2>1, <2>2, <2>3, <2>4
<1>3. n \in Nat /\ n \in 0 .. n /\ n > 0
  OBVIOUS
<1> HIDE DEF N
<1>4. n \in N
  BY <1>1, <1>2, <1>3, InductionUpTo
<1>5. QED
  BY <1>3, <1>4 DEF N

\* One more sequence at the end.
LEMMA FlattenAppend ==
    ASSUME NEW A, NEW ss \in Seq(Seq(A)), NEW x \in Seq(A)
    PROVE  FlattenSeq(Append(ss, x)) = FlattenSeq(ss) \o x
<1> DEFINE tt == Append(ss, x)
           n == Len(ss)
<1>1. /\ tt \in Seq(Seq(A)) /\ Len(tt) = n + 1 /\ tt[n + 1] = x /\ n \in Nat
      /\ \A i \in 1 .. n : tt[i] = ss[i]
  OBVIOUS
<1>2. PICK f : IsFlat(f, ss, n) /\ FlattenSeq(ss) = IF n = 0 THEN <<>> ELSE f[n]
  BY FlattenIs
<1> HIDE DEF tt, n
<1>3. PICK g : IsFlat(g, tt, n + 1) /\ FlattenSeq(tt) = g[n + 1]
  <2>1. PICK g : /\ IsFlat(g, tt, Len(tt))
                 /\ FlattenSeq(tt) = IF Len(tt) = 0 THEN <<>> ELSE g[Len(tt)]
    BY <1>1, FlattenIs
  <2>2. QED
    BY <1>1, <2>1
<1>4. g[n + 1] = IF n = 0 THEN tt[1] ELSE g[n] \o tt[n + 1]
  <2>1. n \in 0 .. n + 1 - 1 /\ n + 1 \in Nat
    BY <1>1
  <2>2. QED
    BY <1>3, <2>1, FlatAt
<1>5. n # 0 => f[n] = g[n]
  <2> SUFFICES ASSUME n # 0 PROVE f[n] = g[n]
    OBVIOUS
  <2>1. n \in 1 .. n /\ n <= n + 1 /\ n + 1 \in Nat /\ n \in Nat
    BY <1>1
  <2>3. SameUpTo(ss, tt, n)
    BY <1>1 DEF SameUpTo
  <2>4. IsFlat(f, ss, n) /\ IsFlat(g, tt, n + 1)
    BY <1>2, <1>3
  <2>2. QED
    BY <2>1, <2>3, <2>4, FlatAgree
<1>6. FlattenSeq(tt) = IF n = 0 THEN x ELSE f[n] \o x
  BY <1>1, <1>3, <1>4, <1>5
<1>7. x = <<>> \o x
  OBVIOUS
<1>8. QED
  BY <1>2, <1>6, <1>7 DEF tt

-----------------------------------------------------------------------------
(* The encoder: what it makes is bytes, and what it has made it keeps.     *)

Byte == 0 .. 255

\* v begins with u.
Longer(u, v) == \E more \in Seq(Byte) : v = u \o more

LEMMA LongerTwice ==
    ASSUME NEW u \in Seq(Byte), NEW v, NEW w, Longer(u, v), Longer(v, w)
    PROVE  Longer(u, w)
<1>1. PICK x \in Seq(Byte) : v = u \o x
  BY DEF Longer
<1>2. PICK y \in Seq(Byte) : w = v \o y
  BY DEF Longer
<1>3. w = u \o (x \o y) /\ x \o y \in Seq(Byte)
  <2>1. (u \o x) \o y = u \o (x \o y) /\ x \o y \in Seq(Byte)
    BY ConcatAssociative, ConcatProperties
  <2>2. QED
    BY <1>1, <1>2, <2>1
<1>4. QED
  BY <1>3 DEF Longer

LEMMA LongerItself ==
    ASSUME NEW u \in Seq(Byte)
    PROVE  Longer(u, u)
<1>1. <<>> \in Seq(Byte) /\ u = u \o <<>>
  OBVIOUS
<1>2. QED
  BY <1>1 DEF Longer

LEMMA Sizes ==
    /\ Page \in Nat /\ Page > 2 /\ Tab \in Nat \ {0} /\ MaxBlanks \in Nat \ {0}
    /\ MaxBlanks + 32 < 256 /\ PerPage = Page - 1 /\ PerPage \in Nat
    /\ Buffer \in Nat /\ Buffer > 1 /\ Temp \in Nat /\ Temp > Buffer
BY SizesAssumption, BufferAssumption DEF PerPage

LEMMA Division ==
    ASSUME NEW n \in Nat, NEW d \in Nat \ {0}
    PROVE  /\ n \div d \in Nat /\ n % d \in 0 .. d - 1
           /\ n = (n \div d) * d + (n % d)
<1> DEFINE q == n \div d
           r == n % d
<1>1. q \in Int /\ q * d <= n /\ n < (q + 1) * d
  OBVIOUS
<1>2. r \in 0 .. d - 1
  OBVIOUS
<1>3. n = q * d + r
  OBVIOUS
<1> HIDE DEF q, r
<1>4. q >= 0
  <2>1. SUFFICES ASSUME q + 1 <= 0 PROVE FALSE
    BY <1>1
  <2>2. (q + 1) * d <= 0
    BY <1>1, <2>1
  <2>3. (q + 1) * d \in Int
    BY <1>1
  <2>4. QED
    BY <1>1, <2>2, <2>3
<1>5. QED
  BY <1>1, <1>2, <1>3, <1>4 DEF q, r

\* Products do not shrink as their factors grow.
LEMMA Multiples ==
    ASSUME NEW a \in Nat, NEW b \in Nat, NEW d \in Nat, a <= b
    PROVE  a * d \in Nat /\ b * d \in Nat /\ a * d <= b * d
<1>1. PICK e \in Nat : b = a + e
  <2>1. b - a \in Nat /\ b = a + (b - a)
    OBVIOUS
  <2>2. QED
    BY <2>1
<1>2. a * d \in Nat /\ e * d \in Nat /\ (a + e) * d = a * d + e * d
  OBVIOUS
<1>3. QED
  BY <1>1, <1>2

LEMMA TimesIs ==
    ASSUME NEW A, NEW n \in Nat, NEW c \in A
    PROVE  Times(n, c) \in Seq(A) /\ Len(Times(n, c)) = n
BY DEF Times

LEMMA NextTabType ==
    ASSUME NEW n \in Nat
    PROVE  NextTab(n) \in Nat /\ NextTab(n) - n \in Nat
<1>1. PICK t \in Nat \ {0} : t = Tab
  BY Sizes
<1>2. PICK r \in 0 .. t - 1 : r = n % t
  BY Division
<1>3. n % t <= n
  <2>1. n = (n \div t) * t + (n % t) /\ n \div t \in Nat /\ n % t \in 0 .. t - 1
    BY Division
  <2>2. (n \div t) * t \in Nat
    BY <2>1, Multiples
  <2>3. QED
    BY <2>1, <2>2
<1>4. n - r + t \in Nat /\ n - r + t - n \in Nat
  BY <1>2, <1>3
<1>5. QED
  BY <1>1, <1>2, <1>4 DEF NextTab

LEMMA ShownType ==
    ASSUME NEW c \in Byte
    PROVE  Shown(c) \in Seq(Byte)
<1>1. CASE Printable(c)
  BY <1>1 DEF Shown
<1>2. CASE ~Printable(c)
  <2>1. c \div 16 \in 0 .. 15 /\ c % 16 \in 0 .. 15
    BY DEF Byte
  <2>2. \A d \in 0 .. 15 : Digit(d) \in Byte
    BY DEF Digit, Byte
  <2>3. PICK a \in Byte, b \in Byte : Shown(c) = <<92, 120, a, b>>
    BY <1>2, <2>1, <2>2 DEF Shown
  <2>4. 92 \in Byte /\ 120 \in Byte
    BY DEF Byte
  <2>5. QED
    BY <2>3, <2>4
<1>3. QED
  BY <1>1, <1>2

LEMMA IndentType ==
    ASSUME NEW n \in Nat
    PROVE  Indent(n) \in Seq(Byte)
<1>1. n \div MaxBlanks \in Nat /\ n % MaxBlanks \in 0 .. MaxBlanks - 1
  BY Sizes, Division
<1>2. PICK x \in Seq(Byte) : x = <<DLE, 32 + MaxBlanks>>
  <2>1. DLE \in Byte /\ 32 + MaxBlanks \in Byte
    BY Sizes DEF DLE, Byte
  <2>2. <<DLE, 32 + MaxBlanks>> \in Seq(Byte)
    BY <2>1
  <2>3. QED
    BY <2>2
<1>3. FlattenSeq(Times(n \div MaxBlanks, x)) \in Seq(Byte)
  <2>1. Times(n \div MaxBlanks, x) \in Seq(Seq(Byte))
    BY <1>1, TimesIs
  <2>2. QED
    BY <2>1, FlattenType
<1>4. PICK r \in Nat : r = n % MaxBlanks /\ r < MaxBlanks
  BY <1>1, Sizes
<1>5. Times(r, Blank) \in Seq(Byte)
  <2>1. Blank \in Byte
    BY DEF Blank, Byte
  <2>2. QED
    BY <2>1, TimesIs
<1>6. <<DLE, 32 + r>> \in Seq(Byte)
  <2>1. DLE \in Byte /\ 32 + r \in Byte
    BY <1>4, Sizes DEF DLE, Byte
  <2>2. QED
    BY <2>1
<1>7. Indent(n) = FlattenSeq(Times(n \div MaxBlanks, x))
                    \o IF r <= 2 THEN Times(r, Blank) ELSE <<DLE, 32 + r>>
  BY <1>2, <1>4 DEF Indent
<1>8. QED
  BY <1>3, <1>5, <1>6, <1>7

LEMMA SplitType ==
    ASSUME NEW line \in Seq(Byte)
    PROVE  Split(line) \in Seq(Byte)
<1>1. PICK L \in Nat : L = Len(line)
  OBVIOUS
<1>2. CASE L <= PerPage
  BY <1>1, <1>2 DEF Split
<1>3. CASE ~ (L <= PerPage)
  <2>1. PICK d \in Nat \ {0} : d = PerPage - 1 /\ L > d + 1
    BY <1>3, Sizes
  <2>2. PICK n \in Nat : n = (L - PerPage + PerPage - 2) \div d /\ n * d <= L - 2
    <3>1. L - PerPage + PerPage - 2 = L - 2 /\ L - 2 \in Nat
      BY <2>1, Sizes
    <3>2. /\ (L - 2) \div d \in Nat /\ (L - 2) % d \in 0 .. d - 1
          /\ L - 2 = ((L - 2) \div d) * d + ((L - 2) % d)
      BY <3>1, Division
    <3>3. PICK q \in Nat : q = (L - 2) \div d
      BY <3>2
    <3>4. q * d \in Nat
      BY Multiples
    <3>5. q * d <= L - 2
      BY <3>2, <3>3, <3>4
    <3>6. QED
      BY <3>1, <3>3, <3>5
  <2>3. PICK m \in Nat : m = n * d /\ m <= L - 2
    BY <2>2, Multiples
  <2> DEFINE h(i) == SubSeq(line, (i - 1) * d + 1, i * d) \o <<CR, NUL>>
             F == [i \in 1 .. n |-> h(i)]
  <2>4. Split(line) = FlattenSeq(F) \o SubSeq(line, m + 1, L)
    BY <1>1, <1>3, <2>1, <2>2, <2>3 DEF Split
  <2>5. ASSUME NEW i \in 1 .. n
        PROVE  h(i) \in Seq(Byte)
    <3>1. PICK a \in Nat, b \in Nat : a = (i - 1) * d /\ b = i * d /\ b = a + d /\ b <= L
      <4>1. i - 1 \in Nat /\ i \in Nat /\ i <= n
        OBVIOUS
      <4>2. (i - 1) * d \in Nat /\ i * d \in Nat /\ i * d <= n * d
        BY <4>1, Multiples
      <4>3. i * d = (i - 1) * d + d
        BY <4>1
      <4>4. i * d <= L
        BY <2>3, <4>2
      <4>5. QED
        BY <4>2, <4>3, <4>4
    <3>2. SubSeq(line, a + 1, b) \in Seq(Byte)
      <4>1. a + 1 \in 1 .. L /\ b \in 1 .. L
        BY <3>1
      <4>2. QED
        BY <1>1, <4>1
    <3>3. <<CR, NUL>> \in Seq(Byte)
      BY DEF CR, NUL, Byte
    <3>4. QED
      BY <3>1, <3>2, <3>3
  <2>6. F \in Seq(Seq(Byte))
    <3> HIDE DEF h
    <3>1. QED
      BY <2>5
  <2> HIDE DEF F
  <2>7. FlattenSeq(F) \in Seq(Byte)
    BY <2>6, FlattenType
  <2>8. SubSeq(line, m + 1, L) \in Seq(Byte)
    <3>1. m + 1 \in 1 .. L /\ L \in 1 .. L
      BY <2>1, <2>3
    <3>2. QED
      BY <1>1, <3>1
  <2>9. QED
    BY <2>4, <2>7, <2>8
<1>4. QED
  BY <1>2, <1>3

Encoder == [out : Seq(Byte), line : Seq(Byte), column : Nat, nonWhite : BOOLEAN]

LEMMA WriteOneLineType ==
    ASSUME NEW s \in Encoder
    PROVE  WriteOneLine(s) \in Encoder /\ Longer(s.out, WriteOneLine(s).out)
<1>1. PICK o \in Seq(Byte), line \in Seq(Byte) : o = s.out /\ line = Append(s.line, CR)
  <2>1. CR \in Byte
    BY DEF CR, Byte
  <2>2. s.out \in Seq(Byte) /\ s.line \in Seq(Byte)
    BY DEF Encoder
  <2>3. Append(s.line, CR) \in Seq(Byte)
    BY <2>1, <2>2
  <2>4. QED
    BY <2>2, <2>3
<1>2. PICK address \in 0 .. Page - 1 : address = Len(o) % Page
  <2>1. Len(o) \in Nat /\ Page \in Nat \ {0}
    BY Sizes
  <2>2. Len(o) % Page \in 0 .. Page - 1
    BY <2>1, Division
  <2>3. QED
    BY <2>2
<1>3. PICK pad \in Seq(Byte) :
         pad = IF address + Len(line) > PerPage THEN Times(Page - address, NUL) ELSE <<>>
  <2>1. Page - address \in Nat /\ NUL \in Byte
    BY Sizes DEF NUL, Byte
  <2>2. Times(Page - address, NUL) \in Seq(Byte) /\ <<>> \in Seq(Byte)
    BY <2>1, TimesIs
  <2>3. QED
    BY <2>2
<1>4. PICK x \in Seq(Byte) : x = Split(line)
  BY SplitType
<1>5. WriteOneLine(s) = [out |-> (o \o pad) \o x, line |-> <<>>, column |-> 0,
                         nonWhite |-> FALSE]
  BY <1>1, <1>2, <1>3, <1>4 DEF WriteOneLine
<1>6. pad \o x \in Seq(Byte) /\ (o \o pad) \o x = o \o (pad \o x)
      /\ (o \o pad) \o x \in Seq(Byte) /\ <<>> \in Seq(Byte)
  BY ConcatAssociative, ConcatProperties
<1>7. WriteOneLine(s) \in Encoder
  BY <1>5, <1>6 DEF Encoder
<1>8. WriteOneLine(s).out = s.out \o (pad \o x)
  <2>1. WriteOneLine(s).out = (o \o pad) \o x
    BY <1>5
  <2>2. QED
    BY <1>1, <1>6, <2>1
<1>9. QED
  BY <1>6, <1>7, <1>8 DEF Longer

LEMMA EncodeCharacterType ==
    ASSUME NEW s \in Encoder, NEW c \in Byte
    PROVE  EncodeCharacter(s, c) \in Encoder /\ Longer(s.out, EncodeCharacter(s, c).out)
<1>1. CASE c \in {LF, CR}
  BY <1>1, WriteOneLineType DEF EncodeCharacter
<1>2. CASE c \notin {LF, CR}
  <2>1. EncodeCharacter(s, c) = LineCharacter(s, c)
    BY <1>2 DEF EncodeCharacter
  <2>2. PICK line \in Seq(Byte), n \in Nat : line = s.line /\ n = s.column
    BY DEF Encoder
  <2>3. Blank \in Byte /\ \E k \in Nat : k = n + 1
    BY DEF Blank, Byte
  <2> PICK k \in Nat : k = n + 1
    BY <2>3
  <2>4. s.out \in Seq(Byte) /\ Longer(s.out, s.out)
    BY LongerItself DEF Encoder
  <2>5. CASE c \in {NUL, DLE}
    <3>1. LineCharacter(s, c) = s
      BY <2>5 DEF LineCharacter, TAB, NUL, DLE, Blank
    <3>2. QED
      BY <2>1, <2>4, <3>1
  <2>6. CASE c = TAB
    <3>1. c \notin {NUL, DLE} /\ c # Blank
      BY <2>6 DEF TAB, NUL, DLE, Blank
    <3>2. PICK l \in Seq(Byte) :
             l = IF s.nonWhite THEN line \o Times(NextTab(n) - n, Blank) ELSE line
      <4>1. Times(NextTab(n) - n, Blank) \in Seq(Byte)
        BY <2>3, NextTabType, TimesIs
      <4>2. line \o Times(NextTab(n) - n, Blank) \in Seq(Byte)
        BY <4>1
      <4>3. QED
        BY <4>2
    <3>3. LineCharacter(s, c) = [s EXCEPT !.line = l, !.column = NextTab(n)]
      BY <2>2, <2>6, <3>1, <3>2 DEF LineCharacter
    <3>4. LineCharacter(s, c) \in Encoder /\ LineCharacter(s, c).out = s.out
      BY <3>3, NextTabType DEF Encoder
    <3>5. QED
      BY <2>1, <2>4, <3>4
  <2>7. CASE c = Blank
    <3>1. c \notin {NUL, DLE} /\ c # TAB
      BY <2>7 DEF TAB, NUL, DLE, Blank
    <3>2. PICK l \in Seq(Byte) : l = IF s.nonWhite THEN Append(line, Blank) ELSE line
      <4>1. Append(line, Blank) \in Seq(Byte)
        BY <2>3
      <4>2. QED
        BY <4>1
    <3>3. LineCharacter(s, c) = [s EXCEPT !.line = l, !.column = k]
      BY <2>2, <2>7, <3>1, <3>2 DEF LineCharacter
    <3>4. LineCharacter(s, c) \in Encoder /\ LineCharacter(s, c).out = s.out
      BY <3>3 DEF Encoder
    <3>5. QED
      BY <2>1, <2>4, <3>4
  <2>8. CASE c \notin {NUL, DLE} /\ c # TAB /\ c # Blank
    <3>1. PICK l \in Seq(Byte) :
             l = (IF s.nonWhite THEN line ELSE line \o Indent(n)) \o Shown(c)
      <4>1. Indent(n) \in Seq(Byte) /\ Shown(c) \in Seq(Byte)
        BY IndentType, ShownType
      <4>2. line \o Indent(n) \in Seq(Byte)
        BY <4>1
      <4>3. PICK a \in Seq(Byte) : a = IF s.nonWhite THEN line ELSE line \o Indent(n)
        BY <4>2
      <4>4. a \o Shown(c) \in Seq(Byte)
        BY <4>1
      <4>5. QED
        BY <4>3, <4>4
    <3>2. LineCharacter(s, c) = [s EXCEPT !.line = l, !.nonWhite = TRUE, !.column = k]
      BY <2>2, <2>8, <3>1 DEF LineCharacter
    <3>3. LineCharacter(s, c) \in Encoder /\ LineCharacter(s, c).out = s.out
      BY <3>2 DEF Encoder
    <3>4. QED
      BY <2>1, <2>4, <3>3
  <2>9. QED
    BY <2>5, <2>6, <2>7, <2>8
<1>3. QED
  BY <1>1, <1>2

-----------------------------------------------------------------------------
(* The decoder, likewise.                                                  *)

Decoder ==
    [out : Seq(Byte), column : Nat, nonWhite : BOOLEAN, dle : BOOLEAN, header : Nat]

LEMMA TabsType ==
    ASSUME NEW n \in Nat
    PROVE  Tabs(n) \in Seq(Byte)
<1>1. n \div Tab \in Nat /\ n % Tab \in Nat
  <2>1. PICK t \in Nat \ {0} : t = Tab
    BY Sizes
  <2>2. n \div t \in Nat /\ n % t \in 0 .. t - 1
    BY Division
  <2>3. QED
    BY <2>1, <2>2
<1>2. TAB \in Byte /\ Blank \in Byte
  BY DEF TAB, Blank, Byte
<1>3. Times(n \div Tab, TAB) \in Seq(Byte) /\ Times(n % Tab, Blank) \in Seq(Byte)
  BY <1>1, <1>2, TimesIs
<1>4. QED
  BY <1>3 DEF Tabs

LEMMA PlainType ==
    ASSUME NEW s \in Decoder, NEW c \in Byte
    PROVE  Plain(s, c) \in Decoder /\ Longer(s.out, Plain(s, c).out)
<1>1. PICK o \in Seq(Byte), n \in Nat : o = s.out /\ n = s.column
  BY DEF Decoder
<1>2. PICK x \in Seq(Byte) : x = IF s.nonWhite THEN <<c>> ELSE Tabs(n) \o <<c>>
  <2>1. <<c>> \in Seq(Byte) /\ Tabs(n) \o <<c>> \in Seq(Byte)
    BY TabsType
  <2>2. QED
    BY <2>1
<1>3. PICK p \in Seq(Byte) : p = o \o x
  <2>1. o \o x \in Seq(Byte)
    OBVIOUS
  <2>2. QED
    BY <2>1
<1>4. PICK k \in Nat : k = n + 1
  OBVIOUS
<1>5. (IF s.nonWhite THEN o ELSE o \o Tabs(n)) \o <<c>> = p
  <2>1. (o \o Tabs(n)) \o <<c>> = o \o (Tabs(n) \o <<c>>)
    <3>1. PICK b \in Seq(Byte) : b = Tabs(n)
      BY TabsType
    <3>2. <<c>> \in Seq(Byte)
      OBVIOUS
    <3>3. (o \o b) \o <<c>> = o \o (b \o <<c>>)
      BY <3>2, ConcatAssociative
    <3>4. QED
      BY <3>1, <3>3
  <2>2. QED
    BY <1>2, <1>3, <2>1
<1>6. Plain(s, c) = [s EXCEPT !.out = p, !.nonWhite = TRUE, !.column = k]
  BY <1>1, <1>4, <1>5 DEF Plain
<1>7. Plain(s, c) \in Decoder /\ Plain(s, c).out = p
  BY <1>6 DEF Decoder
<1>8. QED
  BY <1>1, <1>3, <1>7 DEF Longer

LEMMA CodedType ==
    ASSUME NEW s \in Decoder, NEW c \in Byte
    PROVE  Coded(s, c) \in Decoder /\ Longer(s.out, Coded(s, c).out)
<1>1. s.out \in Seq(Byte) /\ Longer(s.out, s.out)
  BY LongerItself DEF Decoder
<1>2. CASE c = NUL
  <2>1. Coded(s, c) = s
    BY <1>2 DEF Coded, NUL, CR, LF, DLE
  <2>2. QED
    BY <1>1, <2>1
<1>3. CASE c \in {CR, LF}
  <2>1. c # NUL
    BY <1>3 DEF NUL, CR, LF
  <2>2. LF \in Byte
    BY DEF LF, Byte
  <2>3. PICK p \in Seq(Byte) : p = Append(s.out, LF)
    <3>1. Append(s.out, LF) \in Seq(Byte)
      BY <1>1, <2>2
    <3>2. QED
      BY <3>1
  <2>4. Coded(s, c) = [s EXCEPT !.out = p, !.column = 0, !.nonWhite = FALSE]
    BY <1>3, <2>1, <2>3 DEF Coded, NUL, CR, LF, DLE
  <2>5. Coded(s, c) \in Decoder /\ Coded(s, c).out = p
    <3>1. PICK z \in Nat : z = 0
      OBVIOUS
    <3>2. Coded(s, c) = [s EXCEPT !.out = p, !.column = z, !.nonWhite = FALSE]
      BY <2>4, <3>1
    <3>3. QED
      BY <3>2 DEF Decoder
  <2>6. p = s.out \o <<LF>> /\ <<LF>> \in Seq(Byte)
    BY <1>1, <2>2, <2>3
  <2>7. QED
    BY <2>5, <2>6 DEF Longer
<1>4. CASE c = DLE
  <2>1. Coded(s, c) = [s EXCEPT !.dle = TRUE]
    BY <1>4 DEF Coded, NUL, CR, LF, DLE
  <2>2. Coded(s, c) \in Decoder /\ Coded(s, c).out = s.out
    BY <2>1 DEF Decoder
  <2>3. QED
    BY <1>1, <2>2
<1>5. CASE c # NUL /\ c \notin {CR, LF} /\ c # DLE
  <2>1. Coded(s, c) = Plain(s, c)
    BY <1>5 DEF Coded
  <2>2. QED
    BY <2>1, PlainType
<1>6. QED
  BY <1>2, <1>3, <1>4, <1>5

LEMMA DecodeCharacterType ==
    ASSUME NEW s \in Decoder, NEW c \in Byte
    PROVE  DecodeCharacter(s, c) \in Decoder /\ Longer(s.out, DecodeCharacter(s, c).out)
<1>1. PICK after \in Decoder : after = [s EXCEPT !.dle = FALSE] /\ after.out = s.out
  <2>1. [s EXCEPT !.dle = FALSE] \in Decoder
    BY DEF Decoder
  <2>2. [s EXCEPT !.dle = FALSE].out = s.out
    BY DEF Decoder
  <2>3. QED
    BY <2>1, <2>2
<1>2. CASE ~s.dle
  BY <1>2, CodedType DEF DecodeCharacter
<1>3. CASE s.dle /\ c < 32
  <2>1. DLE \in Byte
    BY DEF DLE, Byte
  <2>2. PICK a \in Decoder : a = Plain(after, DLE) /\ Longer(s.out, a.out)
    BY <1>1, <2>1, PlainType
  <2>3. Coded(a, c) \in Decoder /\ Longer(a.out, Coded(a, c).out)
    BY CodedType
  <2>4. s.out \in Seq(Byte)
    BY DEF Decoder
  <2>5. Longer(s.out, Coded(a, c).out)
    BY <2>2, <2>3, <2>4, LongerTwice
  <2>6. QED
    BY <1>1, <1>3, <2>2, <2>3, <2>5 DEF DecodeCharacter
<1>4. CASE s.dle /\ ~ (c < 32)
  <2>1. PICK n \in Nat : n = c - 32
    BY <1>4 DEF Byte
  <2>2. Blank \in Byte
    BY DEF Blank, Byte
  <2>3. PICK b \in Seq(Byte) : b = IF s.nonWhite THEN Times(n, Blank) ELSE <<>>
    <3>1. Times(n, Blank) \in Seq(Byte) /\ <<>> \in Seq(Byte)
      BY <2>2, TimesIs
    <3>2. QED
      BY <3>1
  <2>4. PICK o \in Seq(Byte), m \in Nat : o = s.out \o b /\ m = s.column + n
    <3>1. s.out \in Seq(Byte) /\ s.column \in Nat
      BY DEF Decoder
    <3>2. s.out \o b \in Seq(Byte) /\ s.column + n \in Nat
      BY <3>1
    <3>3. QED
      BY <3>2
  <2>5. DecodeCharacter(s, c) = [after EXCEPT !.out = o, !.column = m]
    <3>1. after.out = s.out /\ after.column = s.column
      BY <1>1 DEF Decoder
    <3>2. DecodeCharacter(s, c) =
             [after EXCEPT !.out = IF s.nonWhite THEN after.out \o Times(c - 32, Blank)
                                   ELSE after.out,
                           !.column = after.column + (c - 32)]
      BY <1>1, <1>4 DEF DecodeCharacter
    <3>3. s.out \o <<>> = s.out
      BY DEF Decoder
    <3>4. o = IF s.nonWhite THEN after.out \o Times(c - 32, Blank) ELSE after.out
      BY <2>1, <2>3, <2>4, <3>1, <3>3
    <3>5. QED
      BY <2>1, <2>4, <3>1, <3>2, <3>4
  <2>6. DecodeCharacter(s, c) \in Decoder /\ DecodeCharacter(s, c).out = o
    BY <2>5 DEF Decoder
  <2>7. QED
    BY <2>4, <2>6 DEF Longer
<1>5. QED
  BY <1>2, <1>3, <1>4

-----------------------------------------------------------------------------
(* The folds of this model, as folds of a function.                        *)

\* Every value of the function that a fold is defined by is a state.
LEMMA StepsType ==
    ASSUME NEW S, NEW s \in S, NEW A, NEW t \in Seq(A), NEW step,
           \A x \in S, y \in A : step[<<x, y>>] \in S,
           NEW f, IsSteps(f, step, s, t, Len(t))
    PROVE  \A T \in SUBSET (1 .. Len(t)) :
              /\ f[T] \in S
              /\ T # {} => f[T \ {Max(T)}] \in S /\ t[Max(T)] \in A
<1>1. PICK n \in Nat : n = Len(t)
  OBVIOUS
<1> DEFINE N == {m \in 0 .. n : \A T \in SUBSET (1 .. m) : f[T] \in S}
<1>2. ASSUME NEW T \in SUBSET (1 .. n), T # {}
      PROVE  Max(T) \in T /\ \A x \in T : x <= Max(T)
  <2> DEFINE B == {n - x : x \in T}
  <2>1. B \subseteq Nat /\ B # {}
    <3>1. \A x \in T : n - x \in Nat
      OBVIOUS
    <3>2. QED
      BY <1>2, <3>1
  <2> HIDE DEF B
  <2>2. PICK k \in B : \A l \in B : k <= l
    BY <2>1, LeastNumber
  <2>3. PICK x \in T : k = n - x
    BY <2>2 DEF B
  <2>4. \A y \in T : y <= x
    <3> SUFFICES ASSUME NEW y \in T PROVE y <= x
      OBVIOUS
    <3>1. n - y \in B
      BY DEF B
    <3>2. n - x <= n - y /\ x \in Int /\ y \in Int
      BY <2>2, <2>3, <3>1
    <3>3. QED
      BY <1>1, <3>2
  <2>5. x \in Nat /\ T \in SUBSET (1 .. x)
    BY <2>4
  <2>6. Max(T) = x
    BY <2>5, GreatestIsMax
  <2>7. QED
    BY <2>4, <2>6
<1>3. ASSUME NEW T \in SUBSET (1 .. n)
      PROVE  f[T] = IF T = {} THEN s ELSE step[<<f[T \ {Max(T)}], t[Max(T)]>>]
  BY <1>1 DEF IsSteps
<1>4. 0 \in N
  <2>1. \A T \in SUBSET (1 .. 0) : T = {} /\ T \in SUBSET (1 .. n)
    OBVIOUS
  <2>2. \A T \in SUBSET (1 .. 0) : f[T] \in S
    BY <1>3, <2>1
  <2>3. QED
    BY <1>1, <2>2
<1>5. \A m \in 0 .. n - 1 : m \in N => m + 1 \in N
  <2> SUFFICES ASSUME NEW m \in 0 .. n - 1, m \in N,
                      NEW T \in SUBSET (1 .. m + 1)
               PROVE  f[T] \in S
    BY <1>1
  <2>1. T \in SUBSET (1 .. n)
    BY <1>1
  <2>2. CASE T = {}
    BY <1>3, <2>1, <2>2
  <2>3. CASE T # {}
    <3>1. PICK k \in 1 .. n : k = Max(T) /\ k \in T /\ \A x \in T : x <= k
      BY <1>2, <2>1, <2>3
    <3>2. T \ {k} \in SUBSET (1 .. m)
      <4>1. \A x \in T : x \in Nat /\ x >= 1 /\ x <= m + 1
        OBVIOUS
      <4>2. \A x \in T \ {k} : x \in 1 .. m
        BY <3>1, <4>1
      <4>3. QED
        BY <4>2
    <3>3. f[T \ {k}] \in S
      BY <3>2
    <3>4. t[k] \in A
      BY <1>1
    <3>5. f[T] = step[<<f[T \ {k}], t[k]>>]
      BY <1>3, <2>1, <2>3, <3>1
    <3>6. QED
      BY <3>3, <3>4, <3>5
  <2>4. QED
    BY <2>2, <2>3
<1>6. n \in N
  <2> HIDE DEF N
  <2>1. QED
    BY <1>1, <1>4, <1>5, InductionUpTo
<1>7. ASSUME NEW T \in SUBSET (1 .. n), T # {}
      PROVE  f[T \ {Max(T)}] \in S /\ t[Max(T)] \in A
  <2>1. PICK k \in 1 .. n : k = Max(T)
    BY <1>2, <1>7
  <2>2. T \ {k} \in SUBSET (1 .. n) /\ t[k] \in A
    BY <1>1
  <2>3. f[T \ {k}] \in S
    BY <1>6, <2>2
  <2>4. QED
    BY <2>1, <2>2, <2>3
<1>8. QED
  BY <1>1, <1>6, <1>7

\* One character for the encoder.
EncodeStep == [p \in Encoder \X Byte |-> EncodeCharacter(p[1], p[2])]

LEMMA EncodeSteps ==
    ASSUME NEW s \in Encoder, NEW t \in Seq(Byte)
    PROVE  FoldLeft(EncodeCharacter, s, t) = Stepped(EncodeStep, s, t)
<1> DEFINE n == Len(t)
           IsFold(f) == f = [T \in SUBSET (1 .. n) |->
                               IF T = {} THEN s ELSE EncodeCharacter(f[T \ {Max(T)}], t[Max(T)])]
<1>1. DOMAIN t = 1 .. n /\ n \in Nat
  OBVIOUS
<1>2. FoldLeft(EncodeCharacter, s, t) = (CHOOSE f : IsFold(f))[1 .. n]
  BY <1>1, Zenon DEF FoldLeft, MapThenFoldSet
<1>3. \A x \in Encoder, y \in Byte :
         EncodeStep[<<x, y>>] = EncodeCharacter(x, y) /\ EncodeStep[<<x, y>>] \in Encoder
  BY EncodeCharacterType DEF EncodeStep
<1>4. PICK f : IsSteps(f, EncodeStep, s, t, n)
  BY <1>1, StepsExist
<1>5. \A T \in SUBSET (1 .. n) :
         /\ f[T] \in Encoder
         /\ T # {} => f[T \ {Max(T)}] \in Encoder /\ t[Max(T)] \in Byte
  <2>1. \A x \in Encoder, y \in Byte : EncodeStep[<<x, y>>] \in Encoder
    BY <1>3
  <2>2. QED
    BY <1>4, <2>1, StepsType
<1>6. IsFold(f)
  <2>1. \A T \in SUBSET (1 .. n) :
           (IF T = {} THEN s ELSE EncodeStep[<<f[T \ {Max(T)}], t[Max(T)]>>])
             = IF T = {} THEN s ELSE EncodeCharacter(f[T \ {Max(T)}], t[Max(T)])
    BY <1>3, <1>5
  <2>2. f = [T \in SUBSET (1 .. n) |->
               IF T = {} THEN s ELSE EncodeStep[<<f[T \ {Max(T)}], t[Max(T)]>>]]
    BY <1>4 DEF IsSteps
  <2>3. QED
    BY <2>1, <2>2
<1>7. PICK g : IsFold(g) /\ FoldLeft(EncodeCharacter, s, t) = g[1 .. n]
  <2> HIDE DEF IsFold
  <2>1. QED
    BY <1>2, <1>6
<1>8. g[1 .. 0] = s
  <2>1. 1 .. 0 = {} /\ {} \in SUBSET (1 .. n)
    OBVIOUS
  <2>2. QED
    BY <1>7, <2>1
<1>9. ASSUME NEW m \in 0 .. n - 1
      PROVE  LET T == 1 .. m
                 x == t[m + 1]
             IN g[1 .. m + 1] = EncodeCharacter(g[T], x)
  <2> DEFINE U == 1 .. m + 1
  <2>1. U # {} /\ U \in SUBSET (1 .. n) /\ Max(U) = m + 1 /\ U \ {m + 1} = 1 .. m
    BY <1>1, OneMore
  <2> HIDE DEF U
  <2>2. g[U] = LET T == U IN EncodeCharacter(g[T \ {Max(T)}], t[Max(T)])
    BY <1>7, <2>1
  <2>3. QED
    BY <2>1, <2>2 DEF U
<1> DEFINE h == [i \in 0 .. n |-> g[1 .. i]]
           N == {m \in 0 .. n : h[m] \in Encoder}
<1> HIDE DEF IsFold
<1>10. 0 \in N
  BY <1>1, <1>8
<1>11. \A m \in 0 .. n - 1 : m \in N => m + 1 \in N
  <2> SUFFICES ASSUME NEW m \in 0 .. n - 1, h[m] \in Encoder
               PROVE  h[m + 1] \in Encoder
    BY <1>1
  <2>1. t[m + 1] \in Byte
    BY <1>1
  <2>2. h[m] = g[1 .. m] /\ h[m + 1] = g[1 .. m + 1]
    BY <1>1
  <2>3. QED
    BY <1>3, <1>9, <2>1, <2>2
<1>12. \A m \in 0 .. n : m \in N
  <2> HIDE DEF N, h, n
  <2>1. QED
    BY <1>1, <1>10, <1>11, InductionUpTo
<1>13. GoesThrough(h, EncodeStep, s, t)
  <2>1. h[0] = s
    BY <1>1, <1>8
  <2>2. ASSUME NEW m \in 0 .. Len(t) - 1
        PROVE  h[m + 1] = EncodeStep[<<h[m], t[m + 1]>>]
    <3>1. t[m + 1] \in Byte
      BY <1>1
    <3>2. h[m] = g[1 .. m] /\ h[m + 1] = g[1 .. m + 1] /\ h[m] \in Encoder
      BY <1>1, <1>12
    <3>3. QED
      BY <1>3, <1>9, <3>1, <3>2
  <2>3. QED
    BY <2>1, <2>2 DEF GoesThrough
<1>14. Stepped(EncodeStep, s, t) = h[n]
  <2> HIDE DEF h
  <2>1. QED
    BY <1>13, SteppedIs
<1>15. QED
  BY <1>1, <1>7, <1>14

\* One character for the decoder.
DecodeStep == [p \in Decoder \X Byte |-> DecodeCharacter(p[1], p[2])]

LEMMA DecodeSteps ==
    ASSUME NEW s \in Decoder, NEW t \in Seq(Byte)
    PROVE  FoldLeft(DecodeCharacter, s, t) = Stepped(DecodeStep, s, t)
<1> DEFINE n == Len(t)
           IsFold(f) == f = [T \in SUBSET (1 .. n) |->
                               IF T = {} THEN s ELSE DecodeCharacter(f[T \ {Max(T)}], t[Max(T)])]
<1>1. DOMAIN t = 1 .. n /\ n \in Nat
  OBVIOUS
<1>2. FoldLeft(DecodeCharacter, s, t) = (CHOOSE f : IsFold(f))[1 .. n]
  BY <1>1, Zenon DEF FoldLeft, MapThenFoldSet
<1>3. \A x \in Decoder, y \in Byte :
         DecodeStep[<<x, y>>] = DecodeCharacter(x, y) /\ DecodeStep[<<x, y>>] \in Decoder
  BY DecodeCharacterType DEF DecodeStep
<1>4. PICK f : IsSteps(f, DecodeStep, s, t, n)
  BY <1>1, StepsExist
<1>5. \A T \in SUBSET (1 .. n) :
         /\ f[T] \in Decoder
         /\ T # {} => f[T \ {Max(T)}] \in Decoder /\ t[Max(T)] \in Byte
  <2>1. \A x \in Decoder, y \in Byte : DecodeStep[<<x, y>>] \in Decoder
    BY <1>3
  <2>2. QED
    BY <1>4, <2>1, StepsType
<1>6. IsFold(f)
  <2>1. \A T \in SUBSET (1 .. n) :
           (IF T = {} THEN s ELSE DecodeStep[<<f[T \ {Max(T)}], t[Max(T)]>>])
             = IF T = {} THEN s ELSE DecodeCharacter(f[T \ {Max(T)}], t[Max(T)])
    BY <1>3, <1>5
  <2>2. f = [T \in SUBSET (1 .. n) |->
               IF T = {} THEN s ELSE DecodeStep[<<f[T \ {Max(T)}], t[Max(T)]>>]]
    BY <1>4 DEF IsSteps
  <2>3. QED
    BY <2>1, <2>2
<1>7. PICK g : IsFold(g) /\ FoldLeft(DecodeCharacter, s, t) = g[1 .. n]
  <2> HIDE DEF IsFold
  <2>1. QED
    BY <1>2, <1>6
<1>8. g[1 .. 0] = s
  <2>1. 1 .. 0 = {} /\ {} \in SUBSET (1 .. n)
    OBVIOUS
  <2>2. QED
    BY <1>7, <2>1
<1>9. ASSUME NEW m \in 0 .. n - 1
      PROVE  LET T == 1 .. m
                 x == t[m + 1]
             IN g[1 .. m + 1] = DecodeCharacter(g[T], x)
  <2> DEFINE U == 1 .. m + 1
  <2>1. U # {} /\ U \in SUBSET (1 .. n) /\ Max(U) = m + 1 /\ U \ {m + 1} = 1 .. m
    BY <1>1, OneMore
  <2> HIDE DEF U
  <2>2. g[U] = LET T == U IN DecodeCharacter(g[T \ {Max(T)}], t[Max(T)])
    BY <1>7, <2>1
  <2>3. QED
    BY <2>1, <2>2 DEF U
<1> DEFINE h == [i \in 0 .. n |-> g[1 .. i]]
           N == {m \in 0 .. n : h[m] \in Decoder}
<1> HIDE DEF IsFold
<1>10. 0 \in N
  BY <1>1, <1>8
<1>11. \A m \in 0 .. n - 1 : m \in N => m + 1 \in N
  <2> SUFFICES ASSUME NEW m \in 0 .. n - 1, h[m] \in Decoder
               PROVE  h[m + 1] \in Decoder
    BY <1>1
  <2>1. t[m + 1] \in Byte
    BY <1>1
  <2>2. h[m] = g[1 .. m] /\ h[m + 1] = g[1 .. m + 1]
    BY <1>1
  <2>3. QED
    BY <1>3, <1>9, <2>1, <2>2
<1>12. \A m \in 0 .. n : m \in N
  <2> HIDE DEF N, h, n
  <2>1. QED
    BY <1>1, <1>10, <1>11, InductionUpTo
<1>13. GoesThrough(h, DecodeStep, s, t)
  <2>1. h[0] = s
    BY <1>1, <1>8
  <2>2. ASSUME NEW m \in 0 .. Len(t) - 1
        PROVE  h[m + 1] = DecodeStep[<<h[m], t[m + 1]>>]
    <3>1. t[m + 1] \in Byte
      BY <1>1
    <3>2. h[m] = g[1 .. m] /\ h[m + 1] = g[1 .. m + 1] /\ h[m] \in Decoder
      BY <1>1, <1>12
    <3>3. QED
      BY <1>3, <1>9, <3>1, <3>2
  <2>3. QED
    BY <2>1, <2>2 DEF GoesThrough
<1>14. Stepped(DecodeStep, s, t) = h[n]
  <2> HIDE DEF h
  <2>1. QED
    BY <1>13, SteppedIs
<1>15. QED
  BY <1>1, <1>7, <1>14

-----------------------------------------------------------------------------
(* Buffers.                                                                *)

Buffers == [held : Seq(Byte), pieces : Seq(Seq(Byte))]

\* What went into a buffer and has not been written to the file.
Queued(b) == FlattenSeq(b.pieces) \o b.held

LEMMA FlattenCons ==
    ASSUME NEW A, NEW ss \in Seq(Seq(A)), NEW x \in Seq(A)
    PROVE  FlattenSeq(<<x>> \o ss) = x \o FlattenSeq(ss)
<1> DEFINE P == {tt \in Seq(Seq(A)) : FlattenSeq(<<x>> \o tt) = x \o FlattenSeq(tt)}
<1>1. <<>> \in P
  <2>1. <<x>> \o <<>> = Append(<<>>, x) /\ <<>> \in Seq(Seq(A)) /\ x \o <<>> = <<>> \o x
    OBVIOUS
  <2>2. FlattenSeq(Append(<<>>, x)) = FlattenSeq(<<>>) \o x
    BY <2>1, FlattenAppend
  <2>3. QED
    BY <2>1, <2>2, FlattenEmpty
<1>2. \A tt \in Seq(Seq(A)), y \in Seq(A) : tt \in P => Append(tt, y) \in P
  <2> SUFFICES ASSUME NEW tt \in Seq(Seq(A)), NEW y \in Seq(A), tt \in P
               PROVE  Append(tt, y) \in P
    OBVIOUS
  <2>1. PICK uu \in Seq(Seq(A)) : uu = <<x>> \o tt
    <3>1. <<x>> \in Seq(Seq(A))
      OBVIOUS
    <3>2. <<x>> \o tt \in Seq(Seq(A))
      BY <3>1, ConcatProperties
    <3>3. QED
      BY <3>2
  <2>2. <<x>> \o Append(tt, y) = Append(uu, y)
    BY <2>1
  <2>3. FlattenSeq(Append(uu, y)) = FlattenSeq(uu) \o y
    BY FlattenAppend
  <2>4. FlattenSeq(Append(tt, y)) = FlattenSeq(tt) \o y
    BY FlattenAppend
  <2>5. FlattenSeq(tt) \in Seq(A)
    BY FlattenType
  <2>6. (x \o FlattenSeq(tt)) \o y = x \o (FlattenSeq(tt) \o y)
    BY <2>5, ConcatAssociative
  <2>7. Append(tt, y) \in Seq(Seq(A))
    OBVIOUS
  <2>8. QED
    BY <2>1, <2>2, <2>3, <2>4, <2>6, <2>7
<1> HIDE DEF P
<1>3. ss \in P
  BY <1>1, <1>2, SequenceInduction
<1>4. QED
  BY <1>3 DEF P

LEMMA QueuedType ==
    ASSUME NEW b \in Buffers
    PROVE  FlattenSeq(b.pieces) \in Seq(Byte) /\ Queued(b) \in Seq(Byte)
<1>1. b.pieces \in Seq(Seq(Byte)) /\ b.held \in Seq(Byte)
  BY DEF Buffers
<1>2. FlattenSeq(b.pieces) \in Seq(Byte)
  BY <1>1, FlattenType
<1>3. QED
  BY <1>1, <1>2 DEF Queued

\* What does not fit pushes out what is held.
Out(b) == IF b.held = <<>> THEN b.pieces ELSE Append(b.pieces, b.held)

LEMMA OutIs ==
    ASSUME NEW b \in Buffers
    PROVE  Out(b) \in Seq(Seq(Byte)) /\ FlattenSeq(Out(b)) = Queued(b)
<1>1. b.pieces \in Seq(Seq(Byte)) /\ b.held \in Seq(Byte)
  BY DEF Buffers
<1>2. FlattenSeq(Append(b.pieces, b.held)) = FlattenSeq(b.pieces) \o b.held
  BY <1>1, FlattenAppend
<1>3. FlattenSeq(b.pieces) \o <<>> = FlattenSeq(b.pieces)
  BY <1>1, FlattenType
<1>4. Append(b.pieces, b.held) \in Seq(Seq(Byte))
  BY <1>1
<1>5. QED
  BY <1>1, <1>2, <1>3, <1>4 DEF Out, Queued

\* A buffer loses nothing and adds nothing.
LEMMA WriteToIs ==
    ASSUME NEW b \in Buffers, NEW data \in Seq(Byte)
    PROVE  /\ WriteTo(b, data) \in Buffers
           /\ Queued(WriteTo(b, data)) = Queued(b) \o data
<1>1. b.pieces \in Seq(Seq(Byte)) /\ b.held \in Seq(Byte)
  BY DEF Buffers
<1>2. CASE Len(b.held) + Len(data) <= Buffer
  <2>1. WriteTo(b, data) = [b EXCEPT !.held = b.held \o data]
    BY <1>2 DEF WriteTo
  <2>2. PICK h \in Seq(Byte) : h = b.held \o data
    <3>1. b.held \o data \in Seq(Byte)
      BY <1>1
    <3>2. QED
      BY <3>1
  <2>3. /\ WriteTo(b, data) \in Buffers
        /\ WriteTo(b, data).pieces = b.pieces /\ WriteTo(b, data).held = h
    BY <2>1, <2>2 DEF Buffers
  <2>4. FlattenSeq(b.pieces) \in Seq(Byte)
    BY QueuedType
  <2>5. (FlattenSeq(b.pieces) \o b.held) \o data = FlattenSeq(b.pieces) \o (b.held \o data)
    <3>1. PICK f \in Seq(Byte), e \in Seq(Byte) : f = FlattenSeq(b.pieces) /\ e = b.held
      BY <1>1, <2>4
    <3>2. (f \o e) \o data = f \o (e \o data)
      BY ConcatAssociative
    <3>3. QED
      BY <3>1, <3>2
  <2>6. QED
    BY <2>2, <2>3, <2>5 DEF Queued
<1>3. CASE ~ (Len(b.held) + Len(data) <= Buffer) /\ Len(data) < Buffer
  <2>1. WriteTo(b, data) = [held |-> data, pieces |-> Out(b)]
    BY <1>3 DEF WriteTo, Out
  <2>2. WriteTo(b, data) \in Buffers /\ Queued(WriteTo(b, data)) = FlattenSeq(Out(b)) \o data
    <3>1. PICK o \in Seq(Seq(Byte)) : o = Out(b)
      BY OutIs
    <3>2. WriteTo(b, data) = [held |-> data, pieces |-> o]
      BY <2>1, <3>1
    <3>3. QED
      BY <3>1, <3>2 DEF Buffers, Queued
  <2>3. QED
    BY <2>2, OutIs
<1>4. CASE ~ (Len(b.held) + Len(data) <= Buffer) /\ ~ (Len(data) < Buffer)
  <2>1. WriteTo(b, data) = [held |-> <<>>, pieces |-> Append(Out(b), data)]
    BY <1>4 DEF WriteTo, Out
  <2>2. PICK o \in Seq(Seq(Byte)) : o = Out(b)
    BY OutIs
  <2>3. Append(o, data) \in Seq(Seq(Byte)) /\ <<>> \in Seq(Byte)
    OBVIOUS
  <2>4. FlattenSeq(Append(o, data)) = FlattenSeq(o) \o data
    BY FlattenAppend
  <2>5. FlattenSeq(o) \o data \in Seq(Byte)
    BY FlattenType, ConcatProperties
  <2>6. (FlattenSeq(o) \o data) \o <<>> = FlattenSeq(o) \o data
    BY <2>5
  <2>7. WriteTo(b, data) \in Buffers
    BY <2>1, <2>2, <2>3 DEF Buffers
  <2>8. Queued(WriteTo(b, data)) = FlattenSeq(Append(o, data)) \o <<>>
    BY <2>1, <2>2 DEF Queued
  <2>9. QED
    BY <2>2, <2>4, <2>6, <2>7, <2>8, OutIs
<1>5. QED
  BY <1>2, <1>3, <1>4

LEMMA FlushBufferIs ==
    ASSUME NEW b \in Buffers
    PROVE  /\ FlushBuffer(b) \in Buffers /\ FlushBuffer(b).held = <<>>
           /\ Queued(FlushBuffer(b)) = Queued(b)
           /\ FlushBuffer(b).pieces = Out(b)
<1>1. CASE b.held = <<>>
  BY <1>1 DEF FlushBuffer, Out
<1>2. CASE b.held # <<>>
  <2>1. FlushBuffer(b) = [held |-> <<>>, pieces |-> Out(b)]
    BY <1>2 DEF FlushBuffer, Out
  <2>2. <<>> \in Seq(Byte)
    OBVIOUS
  <2>3. FlushBuffer(b) \in Buffers
    BY <2>1, <2>2, OutIs DEF Buffers
  <2>4. FlattenSeq(Out(b)) \o <<>> = Queued(b)
    <3>1. FlattenSeq(Out(b)) = Queued(b) /\ Queued(b) \in Seq(Byte)
      BY OutIs, QueuedType
    <3> HIDE DEF Queued
    <3>2. QED
      BY <3>1
  <2>6. FlushBuffer(b).held = <<>> /\ FlushBuffer(b).pieces = Out(b)
    BY <2>1
  <2>5. QED
    BY <2>3, <2>4, <2>6 DEF Queued
<1>3. QED
  BY <1>1, <1>2

LEMMA CharacterType ==
    ASSUME NEW b \in Buffers, NEW c \in Byte
    PROVE  WriteTo(b, <<c>>) \in Buffers
<1>1. <<c>> \in Seq(Byte)
  OBVIOUS
<1>2. QED
  BY <1>1, WriteToIs

\* One character for a buffer.
CharacterStep == [p \in Buffers \X Byte |-> WriteTo(p[1], <<p[2]>>)]

LEMMA CharacterSteps ==
    ASSUME NEW s \in Buffers, NEW t \in Seq(Byte)
    PROVE  FoldLeft(LAMBDA c, x : WriteTo(c, <<x>>), s, t) = Stepped(CharacterStep, s, t)
<1> DEFINE n == Len(t)
           IsFold(f) == f = [T \in SUBSET (1 .. n) |->
                               IF T = {} THEN s ELSE WriteTo(f[T \ {Max(T)}], <<t[Max(T)]>>)]
<1>1. DOMAIN t = 1 .. n /\ n \in Nat
  OBVIOUS
<1>2. FoldLeft(LAMBDA c, x : WriteTo(c, <<x>>), s, t) = (CHOOSE f : IsFold(f))[1 .. n]
  BY <1>1, Zenon DEF FoldLeft, MapThenFoldSet
<1>3. \A x \in Buffers, y \in Byte :
         CharacterStep[<<x, y>>] = WriteTo(x, <<y>>) /\ CharacterStep[<<x, y>>] \in Buffers
  BY CharacterType DEF CharacterStep
<1>4. PICK f : IsSteps(f, CharacterStep, s, t, n)
  BY <1>1, StepsExist
<1>5. \A T \in SUBSET (1 .. n) :
         /\ f[T] \in Buffers
         /\ T # {} => f[T \ {Max(T)}] \in Buffers /\ t[Max(T)] \in Byte
  <2>1. \A x \in Buffers, y \in Byte : CharacterStep[<<x, y>>] \in Buffers
    BY <1>3
  <2>2. QED
    BY <1>4, <2>1, StepsType
<1>6. IsFold(f)
  <2>1. \A T \in SUBSET (1 .. n) :
           (IF T = {} THEN s ELSE CharacterStep[<<f[T \ {Max(T)}], t[Max(T)]>>])
             = IF T = {} THEN s ELSE WriteTo(f[T \ {Max(T)}], <<t[Max(T)]>>)
    BY <1>3, <1>5
  <2>2. f = [T \in SUBSET (1 .. n) |->
               IF T = {} THEN s ELSE CharacterStep[<<f[T \ {Max(T)}], t[Max(T)]>>]]
    BY <1>4 DEF IsSteps
  <2>3. QED
    BY <2>1, <2>2
<1>7. PICK g : IsFold(g) /\ FoldLeft(LAMBDA c, x : WriteTo(c, <<x>>), s, t) = g[1 .. n]
  <2> HIDE DEF IsFold
  <2>1. QED
    BY <1>2, <1>6
<1>8. g[1 .. 0] = s
  <2>1. 1 .. 0 = {} /\ {} \in SUBSET (1 .. n)
    OBVIOUS
  <2>2. QED
    BY <1>7, <2>1
<1>9. ASSUME NEW m \in 0 .. n - 1
      PROVE  LET T == 1 .. m
                 x == t[m + 1]
             IN g[1 .. m + 1] = WriteTo(g[T], <<x>>)
  <2> DEFINE U == 1 .. m + 1
  <2>1. U # {} /\ U \in SUBSET (1 .. n) /\ Max(U) = m + 1 /\ U \ {m + 1} = 1 .. m
    BY <1>1, OneMore
  <2> HIDE DEF U
  <2>2. g[U] = LET T == U IN WriteTo(g[T \ {Max(T)}], <<t[Max(T)]>>)
    BY <1>7, <2>1
  <2>3. QED
    BY <2>1, <2>2 DEF U
<1> DEFINE h == [i \in 0 .. n |-> g[1 .. i]]
           N == {m \in 0 .. n : h[m] \in Buffers}
<1> HIDE DEF IsFold
<1>10. 0 \in N
  BY <1>1, <1>8
<1>11. \A m \in 0 .. n - 1 : m \in N => m + 1 \in N
  <2> SUFFICES ASSUME NEW m \in 0 .. n - 1, h[m] \in Buffers
               PROVE  h[m + 1] \in Buffers
    <3> HIDE DEF h
    <3>1. QED
      BY <1>1
  <2>1. t[m + 1] \in Byte
    BY <1>1
  <2>2. h[m] = g[1 .. m] /\ h[m + 1] = g[1 .. m + 1]
    BY <1>1
  <2>3. QED
    BY <1>3, <1>9, <2>1, <2>2
<1>12. \A m \in 0 .. n : m \in N
  <2> HIDE DEF N, h, n
  <2>1. QED
    BY <1>1, <1>10, <1>11, InductionUpTo
<1>13. GoesThrough(h, CharacterStep, s, t)
  <2>1. h[0] = s
    BY <1>1, <1>8
  <2>2. ASSUME NEW m \in 0 .. Len(t) - 1
        PROVE  h[m + 1] = CharacterStep[<<h[m], t[m + 1]>>]
    <3>1. t[m + 1] \in Byte
      BY <1>1
    <3>2. h[m] = g[1 .. m] /\ h[m + 1] = g[1 .. m + 1] /\ h[m] \in Buffers
      BY <1>1, <1>12
    <3>3. QED
      BY <1>3, <1>9, <3>1, <3>2
  <2>3. QED
    BY <2>1, <2>2 DEF GoesThrough
<1>14. Stepped(CharacterStep, s, t) = h[n]
  <2> HIDE DEF h
  <2>1. QED
    BY <1>13, SteppedIs
<1>15. h[n] = g[1 .. n]
  BY <1>1
<1>16. QED
  <2> HIDE DEF h, n
  <2>1. QED
    BY <1>7, <1>14, <1>15, Zenon

\* The same of a buffer that gets one character at a time.
LEMMA WriteCharactersIs ==
    ASSUME NEW b \in Buffers, NEW chars \in Seq(Byte)
    PROVE  /\ WriteCharacters(b, chars) \in Buffers
           /\ Queued(WriteCharacters(b, chars)) = Queued(b) \o chars
<1>1. WriteCharacters(b, chars) = Stepped(CharacterStep, b, chars)
  BY CharacterSteps DEF WriteCharacters
<1>2. \A x \in Buffers, y \in Byte :
         /\ CharacterStep[<<x, y>>] = WriteTo(x, <<y>>) /\ CharacterStep[<<x, y>>] \in Buffers
         /\ Queued(CharacterStep[<<x, y>>]) = Queued(x) \o <<y>>
  <2> SUFFICES ASSUME NEW x \in Buffers, NEW y \in Byte
               PROVE  /\ CharacterStep[<<x, y>>] = WriteTo(x, <<y>>)
                      /\ CharacterStep[<<x, y>>] \in Buffers
                      /\ Queued(CharacterStep[<<x, y>>]) = Queued(x) \o <<y>>
    OBVIOUS
  <2>1. <<y>> \in Seq(Byte)
    OBVIOUS
  <2>2. CharacterStep[<<x, y>>] = WriteTo(x, <<y>>)
    BY DEF CharacterStep
  <2>3. QED
    BY <2>1, <2>2, WriteToIs
<1> DEFINE P == {u \in Seq(Byte) : /\ Stepped(CharacterStep, b, u) \in Buffers
                                   /\ Queued(Stepped(CharacterStep, b, u)) = Queued(b) \o u}
<1>3. <<>> \in P
  <2>1. Queued(b) \o <<>> = Queued(b) /\ <<>> \in Seq(Byte)
    BY QueuedType
  <2>2. QED
    BY <2>1, SteppedEmpty
<1>4. \A u \in Seq(Byte), c \in Byte : u \in P => Append(u, c) \in P
  <2> SUFFICES ASSUME NEW u \in Seq(Byte), NEW c \in Byte, u \in P
               PROVE  Append(u, c) \in P
    OBVIOUS
  <2>1. PICK x \in Buffers : x = Stepped(CharacterStep, b, u) /\ Queued(x) = Queued(b) \o u
    OBVIOUS
  <2>2. Stepped(CharacterStep, b, Append(u, c)) = CharacterStep[<<x, c>>]
    BY <2>1, SteppedAppend
  <2>3. Queued(CharacterStep[<<x, c>>]) = (Queued(b) \o u) \o <<c>>
    BY <1>2, <2>1
  <2>4. (Queued(b) \o u) \o <<c>> = Queued(b) \o Append(u, c)
    <3>1. PICK q \in Seq(Byte) : q = Queued(b)
      BY QueuedType
    <3>2. <<c>> \in Seq(Byte) /\ Append(u, c) = u \o <<c>>
      OBVIOUS
    <3>4. (q \o u) \o <<c>> = q \o (u \o <<c>>)
      BY <3>2, ConcatAssociative
    <3>3. QED
      BY <3>1, <3>2, <3>4
  <2>5. Append(u, c) \in Seq(Byte)
    OBVIOUS
  <2>6. QED
    BY <1>2, <2>2, <2>3, <2>4, <2>5
<1> HIDE DEF P
<1>5. chars \in P
  BY <1>3, <1>4, SequenceInduction
<1>6. QED
  BY <1>1, <1>5 DEF P

-----------------------------------------------------------------------------
(* The codecs.                                                             *)

Coders(codec) == IF codec = "encode" THEN Encoder ELSE Decoder

\* What is left of the header when t was read: nothing if there is none.
HeaderBehind(t, textual) ==
    IF t = <<>> THEN Page ELSE IF textual \/ Len(t) >= Page THEN 0 ELSE Page - Len(t)

\* The codec behind the data t; textual is what the first piece of it looks like.
CoderBehind(codec, t, textual) ==
    IF codec = "encode" THEN Stepped(EncodeStep, Coder("encode"), t)
    ELSE [Stepped(DecodeStep, Coder("decode"), IF textual THEN t ELSE Drop(t, Page))
             EXCEPT !.header = HeaderBehind(t, textual)]

LEMMA CoderType ==
    /\ Coder("encode") \in Encoder /\ Coder("encode").out = Times(Page, NUL)
    /\ Coder("decode") \in Decoder /\ Coder("decode").out = <<>>
    /\ \A codec \in Codecs : Coder(codec) \in Coders(codec)
<1>1. Times(Page, NUL) \in Seq(Byte)
  <2>1. NUL \in Byte
    BY DEF NUL, Byte
  <2>2. QED
    BY <2>1, Sizes, TimesIs
<1>2. <<>> \in Seq(Byte) /\ 0 \in Nat /\ Page \in Nat
  BY Sizes
<1>3. Coder("encode") = [out |-> Times(Page, NUL), line |-> <<>>, column |-> 0,
                         nonWhite |-> FALSE]
  BY DEF Coder
<1>4. Coder("encode") \in Encoder /\ Coder("encode").out = Times(Page, NUL)
  <2>1. PICK h \in Seq(Byte), e \in Seq(Byte), z \in Nat :
           h = Times(Page, NUL) /\ e = <<>> /\ z = 0
    BY <1>1, <1>2
  <2>2. Coder("encode") = [out |-> h, line |-> e, column |-> z, nonWhite |-> FALSE]
    BY <1>3, <2>1
  <2>3. [out |-> h, line |-> e, column |-> z, nonWhite |-> FALSE] \in Encoder
    BY <2>1 DEF Encoder
  <2>4. Coder("encode").out = h
    BY <2>2
  <2>5. QED
    BY <2>1, <2>2, <2>3, <2>4
<1>5. \A codec \in {"none", "decode"} :
         Coder(codec) = [out |-> <<>>, column |-> 0, nonWhite |-> FALSE, dle |-> FALSE,
                         header |-> Page]
  BY DEF Coder
<1>6. \A codec \in {"none", "decode"} : Coder(codec) \in Decoder /\ Coder(codec).out = <<>>
  <2>1. PICK e \in Seq(Byte), z \in Nat, p \in Nat : e = <<>> /\ z = 0 /\ p = Page
    BY <1>2
  <2>2. \A codec \in {"none", "decode"} :
           Coder(codec) = [out |-> e, column |-> z, nonWhite |-> FALSE, dle |-> FALSE,
                           header |-> p]
    BY <1>5, <2>1
  <2>3. [out |-> e, column |-> z, nonWhite |-> FALSE, dle |-> FALSE, header |-> p]
           \in Decoder
    BY <2>1 DEF Decoder
  <2>4. \A codec \in {"none", "decode"} : Coder(codec).out = e
    BY <2>2
  <2>5. QED
    BY <2>1, <2>2, <2>3, <2>4
<1>7. QED
  BY <1>4, <1>6 DEF Codecs, Coders

LEMMA DropIs ==
    ASSUME NEW A, NEW t \in Seq(A), NEW n \in Nat
    PROVE  /\ Drop(t, n) \in Seq(A)
           /\ n >= Len(t) => Drop(t, n) = <<>>
           /\ n = 0 => Drop(t, n) = t
           /\ n <= Len(t) => Len(Drop(t, n)) = Len(t) - n
           /\ n <= Len(t) => \A i \in 1 .. Len(t) - n : Drop(t, n)[i] = t[n + i]
<1>1. CASE n >= Len(t)
  <2>1. SubSeq(t, n + 1, Len(t)) = <<>>
    BY <1>1, SubSeqEmpty
  <2>2. n = 0 => t = <<>>
    BY <1>1
  <2>3. <<>> \in Seq(A)
    OBVIOUS
  <2>4. QED
    BY <1>1, <2>1, <2>2, <2>3 DEF Drop
<1>2. CASE n < Len(t)
  <2>1. n + 1 \in 1 .. Len(t) /\ Len(t) \in 1 .. Len(t)
    BY <1>2
  <2>2. /\ SubSeq(t, n + 1, Len(t)) \in Seq(A)
        /\ Len(SubSeq(t, n + 1, Len(t))) = Len(t) - n
        /\ \A i \in 1 .. Len(t) - n : SubSeq(t, n + 1, Len(t))[i] = t[n + i]
    BY <2>1
  <2>3. n = 0 => SubSeq(t, n + 1, Len(t)) = t
    BY SubSeqFull
  <2>4. QED
    BY <1>2, <2>2, <2>3 DEF Drop
<1>3. QED
  BY <1>1, <1>2

\* The end of a sequence behind a beginning of it.
LEMMA DropConcat ==
    ASSUME NEW A, NEW t \in Seq(A), NEW u \in Seq(A)
    PROVE  /\ Drop(t \o u, Len(t)) = u
           /\ \A n \in Nat : n <= Len(t) => Drop(t \o u, n) = Drop(t, n) \o u
           /\ \A n \in Nat : n >= Len(t) => Drop(t \o u, n) = Drop(u, n - Len(t))
<1>1. PICK w \in Seq(A), a \in Nat, b \in Nat :
         /\ w = t \o u /\ a = Len(t) /\ b = Len(u) /\ Len(w) = a + b
         /\ \A i \in 1 .. a : w[i] = t[i]
         /\ \A i \in 1 .. b : w[a + i] = u[i]
  <2>1. /\ t \o u \in Seq(A) /\ Len(t \o u) = Len(t) + Len(u)
        /\ Len(t) \in Nat /\ Len(u) \in Nat
        /\ \A i \in 1 .. Len(t) : (t \o u)[i] = t[i]
        /\ \A i \in 1 .. Len(u) : (t \o u)[Len(t) + i] = u[i]
    OBVIOUS
  <2>2. QED
    BY <2>1
<1>2. ASSUME NEW n \in Nat, n <= Len(t)
      PROVE  Drop(t \o u, n) = Drop(t, n) \o u
  <2>1. PICK x \in Seq(A) : /\ x = Drop(w, n) /\ Len(x) = a + b - n
                             /\ \A i \in 1 .. a + b - n : x[i] = w[n + i]
    <3>1. n <= Len(w) /\ Len(w) = a + b
      BY <1>1, <1>2
    <3>2. /\ Drop(w, n) \in Seq(A) /\ Len(Drop(w, n)) = Len(w) - n
          /\ \A i \in 1 .. Len(w) - n : Drop(w, n)[i] = w[n + i]
      BY <3>1, DropIs
    <3>3. QED
      BY <3>1, <3>2
  <2>2. PICK y \in Seq(A) : /\ y = Drop(t, n) /\ Len(y) = a - n
                             /\ \A i \in 1 .. a - n : y[i] = t[n + i]
    <3>1. n <= Len(t) /\ Len(t) = a
      BY <1>1, <1>2
    <3>2. /\ Drop(t, n) \in Seq(A) /\ Len(Drop(t, n)) = Len(t) - n
          /\ \A i \in 1 .. Len(t) - n : Drop(t, n)[i] = t[n + i]
      BY <3>1, DropIs
    <3>3. QED
      BY <3>1, <3>2
  <2>3. PICK z \in Seq(A) :
           /\ z = y \o u /\ Len(z) = a - n + b
           /\ \A i \in 1 .. a - n : z[i] = y[i]
           /\ \A i \in 1 .. b : z[a - n + i] = u[i]
    <3>1. /\ y \o u \in Seq(A) /\ Len(y \o u) = Len(y) + Len(u)
          /\ \A i \in 1 .. Len(y) : (y \o u)[i] = y[i]
          /\ \A i \in 1 .. Len(u) : (y \o u)[Len(y) + i] = u[i]
      OBVIOUS
    <3>2. Len(y \o u) = a - n + b /\ Len(y) = a - n
      BY <1>1, <2>2, <3>1
    <3>3. /\ \A i \in 1 .. a - n : (y \o u)[i] = y[i]
          /\ \A i \in 1 .. b : (y \o u)[a - n + i] = u[i]
      BY <1>1, <3>1, <3>2
    <3>4. QED
      BY <3>1, <3>2, <3>3
  <2>4. ASSUME NEW i \in 1 .. a + b - n
        PROVE  x[i] = z[i]
    <3>1. CASE i <= a - n
      <4>1. n + i \in 1 .. a /\ i \in 1 .. a - n
        BY <1>1, <1>2, <3>1
      <4>2. x[i] = w[n + i] /\ z[i] = y[i] /\ y[i] = t[n + i]
        BY <2>1, <2>2, <2>3, <4>1
      <4>3. w[n + i] = t[n + i]
        BY <1>1, <4>1
      <4>4. QED
        BY <4>2, <4>3
    <3>2. CASE ~ (i <= a - n)
      <4>1. PICK j \in 1 .. b : i = a - n + j
        <5>1. i - (a - n) \in 1 .. b /\ i = a - n + (i - (a - n))
          BY <1>1, <3>2
        <5>2. QED
          BY <5>1
      <4>2. n + i = a + j
        BY <1>1, <4>1
      <4>3. x[i] = w[a + j]
        BY <2>1, <4>2
      <4>4. w[a + j] = u[j] /\ z[a - n + j] = u[j]
        BY <1>1, <2>3
      <4>5. QED
        BY <4>1, <4>3, <4>4
    <3>3. QED
      BY <3>1, <3>2
  <2>5. Len(x) = Len(z)
    BY <1>1, <2>1, <2>3
  <2>6. x = z
    BY <2>1, <2>4, <2>5, SeqEqual
  <2>7. QED
    BY <1>1, <2>1, <2>2, <2>3, <2>6
<1>3. Drop(t \o u, Len(t)) = u
  <2>1. Drop(t, a) = <<>>
    BY <1>1, DropIs
  <2>2. <<>> \o u = u
    OBVIOUS
  <2>3. Drop(w, a) = Drop(t, a) \o u
    BY <1>1, <1>2
  <2>4. QED
    BY <1>1, <2>1, <2>2, <2>3
<1>4. ASSUME NEW n \in Nat, n >= Len(t)
      PROVE  Drop(t \o u, n) = Drop(u, n - Len(t))
  <2>1. PICK k \in Nat : k = n - a /\ n = a + k
    <3>1. n - a \in Nat /\ n = a + (n - a)
      BY <1>1, <1>4
    <3>2. QED
      BY <3>1
  <2>2. CASE k >= b
    <3>1. n >= Len(w)
      BY <1>1, <2>1, <2>2
    <3>2. Drop(w, n) = <<>> /\ Drop(u, k) = <<>>
      BY <1>1, <2>2, <3>1, DropIs
    <3>3. QED
      BY <1>1, <2>1, <3>2
  <2>3. CASE k < b
    <3>1. PICK x \in Seq(A) : /\ x = Drop(w, n) /\ Len(x) = b - k
                               /\ \A i \in 1 .. b - k : x[i] = w[n + i]
      <4>1. n <= Len(w) /\ Len(w) - n = b - k
        BY <1>1, <2>1, <2>3
      <4>2. /\ Drop(w, n) \in Seq(A) /\ Len(Drop(w, n)) = Len(w) - n
            /\ \A i \in 1 .. Len(w) - n : Drop(w, n)[i] = w[n + i]
        BY <4>1, DropIs
      <4>3. QED
        BY <4>1, <4>2
    <3>2. PICK y \in Seq(A) : /\ y = Drop(u, k) /\ Len(y) = b - k
                               /\ \A i \in 1 .. b - k : y[i] = u[k + i]
      <4>1. k <= Len(u) /\ Len(u) = b
        BY <1>1, <2>3
      <4>2. /\ Drop(u, k) \in Seq(A) /\ Len(Drop(u, k)) = Len(u) - k
            /\ \A i \in 1 .. Len(u) - k : Drop(u, k)[i] = u[k + i]
        BY <4>1, DropIs
      <4>3. QED
        BY <4>1, <4>2
    <3>3. \A i \in 1 .. b - k : x[i] = y[i]
      <4> SUFFICES ASSUME NEW i \in 1 .. b - k PROVE x[i] = y[i]
        OBVIOUS
      <4>1. k + i \in 1 .. b /\ n + i = a + (k + i)
        BY <1>1, <2>1
      <4>2. w[a + (k + i)] = u[k + i]
        BY <1>1, <4>1
      <4>3. QED
        BY <3>1, <3>2, <4>1, <4>2
    <3>4. x = y
      BY <3>1, <3>2, <3>3, SeqEqual
    <3>5. QED
      BY <1>1, <2>1, <3>1, <3>2, <3>4
  <2>4. QED
    BY <1>1, <2>1, <2>2, <2>3
<1>5. QED
  BY <1>2, <1>3, <1>4

\* The decoder does not look at what is left of the header.
LEMMA HeaderApart ==
    ASSUME NEW s \in Decoder, NEW h \in Nat, NEW t \in Seq(Byte)
    PROVE  Stepped(DecodeStep, [s EXCEPT !.header = h], t)
             = [Stepped(DecodeStep, s, t) EXCEPT !.header = h]
<1>1. \A x \in Decoder : [x EXCEPT !.header = h] \in Decoder
  BY DEF Decoder
<1>2. \A x \in Decoder, c \in Byte :
         /\ DecodeStep[<<x, c>>] = DecodeCharacter(x, c) /\ DecodeStep[<<x, c>>] \in Decoder
  BY DecodeCharacterType DEF DecodeStep
<1>3. ASSUME NEW x \in Decoder, NEW c
      PROVE  Plain([x EXCEPT !.header = h], c) = [Plain(x, c) EXCEPT !.header = h]
  <2>1. PICK y : y = [x EXCEPT !.header = h]
    OBVIOUS
  <2>2. y.out = x.out /\ y.nonWhite = x.nonWhite /\ y.column = x.column
    BY <2>1 DEF Decoder
  <2>3. PICK o, k : /\ o = (IF x.nonWhite THEN x.out ELSE x.out \o Tabs(x.column)) \o <<c>>
                    /\ k = x.column + 1
    OBVIOUS
  <2>4. Plain(x, c) = [x EXCEPT !.out = o, !.nonWhite = TRUE, !.column = k]
    BY <2>3 DEF Plain
  <2>5. Plain(y, c) = [y EXCEPT !.out = o, !.nonWhite = TRUE, !.column = k]
    BY <2>2, <2>3 DEF Plain
  <2>6. QED
    BY <2>1, <2>4, <2>5 DEF Decoder
<1>4. ASSUME NEW x \in Decoder, NEW c
      PROVE  Coded([x EXCEPT !.header = h], c) = [Coded(x, c) EXCEPT !.header = h]
  <2>1. PICK y : y = [x EXCEPT !.header = h]
    OBVIOUS
  <2>2. y.out = x.out
    BY <2>1 DEF Decoder
  <2>3. CASE c = NUL
    BY <2>3 DEF Coded, NUL, CR, LF, DLE
  <2>4. CASE c \in {CR, LF}
    <3>1. PICK o : o = Append(x.out, LF)
      OBVIOUS
    <3>2. /\ Coded(x, c) = [x EXCEPT !.out = o, !.column = 0, !.nonWhite = FALSE]
          /\ Coded(y, c) = [y EXCEPT !.out = o, !.column = 0, !.nonWhite = FALSE]
      BY <2>2, <2>4, <3>1 DEF Coded, NUL, CR, LF, DLE
    <3>3. QED
      BY <2>1, <3>2 DEF Decoder
  <2>5. CASE c = DLE
    <3>1. Coded(x, c) = [x EXCEPT !.dle = TRUE] /\ Coded(y, c) = [y EXCEPT !.dle = TRUE]
      BY <2>5 DEF Coded, NUL, CR, LF, DLE
    <3>2. QED
      BY <2>1, <3>1 DEF Decoder
  <2>6. CASE c # NUL /\ c \notin {CR, LF} /\ c # DLE
    <3>1. Coded(x, c) = Plain(x, c) /\ Coded(y, c) = Plain(y, c)
      BY <2>6 DEF Coded
    <3>2. QED
      BY <1>3, <2>1, <3>1
  <2>7. QED
    BY <2>3, <2>4, <2>5, <2>6
<1>5. ASSUME NEW x \in Decoder, NEW c \in Byte
      PROVE  DecodeCharacter([x EXCEPT !.header = h], c)
               = [DecodeCharacter(x, c) EXCEPT !.header = h]
  <2>1. PICK y \in Decoder : y = [x EXCEPT !.header = h]
    BY <1>1
  <2>2. /\ y.dle = x.dle /\ y.out = x.out /\ y.nonWhite = x.nonWhite /\ y.column = x.column
    BY <2>1 DEF Decoder
  <2>3. PICK a \in Decoder : a = [x EXCEPT !.dle = FALSE]
    <3>1. [x EXCEPT !.dle = FALSE] \in Decoder
      BY DEF Decoder
    <3>2. QED
      BY <3>1
  <2>4. PICK b : b = [y EXCEPT !.dle = FALSE] /\ b = [a EXCEPT !.header = h]
    BY <2>1, <2>3 DEF Decoder
  <2>5. CASE ~x.dle
    <3>1. DecodeCharacter(x, c) = Coded(x, c) /\ DecodeCharacter(y, c) = Coded(y, c)
      BY <2>2, <2>5 DEF DecodeCharacter
    <3>2. QED
      BY <1>4, <2>1, <3>1
  <2>6. CASE x.dle /\ c < 32
    <3>1. /\ DecodeCharacter(x, c) = Coded(Plain(a, DLE), c)
          /\ DecodeCharacter(y, c) = Coded(Plain(b, DLE), c)
      BY <2>2, <2>3, <2>4, <2>6 DEF DecodeCharacter
    <3>2. Plain(a, DLE) \in Decoder
      <4>1. DLE \in Byte
        BY DEF DLE, Byte
      <4>2. QED
        BY <4>1, PlainType
    <3>3. Plain(b, DLE) = [Plain(a, DLE) EXCEPT !.header = h]
      BY <1>3, <2>4
    <3>4. QED
      BY <1>4, <2>1, <3>1, <3>2, <3>3
  <2>7. CASE x.dle /\ ~ (c < 32)
    <3>1. PICK o, k : /\ o = IF x.nonWhite THEN x.out \o Times(c - 32, Blank) ELSE x.out
                      /\ k = x.column + (c - 32)
      OBVIOUS
    <3>2. /\ a.out = x.out /\ a.column = x.column
          /\ b.out = x.out /\ b.column = x.column
      BY <2>2, <2>3, <2>4 DEF Decoder
    <3>3. DecodeCharacter(x, c) = [a EXCEPT !.out = o, !.column = k]
      BY <2>3, <2>7, <3>1, <3>2 DEF DecodeCharacter
    <3>4. DecodeCharacter(y, c) = [b EXCEPT !.out = o, !.column = k]
      BY <2>2, <2>4, <2>7, <3>1, <3>2 DEF DecodeCharacter
    <3>5. QED
      BY <2>1, <2>4, <3>3, <3>4 DEF Decoder
  <2>8. QED
    BY <2>5, <2>6, <2>7
<1> DEFINE r == [s EXCEPT !.header = h]
           P == {u \in Seq(Byte) : /\ Stepped(DecodeStep, s, u) \in Decoder
                                   /\ Stepped(DecodeStep, r, u)
                                        = [Stepped(DecodeStep, s, u) EXCEPT !.header = h]}
<1>6. <<>> \in P
  BY SteppedEmpty
<1>7. r \in Decoder
  BY <1>1
<1>8. \A u \in Seq(Byte), c \in Byte : u \in P => Append(u, c) \in P
  <2> SUFFICES ASSUME NEW u \in Seq(Byte), NEW c \in Byte, u \in P
               PROVE  Append(u, c) \in P
    OBVIOUS
  <2>1. PICK x \in Decoder, y \in Decoder :
           /\ x = Stepped(DecodeStep, s, u) /\ y = Stepped(DecodeStep, r, u)
           /\ y = [x EXCEPT !.header = h]
    BY <1>1
  <2> HIDE DEF r
  <2>2. Stepped(DecodeStep, s, Append(u, c)) = DecodeStep[<<x, c>>]
    BY <2>1, SteppedAppend
  <2>3. Stepped(DecodeStep, r, Append(u, c)) = DecodeStep[<<y, c>>]
    BY <2>1, SteppedAppend
  <2>4. DecodeStep[<<y, c>>] = [DecodeStep[<<x, c>>] EXCEPT !.header = h]
    <3>1. DecodeCharacter(y, c) = [DecodeCharacter(x, c) EXCEPT !.header = h]
      BY <1>5, <2>1
    <3>2. /\ DecodeStep[<<y, c>>] = DecodeCharacter(y, c)
          /\ DecodeStep[<<x, c>>] = DecodeCharacter(x, c)
      BY <1>2
    <3>3. QED
      BY <3>1, <3>2
  <2>5. DecodeStep[<<x, c>>] \in Decoder
    BY <1>2
  <2>6. Append(u, c) \in Seq(Byte)
    OBVIOUS
  <2>7. QED
    BY <2>2, <2>3, <2>4, <2>5, <2>6
<1> HIDE DEF P
<1>9. t \in P
  BY <1>6, <1>8, SequenceInduction
<1>10. QED
  BY <1>9 DEF P

LEMMA EncodeStepType ==
    \A x \in Encoder, c \in Byte :
       /\ EncodeStep[<<x, c>>] \in Encoder
       /\ Longer(x.out, EncodeStep[<<x, c>>].out)
BY EncodeCharacterType DEF EncodeStep

LEMMA DecodeStepType ==
    \A x \in Decoder, c \in Byte :
       /\ DecodeStep[<<x, c>>] \in Decoder
       /\ Longer(x.out, DecodeStep[<<x, c>>].out)
BY DecodeCharacterType DEF DecodeStep

\* A codec takes nothing back of what it wrote.
LEMMA SteppedLonger ==
    ASSUME NEW S, NEW step, \A x \in S : x.out \in Seq(Byte),
           \A x \in S, c \in Byte :
              step[<<x, c>>] \in S /\ Longer(x.out, step[<<x, c>>].out),
           NEW s \in S, NEW t \in Seq(Byte)
    PROVE  Stepped(step, s, t) \in S /\ Longer(s.out, Stepped(step, s, t).out)
<1> DEFINE P == {u \in Seq(Byte) : /\ Stepped(step, s, u) \in S
                                   /\ Longer(s.out, Stepped(step, s, u).out)}
<1>1. <<>> \in P
  BY SteppedEmpty, LongerItself
<1>2. \A u \in Seq(Byte), c \in Byte : u \in P => Append(u, c) \in P
  <2> SUFFICES ASSUME NEW u \in Seq(Byte), NEW c \in Byte, u \in P
               PROVE  Append(u, c) \in P
    OBVIOUS
  <2>1. PICK x \in S : x = Stepped(step, s, u) /\ Longer(s.out, x.out)
    OBVIOUS
  <2>2. Stepped(step, s, Append(u, c)) = step[<<x, c>>]
    BY <2>1, SteppedAppend
  <2>3. step[<<x, c>>] \in S /\ Longer(x.out, step[<<x, c>>].out)
    OBVIOUS
  <2>4. Longer(s.out, step[<<x, c>>].out)
    BY <2>1, <2>3, LongerTwice
  <2>5. Append(u, c) \in Seq(Byte)
    OBVIOUS
  <2>6. QED
    BY <2>2, <2>3, <2>4, <2>5
<1> HIDE DEF P
<1>3. t \in P
  BY <1>1, <1>2, SequenceInduction
<1>4. QED
  BY <1>3 DEF P

LEMMA EncodedType ==
    ASSUME NEW s \in Encoder, NEW t \in Seq(Byte)
    PROVE  /\ Stepped(EncodeStep, s, t) \in Encoder
           /\ Longer(s.out, Stepped(EncodeStep, s, t).out)
<1>1. \A x \in Encoder : x.out \in Seq(Byte)
  BY DEF Encoder
<1>2. QED
  BY <1>1, EncodeStepType, SteppedLonger

LEMMA DecodedType ==
    ASSUME NEW s \in Decoder, NEW t \in Seq(Byte)
    PROVE  /\ Stepped(DecodeStep, s, t) \in Decoder
           /\ Longer(s.out, Stepped(DecodeStep, s, t).out)
<1>1. \A x \in Decoder : x.out \in Seq(Byte)
  BY DEF Decoder
<1>2. QED
  BY <1>1, DecodeStepType, SteppedLonger

\* The data that is decoded: all of it, or what is behind the header.
Behind(t, textual) == IF textual THEN t ELSE Drop(t, Page)

LEMMA HeaderBehindType ==
    ASSUME NEW t \in Seq(Byte), NEW x \in BOOLEAN
    PROVE  HeaderBehind(t, x) \in Nat /\ Behind(t, x) \in Seq(Byte)
<1>1. Page \in Nat /\ Len(t) \in Nat
  BY Sizes
<1>2. Drop(t, Page) \in Seq(Byte)
  BY <1>1, DropIs
<1>3. QED
  BY <1>1, <1>2 DEF HeaderBehind, Behind

LEMMA DecoderBehind ==
    ASSUME NEW t \in Seq(Byte), NEW x \in BOOLEAN
    PROVE  \E c \in Decoder :
              /\ c = Stepped(DecodeStep, Coder("decode"), Behind(t, x))
              /\ CoderBehind("decode", t, x) = [c EXCEPT !.header = HeaderBehind(t, x)]
              /\ CoderBehind("decode", t, x) \in Decoder
              /\ CoderBehind("decode", t, x).out = c.out
              /\ CoderBehind("decode", t, x).header = HeaderBehind(t, x)
<1>1. Coder("decode") \in Decoder /\ Behind(t, x) \in Seq(Byte) /\ HeaderBehind(t, x) \in Nat
  BY CoderType, HeaderBehindType
<1>2. PICK c \in Decoder : c = Stepped(DecodeStep, Coder("decode"), Behind(t, x))
  BY <1>1, DecodedType
<1>3. CoderBehind("decode", t, x) = [c EXCEPT !.header = HeaderBehind(t, x)]
  BY <1>2 DEF CoderBehind, Behind
<1>4. /\ [c EXCEPT !.header = HeaderBehind(t, x)] \in Decoder
      /\ [c EXCEPT !.header = HeaderBehind(t, x)].out = c.out
      /\ [c EXCEPT !.header = HeaderBehind(t, x)].header = HeaderBehind(t, x)
  BY <1>1 DEF Decoder
<1>5. QED
  BY <1>2, <1>3, <1>4

LEMMA CoderBehindType ==
    ASSUME NEW codec \in {"encode", "decode"}, NEW t \in Seq(Byte), NEW x \in BOOLEAN
    PROVE  CoderBehind(codec, t, x) \in Coders(codec)
<1>1. CASE codec = "encode"
  BY <1>1, CoderType, EncodedType DEF CoderBehind, Coders
<1>2. CASE codec = "decode"
  BY <1>2, DecoderBehind DEF Coders
<1>3. QED
  BY <1>1, <1>2

\* Before anything was read.
LEMMA CoderBehindNothing ==
    ASSUME NEW codec \in {"encode", "decode"}, NEW x \in BOOLEAN
    PROVE  CoderBehind(codec, <<>>, x) = Coder(codec)
<1>1. CASE codec = "encode"
  BY <1>1, SteppedEmpty DEF CoderBehind
<1>2. CASE codec = "decode"
  <2>1. Drop(<<>>, Page) = <<>>
    <3>1. <<>> \in Seq(Byte) /\ Page >= Len(<<>>) /\ Page \in Nat
      BY Sizes
    <3>2. QED
      BY <3>1, DropIs
  <2>2. CoderBehind("decode", <<>>, x) = [Coder("decode") EXCEPT !.header = Page]
    BY <2>1, SteppedEmpty DEF CoderBehind, HeaderBehind
  <2>3. Coder("decode").header = Page /\ Coder("decode") \in Decoder
    BY CoderType DEF Coder
  <2>4. [Coder("decode") EXCEPT !.header = Page] = Coder("decode")
    BY <2>3 DEF Decoder
  <2>5. QED
    BY <1>2, <2>2, <2>4
<1>3. QED
  BY <1>1, <1>2

\* The first piece is the one that tells whether there is a header.
Tells(t, p, textual) == t # <<>> \/ (p # <<>> /\ textual = IsTextBuffer(p))

Skipped(c, p) == IF HeaderLeft(c, p) < Len(p) THEN HeaderLeft(c, p) ELSE Len(p)

LEMMA HeaderMore ==
    ASSUME NEW t \in Seq(Byte), NEW p \in Seq(Byte), NEW x \in BOOLEAN, Tells(t, p, x),
           NEW c, c.header = HeaderBehind(t, x)
    PROVE  /\ Skipped(c, p) \in Nat /\ Skipped(c, p) <= Len(p)
           /\ HeaderLeft(c, p) - Skipped(c, p) = HeaderBehind(t \o p, x)
           /\ Behind(t \o p, x) = Behind(t, x) \o Drop(p, Skipped(c, p))
<1> PICK h, skipped : /\ h = HeaderLeft(c, p) /\ skipped = Skipped(c, p)
                      /\ skipped = IF h < Len(p) THEN h ELSE Len(p)
  BY DEF Skipped
<1>1. PICK n \in Nat, m \in Nat, k \in Nat : n = Len(t) /\ m = Len(p) /\ k = Page /\ k > 2
  BY Sizes
<1>2. /\ t \o p \in Seq(Byte) /\ Len(t \o p) = n + m
      /\ (t = <<>> <=> n = 0) /\ (p = <<>> <=> m = 0) /\ (t \o p = <<>> <=> n + m = 0)
  BY <1>1
<1>3. h = IF x \/ n >= k THEN 0 ELSE k - n
  <2>1. CASE t = <<>>
    <3>1. c.header = Page /\ x = IsTextBuffer(p) /\ n = 0
      BY <1>2, <2>1 DEF HeaderBehind, Tells
    <3>2. QED
      BY <1>1, <3>1 DEF HeaderLeft
  <2>2. CASE t # <<>>
    <3>1. c.header = (IF x \/ n >= k THEN 0 ELSE k - n) /\ n > 0
      BY <1>1, <1>2, <2>2 DEF HeaderBehind
    <3>2. c.header # Page
      BY <1>1, <3>1
    <3>3. QED
      BY <3>1, <3>2 DEF HeaderLeft
  <2>3. QED
    BY <2>1, <2>2
<1>4. n + m # 0
  BY <1>2 DEF Tells
<1>5. skipped \in Nat /\ skipped <= Len(p)
  BY <1>1, <1>3
<1>6. h - skipped = HeaderBehind(t \o p, x)
  <2>1. HeaderBehind(t \o p, x) = IF x \/ n + m >= k THEN 0 ELSE k - (n + m)
    BY <1>1, <1>2, <1>4 DEF HeaderBehind
  <2>2. skipped = IF h < m THEN h ELSE m
    BY <1>1
  <2>3. CASE x \/ n >= k
    <3>1. h = 0
      BY <1>3, <2>3
    <3>2. HeaderBehind(t \o p, x) = 0
      <4>1. CASE x
        BY <2>1, <4>1
      <4>2. CASE n >= k
        <5>1. n + m >= k
          BY <1>1, <4>2
        <5>2. QED
          BY <2>1, <5>1
      <4>3. QED
        BY <2>3, <4>1, <4>2
    <3>3. skipped = 0
      BY <1>1, <2>2, <3>1
    <3>4. h - skipped = 0
      <4>1. 0 - 0 = 0
        OBVIOUS
      <4>2. QED
        BY <3>1, <3>3, <4>1, Zenon
    <3>5. QED
      BY <3>2, <3>4, Zenon
  <2>4. CASE ~ (x \/ n >= k)
    <3>1. h = k - n /\ HeaderBehind(t \o p, x) = IF n + m >= k THEN 0 ELSE k - (n + m)
      BY <1>3, <2>1, <2>4
    <3>2. CASE k - n < m
      <4>1. skipped = k - n /\ n + m >= k
        BY <1>1, <2>2, <3>1, <3>2
      <4>2. QED
        BY <1>1, <3>1, <4>1
    <3>3. CASE ~ (k - n < m)
      <4>1. skipped = m /\ (n + m >= k => n + m = k)
        BY <1>1, <2>2, <3>1, <3>3
      <4>2. h - skipped = k - (n + m)
        BY <1>1, <3>1, <4>1
      <4>3. HeaderBehind(t \o p, x) = k - (n + m)
        BY <1>1, <3>1, <4>1
      <4>4. QED
        BY <4>2, <4>3, Zenon
    <3>4. QED
      BY <3>2, <3>3
  <2>5. QED
    BY <2>3, <2>4
<1>7. Behind(t \o p, x) = Behind(t, x) \o Drop(p, skipped)
  <2>1. CASE x
    <3>1. skipped = 0
      BY <1>1, <1>3, <2>1
    <3>2. Drop(p, skipped) = p
      BY <3>1, DropIs
    <3>3. QED
      BY <2>1, <3>2 DEF Behind
  <2>2. CASE ~x /\ n >= k
    <3>1. skipped = 0
      BY <1>1, <1>3, <2>2
    <3>2. Drop(p, skipped) = p
      BY <3>1, DropIs
    <3>3. Drop(t \o p, Page) = Drop(t, Page) \o p
      BY <1>1, <2>2, DropConcat
    <3>4. QED
      BY <2>2, <3>2, <3>3 DEF Behind
  <2>3. CASE ~x /\ n < k
    <3>1. Drop(t, Page) = <<>>
      BY <1>1, <2>3, DropIs
    <3>2. Drop(t \o p, Page) = Drop(p, k - n)
      BY <1>1, <2>3, DropConcat
    <3>3. Drop(p, k - n) = Drop(p, skipped)
      <4>1. CASE k - n < m
        BY <1>1, <1>3, <2>3, <4>1
      <4>2. CASE ~ (k - n < m)
        <5>1. skipped = m /\ k - n >= m /\ k - n \in Nat
          BY <1>1, <1>3, <2>3, <4>2
        <5>2. Drop(p, k - n) = <<>>
          BY <1>1, <5>1, DropIs
        <5>3. Drop(p, m) = <<>>
          BY <1>1, DropIs
        <5>4. QED
          BY <5>1, <5>2, <5>3
      <4>3. QED
        BY <4>1, <4>2
    <3>4. Drop(p, skipped) \in Seq(Byte)
      BY <1>5, DropIs
    <3>5. <<>> \o Drop(p, skipped) = Drop(p, skipped)
      BY <3>4
    <3>6. QED
      BY <2>3, <3>1, <3>2, <3>3, <3>5 DEF Behind
  <2>4. QED
    BY <1>1, <2>1, <2>2, <2>3
<1>8. QED
  BY <1>5, <1>6, <1>7

\* Two pieces one behind the other are coded as one.
LEMMA CodesMore ==
    ASSUME NEW codec \in {"encode", "decode"}, NEW t \in Seq(Byte), NEW p \in Seq(Byte),
           NEW x \in BOOLEAN, Tells(t, p, x)
    PROVE  /\ Coded1(codec, CoderBehind(codec, t, x), p) = CoderBehind(codec, t \o p, x)
           /\ Longer(CoderBehind(codec, t, x).out, CoderBehind(codec, t \o p, x).out)
<1>1. t \o p \in Seq(Byte)
  OBVIOUS
<1>2. CASE codec = "encode"
  <2>1. PICK c \in Encoder : c = CoderBehind("encode", t, x)
    BY CoderBehindType DEF Coders
  <2>2. c = Stepped(EncodeStep, Coder("encode"), t)
    BY <2>1 DEF CoderBehind
  <2>3. CoderBehind("encode", t \o p, x) = Stepped(EncodeStep, c, p)
    BY <2>2, SteppedConcat DEF CoderBehind
  <2>4. Coded1("encode", c, p) = Stepped(EncodeStep, c, p)
    BY EncodeSteps DEF Coded1
  <2>5. Longer(c.out, Stepped(EncodeStep, c, p).out)
    BY EncodedType
  <2>6. QED
    BY <1>2, <2>1, <2>3, <2>4, <2>5
<1>3. CASE codec = "decode"
  <2> DEFINE b == CoderBehind("decode", t, x)
             h == HeaderLeft(b, p)
             skipped == Skipped(b, p)
             d == Drop(p, skipped)
  <2>1. PICK c \in Decoder :
              /\ c = Stepped(DecodeStep, Coder("decode"), Behind(t, x))
              /\ b = [c EXCEPT !.header = HeaderBehind(t, x)]
              /\ b \in Decoder /\ b.out = c.out /\ b.header = HeaderBehind(t, x)
    BY DecoderBehind
  <2>2. PICK e \in Decoder :
              /\ e = Stepped(DecodeStep, Coder("decode"), Behind(t \o p, x))
              /\ CoderBehind("decode", t \o p, x)
                   = [e EXCEPT !.header = HeaderBehind(t \o p, x)]
              /\ CoderBehind("decode", t \o p, x).out = e.out
    BY <1>1, DecoderBehind
  <2> HIDE DEF b
  <2>3. /\ skipped \in Nat /\ skipped <= Len(p)
        /\ h - skipped = HeaderBehind(t \o p, x)
        /\ Behind(t \o p, x) = Behind(t, x) \o d
    <3> HIDE DEF h, skipped, d
    <3>1. /\ Skipped(b, p) \in Nat /\ Skipped(b, p) <= Len(p)
          /\ HeaderLeft(b, p) - Skipped(b, p) = HeaderBehind(t \o p, x)
          /\ Behind(t \o p, x) = Behind(t, x) \o Drop(p, Skipped(b, p))
      <4>1. b.header = HeaderBehind(t, x)
        BY <2>1
      <4>2. QED
        BY <4>1, HeaderMore
    <3>2. QED
      BY <3>1 DEF h, skipped, d
  <2>4. d \in Seq(Byte) /\ Behind(t, x) \in Seq(Byte) /\ HeaderBehind(t \o p, x) \in Nat
    BY <1>1, <2>3, DropIs, HeaderBehindType
  <2>5. e = Stepped(DecodeStep, c, d)
    <3> HIDE DEF d
    <3>1. Stepped(DecodeStep, Coder("decode"), Behind(t, x) \o d)
            = Stepped(DecodeStep, Stepped(DecodeStep, Coder("decode"), Behind(t, x)), d)
      BY <2>4, SteppedConcat
    <3>2. QED
      BY <2>1, <2>2, <2>3, <3>1
  <2>6. Coded1("decode", b, p)
          = FoldLeft(DecodeCharacter, [b EXCEPT !.header = h - skipped], d)
    BY DEF Coded1, Skipped
  <2> HIDE DEF h, skipped, d
  <2>7. [b EXCEPT !.header = h - skipped] = [c EXCEPT !.header = h - skipped]
    BY <2>1 DEF Decoder
  <2>8. [c EXCEPT !.header = h - skipped] \in Decoder
    BY <2>3, <2>4 DEF Decoder
  <2>9. Coded1("decode", b, p) = Stepped(DecodeStep, [c EXCEPT !.header = h - skipped], d)
    <3>1. FoldLeft(DecodeCharacter, [c EXCEPT !.header = h - skipped], d)
            = Stepped(DecodeStep, [c EXCEPT !.header = h - skipped], d)
      BY <2>4, <2>8, DecodeSteps
    <3>2. QED
      BY <2>6, <2>7, <3>1
  <2>10. Coded1("decode", b, p) = [e EXCEPT !.header = h - skipped]
    <3>1. h - skipped \in Nat
      BY <2>3, <2>4
    <3>2. Stepped(DecodeStep, [c EXCEPT !.header = h - skipped], d)
            = [Stepped(DecodeStep, c, d) EXCEPT !.header = h - skipped]
      BY <2>4, <3>1, HeaderApart
    <3>3. QED
      BY <2>5, <2>9, <3>2
  <2>11. Longer(c.out, e.out)
    BY <2>4, <2>5, DecodedType
  <2>12. QED
    BY <1>3, <2>1, <2>2, <2>3, <2>10, <2>11 DEF b
<1>4. QED
  BY <1>2, <1>3

LEMMA Remainders ==
    ASSUME NEW n \in Nat, NEW d \in Nat \ {0}
    PROVE  (-n) % d \in Nat
OBVIOUS

\* The last page keeps what is there.
LEMMA LastPageIs ==
    ASSUME NEW c \in Encoder
    PROVE  LastPage(c) \in Encoder /\ Longer(c.out, LastPage(c).out)
<1>1. PICK b \in Encoder : /\ b = IF c.line = <<>> THEN c ELSE WriteOneLine(c)
                           /\ Longer(c.out, b.out)
  <2>1. c.out \in Seq(Byte)
    BY DEF Encoder
  <2>2. Longer(c.out, c.out)
    BY <2>1, LongerItself
  <2>3. QED
    BY <2>2, WriteOneLineType
<1>2. b.out \in Seq(Byte) /\ c.out \in Seq(Byte)
  BY DEF Encoder
<1>3. PICK pad \in Seq(Byte) : pad = Times((-Len(b.out)) % Page, NUL)
  <2>1. Len(b.out) \in Nat /\ Page \in Nat \ {0} /\ NUL \in Byte
    BY <1>2, Sizes DEF NUL, Byte
  <2>2. (-Len(b.out)) % Page \in Nat
    BY <2>1, Remainders
  <2>3. Times((-Len(b.out)) % Page, NUL) \in Seq(Byte)
    BY <2>1, <2>2, TimesIs
  <2>4. QED
    BY <2>3
<1>4. PICK o \in Seq(Byte) : o = b.out \o pad
  <2>1. b.out \o pad \in Seq(Byte)
    BY <1>2
  <2>2. QED
    BY <2>1
<1>5. LastPage(c) = [b EXCEPT !.out = o]
  BY <1>1, <1>3, <1>4 DEF LastPage
<1>6. LastPage(c) \in Encoder /\ LastPage(c).out = o
  BY <1>5 DEF Encoder
<1>7. Longer(b.out, o)
  BY <1>4 DEF Longer
<1>8. QED
  BY <1>1, <1>2, <1>6, <1>7, LongerTwice

\* What a stream has made of the data t, and what it makes of it when it is closed.
Passes(codec, t, textual) == IF codec = "none" THEN t ELSE CoderBehind(codec, t, textual).out
Made(codec, t, textual) ==
    IF codec = "encode" THEN LastPage(CoderBehind("encode", t, textual)).out
    ELSE Passes(codec, t, textual)

LEMMA MadeType ==
    ASSUME NEW codec \in Codecs, NEW t \in Seq(Byte), NEW x \in BOOLEAN
    PROVE  Passes(codec, t, x) \in Seq(Byte) /\ Made(codec, t, x) \in Seq(Byte)
<1>1. CASE codec = "none"
  BY <1>1 DEF Passes, Made
<1>2. CASE codec = "encode"
  <2>1. CoderBehind("encode", t, x) \in Encoder
    BY CoderBehindType DEF Coders
  <2>2. LastPage(CoderBehind("encode", t, x)) \in Encoder
    BY <2>1, LastPageIs
  <2>3. QED
    BY <1>2, <2>1, <2>2 DEF Passes, Made, Encoder
<1>3. CASE codec = "decode"
  <2>1. CoderBehind("decode", t, x) \in Decoder
    BY CoderBehindType DEF Coders
  <2>2. QED
    BY <1>3, <2>1 DEF Passes, Made, Decoder
<1>4. QED
  BY <1>1, <1>2, <1>3 DEF Codecs

\* What is made of the beginning of some data is the beginning of what is made of it.
LEMMA MadeLonger ==
    ASSUME NEW codec \in Codecs, NEW t \in Seq(Byte), NEW u \in Seq(Byte), NEW x \in BOOLEAN
    PROVE  Longer(Passes(codec, t, x), Made(codec, t \o u, x))
<1>1. t \o u \in Seq(Byte)
  OBVIOUS
<1>2. CASE codec = "none"
  BY <1>2 DEF Passes, Made, Longer
<1>3. CASE codec = "encode"
  <2>1. PICK c \in Encoder, e \in Encoder :
           c = CoderBehind("encode", t, x) /\ e = CoderBehind("encode", t \o u, x)
    BY <1>1, CoderBehindType DEF Coders
  <2>2. c = Stepped(EncodeStep, Coder("encode"), t)
    BY <2>1 DEF CoderBehind
  <2>3. e = Stepped(EncodeStep, c, u)
    BY <2>1, <2>2, SteppedConcat DEF CoderBehind
  <2>4. Longer(c.out, e.out)
    BY <2>3, EncodedType
  <2>5. Longer(e.out, LastPage(e).out) /\ c.out \in Seq(Byte)
    BY LastPageIs DEF Encoder
  <2>6. Longer(c.out, LastPage(e).out)
    BY <2>4, <2>5, LongerTwice
  <2>7. QED
    BY <1>3, <2>1, <2>6 DEF Passes, Made
<1>4. CASE codec = "decode"
  <2>1. PICK c \in Decoder : /\ c = Stepped(DecodeStep, Coder("decode"), Behind(t, x))
                             /\ CoderBehind("decode", t, x).out = c.out
    BY DecoderBehind
  <2>2. PICK e \in Decoder : /\ e = Stepped(DecodeStep, Coder("decode"), Behind(t \o u, x))
                             /\ CoderBehind("decode", t \o u, x).out = e.out
    BY <1>1, DecoderBehind
  <2>3. Behind(t, x) \in Seq(Byte) /\ Behind(t \o u, x) \in Seq(Byte)
    BY <1>1, HeaderBehindType
  <2>4. CASE x \/ Page <= Len(t)
    <3>1. Behind(t \o u, x) = Behind(t, x) \o u
      <4>1. ~x => Drop(t \o u, Page) = Drop(t, Page) \o u
        BY <2>4, Sizes, DropConcat
      <4>2. QED
        BY <4>1 DEF Behind
    <3>2. e = Stepped(DecodeStep, c, u)
      BY <2>1, <2>2, <2>3, <3>1, SteppedConcat
    <3>3. Longer(c.out, e.out)
      BY <3>2, DecodedType
    <3>4. QED
      BY <1>4, <2>1, <2>2, <3>3 DEF Passes, Made
  <2>5. CASE ~ (x \/ Page <= Len(t))
    <3>1. Len(t) \in Nat /\ Page >= Len(t) /\ Page \in Nat
      BY <2>5, Sizes
    <3>2. Drop(t, Page) = <<>>
      BY <3>1, DropIs
    <3>3. c = Coder("decode")
      BY <2>1, <2>5, <3>2, SteppedEmpty DEF Behind
    <3>4. c.out = <<>>
      BY <3>3, CoderType
    <3>5. e.out \in Seq(Byte)
      BY DEF Decoder
    <3>6. Longer(c.out, e.out)
      <4>1. e.out = <<>> \o e.out
        BY <3>5
      <4>2. QED
        BY <3>4, <3>5, <4>1 DEF Longer
    <3>7. QED
      BY <1>4, <2>1, <2>2, <3>6 DEF Passes, Made
  <2>6. QED
    BY <2>4, <2>5
<1>5. QED
  BY <1>2, <1>3, <1>4 DEF Codecs

LEMMA Textual ==
    ASSUME NEW d
    PROVE  IsTextBuffer(d) \in BOOLEAN
BY DEF IsTextBuffer

\* Through is what a stream makes of the data, if the first piece of it tells what
\* its first Temp bytes do.
LEMMA ThroughIs ==
    ASSUME NEW codec \in Codecs, NEW d \in Seq(Byte)
    PROVE  /\ codec = "decode" =>
                 Through(codec, d) = Made(codec, d, IsTextBuffer(Take(d, Temp)))
           /\ codec # "decode" => \A x \in BOOLEAN : Through(codec, d) = Made(codec, d, x)
<1>1. CASE codec = "none"
  BY <1>1 DEF Through, Made, Passes
<1>2. CASE codec = "encode"
  <2> SUFFICES ASSUME NEW x \in BOOLEAN PROVE Through("encode", d) = Made("encode", d, x)
    BY <1>2
  <2>1. PICK c \in Encoder : c = CoderBehind("encode", d, x)
    BY CoderBehindType DEF Coders
  <2>2. c = FoldLeft(EncodeCharacter, Coder("encode"), d)
    BY <2>1, CoderType, EncodeSteps DEF CoderBehind
  <2>3. Coder("encode") = [out |-> Times(Page, NUL), line |-> <<>>, column |-> 0,
                           nonWhite |-> FALSE]
    BY DEF Coder
  <2>4. PICK b \in Encoder : b = IF c.line = <<>> THEN c ELSE WriteOneLine(c)
    BY WriteOneLineType
  <2>5. Encode(d) = b.out \o Times((-Len(b.out)) % Page, NUL)
    BY <2>2, <2>3, <2>4 DEF Encode
  <2>6. LastPage(c) = [b EXCEPT !.out = b.out \o Times((-Len(b.out)) % Page, NUL)]
    BY <2>4 DEF LastPage
  <2>7. LastPage(c).out = Encode(d)
    BY <2>5, <2>6 DEF Encoder
  <2>8. QED
    BY <2>1, <2>7 DEF Through, Made
<1>3. CASE codec = "decode"
  <2> DEFINE x == IsTextBuffer(Take(d, Temp))
  <2>1. x \in BOOLEAN
    BY Textual
  <2>2. WithoutHeader(d) = Behind(d, x)
    BY DEF WithoutHeader, Behind
  <2> HIDE DEF x
  <2>3. PICK c \in Decoder : /\ c = Stepped(DecodeStep, Coder("decode"), Behind(d, x))
                             /\ CoderBehind("decode", d, x).out = c.out
    BY <2>1, DecoderBehind
  <2>4. FoldLeft(DecodeCharacter, Coder("decode"), Behind(d, x)) = c
    BY <2>1, <2>3, CoderType, HeaderBehindType, DecodeSteps
  <2>5. Through("decode", d) = c.out
    BY <2>2, <2>4 DEF Through
  <2>6. QED
    BY <1>3, <2>3, <2>5 DEF Made, Passes, x
<1>4. QED
  BY <1>1, <1>2, <1>3 DEF Codecs

LEMMA PrefixIs ==
    ASSUME NEW w \in Seq(Byte), NEW v \in Seq(Byte), Longer(w, v)
    PROVE  IsPrefix(w, v)
<1>1. PICK u \in Seq(Byte) : v = w \o u
  BY DEF Longer
<1>2. Len(w) <= Len(v) /\ Len(w) \in Nat /\ \A i \in 1 .. Len(w) : w[i] = v[i]
  BY <1>1
<1>3. SubSeq(w, 1, Len(w)) = w
  BY SubSeqFull
<1>4. SubSeq(v, 1, Len(w)) = w
  <2>1. PICK z \in Seq(Byte) : z = SubSeq(v, 1, Len(w)) /\ Len(z) = Len(w)
                               /\ \A i \in 1 .. Len(w) : z[i] = v[i]
    <3>1. \A i \in 1 .. Len(w) : i \in 1 .. Len(v)
      BY <1>2
    <3>2. QED
      BY <1>2, <3>1
  <2>2. QED
    BY <1>2, <2>1, SeqEqual
<1>5. QED
  BY <1>2, <1>3, <1>4 DEF IsPrefix

-----------------------------------------------------------------------------
(* Streams.                                                                *)

Full == Seq(Byte) \ {<<>>}
Coding2 == {"encode", "decode"}

Streams(codec) ==
    [codec : {codec}, front : Buffers, coder : Coders(codec), back : Buffers]

LEMMA Coded1Type ==
    ASSUME NEW codec \in Coding2, NEW c \in Coders(codec), NEW p \in Seq(Byte)
    PROVE  /\ Coded1(codec, c, p) \in Coders(codec)
           /\ Longer(c.out, Coded1(codec, c, p).out) /\ c.out \in Seq(Byte)
<1>1. CASE codec = "encode"
  <2>1. c \in Encoder
    BY <1>1 DEF Coders
  <2>2. Coded1(codec, c, p) = Stepped(EncodeStep, c, p)
    BY <1>1, <2>1, EncodeSteps DEF Coded1
  <2>3. QED
    BY <1>1, <2>1, <2>2, EncodedType DEF Coders, Encoder
<1>2. CASE codec = "decode"
  <2>1. c \in Decoder
    BY <1>2 DEF Coders
  <2>2. Skipped(c, p) \in Nat /\ HeaderLeft(c, p) - Skipped(c, p) \in Nat
    <3>1. c.header \in Nat
      BY <2>1 DEF Decoder
    <3>2. HeaderLeft(c, p) \in Nat /\ Len(p) \in Nat
      BY <3>1 DEF HeaderLeft
    <3>3. QED
      BY <3>2 DEF Skipped
  <2>3. PICK h \in Nat, d \in Seq(Byte) :
           h = HeaderLeft(c, p) - Skipped(c, p) /\ d = Drop(p, Skipped(c, p))
    BY <2>2, DropIs
  <2>4. PICK b \in Decoder : b = [c EXCEPT !.header = h] /\ b.out = c.out
    <3>1. [c EXCEPT !.header = h] \in Decoder /\ [c EXCEPT !.header = h].out = c.out
      BY <2>1 DEF Decoder
    <3>2. QED
      BY <3>1
  <2>5. Coded1("decode", c, p) = FoldLeft(DecodeCharacter, b, d)
    BY <2>3, <2>4 DEF Coded1, Skipped
  <2>6. Coded1("decode", c, p) = Stepped(DecodeStep, b, d)
    BY <2>5, DecodeSteps
  <2>7. /\ Stepped(DecodeStep, b, d) \in Decoder
        /\ Longer(b.out, Stepped(DecodeStep, b, d).out)
    BY DecodedType
  <2>8. c.out \in Seq(Byte)
    BY <2>1 DEF Decoder
  <2>9. QED
    BY <1>2, <2>4, <2>6, <2>7, <2>8 DEF Coders
<1>3. QED
  BY <1>1, <1>2 DEF Coding2

\* What the codec wrote from s to z is in the buffer behind it.
Advanced(s, z) ==
    \E v \in Seq(Byte) : /\ z.coder.out = s.coder.out \o v
                         /\ Queued(z.back) = Queued(s.back) \o v

LEMMA PassedIs ==
    ASSUME NEW codec \in Coding2, NEW s \in Streams(codec), NEW c \in Coders(codec),
           Longer(s.coder.out, c.out)
    PROVE  /\ Passed(s, c) \in Streams(codec)
           /\ Passed(s, c).front = s.front /\ Passed(s, c).coder = c
           /\ Advanced(s, Passed(s, c))
<1>1. /\ s.coder \in Coders(codec) /\ s.back \in Buffers /\ s.front \in Buffers
      /\ s.codec = codec
  BY DEF Streams
<1>2. s.coder.out \in Seq(Byte)
  BY <1>1 DEF Coders, Encoder, Decoder, Coding2
<1>3. PICK v \in Seq(Byte) : c.out = s.coder.out \o v
  BY DEF Longer
<1>4. Drop(c.out, Len(s.coder.out)) = v
  BY <1>2, <1>3, DropConcat
<1>5. PICK b \in Buffers : b = WriteCharacters(s.back, v) /\ Queued(b) = Queued(s.back) \o v
  BY <1>1, WriteCharactersIs
<1>6. Passed(s, c) = [s EXCEPT !.coder = c, !.back = b]
  BY <1>4, <1>5 DEF Passed
<1>7. /\ Passed(s, c) \in Streams(codec)
      /\ Passed(s, c).front = s.front /\ Passed(s, c).coder = c /\ Passed(s, c).back = b
  BY <1>6 DEF Streams
<1>8. QED
  BY <1>3, <1>5, <1>7 DEF Advanced

LEMMA WriteInnerIs ==
    ASSUME NEW codec \in Coding2, NEW s \in Streams(codec), NEW p \in Seq(Byte)
    PROVE  /\ WriteInner(s, p) \in Streams(codec)
           /\ WriteInner(s, p).front = s.front
           /\ WriteInner(s, p).coder = Coded1(codec, s.coder, p)
           /\ Advanced(s, WriteInner(s, p))
<1>1. s.coder \in Coders(codec) /\ s.codec = codec
  BY DEF Streams
<1>2. PICK c \in Coders(codec) : c = Coded1(codec, s.coder, p) /\ Longer(s.coder.out, c.out)
  BY <1>1, Coded1Type
<1>3. WriteInner(s, p) = Passed(s, c)
  BY <1>1, <1>2 DEF WriteInner
<1>4. QED
  BY <1>2, <1>3, PassedIs

LEMMA WriteInnerType ==
    ASSUME NEW codec \in Coding2, NEW s \in Streams(codec), NEW p \in Full
    PROVE  WriteInner(s, p) \in Streams(codec)
<1>1. p \in Seq(Byte)
  BY DEF Full
<1>2. QED
  BY <1>1, WriteInnerIs

\* One piece for the codec.
InnerStep(codec) == [p \in Streams(codec) \X Full |-> WriteInner(p[1], p[2])]

LEMMA InnerSteps ==
    ASSUME NEW codec \in Coding2, NEW s \in Streams(codec), NEW t \in Seq(Full)
    PROVE  FoldLeft(WriteInner, s, t) = Stepped(InnerStep(codec), s, t)
<1> DEFINE n == Len(t)
           IsFold(f) == f = [T \in SUBSET (1 .. n) |->
                               IF T = {} THEN s ELSE WriteInner(f[T \ {Max(T)}], t[Max(T)])]
<1>1. DOMAIN t = 1 .. n /\ n \in Nat
  OBVIOUS
<1>2. FoldLeft(WriteInner, s, t) = (CHOOSE f : IsFold(f))[1 .. n]
  BY <1>1, Zenon DEF FoldLeft, MapThenFoldSet
<1>3. \A x \in Streams(codec), y \in Full :
         InnerStep(codec)[<<x, y>>] = WriteInner(x, y) /\ InnerStep(codec)[<<x, y>>] \in Streams(codec)
  BY WriteInnerType DEF InnerStep
<1>4. PICK f : IsSteps(f, InnerStep(codec), s, t, n)
  BY <1>1, StepsExist
<1>5. \A T \in SUBSET (1 .. n) :
         /\ f[T] \in Streams(codec)
         /\ T # {} => f[T \ {Max(T)}] \in Streams(codec) /\ t[Max(T)] \in Full
  <2>1. \A x \in Streams(codec), y \in Full : InnerStep(codec)[<<x, y>>] \in Streams(codec)
    BY <1>3
  <2>2. QED
    BY <1>4, <2>1, StepsType
<1>6. IsFold(f)
  <2>1. \A T \in SUBSET (1 .. n) :
           (IF T = {} THEN s ELSE InnerStep(codec)[<<f[T \ {Max(T)}], t[Max(T)]>>])
             = IF T = {} THEN s ELSE WriteInner(f[T \ {Max(T)}], t[Max(T)])
    BY <1>3, <1>5
  <2>2. f = [T \in SUBSET (1 .. n) |->
               IF T = {} THEN s ELSE InnerStep(codec)[<<f[T \ {Max(T)}], t[Max(T)]>>]]
    BY <1>4 DEF IsSteps
  <2>3. QED
    BY <2>1, <2>2
<1>7. PICK g : IsFold(g) /\ FoldLeft(WriteInner, s, t) = g[1 .. n]
  <2> HIDE DEF IsFold
  <2>1. QED
    BY <1>2, <1>6
<1>8. g[1 .. 0] = s
  <2>1. 1 .. 0 = {} /\ {} \in SUBSET (1 .. n)
    OBVIOUS
  <2>2. QED
    BY <1>7, <2>1
<1>9. ASSUME NEW m \in 0 .. n - 1
      PROVE  LET T == 1 .. m
                 x == t[m + 1]
             IN g[1 .. m + 1] = WriteInner(g[T], x)
  <2> DEFINE U == 1 .. m + 1
  <2>1. U # {} /\ U \in SUBSET (1 .. n) /\ Max(U) = m + 1 /\ U \ {m + 1} = 1 .. m
    BY <1>1, OneMore
  <2> HIDE DEF U
  <2>2. g[U] = LET T == U IN WriteInner(g[T \ {Max(T)}], t[Max(T)])
    BY <1>7, <2>1
  <2>3. QED
    BY <2>1, <2>2 DEF U
<1> DEFINE h == [i \in 0 .. n |-> g[1 .. i]]
           N == {m \in 0 .. n : h[m] \in Streams(codec)}
<1> HIDE DEF IsFold
<1>10. 0 \in N
  BY <1>1, <1>8
<1>11. \A m \in 0 .. n - 1 : m \in N => m + 1 \in N
  <2> SUFFICES ASSUME NEW m \in 0 .. n - 1, h[m] \in Streams(codec)
               PROVE  h[m + 1] \in Streams(codec)
    <3> HIDE DEF h
    <3>1. QED
      BY <1>1
  <2>1. t[m + 1] \in Full
    BY <1>1
  <2>2. h[m] = g[1 .. m] /\ h[m + 1] = g[1 .. m + 1]
    BY <1>1
  <2>3. QED
    BY <1>3, <1>9, <2>1, <2>2
<1>12. \A m \in 0 .. n : m \in N
  <2> HIDE DEF N, h, n
  <2>1. QED
    BY <1>1, <1>10, <1>11, InductionUpTo
<1>13. GoesThrough(h, InnerStep(codec), s, t)
  <2>1. h[0] = s
    BY <1>1, <1>8
  <2>2. ASSUME NEW m \in 0 .. Len(t) - 1
        PROVE  h[m + 1] = InnerStep(codec)[<<h[m], t[m + 1]>>]
    <3>1. t[m + 1] \in Full
      BY <1>1
    <3>2. h[m] = g[1 .. m] /\ h[m + 1] = g[1 .. m + 1] /\ h[m] \in Streams(codec)
      BY <1>1, <1>12
    <3>3. QED
      BY <1>3, <1>9, <3>1, <3>2
  <2>3. QED
    BY <2>1, <2>2 DEF GoesThrough
<1>14. Stepped(InnerStep(codec), s, t) = h[n]
  <2> HIDE DEF h
  <2>1. QED
    BY <1>13, SteppedIs
<1>15. h[n] = g[1 .. n]
  BY <1>1
<1>16. QED
  <2> HIDE DEF h, n
  <2>1. QED
    BY <1>7, <1>14, <1>15, Zenon

LEMMA Associative ==
    ASSUME NEW u \in Seq(Byte), NEW v \in Seq(Byte), NEW w \in Seq(Byte)
    PROVE  (u \o v) \o w = u \o (v \o w)
BY ConcatAssociative

Regrouped(u, v, w) == (u \o v) \o w = u \o (v \o w)

LEMMA Regroup ==
    ASSUME NEW u \in Seq(Byte), NEW v \in Seq(Byte), NEW w \in Seq(Byte)
    PROVE  Regrouped(u, v, w)
BY Associative DEF Regrouped

LEMMA AdvancedTwice ==
    ASSUME NEW codec \in Coding2, NEW r \in Streams(codec), NEW s, NEW z,
           Advanced(r, s), Advanced(s, z)
    PROVE  Advanced(r, z)
<1>1. PICK q \in Seq(Byte), o \in Seq(Byte) : q = Queued(r.back) /\ o = r.coder.out
  <2>1. r.back \in Buffers /\ r.coder \in Coders(codec)
    BY DEF Streams
  <2>2. Queued(r.back) \in Seq(Byte)
    BY <2>1, QueuedType
  <2>3. r.coder.out \in Seq(Byte)
    BY <2>1 DEF Coders, Encoder, Decoder, Coding2
  <2>4. QED
    BY <2>2, <2>3
<1>2. PICK u \in Seq(Byte) : s.coder.out = o \o u /\ Queued(s.back) = q \o u
  BY <1>1 DEF Advanced
<1>3. PICK v \in Seq(Byte) : /\ z.coder.out = s.coder.out \o v
                             /\ Queued(z.back) = Queued(s.back) \o v
  BY DEF Advanced
<1>4. (o \o u) \o v = o \o (u \o v)
  BY ConcatAssociative
<1>5. (q \o u) \o v = q \o (u \o v)
  BY ConcatAssociative
<1>6. u \o v \in Seq(Byte)
  OBVIOUS
<1>7. QED
  BY <1>1, <1>2, <1>3, <1>4, <1>5, <1>6 DEF Advanced

LEMMA AdvancedItself ==
    ASSUME NEW codec \in Coding2, NEW s \in Streams(codec)
    PROVE  Advanced(s, s)
<1>1. s.back \in Buffers /\ s.coder \in Coders(codec)
  BY DEF Streams
<1>2. Queued(s.back) \in Seq(Byte)
  BY <1>1, QueuedType
<1>3. s.coder.out \in Seq(Byte)
  BY <1>1 DEF Coders, Encoder, Decoder, Coding2
<1>4. s.coder.out \o <<>> = s.coder.out /\ Queued(s.back) \o <<>> = Queued(s.back)
  BY <1>2, <1>3
<1>5. <<>> \in Seq(Byte)
  OBVIOUS
<1>6. QED
  BY <1>4, <1>5 DEF Advanced

LEMMA FlattenFull ==
    ASSUME NEW ss \in Seq(Full)
    PROVE  /\ ss \in Seq(Seq(Byte)) /\ FlattenSeq(ss) \in Seq(Byte)
           /\ ss # <<>> => FlattenSeq(ss) # <<>>
<1> DEFINE P == {tt \in Seq(Full) : /\ tt \in Seq(Seq(Byte)) /\ FlattenSeq(tt) \in Seq(Byte)
                                    /\ tt # <<>> => FlattenSeq(tt) # <<>>}
<1>1. <<>> \in P
  <2>1. <<>> \in Seq(Full) /\ <<>> \in Seq(Seq(Byte)) /\ <<>> \in Seq(Byte)
    OBVIOUS
  <2>2. QED
    BY <2>1, FlattenEmpty
<1>2. \A tt \in Seq(Full), p \in Full : tt \in P => Append(tt, p) \in P
  <2> SUFFICES ASSUME NEW tt \in Seq(Full), NEW p \in Full, tt \in P
               PROVE  Append(tt, p) \in P
    OBVIOUS
  <2>1. p \in Seq(Byte) /\ p # <<>>
    BY DEF Full
  <2>2. PICK f \in Seq(Byte) : f = FlattenSeq(tt)
    OBVIOUS
  <2>3. FlattenSeq(Append(tt, p)) = f \o p
    BY <2>1, <2>2, FlattenAppend
  <2>4. f \o p \in Seq(Byte) /\ f \o p # <<>>
    BY <2>1
  <2>5. Append(tt, p) \in Seq(Full)
    OBVIOUS
  <2>6. Append(tt, p) \in Seq(Seq(Byte))
    BY <2>1
  <2>7. QED
    BY <2>3, <2>4, <2>5, <2>6
<1> HIDE DEF P
<1>3. ss \in P
  BY <1>1, <1>2, SequenceInduction
<1>4. QED
  BY <1>3 DEF P

\* The pieces of the front buffer are coded one after the other.
LEMMA CodingIs ==
    ASSUME NEW codec \in Coding2, NEW s \in Streams(codec), NEW t \in Seq(Byte),
           NEW x \in BOOLEAN, s.coder = CoderBehind(codec, t, x),
           NEW pieces \in Seq(Full), s.front.pieces = pieces,
           pieces # <<>> => Tells(t, pieces[1], x)
    PROVE  /\ Coding(s) \in Streams(codec)
           /\ Coding(s).front = [held |-> s.front.held, pieces |-> <<>>]
           /\ Coding(s).coder = CoderBehind(codec, t \o FlattenSeq(pieces), x)
           /\ Advanced(s, Coding(s))
<1>1. PICK h \in Seq(Byte), e \in Seq(Seq(Byte)) : h = s.front.held /\ e = <<>>
  <2>1. s.front \in Buffers
    BY DEF Streams
  <2>2. s.front.held \in Seq(Byte) /\ <<>> \in Seq(Seq(Byte))
    BY <2>1 DEF Buffers
  <2>3. QED
    BY <2>2
<1>2. PICK f \in Buffers : f = [held |-> h, pieces |-> e]
  <2>1. [held |-> h, pieces |-> e] \in Buffers
    BY DEF Buffers
  <2>2. QED
    BY <2>1
<1>3. PICK r \in Streams(codec) :
         /\ r = [s EXCEPT !.front.pieces = <<>>]
         /\ r.front = f /\ r.coder = s.coder /\ r.back = s.back
  <2>1. s.front \in Buffers
    BY DEF Streams
  <2>2. [s.front EXCEPT !.pieces = <<>>] = f
    BY <1>1, <1>2, <2>1 DEF Buffers
  <2>3. [s EXCEPT !.front.pieces = <<>>] = [s EXCEPT !.front = f]
    BY <2>2
  <2>4. /\ [s EXCEPT !.front = f] \in Streams(codec)
        /\ [s EXCEPT !.front = f].front = f
        /\ [s EXCEPT !.front = f].coder = s.coder
        /\ [s EXCEPT !.front = f].back = s.back
    BY DEF Streams
  <2>5. QED
    BY <2>3, <2>4
<1>4. Coding(s) = Stepped(InnerStep(codec), r, pieces)
  BY <1>3, InnerSteps DEF Coding
<1> DEFINE Z(pp) == Stepped(InnerStep(codec), r, pp)
           P == {pp \in Seq(Full) :
                   (pp # <<>> => Tells(t, pp[1], x))
                   => /\ Z(pp) \in Streams(codec) /\ Z(pp).front = f
                      /\ Z(pp).coder = CoderBehind(codec, t \o FlattenSeq(pp), x)
                      /\ Advanced(r, Z(pp))}
<1>5. <<>> \in P
  <2>1. Z(<<>>) = r
    BY SteppedEmpty
  <2>2. t \o FlattenSeq(<<>>) = t
    BY FlattenEmpty
  <2>3. Advanced(r, r)
    BY AdvancedItself
  <2> HIDE DEF Z
  <2>4. <<>> \in Seq(Full)
    OBVIOUS
  <2>5. /\ Z(<<>>) \in Streams(codec) /\ Z(<<>>).front = f
        /\ Z(<<>>).coder = CoderBehind(codec, t, x) /\ Advanced(r, Z(<<>>))
    BY <1>3, <2>1, <2>3
  <2>6. QED
    BY <2>2, <2>4, <2>5
<1>6. \A pp \in Seq(Full), p \in Full : pp \in P => Append(pp, p) \in P
  <2> SUFFICES ASSUME NEW pp \in Seq(Full), NEW p \in Full, pp \in P,
                      Tells(t, Append(pp, p)[1], x)
               PROVE  /\ Z(Append(pp, p)) \in Streams(codec) /\ Z(Append(pp, p)).front = f
                      /\ Z(Append(pp, p)).coder
                           = CoderBehind(codec, t \o FlattenSeq(Append(pp, p)), x)
                      /\ Advanced(r, Z(Append(pp, p)))
    <3> HIDE DEF Z
    <3>1. ASSUME NEW pp \in Seq(Full), NEW p \in Full
          PROVE  Append(pp, p) \in Seq(Full) /\ Append(pp, p) # <<>>
      BY AppendProperties
    <3>2. QED
      BY <3>1
  <2>1. p \in Seq(Byte) /\ p # <<>>
    BY DEF Full
  <2>2. PICK g \in Seq(Byte) :
           /\ g = FlattenSeq(pp) /\ pp \in Seq(Seq(Byte)) /\ (pp # <<>> => g # <<>>)
    BY FlattenFull
  <2>3. pp # <<>> => Append(pp, p)[1] = pp[1]
    OBVIOUS
  <2>4. PICK z \in Streams(codec) :
           /\ z = Z(pp) /\ z.front = f /\ z.coder = CoderBehind(codec, t \o g, x)
           /\ Advanced(r, z)
    <3> HIDE DEF Z
    <3>1. QED
      BY <2>2, <2>3
  <2>5. Z(Append(pp, p)) = WriteInner(z, p)
    <3>1. Z(Append(pp, p)) = InnerStep(codec)[<<Z(pp), p>>]
      BY SteppedAppend
    <3> HIDE DEF Z
    <3>2. QED
      BY <2>4, <3>1 DEF InnerStep
  <2>6. Tells(t \o g, p, x)
    <3>1. CASE pp = <<>>
      <4>1. Append(pp, p)[1] = p
        BY <3>1
      <4>2. Tells(t, p, x)
        BY <4>1
      <4>3. t # <<>> => t \o g # <<>>
        OBVIOUS
      <4>4. QED
        BY <4>2, <4>3 DEF Tells
    <3>2. CASE pp # <<>>
      <4>1. t \o g # <<>>
        BY <2>2, <3>2
      <4>2. QED
        BY <4>1 DEF Tells
    <3>3. QED
      BY <3>1, <3>2
  <2>7. Coded1(codec, CoderBehind(codec, t \o g, x), p) = CoderBehind(codec, (t \o g) \o p, x)
    <3>1. t \o g \in Seq(Byte) /\ codec \in {"encode", "decode"}
      BY DEF Coding2
    <3>2. QED
      BY <2>1, <2>6, <3>1, CodesMore
  <2>8. (t \o g) \o p = t \o FlattenSeq(Append(pp, p))
    <3>1. FlattenSeq(Append(pp, p)) = g \o p
      BY <2>1, <2>2, FlattenAppend
    <3>2. PICK q \in Seq(Byte) : q = p
      BY <2>1
    <3>3. (t \o g) \o q = t \o (g \o q)
      <4>1. t \in Seq(Byte) /\ g \in Seq(Byte) /\ q \in Seq(Byte)
        BY <2>2, <3>2
      <4>2. Regrouped(t, g, q)
        BY <4>1, Regroup
      <4>3. QED
        BY <4>2 DEF Regrouped
    <3>4. QED
      BY <3>1, <3>2, <3>3
  <2>9. /\ WriteInner(z, p) \in Streams(codec) /\ WriteInner(z, p).front = z.front
        /\ WriteInner(z, p).coder = Coded1(codec, z.coder, p)
        /\ Advanced(z, WriteInner(z, p))
    BY <2>1, WriteInnerIs
  <2>10. Advanced(r, WriteInner(z, p))
    BY <2>4, <2>9, AdvancedTwice
  <2> HIDE DEF Z
  <2>11. QED
    BY <2>4, <2>5, <2>7, <2>8, <2>9, <2>10
<1>7. pieces \in P
  <2> HIDE DEF P
  <2>1. QED
    BY <1>5, <1>6, SequenceInduction
<1>8. Advanced(r, Z(pieces)) => Advanced(s, Z(pieces))
  BY <1>3 DEF Advanced
<1> HIDE DEF Z
<1>9. QED
  BY <1>1, <1>2, <1>4, <1>7, <1>8 DEF Z

\* The stream s has got of the data src what is in front of rest; t of it is through
\* the codec, and w of what the codec made is in the file.
Keeps(s, w, codec, src, rest, t, textual) ==
    /\ s \in Streams(codec) /\ s.front.pieces = <<>>
    /\ codec = "none" => s.front.held = <<>>
    /\ codec # "none" => s.coder = CoderBehind(codec, t, textual)
    /\ w \o Queued(s.back) = Passes(codec, t, textual)
    /\ src = t \o (s.front.held \o rest)

LEMMA StreamParts ==
    ASSUME NEW codec, NEW s \in Streams(codec)
    PROVE  /\ s.codec = codec /\ s.front \in Buffers /\ s.back \in Buffers
           /\ s.coder \in Coders(codec)
           /\ s.front.held \in Seq(Byte) /\ s.back.held \in Seq(Byte)
           /\ s.front.pieces \in Seq(Seq(Byte)) /\ s.back.pieces \in Seq(Seq(Byte))
           /\ Queued(s.back) \in Seq(Byte)
<1>1. /\ s.codec = codec /\ s.front \in Buffers /\ s.back \in Buffers
      /\ s.coder \in Coders(codec)
  BY DEF Streams
<1>2. \A b \in Buffers : b.held \in Seq(Byte) /\ b.pieces \in Seq(Seq(Byte))
  BY DEF Buffers
<1>3. QED
  BY <1>1, <1>2, QueuedType

LEMMA EmptyBufferIs ==
    EmptyBuffer \in Buffers /\ Queued(EmptyBuffer) = <<>>
    /\ EmptyBuffer.held = <<>> /\ EmptyBuffer.pieces = <<>>
<1>1. PICK h \in Seq(Byte), p \in Seq(Seq(Byte)) : h = <<>> /\ p = <<>>
  <2>1. <<>> \in Seq(Byte) /\ <<>> \in Seq(Seq(Byte))
    OBVIOUS
  <2>2. QED
    BY <2>1
<1>2. EmptyBuffer = [held |-> h, pieces |-> p]
  BY <1>1 DEF EmptyBuffer
<1>3. EmptyBuffer \in Buffers
  BY <1>2 DEF Buffers
<1>4. EmptyBuffer.held = <<>> /\ EmptyBuffer.pieces = <<>>
  BY <1>1, <1>2
<1>5. <<>> \o <<>> = <<>>
  OBVIOUS
<1>6. QED
  BY <1>3, <1>4, <1>5, FlattenEmpty DEF Queued

LEMMA KeepsNew ==
    ASSUME NEW codec \in Codecs, NEW src \in Seq(Byte), NEW x \in BOOLEAN
    PROVE  Keeps(NewStream(codec), <<>>, codec, src, src, <<>>, x)
<1>1. PICK h \in Seq(Byte) : h = IF codec = "encode" THEN Times(Page, NUL) ELSE <<>>
  <2>1. Times(Page, NUL) \in Seq(Byte)
    <3>1. NUL \in Byte
      BY DEF NUL, Byte
    <3>2. QED
      BY <3>1, Sizes, TimesIs
  <2>2. <<>> \in Seq(Byte)
    OBVIOUS
  <2>3. QED
    BY <2>1, <2>2
<1>2. PICK b \in Buffers : b = WriteCharacters(EmptyBuffer, h) /\ Queued(b) = h
  <2>1. /\ WriteCharacters(EmptyBuffer, h) \in Buffers
        /\ Queued(WriteCharacters(EmptyBuffer, h)) = <<>> \o h
    BY EmptyBufferIs, WriteCharactersIs
  <2>2. <<>> \o h = h
    OBVIOUS
  <2>3. QED
    BY <2>1, <2>2
<1>3. PICK e \in Buffers : e = EmptyBuffer /\ e.held = <<>> /\ e.pieces = <<>>
  BY EmptyBufferIs
<1>4. PICK c \in Coders(codec) : c = Coder(codec)
  BY CoderType
<1>5. NewStream(codec) = [codec |-> codec, front |-> e, coder |-> c, back |-> b]
  BY <1>1, <1>2, <1>3, <1>4 DEF NewStream
<1>6. /\ NewStream(codec) \in Streams(codec) /\ NewStream(codec).front = e
      /\ NewStream(codec).coder = c /\ NewStream(codec).back = b
  BY <1>5 DEF Streams
<1>7. codec # "none" => c = CoderBehind(codec, <<>>, x)
  BY <1>4, CoderBehindNothing DEF Codecs
<1>8. <<>> \o Queued(b) = Passes(codec, <<>>, x)
  <2>1. <<>> \o h = h
    OBVIOUS
  <2>2. codec = "encode" => c.out = h
    BY <1>1, <1>4, CoderType
  <2>3. codec = "decode" => c.out = h
    BY <1>1, <1>4, CoderType
  <2>4. codec = "none" => h = <<>>
    BY <1>1
  <2>5. QED
    BY <1>2, <1>7, <2>1, <2>2, <2>3, <2>4 DEF Passes, Codecs
<1>9. src = <<>> \o (<<>> \o src)
  OBVIOUS
<1>10. QED
  BY <1>3, <1>6, <1>7, <1>8, <1>9 DEF Keeps

\* As long as nothing is through the codec, no piece was looked at.
LEMMA KeepsAny ==
    ASSUME NEW codec \in Codecs, NEW s, NEW w, NEW src, NEW rest, NEW x \in BOOLEAN,
           NEW y \in BOOLEAN, Keeps(s, w, codec, src, rest, <<>>, x)
    PROVE  Keeps(s, w, codec, src, rest, <<>>, y)
<1>1. codec # "none" => CoderBehind(codec, <<>>, x) = CoderBehind(codec, <<>>, y)
  BY CoderBehindNothing DEF Codecs
<1>2. Passes(codec, <<>>, x) = Passes(codec, <<>>, y)
  BY <1>1 DEF Passes
<1>3. QED
  BY <1>1, <1>2 DEF Keeps

\* What a buffer with no pieces pushes out.
LEMMA FrontIs ==
    ASSUME NEW b \in Buffers, b.pieces = <<>>, NEW data \in Full
    PROVE  LET z == WriteTo(b, data)
           IN /\ z.pieces \in Seq(Full)
              /\ \/ /\ z.pieces = <<>> /\ z.held = b.held \o data /\ Len(z.held) <= Buffer
                 \/ /\ z.pieces # <<>>
                    /\ z.pieces[1] = IF b.held # <<>> THEN b.held ELSE data
<1> DEFINE z == WriteTo(b, data)
<1>1. b.held \in Seq(Byte) /\ data \in Seq(Byte) /\ data # <<>>
  BY DEF Buffers, Full
<1>2. CASE Len(b.held) + Len(data) <= Buffer
  <2>1. z = [b EXCEPT !.held = b.held \o data]
    BY <1>2 DEF WriteTo
  <2>2. z.pieces = <<>> /\ z.held = b.held \o data
    BY <2>1 DEF Buffers
  <2>3. Len(b.held \o data) = Len(b.held) + Len(data)
    BY <1>1
  <2>4. <<>> \in Seq(Full)
    OBVIOUS
  <2> HIDE DEF z
  <2>5. QED
    BY <1>2, <2>2, <2>3, <2>4 DEF z
<1>3. PICK o \in Seq(Full) : /\ o = IF b.held = <<>> THEN b.pieces ELSE Append(b.pieces, b.held)
                             /\ o = IF b.held = <<>> THEN <<>> ELSE <<b.held>>
  <2>1. Append(<<>>, b.held) = <<b.held>> /\ <<>> \in Seq(Full)
    OBVIOUS
  <2>2. b.held # <<>> => b.held \in Full
    BY <1>1 DEF Full
  <2>3. b.held # <<>> => <<b.held>> \in Seq(Full)
    BY <2>2
  <2>4. QED
    BY <2>1, <2>3
<1>4. CASE ~ (Len(b.held) + Len(data) <= Buffer) /\ Len(data) < Buffer
  <2>1. z = [held |-> data, pieces |-> o]
    BY <1>3, <1>4 DEF WriteTo
  <2>2. z.pieces = o
    BY <2>1
  <2>3. b.held # <<>>
    <3>1. Len(b.held) # 0
      BY <1>1, <1>4, Sizes
    <3>2. QED
      BY <3>1
  <2>4. o = <<b.held>> /\ o # <<>> /\ o[1] = b.held
    BY <1>3, <2>3
  <2> HIDE DEF z
  <2>5. QED
    BY <2>2, <2>3, <2>4 DEF z
<1>5. CASE ~ (Len(b.held) + Len(data) <= Buffer) /\ ~ (Len(data) < Buffer)
  <2>1. z = [held |-> <<>>, pieces |-> Append(o, data)]
    BY <1>3, <1>5 DEF WriteTo
  <2>2. z.pieces = Append(o, data)
    BY <2>1
  <2>3. Append(o, data) \in Seq(Full) /\ Append(o, data) # <<>>
    BY AppendProperties
  <2>4. Append(o, data)[1] = IF b.held # <<>> THEN b.held ELSE data
    <3>1. CASE b.held = <<>>
      <4>1. o = <<>>
        BY <1>3, <3>1
      <4>2. QED
        BY <3>1, <4>1
    <3>2. CASE b.held # <<>>
      <4>1. o = <<b.held>>
        BY <1>3, <3>2
      <4>2. Append(<<b.held>>, data)[1] = b.held
        OBVIOUS
      <4>3. QED
        BY <3>2, <4>1, <4>2
    <3>3. QED
      BY <3>1, <3>2
  <2> HIDE DEF z
  <2>5. QED
    BY <2>2, <2>3, <2>4 DEF z
<1>6. QED
  BY <1>2, <1>4, <1>5

\* The buffer in front of the codec is f once it got more; x is whether the first
\* piece for the codec is a text in the system's format, t what the codec got before.
Handed(s, f, more, t, x) ==
    /\ f \in Buffers /\ f.pieces \in Seq(Full) /\ Queued(f) = s.front.held \o more
    /\ f.pieces # <<>> => Tells(t, f.pieces[1], x)

\* The front buffer after some data, before the codec gets its pieces: f.  What is
\* held of the data so far goes on to be the data that is not through the codec.
LEMMA KeepsCoding ==
    ASSUME NEW codec \in Coding2, NEW s, NEW w \in Seq(Byte), NEW src, NEW rest \in Seq(Byte),
           NEW t \in Seq(Byte), NEW x \in BOOLEAN, NEW more \in Seq(Byte),
           Keeps(s, w, codec, src, more \o rest, t, x),
           NEW f, Handed(s, f, more, t, x)
    PROVE  /\ Keeps(Coding([s EXCEPT !.front = f]), w, codec, src, rest,
                    t \o FlattenSeq(f.pieces), x)
           /\ Coding([s EXCEPT !.front = f]).front.held = f.held
<1>1. PICK pieces \in Seq(Full) :
         /\ pieces = f.pieces /\ f \in Buffers /\ (pieces # <<>> => Tells(t, pieces[1], x))
         /\ Queued(f) = s.front.held \o more
  BY DEF Handed
<1>2. PICK g \in Seq(Byte), h \in Seq(Byte) : g = FlattenSeq(pieces) /\ h = f.held
  <2>1. f.held \in Seq(Byte)
    BY <1>1 DEF Buffers
  <2>2. QED
    BY <2>1, FlattenFull
<1>3. s \in Streams(codec) /\ codec # "none" /\ codec \in Codecs
  BY DEF Keeps, Coding2, Codecs
<1>4. PICK r \in Streams(codec) :
         /\ r = [s EXCEPT !.front = f] /\ r.front = f /\ r.coder = s.coder /\ r.back = s.back
  <2>1. /\ [s EXCEPT !.front = f] \in Streams(codec) /\ [s EXCEPT !.front = f].front = f
        /\ [s EXCEPT !.front = f].coder = s.coder /\ [s EXCEPT !.front = f].back = s.back
    BY <1>1, <1>3 DEF Streams
  <2>2. QED
    BY <2>1
<1>5. r.coder = CoderBehind(codec, t, x)
  BY <1>3, <1>4 DEF Keeps
<1>6. PICK z \in Streams(codec) :
         /\ z = Coding(r) /\ z.front = [held |-> h, pieces |-> <<>>]
         /\ z.coder = CoderBehind(codec, t \o g, x) /\ Advanced(r, z)
  <2>1. r.front.pieces = pieces /\ r.front.held = h
    BY <1>1, <1>2, <1>4
  <2>2. pieces # <<>> => Tells(t, pieces[1], x)
    BY <1>1
  <2>3. /\ Coding(r) \in Streams(codec)
        /\ Coding(r).front = [held |-> r.front.held, pieces |-> <<>>]
        /\ Coding(r).coder = CoderBehind(codec, t \o FlattenSeq(pieces), x)
        /\ Advanced(r, Coding(r))
    <3>1. r \in Streams(codec) /\ pieces \in Seq(Full) /\ r.front.pieces = pieces
      BY <1>1, <1>4, <2>1
    <3>2. QED
      BY <1>5, <2>2, <3>1, CodingIs
  <2>4. QED
    BY <1>2, <2>1, <2>3
<1>7. z.front.pieces = <<>> /\ z.front.held = h
  BY <1>6
<1>8. w \o Queued(z.back) = Passes(codec, t \o g, x)
  <2>1. PICK v \in Seq(Byte) : /\ z.coder.out = r.coder.out \o v
                               /\ Queued(z.back) = Queued(r.back) \o v
    BY <1>6 DEF Advanced
  <2>2. PICK q \in Seq(Byte) : q = Queued(r.back)
    BY <1>4, StreamParts
  <2>3. (w \o q) \o v = w \o (q \o v)
    <3>1. w \in Seq(Byte) /\ q \in Seq(Byte) /\ v \in Seq(Byte)
      BY <2>1, <2>2
    <3>2. Regrouped(w, q, v)
      BY <3>1, Regroup
    <3>3. QED
      BY <3>2 DEF Regrouped
  <2>4. w \o q = r.coder.out
    BY <1>3, <1>4, <2>2 DEF Keeps, Passes
  <2>5. QED
    BY <1>3, <1>6, <2>1, <2>2, <2>3, <2>4 DEF Passes
<1>9. src = (t \o g) \o (h \o rest)
  <2>1. PICK b \in Seq(Byte) : b = s.front.held
    BY <1>3, StreamParts
  <2>2. src = t \o (b \o (more \o rest))
    BY <2>1 DEF Keeps
  <2>3. (b \o more) \o rest = b \o (more \o rest)
    <3>1. b \in Seq(Byte) /\ more \in Seq(Byte) /\ rest \in Seq(Byte)
      BY <2>1
    <3>2. Regrouped(b, more, rest)
      BY <3>1, Regroup
    <3>3. QED
      BY <3>2 DEF Regrouped
  <2>4. b \o more = g \o h
    BY <1>1, <1>2, <2>1 DEF Queued
  <2>5. (g \o h) \o rest = g \o (h \o rest)
    <3>1. g \in Seq(Byte) /\ h \in Seq(Byte) /\ rest \in Seq(Byte)
      BY <1>2
    <3>2. Regrouped(g, h, rest)
      BY <3>1, Regroup
    <3>3. QED
      BY <3>2 DEF Regrouped
  <2>6. PICK k \in Seq(Byte) : k = h \o rest
    <3>1. h \o rest \in Seq(Byte)
      OBVIOUS
    <3>2. QED
      BY <3>1
  <2>7. (t \o g) \o k = t \o (g \o k)
    <3>1. t \in Seq(Byte) /\ g \in Seq(Byte) /\ k \in Seq(Byte)
      BY <1>2, <2>6
    <3>2. Regrouped(t, g, k)
      BY <3>1, Regroup
    <3>3. QED
      BY <3>2 DEF Regrouped
  <2>8. QED
    BY <2>2, <2>3, <2>4, <2>5, <2>6, <2>7
<1>10. Keeps(z, w, codec, src, rest, t \o g, x)
  BY <1>3, <1>6, <1>7, <1>8, <1>9 DEF Keeps
<1>11. QED
  BY <1>1, <1>2, <1>4, <1>6, <1>7, <1>10

\* The piece that is the first to reach the codec, if one does now.
FirstPiece(s, data) == IF s.front.held # <<>> THEN s.front.held ELSE data

\* Of the data u is through the codec now, t was before; if it is nothing yet, the
\* buffer holds all of it.
HeldBack(s, data, t, u) ==
    \/ u # <<>>
    \/ /\ u = <<>> /\ t = <<>>
       /\ Accept(s, data).front.held = s.front.held \o data
       /\ Len(s.front.held \o data) <= Buffer

\* A chunk of the data.
LEMMA KeepsAccept ==
    ASSUME NEW codec \in Codecs, NEW s, NEW w \in Seq(Byte), NEW src, NEW rest \in Seq(Byte),
           NEW t \in Seq(Byte), NEW x \in BOOLEAN, NEW data \in Full,
           Keeps(s, w, codec, src, data \o rest, t, x),
           codec # "none" => Tells(t, FirstPiece(s, data), x)
    PROVE  \E u \in Seq(Byte) :
              /\ Keeps(Accept(s, data), w, codec, src, rest, u, x)
              /\ HeldBack(s, data, t, u)
<1>1. s \in Streams(codec) /\ data \in Seq(Byte) /\ data # <<>>
  BY DEF Keeps, Full
<1>2. CASE codec = "none"
  <2>1. PICK b \in Buffers : b = WriteTo(s.back, data) /\ Queued(b) = Queued(s.back) \o data
    BY <1>1, StreamParts, WriteToIs
  <2>2. Accept(s, data) = [s EXCEPT !.back = b]
    BY <1>1, <1>2, <2>1, StreamParts DEF Accept
  <2>3. /\ Accept(s, data) \in Streams(codec) /\ Accept(s, data).back = b
        /\ Accept(s, data).front = s.front
    BY <1>1, <2>2 DEF Streams
  <2>4. PICK q \in Seq(Byte), d \in Seq(Byte), u \in Seq(Byte) :
           q = Queued(s.back) /\ d = data /\ u = t \o d /\ u # <<>>
    <3>1. t \o data \in Seq(Byte) /\ t \o data # <<>>
      BY <1>1
    <3>2. QED
      BY <1>1, <3>1, StreamParts
  <2>5. (w \o q) \o d = w \o (q \o d)
    <3>1. w \in Seq(Byte) /\ q \in Seq(Byte) /\ d \in Seq(Byte)
      BY <2>4
    <3>2. Regrouped(w, q, d)
      BY <3>1, Regroup
    <3>3. QED
      BY <3>2 DEF Regrouped
  <2>6. w \o Queued(Accept(s, data).back) = Passes(codec, u, x)
    BY <1>2, <2>1, <2>3, <2>4, <2>5 DEF Keeps, Passes
  <2>7. src = u \o (<<>> \o rest)
    <3>1. <<>> \o (d \o rest) = d \o rest /\ <<>> \o rest = rest
      OBVIOUS
    <3>2. (t \o d) \o rest = t \o (d \o rest)
      <4>1. t \in Seq(Byte) /\ d \in Seq(Byte) /\ rest \in Seq(Byte)
        BY <2>4
      <4>2. Regrouped(t, d, rest)
        BY <4>1, Regroup
      <4>3. QED
        BY <4>2 DEF Regrouped
    <3>3. src = t \o (<<>> \o (d \o rest))
      BY <1>2, <2>4 DEF Keeps
    <3>4. QED
      BY <2>4, <3>1, <3>2, <3>3
  <2>8. Keeps(Accept(s, data), w, codec, src, rest, u, x)
    BY <1>2, <2>3, <2>6, <2>7 DEF Keeps
  <2>9. QED
    BY <2>4, <2>8 DEF HeldBack
<1>3. CASE codec # "none"
  <2>1. codec \in Coding2
    BY <1>3 DEF Codecs, Coding2
  <2>2. PICK b \in Buffers : b = s.front /\ b.pieces = <<>> /\ b.held \in Seq(Byte)
    BY <1>1, StreamParts DEF Keeps
  <2>3. PICK f \in Buffers : f = WriteTo(b, data) /\ Queued(f) = b.held \o data
    <3>1. Queued(b) = b.held
      <4>1. <<>> \o b.held = b.held
        BY <2>2
      <4>2. QED
        BY <2>2, <4>1, FlattenEmpty DEF Queued
    <3>2. QED
      BY <1>1, <3>1, WriteToIs
  <2>4. /\ f.pieces \in Seq(Full)
        /\ \/ f.pieces = <<>> /\ f.held = b.held \o data /\ Len(f.held) <= Buffer
           \/ f.pieces # <<>> /\ f.pieces[1] = FirstPiece(s, data)
    BY <2>2, <2>3, FrontIs DEF FirstPiece
  <2>5. Accept(s, data) = Coding([s EXCEPT !.front = f])
    BY <1>1, <1>3, <2>2, <2>3, StreamParts DEF Accept
  <2>6. PICK g \in Seq(Byte) : g = FlattenSeq(f.pieces) /\ (f.pieces # <<>> => g # <<>>)
    BY <2>4, FlattenFull
  <2>7. /\ Keeps(Accept(s, data), w, codec, src, rest, t \o g, x)
        /\ Accept(s, data).front.held = f.held
    <3>1. Handed(s, f, data, t, x)
      BY <1>3, <2>2, <2>3, <2>4 DEF Handed
    <3>3. Keeps(s, w, codec, src, data \o rest, t, x)
      OBVIOUS
    <3>4. /\ Keeps(Coding([s EXCEPT !.front = f]), w, codec, src, rest,
                    t \o FlattenSeq(f.pieces), x)
          /\ Coding([s EXCEPT !.front = f]).front.held = f.held
      BY <1>1, <2>1, <3>1, <3>3, KeepsCoding
    <3>5. QED
      BY <2>5, <2>6, <3>4
  <2>8. t \o g \in Seq(Byte)
    OBVIOUS
  <2>9. CASE t \o g # <<>>
    BY <2>7, <2>8, <2>9 DEF HeldBack
  <2>10. CASE t \o g = <<>>
    <3>1. t = <<>> /\ g = <<>>
      BY <2>10
    <3>2. f.pieces = <<>>
      BY <2>6, <3>1
    <3>3. f.held = b.held \o data /\ Len(f.held) <= Buffer
      BY <2>4, <3>2
    <3>4. QED
      BY <2>2, <2>7, <2>8, <2>10, <3>1, <3>3 DEF HeldBack
  <2>11. QED
    BY <2>9, <2>10
<1>4. QED
  BY <1>2, <1>3

LEMMA KeepsBack ==
    ASSUME NEW codec \in Codecs, NEW s, NEW w, NEW src, NEW rest, NEW t, NEW x,
           Keeps(s, w, codec, src, rest, t, x)
    PROVE  LET z == [s EXCEPT !.back = FlushBuffer(@)]
           IN /\ Keeps(z, w, codec, src, rest, t, x)
              /\ z.front = s.front /\ z.back.held = <<>>
<1>1. s \in Streams(codec)
  BY DEF Keeps
<1>2. PICK b \in Buffers : /\ b = FlushBuffer(s.back) /\ b.held = <<>>
                           /\ Queued(b) = Queued(s.back)
  BY <1>1, StreamParts, FlushBufferIs
<1>3. PICK z \in Streams(codec) :
         /\ z = [s EXCEPT !.back = FlushBuffer(@)]
         /\ z.front = s.front /\ z.back = b /\ z.coder = s.coder
  <2>1. /\ [s EXCEPT !.back = b] \in Streams(codec)
        /\ [s EXCEPT !.back = b].front = s.front
        /\ [s EXCEPT !.back = b].back = b /\ [s EXCEPT !.back = b].coder = s.coder
    BY <1>1, <1>2 DEF Streams
  <2>2. [s EXCEPT !.back = FlushBuffer(@)] = [s EXCEPT !.back = b]
    BY <1>2
  <2>3. QED
    BY <2>1, <2>2
<1>4. Keeps(z, w, codec, src, rest, t, x)
  BY <1>2, <1>3 DEF Keeps
<1>5. QED
  BY <1>2, <1>3, <1>4

\* When nothing is left, all of the data is through.
LEMMA KeepsAll ==
    ASSUME NEW codec \in Codecs, NEW s, NEW w, NEW src, NEW t \in Seq(Byte), NEW x,
           Keeps(s, w, codec, src, <<>>, t, x), s.front.held = <<>>
    PROVE  src = t
<1>1. src = t \o (<<>> \o <<>>)
  BY DEF Keeps
<1>2. <<>> \o <<>> = <<>> /\ t \o <<>> = t
  OBVIOUS
<1>3. QED
  BY <1>1, <1>2

\* Flushing puts all of the data through the codec.
LEMMA KeepsFlush ==
    ASSUME NEW codec \in Codecs, NEW s, NEW w \in Seq(Byte), NEW src, NEW t \in Seq(Byte),
           NEW x \in BOOLEAN, Keeps(s, w, codec, src, <<>>, t, x),
           s.front.held # <<>> => Tells(t, s.front.held, x)
    PROVE  /\ Keeps(Flush(s), w, codec, src, <<>>, src, x) /\ src \in Seq(Byte)
           /\ Flush(s).front.held = <<>> /\ Flush(s).back.held = <<>>
<1>1. s \in Streams(codec) /\ s.codec = codec
  BY StreamParts DEF Keeps
<1>2. CASE codec = "none"
  <2>1. Flush(s) = [s EXCEPT !.back = FlushBuffer(@)] /\ s.front.held = <<>>
    BY <1>1, <1>2 DEF Flush, Keeps
  <2>2. src = t
    BY <2>1, KeepsAll
  <2>3. QED
    BY <2>1, <2>2, KeepsBack
<1>3. CASE codec # "none"
  <2>1. codec \in Coding2
    BY <1>3 DEF Codecs, Coding2
  <2>2. PICK h \in Seq(Byte) : h = s.front.held /\ s.front \in Buffers /\ s.front.pieces = <<>>
    BY <1>1, StreamParts DEF Keeps
  <2>3. PICK f \in Buffers : /\ f = FlushBuffer(s.front) /\ f.held = <<>>
                             /\ Queued(f) = Queued(s.front)
                             /\ f.pieces = Out(s.front)
    BY <2>2, FlushBufferIs
  <2>4. f.pieces = IF h = <<>> THEN <<>> ELSE <<h>>
    <3>1. Append(<<>>, h) = <<h>>
      OBVIOUS
    <3>2. QED
      BY <2>2, <2>3, <3>1 DEF Out
  <2>5. Queued(f) = h \o <<>>
    <3>1. <<>> \o h = h /\ h \o <<>> = h
      BY <2>2
    <3>2. QED
      BY <2>2, <2>3, <3>1, FlattenEmpty DEF Queued
  <2>6. Handed(s, f, <<>>, t, x)
    <3>1. f.pieces \in Seq(Full)
      <4>1. CASE h = <<>>
        <5>1. <<>> \in Seq(Full)
          OBVIOUS
        <5>2. QED
          BY <2>4, <4>1, <5>1
      <4>2. CASE h # <<>>
        <5>1. h \in Full
          BY <2>2, <4>2 DEF Full
        <5>2. <<h>> \in Seq(Full)
          BY <5>1
        <5>3. QED
          BY <2>4, <4>2, <5>2
      <4>3. QED
        BY <4>1, <4>2
    <3>2. f.pieces # <<>> => Tells(t, f.pieces[1], x)
      <4>1. <<h>>[1] = h
        OBVIOUS
      <4>2. QED
        BY <2>2, <2>4, <4>1
    <3>3. QED
      BY <2>2, <2>3, <2>5, <3>1, <3>2 DEF Handed
  <2>7. PICK g \in Seq(Byte) : g = FlattenSeq(f.pieces)
    BY <2>6, FlattenFull DEF Handed
  <2>8. PICK c : /\ c = Coding([s EXCEPT !.front = f])
                 /\ Keeps(c, w, codec, src, <<>>, t \o g, x) /\ c.front.held = <<>>
    <3>1. PICK e \in Seq(Byte) : e = <<>> /\ e \o e = e
      <4>1. <<>> \in Seq(Byte) /\ <<>> \o <<>> = <<>>
        OBVIOUS
      <4>2. QED
        BY <4>1
    <3>2. Keeps(s, w, codec, src, e \o e, t, x) /\ Handed(s, f, e, t, x) /\ e \in Seq(Byte)
      BY <2>6, <3>1
    <3>3. /\ Keeps(Coding([s EXCEPT !.front = f]), w, codec, src, e,
                   t \o FlattenSeq(f.pieces), x)
          /\ Coding([s EXCEPT !.front = f]).front.held = f.held
      BY <2>1, <3>2, KeepsCoding
    <3>4. QED
      BY <2>3, <2>7, <3>1, <3>3
  <2>9. src = t \o g /\ t \o g \in Seq(Byte)
    <3>1. t \o g \in Seq(Byte)
      BY <2>7
    <3>2. QED
      BY <2>8, <3>1, KeepsAll
  <2>10. Flush(s) = [c EXCEPT !.back = FlushBuffer(@)]
    <3>1. [s EXCEPT !.front = FlushBuffer(@)] = [s EXCEPT !.front = f]
      BY <2>3
    <3>2. QED
      BY <1>1, <1>3, <2>8, <3>1 DEF Flush
  <2>11. Keeps(c, w, codec, src, <<>>, src, x)
    BY <2>8, <2>9
  <2>12. /\ Keeps([c EXCEPT !.back = FlushBuffer(@)], w, codec, src, <<>>, src, x)
         /\ [c EXCEPT !.back = FlushBuffer(@)].front = c.front
         /\ [c EXCEPT !.back = FlushBuffer(@)].back.held = <<>>
    BY <2>11, KeepsBack
  <2>13. QED
    BY <2>8, <2>9, <2>10, <2>12
<1>4. QED
  BY <1>2, <1>3

\* What a closed stream leaves to be written.
Leaves(s, w, codec, src, x) ==
    /\ s \in Streams(codec) /\ s.back.held = <<>>
    /\ w \o Queued(s.back) = Made(codec, src, x)

LEMMA KeepsClose ==
    ASSUME NEW codec \in Codecs, NEW s, NEW w \in Seq(Byte), NEW src, NEW t \in Seq(Byte),
           NEW x \in BOOLEAN, Keeps(s, w, codec, src, <<>>, t, x),
           s.front.held # <<>> => Tells(t, s.front.held, x)
    PROVE  Leaves(CloseStream(s), w, codec, src, x)
<1>1. PICK f : /\ f = Flush(s) /\ Keeps(f, w, codec, src, <<>>, src, x)
               /\ src \in Seq(Byte) /\ f.back.held = <<>>
  BY KeepsFlush
<1>2. f \in Streams(codec) /\ f.codec = codec
  BY <1>1, StreamParts DEF Keeps
<1>3. PICK l \in Streams(codec) :
         /\ l = IF f.codec = "encode" THEN Passed(f, LastPage(f.coder)) ELSE f
         /\ w \o Queued(l.back) = Made(codec, src, x)
  <2>1. CASE codec = "encode"
    <3>1. PICK c \in Encoder : c = f.coder /\ c = CoderBehind(codec, src, x)
      <4>1. f.coder \in Encoder
        BY <1>2, <2>1, StreamParts DEF Coders
      <4>2. QED
        BY <1>1, <2>1, <4>1 DEF Keeps
    <3>2. PICK e \in Encoder : e = LastPage(c) /\ Longer(c.out, e.out)
      BY <3>1, LastPageIs
    <3>3. PICK l \in Streams(codec) :
             l = Passed(f, e) /\ l.coder = e /\ Advanced(f, l)
      <4>1. codec \in Coding2 /\ e \in Coders(codec) /\ Longer(f.coder.out, e.out)
        BY <2>1, <3>1, <3>2 DEF Coding2, Coders
      <4>2. QED
        BY <1>2, <4>1, PassedIs
    <3>4. PICK v \in Seq(Byte) : /\ e.out = c.out \o v
                                 /\ Queued(l.back) = Queued(f.back) \o v
      BY <3>1, <3>3 DEF Advanced
    <3>5. PICK q \in Seq(Byte) : q = Queued(f.back)
      BY <1>2, StreamParts
    <3>6. w \o q = c.out
      BY <1>1, <2>1, <3>1, <3>5 DEF Keeps, Passes
    <3>7. Regrouped(w, q, v)
      BY <3>4, <3>5, Regroup
    <3>8. e.out = Made(codec, src, x)
      BY <2>1, <3>1, <3>2 DEF Made
    <3>9. QED
      BY <1>2, <2>1, <3>1, <3>2, <3>3, <3>4, <3>5, <3>6, <3>7, <3>8 DEF Regrouped
  <2>2. CASE codec # "encode"
    <3>1. w \o Queued(f.back) = Made(codec, src, x)
      BY <1>1, <2>2 DEF Keeps, Made
    <3>2. QED
      BY <1>2, <2>2, <3>1
  <2>3. QED
    BY <2>1, <2>2
<1>4. PICK b \in Buffers : /\ b = FlushBuffer(l.back) /\ b.held = <<>>
                           /\ Queued(b) = Queued(l.back)
  BY <1>3, StreamParts, FlushBufferIs
<1>5. CloseStream(s) = [l EXCEPT !.back = b]
  BY <1>1, <1>3, <1>4 DEF CloseStream
<1>6. [l EXCEPT !.back = b] \in Streams(codec) /\ [l EXCEPT !.back = b].back = b
  BY <1>3, <1>4 DEF Streams
<1>7. QED
  BY <1>3, <1>4, <1>5, <1>6 DEF Leaves

LEMMA PieceIs ==
    ASSUME NEW codec \in Codecs, NEW s \in Streams(codec), Pending(s) # <<>>,
           NEW w \in Seq(Byte)
    PROVE  /\ PieceWritten(s) \in Streams(codec) /\ NextPiece(s) \in Seq(Byte)
           /\ PieceWritten(s).front = s.front /\ PieceWritten(s).coder = s.coder
           /\ PieceWritten(s).back.held = s.back.held
           /\ (w \o NextPiece(s)) \o Queued(PieceWritten(s).back) = w \o Queued(s.back)
<1>1. PICK pp \in Seq(Seq(Byte)), h \in Seq(Byte) :
         pp = s.back.pieces /\ pp # <<>> /\ h = s.back.held
  BY StreamParts DEF Pending
<1>2. PICK p \in Seq(Byte), tt \in Seq(Seq(Byte)) :
         p = Head(pp) /\ tt = Tail(pp) /\ pp = <<p>> \o tt
  <2>1. Head(pp) \in Seq(Byte) /\ Tail(pp) \in Seq(Seq(Byte)) /\ pp = <<Head(pp)>> \o Tail(pp)
    BY <1>1
  <2>2. QED
    BY <2>1
<1>3. PICK b \in Buffers : b = [s.back EXCEPT !.pieces = Tail(@)] /\ b.held = h /\ b.pieces = tt
  <2>1. s.back \in Buffers
    BY StreamParts
  <2>2. /\ [s.back EXCEPT !.pieces = tt] \in Buffers
        /\ [s.back EXCEPT !.pieces = tt].held = s.back.held
        /\ [s.back EXCEPT !.pieces = tt].pieces = tt
    BY <1>2, <2>1 DEF Buffers
  <2>3. [s.back EXCEPT !.pieces = Tail(@)] = [s.back EXCEPT !.pieces = tt]
    BY <1>1, <1>2
  <2>4. QED
    BY <1>1, <2>2, <2>3
<1>4. PieceWritten(s) = [s EXCEPT !.back = b]
  BY <1>3 DEF PieceWritten
<1>5. /\ [s EXCEPT !.back = b] \in Streams(codec)
      /\ [s EXCEPT !.back = b].front = s.front
      /\ [s EXCEPT !.back = b].back = b /\ [s EXCEPT !.back = b].coder = s.coder
  BY <1>3 DEF Streams
<1>6. PICK g \in Seq(Byte) : g = FlattenSeq(tt) /\ FlattenSeq(pp) = p \o g
  BY <1>2, FlattenCons, FlattenType
<1>7. Queued(s.back) = (p \o g) \o h /\ Queued(b) = g \o h
  BY <1>1, <1>3, <1>6 DEF Queued
<1>8. (w \o p) \o (g \o h) = w \o ((p \o g) \o h)
  <2>1. PICK k \in Seq(Byte) : k = g \o h
    <3>1. g \o h \in Seq(Byte)
      BY <1>1, <1>6
    <3>2. QED
      BY <3>1
  <2>2. Regrouped(p, g, h)
    BY <1>1, <1>2, <1>6, Regroup
  <2>3. Regrouped(w, p, k)
    BY <1>2, <2>1, Regroup
  <2>4. QED
    BY <2>1, <2>2, <2>3 DEF Regrouped
<1>9. NextPiece(s) = p
  BY <1>1, <1>2 DEF NextPiece, Pending
<1>10. QED
  BY <1>1, <1>2, <1>3, <1>4, <1>5, <1>7, <1>8, <1>9

LEMMA KeepsPiece ==
    ASSUME NEW codec \in Codecs, NEW s, NEW w \in Seq(Byte), NEW src, NEW rest, NEW t, NEW x,
           Keeps(s, w, codec, src, rest, t, x), Pending(s) # <<>>
    PROVE  /\ Keeps(PieceWritten(s), w \o NextPiece(s), codec, src, rest, t, x)
           /\ PieceWritten(s).front = s.front /\ PieceWritten(s).back.held = s.back.held
<1>1. s \in Streams(codec)
  BY DEF Keeps
<1>2. QED
  BY <1>1, PieceIs DEF Keeps

LEMMA LeavesPiece ==
    ASSUME NEW codec \in Codecs, NEW s, NEW w \in Seq(Byte), NEW src, NEW x,
           Leaves(s, w, codec, src, x), Pending(s) # <<>>
    PROVE  Leaves(PieceWritten(s), w \o NextPiece(s), codec, src, x)
<1>1. s \in Streams(codec)
  BY DEF Leaves
<1>2. QED
  BY <1>1, PieceIs DEF Leaves

\* In the end nothing is left.
LEMMA LeavesNothing ==
    ASSUME NEW codec \in Codecs, NEW s, NEW w \in Seq(Byte), NEW src, NEW x,
           Leaves(s, w, codec, src, x), Pending(s) = <<>>
    PROVE  w = Made(codec, src, x)
<1>1. Queued(s.back) = <<>>
  <2>1. <<>> \o <<>> = <<>>
    OBVIOUS
  <2>2. QED
    BY <2>1, FlattenEmpty DEF Leaves, Pending, Queued
<1>2. w \o <<>> = w
  OBVIOUS
<1>3. QED
  BY <1>1, <1>2 DEF Leaves

\* A stream that has been flushed leaves nothing when it is closed, but for the
\* encoder's last page.
LEMMA CloseEmpty ==
    ASSUME NEW codec \in Codecs, codec # "encode", NEW s \in Streams(codec),
           s.front = EmptyBuffer, s.back = EmptyBuffer
    PROVE  Pending(CloseStream(s)) = <<>>
<1>1. FlushBuffer(EmptyBuffer) = EmptyBuffer /\ EmptyBuffer.pieces = <<>>
  BY EmptyBufferIs DEF FlushBuffer
<1>2. s.codec = codec
  BY StreamParts
<1>3. [s EXCEPT !.front = EmptyBuffer] = s /\ [s EXCEPT !.back = EmptyBuffer] = s
  BY DEF Streams
<1>4. Coding(s) = s \/ codec = "none"
  <2>1. SUFFICES ASSUME codec # "none" PROVE Coding(s) = s
    OBVIOUS
  <2>2. codec \in Coding2
    BY <2>1 DEF Coding2, Codecs
  <2>3. [s EXCEPT !.front.pieces = <<>>] = s
    <3>1. [EmptyBuffer EXCEPT !.pieces = <<>>] = EmptyBuffer
      BY DEF EmptyBuffer
    <3>2. [s EXCEPT !.front.pieces = <<>>] = [s EXCEPT !.front = EmptyBuffer]
      BY <3>1
    <3>3. QED
      BY <1>3, <3>2
  <2>4. s.front.pieces = <<>> /\ <<>> \in Seq(Full)
    BY <1>1
  <2>5. FoldLeft(WriteInner, s, <<>>) = Stepped(InnerStep(codec), s, <<>>)
    BY <2>2, <2>4, InnerSteps
  <2>6. QED
    BY <2>3, <2>4, <2>5, SteppedEmpty DEF Coding
<1>5. [s EXCEPT !.front = FlushBuffer(@)] = s /\ [s EXCEPT !.back = FlushBuffer(@)] = s
  BY <1>1, <1>3
<1>6. Flush(s) = s
  BY <1>2, <1>4, <1>5 DEF Flush
<1>7. CloseStream(s) = s
  BY <1>2, <1>5, <1>6 DEF CloseStream
<1>8. QED
  BY <1>1, <1>7 DEF Pending

-----------------------------------------------------------------------------
(* Copies.                                                                 *)

\* If x is what the first piece of the data looks like, a stream makes of the data
\* what Through says.  That is not sure of a pipe, whose pieces may be short.
Told(sure, codec, src, x) == sure => Made(codec, src, x) = Through(codec, src)

\* A stream in the middle of the data src.
Going(sure, s, w, codec, src, rest, t, x) ==
    Keeps(s, w, codec, src, rest, t, x) /\ (t # <<>> => Told(sure, codec, src, x))

\* A stream at the end of it, which is closed.
Ending(sure, s, w, codec, src) ==
    \E x \in BOOLEAN : Leaves(s, w, codec, src, x) /\ Told(sure, codec, src, x)

LEMMA GoingAccept ==
    ASSUME NEW sure, NEW codec \in Codecs, NEW s, NEW w \in Seq(Byte), NEW src, NEW rest \in Seq(Byte),
           NEW t \in Seq(Byte), NEW x \in BOOLEAN, NEW data \in Full,
           Going(sure, s, w, codec, src, data \o rest, t, x),
           t = <<>> => Told(sure, codec, src, IsTextBuffer(FirstPiece(s, data)))
    PROVE  \E u \in Seq(Byte), y \in BOOLEAN :
              /\ Going(sure, Accept(s, data), w, codec, src, rest, u, y)
              /\ HeldBack(s, data, t, u)
<1>1. CASE t # <<>>
  <2>1. Keeps(s, w, codec, src, data \o rest, t, x) /\ Told(sure, codec, src, x)
    BY <1>1 DEF Going
  <2>2. codec # "none" => Tells(t, FirstPiece(s, data), x)
    BY <1>1 DEF Tells
  <2>3. PICK u \in Seq(Byte) :
           /\ Keeps(Accept(s, data), w, codec, src, rest, u, x)
           /\ HeldBack(s, data, t, u)
    BY <2>1, <2>2, KeepsAccept
  <2>4. Going(sure, Accept(s, data), w, codec, src, rest, u, x)
    BY <2>1, <2>3 DEF Going
  <2>5. QED
    BY <1>1, <2>3, <2>4
<1>2. CASE t = <<>>
  <2>1. PICK y \in BOOLEAN : y = IsTextBuffer(FirstPiece(s, data)) /\ Told(sure, codec, src, y)
    BY <1>2, Textual
  <2>2. Keeps(s, w, codec, src, data \o rest, t, y)
    <3>1. Keeps(s, w, codec, src, data \o rest, <<>>, x)
      BY <1>2 DEF Going
    <3>2. Keeps(s, w, codec, src, data \o rest, <<>>, y)
      BY <3>1, KeepsAny
    <3>3. QED
      BY <1>2, <3>2
  <2>3. FirstPiece(s, data) # <<>>
    BY DEF FirstPiece, Full
  <2>4. y \in BOOLEAN /\ (codec # "none" => Tells(t, FirstPiece(s, data), y))
    BY <2>1, <2>3 DEF Tells
  <2>5. PICK u \in Seq(Byte) :
           /\ Keeps(Accept(s, data), w, codec, src, rest, u, y)
           /\ HeldBack(s, data, t, u)
    BY <2>2, <2>4, KeepsAccept
  <2>6. Going(sure, Accept(s, data), w, codec, src, rest, u, y)
    BY <2>1, <2>5 DEF Going
  <2>7. QED
    BY <2>5, <2>6
<1>3. QED
  BY <1>1, <1>2

\* At the end of the data it is known what its first piece looks like.
LEMMA GoingToEnd ==
    ASSUME NEW sure, NEW codec \in Codecs, NEW s, NEW w \in Seq(Byte), NEW src,
           NEW t \in Seq(Byte), NEW x \in BOOLEAN, Going(sure, s, w, codec, src, <<>>, t, x),
           t = <<>> => Told(sure, codec, src, IsTextBuffer(s.front.held))
    PROVE  \E y \in BOOLEAN :
              /\ Keeps(s, w, codec, src, <<>>, t, y) /\ Told(sure, codec, src, y)
              /\ s.front.held # <<>> => Tells(t, s.front.held, y)
<1>1. CASE t # <<>>
  BY <1>1 DEF Going, Tells
<1>2. CASE t = <<>>
  <2>1. PICK y \in BOOLEAN : y = IsTextBuffer(s.front.held) /\ Told(sure, codec, src, y)
    BY <1>2, Textual
  <2>2. Keeps(s, w, codec, src, <<>>, t, y)
    <3>1. Keeps(s, w, codec, src, <<>>, <<>>, x)
      BY <1>2 DEF Going
    <3>2. Keeps(s, w, codec, src, <<>>, <<>>, y)
      BY <3>1, KeepsAny
    <3>3. QED
      BY <1>2, <3>2
  <2>3. s.front.held # <<>> => Tells(t, s.front.held, y)
    BY <2>1 DEF Tells
  <2>4. QED
    BY <2>1, <2>2, <2>3
<1>3. QED
  BY <1>1, <1>2

LEMMA GoingFlush ==
    ASSUME NEW sure, NEW codec \in Codecs, NEW s, NEW w \in Seq(Byte), NEW src,
           NEW t \in Seq(Byte), NEW x \in BOOLEAN, Going(sure, s, w, codec, src, <<>>, t, x),
           t = <<>> => Told(sure, codec, src, IsTextBuffer(s.front.held))
    PROVE  /\ src \in Seq(Byte)
           /\ \E y \in BOOLEAN : /\ Keeps(Flush(s), w, codec, src, <<>>, src, y)
                                 /\ Told(sure, codec, src, y)
           /\ Flush(s).front.held = <<>> /\ Flush(s).back.held = <<>>
<1>1. PICK y \in BOOLEAN : /\ Keeps(s, w, codec, src, <<>>, t, y) /\ Told(sure, codec, src, y)
                           /\ s.front.held # <<>> => Tells(t, s.front.held, y)
  BY GoingToEnd
<1>2. /\ Keeps(Flush(s), w, codec, src, <<>>, src, y) /\ src \in Seq(Byte)
      /\ Flush(s).front.held = <<>> /\ Flush(s).back.held = <<>>
  BY <1>1, KeepsFlush
<1>3. QED
  BY <1>1, <1>2

LEMMA GoingClose ==
    ASSUME NEW sure, NEW codec \in Codecs, NEW s, NEW w \in Seq(Byte), NEW src,
           NEW t \in Seq(Byte), NEW x \in BOOLEAN, Going(sure, s, w, codec, src, <<>>, t, x),
           t = <<>> => Told(sure, codec, src, IsTextBuffer(s.front.held))
    PROVE  Ending(sure, CloseStream(s), w, codec, src)
<1>1. PICK y \in BOOLEAN : /\ Keeps(s, w, codec, src, <<>>, t, y) /\ Told(sure, codec, src, y)
                           /\ s.front.held # <<>> => Tells(t, s.front.held, y)
  BY GoingToEnd
<1>2. Leaves(CloseStream(s), w, codec, src, y)
  BY <1>1, KeepsClose
<1>3. QED
  BY <1>1, <1>2 DEF Ending

\* After a flush nothing more is to be found out.
LEMMA FlushedClose ==
    ASSUME NEW sure, NEW codec \in Codecs, NEW s, NEW w \in Seq(Byte), NEW src \in Seq(Byte),
           NEW x \in BOOLEAN, Keeps(s, w, codec, src, <<>>, src, x), Told(sure, codec, src, x),
           s.front.held = <<>>
    PROVE  Ending(sure, CloseStream(s), w, codec, src)
<1>1. Leaves(CloseStream(s), w, codec, src, x)
  BY KeepsClose
<1>2. QED
  BY <1>1 DEF Ending

LEMMA EndingPiece ==
    ASSUME NEW sure, NEW codec \in Codecs, NEW s, NEW w \in Seq(Byte), NEW src,
           Ending(sure, s, w, codec, src), Pending(s) # <<>>
    PROVE  /\ Ending(sure, PieceWritten(s), w \o NextPiece(s), codec, src)
           /\ NextPiece(s) \in Seq(Byte)
<1>1. PICK x \in BOOLEAN : Leaves(s, w, codec, src, x) /\ Told(sure, codec, src, x)
  BY DEF Ending
<1>2. s \in Streams(codec)
  BY <1>1 DEF Leaves
<1>3. NextPiece(s) \in Seq(Byte)
  BY <1>2, PieceIs
<1>4. Leaves(PieceWritten(s), w \o NextPiece(s), codec, src, x)
  BY <1>1, LeavesPiece
<1>5. QED
  BY <1>1, <1>3, <1>4 DEF Ending

LEMMA EndingNothing ==
    ASSUME NEW sure, NEW codec \in Codecs, NEW s, NEW w \in Seq(Byte), NEW src,
           Ending(sure, s, w, codec, src), Pending(s) = <<>>, sure
    PROVE  w = Through(codec, src)
<1>1. PICK x \in BOOLEAN : Leaves(s, w, codec, src, x) /\ Told(sure, codec, src, x)
  BY DEF Ending
<1>2. w = Made(codec, src, x)
  BY <1>1, LeavesNothing
<1>3. QED
  BY <1>1, <1>2 DEF Told

LEMMA GoingPiece ==
    ASSUME NEW sure, NEW codec \in Codecs, NEW s, NEW w \in Seq(Byte), NEW src, NEW rest, NEW t, NEW x,
           Going(sure, s, w, codec, src, rest, t, x), Pending(s) # <<>>
    PROVE  /\ Going(sure, PieceWritten(s), w \o NextPiece(s), codec, src, rest, t, x)
           /\ NextPiece(s) \in Seq(Byte)
           /\ PieceWritten(s).front = s.front /\ PieceWritten(s).back.held = s.back.held
<1>1. Keeps(s, w, codec, src, rest, t, x) /\ s \in Streams(codec)
  BY DEF Going, Keeps
<1>2. QED
  BY <1>1, KeepsPiece, PieceIs DEF Going

-----------------------------------------------------------------------------
\* Whatever has been written is the beginning of the whole.

LEMMA BeginsWith ==
    ASSUME NEW w \in Seq(Byte), NEW q \in Seq(Byte)
    PROVE  Longer(w, w \o q)
BY DEF Longer

\* What the first Temp bytes look like, one can always be told.
LEMMA ToldByBeginning ==
    ASSUME NEW sure, NEW codec \in Codecs, NEW d \in Seq(Byte)
    PROVE  /\ Told(sure, codec, d, IsTextBuffer(Take(d, Temp)))
           /\ codec # "decode" => \A x \in BOOLEAN : Told(sure, codec, d, x)
BY ThroughIs, Textual DEF Told

LEMMA GoingPrefix ==
    ASSUME NEW sure, NEW codec \in Codecs, NEW s, NEW w \in Seq(Byte), NEW src \in Seq(Byte),
           NEW rest \in Seq(Byte), NEW t \in Seq(Byte), NEW x \in BOOLEAN,
           Going(sure, s, w, codec, src, rest, t, x), sure
    PROVE  IsPrefix(w, Through(codec, src))
<1>1. PICK y \in BOOLEAN : Keeps(s, w, codec, src, rest, t, y) /\ Told(sure, codec, src, y)
  <2>1. CASE t # <<>>
    BY <2>1 DEF Going
  <2>2. CASE t = <<>>
    <3>1. PICK y \in BOOLEAN : y = IsTextBuffer(Take(src, Temp)) /\ Told(sure, codec, src, y)
      BY ToldByBeginning, Textual
    <3>2. Keeps(s, w, codec, src, rest, <<>>, x)
      BY <2>2 DEF Going
    <3>3. Keeps(s, w, codec, src, rest, <<>>, y)
      BY <3>2, KeepsAny
    <3>4. QED
      BY <2>2, <3>1, <3>3
  <2>3. QED
    BY <2>1, <2>2
<1>2. PICK q \in Seq(Byte), h \in Seq(Byte) :
         /\ q = Queued(s.back) /\ w \o q = Passes(codec, t, y)
         /\ h = s.front.held \o rest /\ src = t \o h
  <2>1. s \in Streams(codec)
    BY <1>1 DEF Keeps
  <2>2. Queued(s.back) \in Seq(Byte) /\ s.front.held \in Seq(Byte)
    BY <2>1, StreamParts
  <2>3. s.front.held \o rest \in Seq(Byte)
    BY <2>2
  <2>4. QED
    BY <1>1, <2>2, <2>3 DEF Keeps
<1>3. Longer(w, Passes(codec, t, y))
  <2>1. Longer(w, w \o q)
    BY <1>2, BeginsWith
  <2>2. QED
    BY <1>2, <2>1
<1>4. Longer(Passes(codec, t, y), Made(codec, src, y))
  <2>1. Longer(Passes(codec, t, y), Made(codec, t \o h, y))
    BY <1>2, MadeLonger
  <2>2. QED
    BY <1>2, <2>1
<1>5. Longer(w, Made(codec, src, y))
  BY <1>3, <1>4, LongerTwice
<1>6. Made(codec, src, y) \in Seq(Byte)
  BY MadeType
<1>7. QED
  BY <1>1, <1>5, <1>6, PrefixIs DEF Told

LEMMA ThroughType ==
    ASSUME NEW codec \in Codecs, NEW d \in Seq(Byte)
    PROVE  Through(codec, d) \in Seq(Byte)
<1>1. PICK x \in BOOLEAN : x = IsTextBuffer(Take(d, Temp))
  BY Textual
<1>2. Through(codec, d) = Made(codec, d, x)
  BY <1>1, ThroughIs
<1>3. QED
  BY <1>2, MadeType

LEMMA EndingPrefix ==
    ASSUME NEW sure, NEW codec \in Codecs, NEW s, NEW w \in Seq(Byte), NEW src \in Seq(Byte),
           Ending(sure, s, w, codec, src), sure
    PROVE  IsPrefix(w, Through(codec, src))
<1>0. PICK x \in BOOLEAN : Leaves(s, w, codec, src, x) /\ Told(sure, codec, src, x)
  BY DEF Ending
<1>1. PICK q \in Seq(Byte) : q = Queued(s.back) /\ w \o q = Through(codec, src)
  BY <1>0, StreamParts DEF Leaves, Told
<1>2. Longer(w, w \o q) /\ w \o q \in Seq(Byte)
  <2>1. q \in Seq(Byte)
    BY <1>1
  <2>2. w \o q \in Seq(Byte)
    BY <2>1
  <2>3. QED
    BY <2>1, <2>2, BeginsWith
<1>3. QED
  BY <1>1, <1>2, PrefixIs

LEMMA GoingNew ==
    ASSUME NEW sure, NEW codec \in Codecs, NEW src \in Seq(Byte)
    PROVE  Going(sure, NewStream(codec), <<>>, codec, src, src, <<>>, TRUE)
BY KeepsNew DEF Going

-----------------------------------------------------------------------------
(* The files, the image and the run.                                       *)

Typed(f) == f \in [DOMAIN f -> UnixFiles] /\ IsFiniteSet(DOMAIN f)

LEMMA WithIs ==
    ASSUME NEW f, NEW x, NEW y
    PROVE  /\ DOMAIN With(f, x, y) = DOMAIN f \cup {x} /\ With(f, x, y)[x] = y
           /\ \A z \in DOMAIN f : z # x => With(f, x, y)[z] = f[z]
BY DEF With

LEMMA WithType ==
    ASSUME NEW f, NEW S, f \in [DOMAIN f -> S], NEW x, NEW y \in S
    PROVE  With(f, x, y) \in [DOMAIN With(f, x, y) -> S]
BY DEF With

LEMMA FinitelyMore ==
    ASSUME NEW S, IsFiniteSet(S), NEW x
    PROVE  IsFiniteSet(S \cup {x})
BY FS_AddElement

LEMMA TypedWith ==
    ASSUME NEW f, Typed(f), NEW x, NEW y \in UnixFiles
    PROVE  Typed(With(f, x, y))
<1>1. With(f, x, y) \in [DOMAIN With(f, x, y) -> UnixFiles]
  BY WithType DEF Typed
<1>2. IsFiniteSet(DOMAIN f \cup {x})
  BY FinitelyMore DEF Typed
<1>3. DOMAIN With(f, x, y) = DOMAIN f \cup {x}
  BY WithIs
<1>4. QED
  BY <1>1, <1>2, <1>3 DEF Typed

\* What a file is when its data or its times change.
DataSet(f, d, m) == [f EXCEPT !.data = d, !.mtime = m]
TimesSet(f, a, m) == [f EXCEPT !.atime = a, !.mtime = m]

LEMMA DataSetIs ==
    ASSUME NEW f \in UnixFiles, NEW d \in Seq(Byte), NEW m \in Dates
    PROVE  /\ DataSet(f, d, m) \in UnixFiles /\ DataSet(f, d, m).data = d
           /\ f.data \in Seq(Byte)
BY DEF UnixFiles, Byte, DataSet

LEMMA TimesSetIs ==
    ASSUME NEW f \in UnixFiles, NEW a \in Dates, NEW m \in Dates
    PROVE  /\ TimesSet(f, a, m) \in UnixFiles /\ TimesSet(f, a, m).data = f.data
           /\ TimesSet(f, a, m).mtime = m
BY DEF UnixFiles, TimesSet

LEMMA UnixFileIs ==
    ASSUME NEW d \in Seq(Byte)
    PROVE  UnixFile(d) \in UnixFiles /\ UnixFile(d).data = d
BY FilesAssumption DEF UnixFile, UnixFiles, Byte

\* Of two sets of files, all but p and q have the same data.
SameBut(f, g, S) == \A z \in DOMAIN f \ S : z \in DOMAIN g /\ g[z] = f[z]

LEMMA CreatedIs ==
    ASSUME Typed(files), NEW p
    PROVE  /\ Typed(Created(p)) /\ DOMAIN Created(p) = DOMAIN files \cup {p}
           /\ Created(p)[p].data = <<>> /\ SameBut(files, Created(p), {p})
<1>1. PICK old \in UnixFiles : old = IF Exists(p) THEN files[p] ELSE UnixFile(<<>>)
  <2>1. <<>> \in Seq(Byte)
    OBVIOUS
  <2>2. UnixFile(<<>>) \in UnixFiles
    BY <2>1, UnixFileIs
  <2>3. Exists(p) => files[p] \in UnixFiles
    BY DEF Typed, Exists
  <2>4. QED
    BY <2>2, <2>3
<1>2. PICK new \in UnixFiles : new = DataSet(old, <<>>, Now) /\ new.data = <<>>
  <2>1. Now \in Dates /\ <<>> \in Seq(Byte) /\ old \in UnixFiles
    BY <1>1, FilesAssumption
  <2>2. DataSet(old, <<>>, Now) \in UnixFiles /\ DataSet(old, <<>>, Now).data = <<>>
    BY <2>1, DataSetIs
  <2>3. QED
    BY <2>2
<1>3. Created(p) = With(files, p, new)
  BY <1>1, <1>2 DEF Created, DataSet
<1>4. new \in UnixFiles /\ Typed(With(files, p, new))
  BY <1>2, TypedWith
<1>5. /\ DOMAIN With(files, p, new) = DOMAIN files \cup {p}
      /\ With(files, p, new)[p] = new
      /\ \A z \in DOMAIN files : z # p => With(files, p, new)[z] = files[z]
  BY DEF With
<1>6. QED
  BY <1>2, <1>3, <1>4, <1>5 DEF SameBut

LEMMA AppendedIs ==
    ASSUME Typed(files), NEW p \in DOMAIN files, NEW d \in Seq(Byte)
    PROVE  /\ Typed(Appended(p, d)) /\ DOMAIN Appended(p, d) = DOMAIN files
           /\ files[p].data \in Seq(Byte)
           /\ Appended(p, d)[p].data = files[p].data \o d /\ SameBut(files, Appended(p, d), {p})
<1>1. PICK old \in UnixFiles : old = files[p]
  BY DEF Typed
<1>2. PICK new \in UnixFiles : /\ new = DataSet(old, old.data \o d, Now)
                               /\ new.data = old.data \o d /\ old.data \in Seq(Byte)
  <2>1. Now \in Dates /\ old \in UnixFiles /\ <<>> \in Seq(Byte)
    BY <1>1, FilesAssumption
  <2>2. old.data \in Seq(Byte)
    BY <2>1, DataSetIs
  <2>3. old.data \o d \in Seq(Byte)
    BY <2>2
  <2>4. /\ DataSet(old, old.data \o d, Now) \in UnixFiles
        /\ DataSet(old, old.data \o d, Now).data = old.data \o d
    BY <2>1, <2>3, DataSetIs
  <2>5. QED
    BY <2>2, <2>4
<1>3. Appended(p, d) = [files EXCEPT ![p] = new]
  BY <1>1, <1>2 DEF Appended, Typed, DataSet
<1>4. QED
  BY <1>1, <1>2, <1>3 DEF Typed, SameBut

Stamps == [atime : Dates, mtime : Dates]

LEMMA StampedIs ==
    ASSUME Typed(files), NEW p \in DOMAIN files, NEW s \in Stamps
    PROVE  /\ Typed(Stamped(p, s)) /\ DOMAIN Stamped(p, s) = DOMAIN files
           /\ Stamped(p, s)[p].data = files[p].data
           /\ Stamped(p, s)[p].mtime = s.mtime /\ SameBut(files, Stamped(p, s), {p})
<1>1. PICK old \in UnixFiles : old = files[p]
  BY DEF Typed
<1>2. PICK new \in UnixFiles : /\ new = TimesSet(old, s.atime, s.mtime)
                               /\ new.data = old.data /\ new.mtime = s.mtime
  <2>1. s.atime \in Dates /\ s.mtime \in Dates /\ old \in UnixFiles
    BY <1>1 DEF Stamps
  <2>2. /\ TimesSet(old, s.atime, s.mtime) \in UnixFiles
        /\ TimesSet(old, s.atime, s.mtime).data = old.data
        /\ TimesSet(old, s.atime, s.mtime).mtime = s.mtime
    BY <2>1, TimesSetIs
  <2>3. QED
    BY <2>2
<1>3. Stamped(p, s) = [files EXCEPT ![p] = new]
  BY <1>1, <1>2 DEF Stamped, Typed, TimesSet
<1>4. QED
  BY <1>1, <1>2, <1>3 DEF Typed, SameBut

-----------------------------------------------------------------------------
ImageIs(i) ==
    /\ i = [formatted |-> i.formatted, sex |-> i.sex, blocks |-> i.blocks,
            entries |-> i.entries, boot |-> i.boot]
    /\ i.entries \in [DOMAIN i.entries -> VolumeFiles(Words)]
    /\ i.boot \in Seq(Byte)

ImageTyped == ImageIs(image)

\* What ucsdpsys_disk has in memory is what is on the image but for the dates.
Mirrors(entries, i) ==
    /\ entries \in [DOMAIN i.entries -> VolumeFiles(Dates)]
    /\ \A c \in DOMAIN i.entries :
          entries[c].data = i.entries[c].data /\ entries[c].kind = i.entries[c].kind

LEMMA WordType ==
    ASSUME NEW d \in Dates
    PROVE  Word(d) \in Words
<1>1. d.year \in Nat /\ d.month \in Nat /\ d.day \in Nat
  BY DEF Dates
<1>2. d.year % 100 \in 0 .. 99
  BY <1>1
<1>3. QED
  BY <1>1, <1>2 DEF Word, Words

LEMMA DateIs ==
    ASSUME NEW w \in Words
    PROVE  Date(w) \in Dates /\ Date(Word(Date(w))) = Date(w)
<1>1. PICK y \in 0 .. 99, m \in Nat, d \in Nat : w = [year |-> y, month |-> m, day |-> d]
  BY DEF Words
<1>2. PICK z \in 70 .. 169 : z = Year(y) /\ Year(z % 100) = z /\ z % 100 = y
  <2>1. CASE y < 70
    <3>1. Year(y) = y + 100 /\ (y + 100) % 100 = y
      BY <1>1, <2>1 DEF Year
    <3>2. QED
      BY <1>1, <2>1, <3>1
  <2>2. CASE y >= 70
    <3>1. Year(y) = y /\ y % 100 = y
      BY <1>1, <2>2 DEF Year
    <3>2. QED
      BY <1>1, <2>2, <3>1
  <2>3. QED
    BY <1>1, <2>1, <2>2
<1>3. CASE w = NoWord
  <2>1. Date(w) = [year |-> 70, month |-> 1, day |-> 1]
    BY <1>3 DEF Date, Epoch
  <2>2. Word(Date(w)) = [year |-> 70, month |-> 1, day |-> 1]
    BY <2>1 DEF Word
  <2>3. Year(70) = 70
    BY DEF Year
  <2>4. [year |-> 70, month |-> 1, day |-> 1] # NoWord
    BY DEF NoWord
  <2>5. Date([year |-> 70, month |-> 1, day |-> 1]) = [year |-> 70, month |-> 1, day |-> 1]
    BY <2>3, <2>4 DEF Date
  <2>6. QED
    BY <2>1, <2>2, <2>5 DEF Dates
<1>4. CASE w # NoWord
  <2>1. Date(w) = [year |-> z, month |-> m, day |-> d]
    BY <1>1, <1>2, <1>4 DEF Date
  <2>2. Word(Date(w)) = [year |-> y, month |-> m, day |-> d]
    BY <1>2, <2>1 DEF Word
  <2>3. QED
    BY <1>1, <1>2, <2>1, <2>2 DEF Dates
<1>5. QED
  BY <1>3, <1>4

\* An entry and the same one with a word for its date.
LEMMA EntryParts ==
    ASSUME NEW e \in VolumeFiles(Dates)
    PROVE  /\ e.data \in Seq(Byte) /\ e.kind \in DOMAIN KindNumber /\ e.date \in Dates
           /\ [e EXCEPT !.date = Word(@)] \in VolumeFiles(Words)
           /\ [e EXCEPT !.date = Word(@)].data = e.data
           /\ [e EXCEPT !.date = Word(@)].kind = e.kind
           /\ [e EXCEPT !.date = Word(@)].date = Word(e.date)
<1>1. e.data \in Seq(Byte) /\ e.kind \in DOMAIN KindNumber /\ e.date \in Dates
  BY DEF VolumeFiles, Byte
<1>2. Word(e.date) \in Words
  BY <1>1, WordType
<1>3. /\ [e EXCEPT !.date = Word(e.date)] \in VolumeFiles(Words)
      /\ [e EXCEPT !.date = Word(e.date)].data = e.data
      /\ [e EXCEPT !.date = Word(e.date)].kind = e.kind
      /\ [e EXCEPT !.date = Word(e.date)].date = Word(e.date)
  BY <1>2 DEF VolumeFiles
<1>4. [e EXCEPT !.date = Word(@)] = [e EXCEPT !.date = Word(e.date)]
  OBVIOUS
<1>5. QED
  BY <1>1, <1>3, <1>4

\* An image after its directory was written.
LEMMA WrittenIs ==
    ASSUME ImageTyped, NEW entries, entries \in [DOMAIN entries -> VolumeFiles(Dates)],
           NEW j, j = Written(image, entries)
    PROVE  /\ ImageIs(j) /\ Mirrors(entries, j) /\ j.boot = image.boot
           /\ j.formatted = image.formatted /\ j.blocks = image.blocks
           /\ DOMAIN j.entries = DOMAIN entries
           /\ \A c \in DOMAIN entries : j.entries[c].date = Word(entries[c].date)
<1> DEFINE words == [c \in DOMAIN entries |-> [entries[c] EXCEPT !.date = Word(@)]]
<1>1. j = [image EXCEPT !.entries = words]
  BY DEF Written
<1>2. \A c \in DOMAIN entries :
         /\ words[c] \in VolumeFiles(Words) /\ words[c].data = entries[c].data
         /\ words[c].kind = entries[c].kind /\ words[c].date = Word(entries[c].date)
  <2>1. SUFFICES ASSUME NEW c \in DOMAIN entries
                 PROVE  /\ words[c] \in VolumeFiles(Words) /\ words[c].data = entries[c].data
                        /\ words[c].kind = entries[c].kind
                        /\ words[c].date = Word(entries[c].date)
    OBVIOUS
  <2>2. PICK e \in VolumeFiles(Dates) : e = entries[c]
    OBVIOUS
  <2>3. words[c] = [e EXCEPT !.date = Word(@)]
    BY <2>2
  <2>4. QED
    BY <2>2, <2>3, EntryParts
<1>3. DOMAIN words = DOMAIN entries
  OBVIOUS
<1>4. words \in [DOMAIN words -> VolumeFiles(Words)]
  BY <1>2
<1> HIDE DEF words
<1>5. j = [formatted |-> image.formatted, sex |-> image.sex, blocks |-> image.blocks,
                entries |-> words, boot |-> image.boot]
  BY <1>1 DEF ImageTyped, ImageIs
<1>6. QED
  BY <1>2, <1>3, <1>4, <1>5 DEF ImageTyped, ImageIs, Mirrors

LEMMA ReadIs ==
    ASSUME ImageTyped
    PROVE  /\ Mirrors(ReadEntries(image), image)
           /\ \A c \in DOMAIN image.entries :
                 ReadEntries(image)[c].date = Date(image.entries[c].date)
<1>1. SUFFICES ASSUME NEW c \in DOMAIN image.entries
               PROVE  /\ ReadEntries(image)[c] \in VolumeFiles(Dates)
                      /\ ReadEntries(image)[c].data = image.entries[c].data
                      /\ ReadEntries(image)[c].kind = image.entries[c].kind
                      /\ ReadEntries(image)[c].date = Date(image.entries[c].date)
  BY DEF Mirrors, ReadEntries
<1>2. PICK e \in VolumeFiles(Words) : e = image.entries[c]
  BY DEF ImageTyped, ImageIs
<1>3. Date(e.date) \in Dates
  BY DateIs DEF VolumeFiles
<1>4. /\ [e EXCEPT !.date = Date(e.date)] \in VolumeFiles(Dates)
      /\ [e EXCEPT !.date = Date(e.date)].data = e.data
      /\ [e EXCEPT !.date = Date(e.date)].kind = e.kind
      /\ [e EXCEPT !.date = Date(e.date)].date = Date(e.date)
  BY <1>3 DEF VolumeFiles
<1>5. ReadEntries(image)[c] = [e EXCEPT !.date = Date(e.date)]
  BY <1>2 DEF ReadEntries
<1>6. QED
  BY <1>2, <1>4, <1>5

-----------------------------------------------------------------------------
(* What the pieces of a pipe tell of a header.                             *)

LEMMA TakeDrop ==
    ASSUME NEW A, NEW d \in Seq(A), NEW n \in Nat
    PROVE  /\ Take(d, n) \in Seq(A) /\ Drop(d, n) \in Seq(A)
           /\ d = Take(d, n) \o Drop(d, n)
           /\ Len(Take(d, n)) = IF n < Len(d) THEN n ELSE Len(d)
           /\ n >= Len(d) => Take(d, n) = d /\ Drop(d, n) = <<>>
           /\ \A i \in 1 .. Len(Take(d, n)) : Take(d, n)[i] = d[i]
<1>1. PICK m \in 0 .. Len(d) : m = (IF n < Len(d) THEN n ELSE Len(d)) /\ Take(d, n) = SubSeq(d, 1, m)
  BY DEF Take
<1>2. /\ SubSeq(d, 1, m) \in Seq(A) /\ Len(SubSeq(d, 1, m)) = m
      /\ \A i \in 1 .. m : SubSeq(d, 1, m)[i] = d[i]
  OBVIOUS
<1>3. PICK u \in Seq(A), v \in Seq(A) :
         /\ u = SubSeq(d, 1, m) /\ Len(u) = m /\ v = Drop(d, m) /\ Len(v) = Len(d) - m
         /\ \A i \in 1 .. m : u[i] = d[i]
         /\ \A i \in 1 .. Len(d) - m : v[i] = d[m + i]
  <2>1. m \in Nat /\ m <= Len(d)
    OBVIOUS
  <2>2. /\ Drop(d, m) \in Seq(A) /\ Len(Drop(d, m)) = Len(d) - m
        /\ \A i \in 1 .. Len(d) - m : Drop(d, m)[i] = d[m + i]
    BY <2>1, DropIs
  <2>3. QED
    BY <1>2, <2>2
<1>4. d = u \o v
  <2>1. PICK k \in Nat, l \in Nat : k = m /\ l = Len(v) /\ k + l = Len(d)
    <3>1. m \in Nat /\ Len(d) - m \in Nat /\ m + (Len(d) - m) = Len(d)
      OBVIOUS
    <3>2. QED
      BY <1>3, <3>1
  <2>2. PICK e \in Seq(A) :
           /\ e = u \o v /\ Len(e) = k + l
           /\ \A i \in 1 .. k : e[i] = u[i]
           /\ \A i \in 1 .. l : e[k + i] = v[i]
    <3>1. /\ u \o v \in Seq(A) /\ Len(u \o v) = Len(u) + Len(v)
          /\ \A i \in 1 .. Len(u) : (u \o v)[i] = u[i]
          /\ \A i \in 1 .. Len(v) : (u \o v)[Len(u) + i] = v[i]
      OBVIOUS
    <3>2. Len(u) = k /\ Len(v) = l
      BY <1>3, <2>1
    <3>3. QED
      BY <3>1, <3>2
  <2>3. ASSUME NEW i \in 1 .. Len(d)
        PROVE  e[i] = d[i]
    <3>1. CASE i <= k
      BY <1>3, <2>1, <2>2, <3>1
    <3>2. CASE i > k
      <4>1. PICK j \in 1 .. l : i = k + j
        <5>1. i - k \in 1 .. l /\ i = k + (i - k)
          BY <2>1, <3>2
        <5>2. QED
          BY <5>1
      <4>2. QED
        BY <1>3, <2>1, <2>2, <4>1
    <3>3. QED
      BY <2>1, <3>1, <3>2
  <2>4. QED
    BY <2>1, <2>2, <2>3
<1>8. Drop(d, n) = v
  <2>1. CASE n < Len(d)
    BY <1>1, <1>3, <2>1
  <2>2. CASE n >= Len(d)
    <3>1. Drop(d, n) = <<>> /\ Drop(d, Len(d)) = <<>>
      BY <2>2, DropIs
    <3>2. m = Len(d)
      BY <1>1, <2>2
    <3>3. QED
      BY <1>3, <3>1, <3>2
  <2>3. QED
    BY <2>1, <2>2
<1>5. n >= Len(d) => SubSeq(d, 1, m) = d
  BY <1>1
<1>6. n >= Len(d) => Drop(d, n) = <<>>
  BY DropIs
<1>7. QED
  BY <1>1, <1>2, <1>3, <1>4, <1>5, <1>6, <1>8

\* The beginning of a text looks like a text.
LEMMA TextualBeginning ==
    ASSUME NEW p \in Seq(Byte), NEW q \in Seq(Byte), IsTextBuffer(p \o q)
    PROVE  IsTextBuffer(p)
<1>1. PICK d \in Seq(Byte) : d = p \o q /\ Len(d) >= Len(p) /\ \A i \in 1 .. Len(p) : d[i] = p[i]
  <2>1. /\ p \o q \in Seq(Byte) /\ Len(p \o q) >= Len(p)
        /\ \A i \in 1 .. Len(p) : (p \o q)[i] = p[i]
    OBVIOUS
  <2>2. QED
    BY <2>1
<1>2. SUFFICES ASSUME NEW j \in 1 .. Window, NEW i \in 1 .. Len(p), p[i] # NUL, j <= i
               PROVE  Printable(p[j]) \/ p[j] \in 9 .. 13 \cup {DLE}
  BY DEF IsTextBuffer
<1>3. i \in 1 .. Len(d) /\ d[i] # NUL
  BY <1>1, <1>2
<1>4. Printable(d[j]) \/ d[j] \in 9 .. 13 \cup {DLE}
  BY <1>1, <1>2, <1>3 DEF IsTextBuffer
<1>5. j \in 1 .. Len(p)
  BY <1>2, SizesAssumption
<1>6. QED
  BY <1>1, <1>4, <1>5

LEMMA NulsSkipped ==
    ASSUME NEW t \in Seq(Byte), \A i \in 1 .. Len(t) : t[i] = NUL
    PROVE  Stepped(DecodeStep, Coder("decode"), t) = Coder("decode")
<1>1. PICK s \in Decoder : s = Coder("decode") /\ s.dle = FALSE
  <2>1. Coder("decode") \in Decoder
    BY CoderType
  <2>2. Coder("decode").dle = FALSE
    BY DEF Coder
  <2>3. QED
    BY <2>1, <2>2
<1>2. NUL \in Byte
  BY DEF NUL, Byte
<1>3. DecodeStep[<<s, NUL>>] = s
  <2>1. DecodeCharacter(s, NUL) = Coded(s, NUL)
    BY <1>1 DEF DecodeCharacter
  <2>2. Coded(s, NUL) = s
    BY DEF Coded, NUL, CR, LF, DLE
  <2>3. QED
    BY <1>1, <1>2, <2>1, <2>2 DEF DecodeStep
<1> DEFINE P == {u \in Seq(Byte) : (\A i \in 1 .. Len(u) : u[i] = NUL)
                                   => Stepped(DecodeStep, s, u) = s}
<1>4. <<>> \in P
  <2>1. <<>> \in Seq(Byte)
    OBVIOUS
  <2>2. QED
    BY <2>1, SteppedEmpty
<1>5. ASSUME NEW u \in Seq(Byte), NEW c \in Byte, u \in P
      PROVE  Append(u, c) \in P
  <2>1. Append(u, c) \in Seq(Byte)
    OBVIOUS
  <2>2. ASSUME \A i \in 1 .. Len(Append(u, c)) : Append(u, c)[i] = NUL
        PROVE  Stepped(DecodeStep, s, Append(u, c)) = s
    <3>1. (\A i \in 1 .. Len(u) : u[i] = NUL) /\ c = NUL
      <4>1. /\ Len(Append(u, c)) = Len(u) + 1 /\ Append(u, c)[Len(u) + 1] = c
            /\ \A i \in 1 .. Len(u) : Append(u, c)[i] = u[i]
        OBVIOUS
      <4>2. Len(u) + 1 \in 1 .. Len(u) + 1 /\ \A i \in 1 .. Len(u) : i \in 1 .. Len(u) + 1
        OBVIOUS
      <4>3. QED
        BY <2>2, <4>1, <4>2
    <3>2. Stepped(DecodeStep, s, u) = s
      BY <1>5, <3>1
    <3>3. Stepped(DecodeStep, s, Append(u, c)) = DecodeStep[<<Stepped(DecodeStep, s, u), c>>]
      BY SteppedAppend
    <3>4. QED
      BY <1>3, <3>1, <3>2, <3>3
  <2>3. QED
    BY <2>1, <2>2
<1>6. \A u \in Seq(Byte) : u \in P
  <2> HIDE DEF P
  <2>1. QED
    BY <1>4, <1>5, SequenceInduction
<1>7. QED
  BY <1>1, <1>6

\* Of a plain header every beginning of the data tells what has to be known.
LEMMA PlainTells ==
    ASSUME NEW p \in Seq(Byte), NEW q \in Seq(Byte), PlainHeader(p \o q)
    PROVE  Told(TRUE, "decode", p \o q, IsTextBuffer(p))
<1>1. PICK d \in Seq(Byte) : d = p \o q
  <2>1. p \o q \in Seq(Byte)
    OBVIOUS
  <2>2. QED
    BY <2>1
<1>2. PICK y \in BOOLEAN, z \in BOOLEAN :
         y = IsTextBuffer(Take(d, Temp)) /\ z = IsTextBuffer(p)
  BY Textual
<1>3. "decode" \in Codecs
  BY DEF Codecs
<1>4. Made("decode", d, y) = Through("decode", d)
  BY <1>1, <1>2, <1>3, ThroughIs
<1>5. CASE IsTextBuffer(d)
  <2>1. z = TRUE
    BY <1>1, <1>2, <1>5, TextualBeginning
  <2>2. y = TRUE
    <3>1. /\ Take(d, Temp) \in Seq(Byte) /\ Drop(d, Temp) \in Seq(Byte)
          /\ d = Take(d, Temp) \o Drop(d, Temp)
      <4>1. Temp \in Nat /\ d \in Seq(Byte)
        BY <1>1, Sizes
      <4>2. QED
        BY <4>1, TakeDrop
    <3>2. IsTextBuffer(Take(d, Temp))
      <4>1. IsTextBuffer(Take(d, Temp) \o Drop(d, Temp))
        BY <1>5, <3>1
      <4>2. QED
        BY <3>1, <4>1, TextualBeginning
    <3>3. QED
      BY <1>2, <3>2
  <2>3. QED
    BY <1>1, <1>2, <1>4, <2>1, <2>2 DEF Told
<1>6. CASE ~IsTextBuffer(d)
  <2>1. PICK a \in Seq(Byte), b \in Seq(Byte) :
           /\ a = Take(d, Page) /\ b = Drop(d, Page) /\ d = a \o b
           /\ \A i \in 1 .. Len(a) : a[i] = d[i]
    <3>1. Page \in Nat /\ d \in Seq(Byte)
      BY <1>1, Sizes
    <3>2. /\ Take(d, Page) \in Seq(Byte) /\ Drop(d, Page) \in Seq(Byte)
          /\ d = Take(d, Page) \o Drop(d, Page)
          /\ \A i \in 1 .. Len(Take(d, Page)) : Take(d, Page)[i] = d[i]
      BY <3>1, TakeDrop
    <3>3. QED
      BY <3>2
  <2>2. \A i \in 1 .. Len(a) : a[i] = NUL
    <3>1. \A i \in DOMAIN Take(d, Page) : d[i] = NUL
      BY <1>1, <1>6 DEF PlainHeader
    <3>2. DOMAIN a = 1 .. Len(a)
      BY <2>1
    <3>3. QED
      BY <2>1, <3>1, <3>2
  <2>3. Stepped(DecodeStep, Coder("decode"), d) = Stepped(DecodeStep, Coder("decode"), b)
    <3>1. Stepped(DecodeStep, Coder("decode"), a \o b)
            = Stepped(DecodeStep, Stepped(DecodeStep, Coder("decode"), a), b)
      BY SteppedConcat
    <3>2. Stepped(DecodeStep, Coder("decode"), a) = Coder("decode")
      BY <2>2, NulsSkipped
    <3>3. QED
      BY <2>1, <3>1, <3>2
  <2>4. \A x \in BOOLEAN :
           Made("decode", d, x) = Stepped(DecodeStep, Coder("decode"), Behind(d, x)).out
    <3>1. SUFFICES ASSUME NEW x \in BOOLEAN
                   PROVE  Made("decode", d, x)
                            = Stepped(DecodeStep, Coder("decode"), Behind(d, x)).out
      OBVIOUS
    <3>2. CoderBehind("decode", d, x).out
            = Stepped(DecodeStep, Coder("decode"), Behind(d, x)).out
      <4>1. d \in Seq(Byte)
        BY <1>1
      <4>2. QED
        BY <4>1, DecoderBehind
    <3>3. QED
      BY <3>2 DEF Made, Passes
  <2>5. \A x \in BOOLEAN : Made("decode", d, x) = Stepped(DecodeStep, Coder("decode"), b).out
    BY <2>1, <2>3, <2>4 DEF Behind
  <2>6. Made("decode", d, y) = Made("decode", d, z)
    BY <1>2, <2>5
  <2>7. QED
    BY <1>1, <1>2, <1>4, <2>6 DEF Told
<1>7. QED
  BY <1>5, <1>6

-----------------------------------------------------------------------------
(* The copy of a file, from its begin to its end.                          *)

\* As long as nothing of a file that is read in whole chunks is through the codec,
\* nothing is in front of it, or all of the file, which is shorter than a chunk.
InOrder(s, data) ==
    s.front.held = <<>> \/ (data = <<>> /\ Len(s.front.held) <= Temp)

Reading(s, w, codec, src, data, sure, filter) ==
    /\ data \in Seq(Byte)
    /\ \E t \in Seq(Byte), x \in BOOLEAN :
          Going(sure, s, w, codec, src, data, t, x) /\ (~filter /\ t = <<>> => InOrder(s, data))

Flushed(s, w, codec, src, sure) ==
    /\ \E x \in BOOLEAN : Keeps(s, w, codec, src, <<>>, src, x) /\ Told(sure, codec, src, x)
    /\ s.front.held = <<>> /\ s.back.held = <<>>

\* What is sure of a filter: its data is encoded, or its header is plain.
IsSure(sure, filter, codec, src) == filter /\ sure => codec # "decode" \/ PlainHeader(src)

LEMMA NewReading ==
    ASSUME NEW codec \in Codecs, NEW src \in Seq(Byte), NEW sure, NEW filter
    PROVE  Reading(NewStream(codec), <<>>, codec, src, src, sure, filter)
<1>1. Going(sure, NewStream(codec), <<>>, codec, src, src, <<>>, TRUE)
  BY GoingNew
<1>2. NewStream(codec).front.held = <<>>
  BY EmptyBufferIs DEF NewStream
<1>3. <<>> \in Seq(Byte) /\ TRUE \in BOOLEAN
  OBVIOUS
<1>4. QED
  BY <1>1, <1>2, <1>3 DEF Reading, InOrder

\* What is known of the source when nothing is through the codec.
AllAhead(s, src, data) == s.front.held \in Seq(Byte) /\ src = s.front.held \o data

LEMMA NothingYet ==
    ASSUME NEW sure, NEW codec \in Codecs, NEW s, NEW w, NEW src, NEW data \in Seq(Byte), NEW x,
           NEW t, Going(sure, s, w, codec, src, data, t, x), t = <<>>
    PROVE  AllAhead(s, src, data)
<1>1. s \in Streams(codec) /\ src = <<>> \o (s.front.held \o data)
  BY DEF Going, Keeps
<1>2. PICK h \in Seq(Byte) : h = s.front.held
  BY <1>1, StreamParts
<1>3. <<>> \o (h \o data) = h \o data
  OBVIOUS
<1>4. QED
  BY <1>1, <1>2, <1>3 DEF AllAhead

LEMMA SurelyTold ==
    ASSUME NEW sure, NEW filter, NEW codec \in Codecs, NEW p \in Seq(Byte), NEW q \in Seq(Byte),
           filter, IsSure(sure, filter, codec, p \o q)
    PROVE  Told(sure, codec, p \o q, IsTextBuffer(p))
<1>1. CASE codec # "decode"
  <2>1. p \o q \in Seq(Byte)
    OBVIOUS
  <2>2. IsTextBuffer(p) \in BOOLEAN
    BY Textual
  <2>3. QED
    BY <1>1, <2>1, <2>2, ToldByBeginning
<1>2. CASE codec = "decode" /\ sure
  <2>1. PlainHeader(p \o q)
    BY <1>2 DEF IsSure
  <2>2. QED
    BY <1>2, <2>1, PlainTells DEF Told
<1>3. CASE ~sure
  BY <1>3 DEF Told
<1>4. QED
  BY <1>1, <1>2, <1>3

\* A chunk of a file.
LEMMA ReadChunk ==
    ASSUME NEW codec \in Codecs, NEW s, NEW w \in Seq(Byte), NEW src \in Seq(Byte), NEW data,
           NEW sure, NEW filter, ~filter, Reading(s, w, codec, src, data, sure, filter),
           data # <<>>
    PROVE  Reading(Accept(s, Take(data, Temp)), w, codec, src, Drop(data, Temp), sure, filter)
<1>1. PICK t \in Seq(Byte), x \in BOOLEAN :
         /\ Going(sure, s, w, codec, src, data, t, x) /\ data \in Seq(Byte)
         /\ t = <<>> => s.front.held = <<>>
  BY DEF Reading, InOrder
<1>2. PICK chunk \in Full, rest \in Seq(Byte) :
         /\ chunk = Take(data, Temp) /\ rest = Drop(data, Temp) /\ data = chunk \o rest
         /\ Len(chunk) <= Buffer => rest = <<>>
  <2>1. /\ Take(data, Temp) \in Seq(Byte) /\ Drop(data, Temp) \in Seq(Byte)
        /\ data = Take(data, Temp) \o Drop(data, Temp)
        /\ Len(Take(data, Temp)) = IF Temp < Len(data) THEN Temp ELSE Len(data)
        /\ Temp >= Len(data) => Drop(data, Temp) = <<>>
    <3>1. Temp \in Nat /\ data \in Seq(Byte)
      BY <1>1, Sizes
    <3>2. QED
      BY <3>1, TakeDrop
  <2>2. Take(data, Temp) # <<>>
    <3>1. Len(data) \in Nat \ {0}
      BY <1>1
    <3>2. Len(Take(data, Temp)) # 0
      BY <2>1, <3>1, Sizes
    <3>3. QED
      BY <3>2
  <2>3. Len(Take(data, Temp)) <= Buffer => Temp >= Len(data)
    <3>1. Len(data) \in Nat
      BY <1>1
    <3>2. QED
      BY <2>1, <3>1, Sizes
  <2>4. QED
    BY <2>1, <2>2, <2>3 DEF Full
<1>3. t = <<>> => Told(sure, codec, src, IsTextBuffer(FirstPiece(s, chunk)))
  <2>1. SUFFICES ASSUME t = <<>> PROVE Told(sure, codec, src, IsTextBuffer(FirstPiece(s, chunk)))
    OBVIOUS
  <2>2. s.front.held = <<>> /\ FirstPiece(s, chunk) = chunk
    BY <1>1, <2>1 DEF FirstPiece
  <2>3. src = data
    <3>1. Going(sure, s, w, codec, src, data, t, x) /\ t = <<>> /\ data \in Seq(Byte)
      BY <1>1, <2>1
    <3>2. AllAhead(s, src, data)
      BY <3>1, NothingYet
    <3>3. <<>> \o data = data
      BY <1>1
    <3>4. QED
      BY <2>2, <3>2, <3>3 DEF AllAhead
  <2>4. Told(sure, codec, src, IsTextBuffer(Take(src, Temp)))
    BY ToldByBeginning
  <2>5. QED
    BY <1>2, <2>2, <2>3, <2>4
<1>4. Going(sure, s, w, codec, src, chunk \o rest, t, x)
  BY <1>1, <1>2
<1>5. PICK u \in Seq(Byte), y \in BOOLEAN :
         /\ Going(sure, Accept(s, chunk), w, codec, src, rest, u, y)
         /\ HeldBack(s, chunk, t, u)
  BY <1>2, <1>3, <1>4, GoingAccept
<1>6. u = <<>> => InOrder(Accept(s, chunk), rest)
  <2>1. SUFFICES ASSUME u = <<>> PROVE InOrder(Accept(s, chunk), rest)
    OBVIOUS
  <2>2. /\ t = <<>> /\ Accept(s, chunk).front.held = s.front.held \o chunk
        /\ Len(s.front.held \o chunk) <= Buffer
    BY <1>5, <2>1 DEF HeldBack
  <2>3. s.front.held \o chunk = chunk
    <3>1. s.front.held = <<>>
      BY <1>1, <2>2
    <3>2. <<>> \o chunk = chunk
      BY <1>2 DEF Full
    <3>3. QED
      BY <3>1, <3>2
  <2>4. Len(chunk) <= Temp
    <3>1. Len(chunk) \in Nat
      BY <1>2 DEF Full
    <3>2. QED
      BY <2>2, <2>3, <3>1, Sizes
  <2>5. QED
    BY <1>2, <2>2, <2>3, <2>4 DEF InOrder
<1>7. QED
  BY <1>2, <1>5, <1>6 DEF Reading

\* A read from a pipe.
LEMMA ReadPipe ==
    ASSUME NEW codec \in Codecs, NEW s, NEW w \in Seq(Byte), NEW src \in Seq(Byte), NEW data,
           NEW sure, NEW filter, filter, IsSure(sure, filter, codec, src),
           Reading(s, w, codec, src, data, sure, filter),
           NEW n \in 1 .. Len(Take(data, Temp)), data # <<>>
    PROVE  Reading(Accept(s, Take(data, n)), w, codec, src, Drop(data, n), sure, filter)
<1>1. PICK t \in Seq(Byte), x \in BOOLEAN :
         Going(sure, s, w, codec, src, data, t, x) /\ data \in Seq(Byte)
  BY DEF Reading
<1>2. PICK chunk \in Full, rest \in Seq(Byte) :
         chunk = Take(data, n) /\ rest = Drop(data, n) /\ data = chunk \o rest
  <2>1. Len(data) \in Nat \ {0} /\ n \in Nat \ {0}
    BY <1>1
  <2>2. /\ Take(data, n) \in Seq(Byte) /\ Drop(data, n) \in Seq(Byte)
        /\ data = Take(data, n) \o Drop(data, n)
        /\ Len(Take(data, n)) = IF n < Len(data) THEN n ELSE Len(data)
    BY <1>1, <2>1, TakeDrop
  <2>3. Take(data, n) # <<>>
    <3>1. Len(Take(data, n)) # 0
      BY <2>1, <2>2
    <3>2. QED
      BY <3>1
  <2>4. QED
    BY <2>2, <2>3 DEF Full
<1>3. t = <<>> => Told(sure, codec, src, IsTextBuffer(FirstPiece(s, chunk)))
  <2>1. SUFFICES ASSUME t = <<>> PROVE Told(sure, codec, src, IsTextBuffer(FirstPiece(s, chunk)))
    OBVIOUS
  <2>2. PICK h \in Seq(Byte) : h = s.front.held /\ src = h \o data
    <3>1. Going(sure, s, w, codec, src, data, t, x) /\ t = <<>> /\ data \in Seq(Byte)
      BY <1>1, <2>1
    <3>2. AllAhead(s, src, data)
      BY <3>1, NothingYet
    <3>3. QED
      BY <3>2 DEF AllAhead
  <2>3. CASE h # <<>>
    <3>1. FirstPiece(s, chunk) = h
      BY <2>2, <2>3 DEF FirstPiece
    <3>2. Told(sure, codec, h \o data, IsTextBuffer(h))
      BY <1>1, <2>2, SurelyTold
    <3>3. QED
      BY <2>2, <3>1, <3>2
  <2>4. CASE h = <<>>
    <3>1. FirstPiece(s, chunk) = chunk
      BY <2>2, <2>4 DEF FirstPiece
    <3>2. src = chunk \o rest
      <4>1. <<>> \o data = data
        BY <1>1
      <4>2. QED
        BY <1>2, <2>2, <2>4, <4>1
    <3>3. chunk \in Seq(Byte) /\ rest \in Seq(Byte)
      BY <1>2 DEF Full
    <3>4. Told(sure, codec, chunk \o rest, IsTextBuffer(chunk))
      BY <3>2, <3>3, SurelyTold
    <3>5. QED
      BY <3>1, <3>2, <3>4
  <2>5. QED
    BY <2>3, <2>4
<1>4. Going(sure, s, w, codec, src, chunk \o rest, t, x)
  BY <1>1, <1>2
<1>5. PICK u \in Seq(Byte), y \in BOOLEAN :
         Going(sure, Accept(s, chunk), w, codec, src, rest, u, y)
  BY <1>2, <1>3, <1>4, GoingAccept
<1>6. QED
  BY <1>2, <1>5 DEF Reading

\* The end of the file or the pipe.
LEMMA ReadAll ==
    ASSUME NEW codec \in Codecs, NEW s, NEW w \in Seq(Byte), NEW src \in Seq(Byte),
           NEW sure, NEW filter, IsSure(sure, filter, codec, src),
           Reading(s, w, codec, src, <<>>, sure, filter)
    PROVE  \E t \in Seq(Byte), x \in BOOLEAN :
              /\ Going(sure, s, w, codec, src, <<>>, t, x)
              /\ t = <<>> => Told(sure, codec, src, IsTextBuffer(s.front.held))
<1>1. PICK t \in Seq(Byte), x \in BOOLEAN :
         /\ Going(sure, s, w, codec, src, <<>>, t, x)
         /\ ~filter /\ t = <<>> => InOrder(s, <<>>)
  BY DEF Reading
<1>2. ASSUME t = <<>>
      PROVE  Told(sure, codec, src, IsTextBuffer(s.front.held))
  <2>0. <<>> \in Seq(Byte)
    OBVIOUS
  <2>1. PICK h \in Seq(Byte) : h = s.front.held /\ src = h \o <<>>
    <3>1. Going(sure, s, w, codec, src, <<>>, t, x) /\ t = <<>>
      BY <1>1, <1>2
    <3>2. AllAhead(s, src, <<>>)
      BY <2>0, <3>1, NothingYet
    <3>3. QED
      BY <3>2 DEF AllAhead
  <2>2. src = h
    BY <2>1
  <2>3. CASE filter
    <3>1. IsSure(sure, filter, codec, h \o <<>>)
      BY <2>1
    <3>2. Told(sure, codec, h \o <<>>, IsTextBuffer(h))
      BY <2>0, <2>3, <3>1, SurelyTold
    <3>3. QED
      BY <2>1, <3>2
  <2>4. CASE ~filter
    <3>1. Len(h) <= Temp
      <4>1. Len(<<>>) = 0
        OBVIOUS
      <4>2. QED
        BY <1>1, <1>2, <2>1, <2>4, <4>1, Sizes DEF InOrder
    <3>2. Take(src, Temp) = h
      BY <2>2, <3>1, Sizes, TakeDrop
    <3>3. QED
      BY <2>1, <3>2, ToldByBeginning
  <2>5. QED
    BY <2>3, <2>4
<1>3. QED
  BY <1>1, <1>2

LEMMA ReadFlush ==
    ASSUME NEW codec \in Codecs, NEW s, NEW w \in Seq(Byte), NEW src \in Seq(Byte),
           NEW sure, NEW filter, IsSure(sure, filter, codec, src),
           Reading(s, w, codec, src, <<>>, sure, filter)
    PROVE  Flushed(Flush(s), w, codec, src, sure)
<1>1. PICK t \in Seq(Byte), x \in BOOLEAN :
         /\ Going(sure, s, w, codec, src, <<>>, t, x)
         /\ t = <<>> => Told(sure, codec, src, IsTextBuffer(s.front.held))
  BY ReadAll
<1>2. QED
  BY <1>1, GoingFlush DEF Flushed

LEMMA ReadClose ==
    ASSUME NEW codec \in Codecs, NEW s, NEW w \in Seq(Byte), NEW src \in Seq(Byte),
           NEW sure, NEW filter, IsSure(sure, filter, codec, src),
           Reading(s, w, codec, src, <<>>, sure, filter)
    PROVE  Ending(sure, CloseStream(s), w, codec, src)
<1>1. PICK t \in Seq(Byte), x \in BOOLEAN :
         /\ Going(sure, s, w, codec, src, <<>>, t, x)
         /\ t = <<>> => Told(sure, codec, src, IsTextBuffer(s.front.held))
  BY ReadAll
<1>2. QED
  BY <1>1, GoingClose

LEMMA FlushedEnds ==
    ASSUME NEW codec \in Codecs, NEW s, NEW w \in Seq(Byte), NEW src \in Seq(Byte), NEW sure,
           Flushed(s, w, codec, src, sure)
    PROVE  /\ Ending(sure, CloseStream(s), w, codec, src)
           /\ codec # "encode" /\ Pending(s) = <<>> => Pending(CloseStream(s)) = <<>>
<1>1. PICK x \in BOOLEAN : Keeps(s, w, codec, src, <<>>, src, x) /\ Told(sure, codec, src, x)
  BY DEF Flushed
<1>2. Ending(sure, CloseStream(s), w, codec, src)
  BY <1>1, FlushedClose DEF Flushed
<1>3. ASSUME codec # "encode", Pending(s) = <<>>
      PROVE  Pending(CloseStream(s)) = <<>>
  <2>1. s \in Streams(codec) /\ s.front \in Buffers /\ s.back \in Buffers
    BY <1>1, StreamParts DEF Keeps
  <2>2. s.front = [held |-> s.front.held, pieces |-> s.front.pieces]
    BY <2>1 DEF Buffers
  <2>3. s.back = [held |-> s.back.held, pieces |-> s.back.pieces]
    BY <2>1 DEF Buffers
  <2>4. s.front.pieces = <<>> /\ s.front.held = <<>> /\ s.back.held = <<>>
    BY <1>1 DEF Keeps, Flushed
  <2>5. s.back.pieces = <<>>
    BY <1>3 DEF Pending
  <2>6. s.front = EmptyBuffer /\ s.back = EmptyBuffer
    BY <2>2, <2>3, <2>4, <2>5 DEF EmptyBuffer
  <2>7. QED
    BY <1>3, <2>1, <2>6, CloseEmpty
<1>4. QED
  BY <1>2, <1>3

\* A piece is written.
LEMMA ReadingPiece ==
    ASSUME NEW codec \in Codecs, NEW s, NEW w \in Seq(Byte), NEW src, NEW data, NEW sure,
           NEW filter, Reading(s, w, codec, src, data, sure, filter), Pending(s) # <<>>
    PROVE  /\ Reading(PieceWritten(s), w \o NextPiece(s), codec, src, data, sure, filter)
           /\ NextPiece(s) \in Seq(Byte)
<1>1. PICK t \in Seq(Byte), x \in BOOLEAN :
         /\ Going(sure, s, w, codec, src, data, t, x)
         /\ ~filter /\ t = <<>> => InOrder(s, data)
  BY DEF Reading
<1>2. /\ Going(sure, PieceWritten(s), w \o NextPiece(s), codec, src, data, t, x)
      /\ NextPiece(s) \in Seq(Byte) /\ PieceWritten(s).front = s.front
  BY <1>1, GoingPiece
<1>3. QED
  BY <1>1, <1>2 DEF Reading, InOrder

LEMMA FlushedPiece ==
    ASSUME NEW codec \in Codecs, NEW s, NEW w \in Seq(Byte), NEW src, NEW sure,
           Flushed(s, w, codec, src, sure), Pending(s) # <<>>
    PROVE  /\ Flushed(PieceWritten(s), w \o NextPiece(s), codec, src, sure)
           /\ NextPiece(s) \in Seq(Byte)
<1>1. PICK x \in BOOLEAN : Keeps(s, w, codec, src, <<>>, src, x) /\ Told(sure, codec, src, x)
  BY DEF Flushed
<1>2. s \in Streams(codec)
  BY <1>1 DEF Keeps
<1>3. NextPiece(s) \in Seq(Byte)
  BY <1>2, PieceIs
<1>4. /\ Keeps(PieceWritten(s), w \o NextPiece(s), codec, src, <<>>, src, x)
      /\ PieceWritten(s).front = s.front /\ PieceWritten(s).back.held = s.back.held
  BY <1>1, KeepsPiece
<1>5. QED
  BY <1>1, <1>3, <1>4 DEF Flushed

\* The program is killed.
LEMMA StoppedPrefix ==
    ASSUME NEW codec \in Codecs, NEW s, NEW w \in Seq(Byte), NEW src \in Seq(Byte), NEW data,
           NEW sure, sure, NEW filter,
           \/ Reading(s, w, codec, src, data, sure, filter)
           \/ Flushed(s, w, codec, src, sure)
           \/ Ending(sure, s, w, codec, src)
    PROVE  IsPrefix(w, Through(codec, src))
<1>1. CASE Reading(s, w, codec, src, data, sure, filter)
  BY <1>1, GoingPrefix DEF Reading
<1>2. CASE Flushed(s, w, codec, src, sure)
  <2>1. PICK x \in BOOLEAN : Going(sure, s, w, codec, src, <<>>, src, x)
    BY <1>2 DEF Flushed, Going
  <2>2. <<>> \in Seq(Byte)
    OBVIOUS
  <2>3. QED
    BY <2>1, <2>2, GoingPrefix
<1>3. CASE Ending(sure, s, w, codec, src)
  BY <1>3, EndingPrefix
<1>4. QED
  BY <1>1, <1>2, <1>3

-----------------------------------------------------------------------------
(* The run: what the steps of the programs do to it.                       *)

IsRun(r) ==
    r = [command |-> r.command, phase |-> r.phase, left |-> r.left, open |-> r.open,
         source |-> r.source, target |-> r.target, data |-> r.data, stream |-> r.stream,
         stamp |-> r.stamp, done |-> r.done, shown |-> r.shown]

\* Two runs that are the same but for what a step of a copy changes.
SameFile(r, q) ==
    /\ q.command = r.command /\ q.left = r.left /\ q.open = r.open /\ q.source = r.source
    /\ q.target = r.target /\ q.stamp = r.stamp /\ q.done = r.done

LEMMA NewRunIs ==
    ASSUME NEW c
    PROVE  /\ IsRun(NewRun(c)) /\ NewRun(c).command = c /\ NewRun(c).phase = "next"
           /\ NewRun(c).left = <<>> /\ NewRun(c).open = FALSE /\ NewRun(c).done = <<>>
           /\ NewRun(c).stamp = [atime |-> Now, mtime |-> Now]
BY DEF NewRun, IsRun

\* A run that goes on at another place of its command.
LEMMA PhasedIs ==
    ASSUME NEW r, IsRun(r), NEW p
    PROVE  /\ IsRun([r EXCEPT !.phase = p]) /\ [r EXCEPT !.phase = p].phase = p
           /\ SameFile(r, [r EXCEPT !.phase = p])
BY DEF IsRun, SameFile

LEMMA LeftIs ==
    ASSUME NEW r, IsRun(r), NEW q, NEW l, q = [r EXCEPT !.left = l]
    PROVE  /\ IsRun(q) /\ q.left = l /\ q.phase = r.phase /\ q.open = r.open
           /\ q.command = r.command /\ q.done = r.done /\ q.stamp = r.stamp
           /\ q.target = r.target /\ q.source = r.source
BY DEF IsRun

LEMMA EndsIs ==
    ASSUME IsRun(run), NEW how, Ends(how)
    PROVE  /\ IsRun(run') /\ run'.phase = how /\ run'.command = run.command
           /\ run'.open = run.open /\ run'.source = run.source /\ run'.target = run.target
           /\ run'.done = run.done /\ run'.left = <<>> /\ run'.stamp = run.stamp
BY DEF Ends, IsRun

\* The run q is r when it has opened its files.
Opens(r, q, source, target, data, codec, stamp) ==
    /\ IsRun(q) /\ q.command = r.command /\ q.phase = "copy" /\ q.open = TRUE
    /\ q.source = source /\ q.target = target /\ q.data = data
    /\ q.stream = NewStream(codec) /\ q.stamp = stamp /\ q.done = r.done

LEMMA OpenedIs ==
    ASSUME NEW r, IsRun(r), NEW source, NEW target, NEW data, NEW codec, NEW stamp,
           NEW q, q = Opened(r, source, target, data, codec, stamp)
    PROVE  Opens(r, q, source, target, data, codec, stamp) /\ q.left = r.left
BY DEF Opened, IsRun, Opens

LEMMA OpenedLeft ==
    ASSUME NEW r, IsRun(r), NEW source, NEW target, NEW data, NEW codec, NEW stamp, NEW left,
           run' = [Opened(r, source, target, data, codec, stamp) EXCEPT !.left = left]
    PROVE  /\ Opens(r, run', source, target, data, codec, stamp) /\ run'.left = left
<1>1. PICK q : q = Opened(r, source, target, data, codec, stamp)
  OBVIOUS
<1>2. Opens(r, q, source, target, data, codec, stamp)
  BY <1>1, OpenedIs
<1>3. run' = [q EXCEPT !.left = left]
  BY <1>1
<1>4. QED
  BY <1>2, <1>3 DEF IsRun, Opens

\* A chunk.
LEMMA ChunkIs ==
    ASSUME IsRun(run), NEW s, NEW d, run' = [run EXCEPT !.stream = s, !.data = d]
    PROVE  /\ IsRun(run') /\ SameFile(run, run') /\ run'.phase = run.phase
           /\ run'.stream = s /\ run'.data = d
BY DEF IsRun, SameFile

\* The end of the data.
LEMMA InputEndIs ==
    ASSUME IsRun(run), NEW s, NEW p, run' = [run EXCEPT !.stream = s, !.phase = p]
    PROVE  /\ IsRun(run') /\ SameFile(run, run') /\ run'.phase = p
           /\ run'.stream = s /\ run'.data = run.data
BY DEF IsRun, SameFile

LEMMA GivenIs ==
    ASSUME IsRun(run), Given
    PROVE  /\ IsRun(run') /\ SameFile(run, run') /\ run'.phase = run.phase
           /\ run'.stream = PieceWritten(run.stream) /\ run'.data = run.data
BY DEF IsRun, SameFile, Given

\* The end of a copy.
Shut(r, q, p) ==
    /\ IsRun(q) /\ q.phase = p /\ q.open = FALSE /\ q.command = r.command /\ q.left = r.left
    /\ q.source = r.source /\ q.target = r.target /\ q.stamp = r.stamp

LEMMA ShutIs ==
    ASSUME IsRun(run), NEW p, run' = [run EXCEPT !.phase = p, !.open = FALSE]
    PROVE  Shut(run, run', p) /\ run'.done = run.done
BY DEF IsRun, Shut

LEMMA NotedIs ==
    ASSUME IsRun(run), NEW p, NEW d, run' = [run EXCEPT !.phase = p, !.open = FALSE, !.done = d]
    PROVE  Shut(run, run', p) /\ run'.done = d
BY DEF IsRun, Shut

LEMMA FilterShutIs ==
    ASSUME IsRun(run), NEW p, NEW s, run' = [run EXCEPT !.phase = p, !.open = FALSE, !.stream = s]
    PROVE  Shut(run, run', p) /\ run'.done = run.done
BY DEF IsRun, Shut

-----------------------------------------------------------------------------
(* The copies of the runs.                                                 *)

Stopped == {"failed", "killed"}
Sure(codec, src, filter) == filter => codec # "decode" \/ PlainHeader(src)

\* The run r has written w of what the codec makes of src.
Copying(r, w, codec, src, filter) ==
    /\ w \in Seq(Byte) /\ src \in Seq(Byte) /\ codec \in Codecs
    /\ r.phase \in {"copy", "flushed", "closing"} \cup Stopped
    /\ r.phase = "copy" =>
          Reading(r.stream, w, codec, src, r.data, Sure(codec, src, filter), filter)
    /\ r.phase = "flushed" => Flushed(r.stream, w, codec, src, Sure(codec, src, filter))
    /\ r.phase = "closing" => Ending(Sure(codec, src, filter), r.stream, w, codec, src)
    /\ r.phase \in Stopped /\ Sure(codec, src, filter) => IsPrefix(w, Through(codec, src))

LEMMA SureEnough ==
    ASSUME NEW codec, NEW src, NEW filter
    PROVE  IsSure(Sure(codec, src, filter), filter, codec, src)
BY DEF IsSure, Sure

LEMMA CopyingPrefix ==
    ASSUME NEW r, NEW w, NEW codec, NEW src, NEW filter, Copying(r, w, codec, src, filter),
           Sure(codec, src, filter)
    PROVE  IsPrefix(w, Through(codec, src))
<1>1. /\ codec \in Codecs /\ w \in Seq(Byte) /\ src \in Seq(Byte)
      /\ r.phase \in {"copy", "flushed", "closing"} \cup Stopped
  BY DEF Copying
<1>2. CASE r.phase = "copy"
  <2>1. Reading(r.stream, w, codec, src, r.data, Sure(codec, src, filter), filter)
    BY <1>2 DEF Copying
  <2>2. QED
    BY <1>1, <2>1, StoppedPrefix
<1>3. CASE r.phase = "flushed"
  <2>1. Flushed(r.stream, w, codec, src, Sure(codec, src, filter))
    BY <1>3 DEF Copying
  <2>2. QED
    BY <1>1, <2>1, StoppedPrefix
<1>4. CASE r.phase = "closing"
  <2>1. Ending(Sure(codec, src, filter), r.stream, w, codec, src)
    BY <1>4 DEF Copying
  <2>2. QED
    BY <1>1, <2>1, StoppedPrefix
<1>5. CASE r.phase \in Stopped
  BY <1>5 DEF Copying
<1>6. QED
  BY <1>1, <1>2, <1>3, <1>4, <1>5

LEMMA CopyingOpen ==
    ASSUME NEW r, NEW codec \in Codecs, NEW src \in Seq(Byte), NEW filter,
           r.phase = "copy", r.stream = NewStream(codec), r.data = src
    PROVE  Copying(r, <<>>, codec, src, filter)
<1>1. Reading(r.stream, <<>>, codec, src, r.data, Sure(codec, src, filter), filter)
  BY NewReading
<1>2. <<>> \in Seq(Byte)
  OBVIOUS
<1>3. QED
  BY <1>1, <1>2 DEF Copying, Stopped

LEMMA CopyingChunk ==
    ASSUME IsRun(run), NEW w, NEW codec, NEW src, Copying(run, w, codec, src, FALSE), CopyChunk
    PROVE  /\ IsRun(run') /\ SameFile(run, run') /\ run'.phase = "copy"
           /\ Copying(run', w, codec, src, FALSE)
<1>1. /\ run.phase = "copy" /\ run.data # <<>>
      /\ run' = [run EXCEPT !.stream = Accept(run.stream, Take(run.data, Temp)),
                            !.data = Drop(run.data, Temp)]
  BY DEF CopyChunk, CanRead
<1>2. /\ IsRun(run') /\ SameFile(run, run') /\ run'.phase = "copy"
      /\ run'.stream = Accept(run.stream, Take(run.data, Temp))
      /\ run'.data = Drop(run.data, Temp)
  BY <1>1, ChunkIs
<1>3. /\ codec \in Codecs /\ w \in Seq(Byte) /\ src \in Seq(Byte)
      /\ Reading(run.stream, w, codec, src, run.data, Sure(codec, src, FALSE), FALSE)
  BY <1>1 DEF Copying
<1>4. Reading(Accept(run.stream, Take(run.data, Temp)), w, codec, src, Drop(run.data, Temp),
              Sure(codec, src, FALSE), FALSE)
  BY <1>1, <1>3, ReadChunk
<1>5. QED
  BY <1>2, <1>3, <1>4 DEF Copying, Stopped

LEMMA CopyingPipe ==
    ASSUME IsRun(run), NEW w, NEW codec, NEW src, Copying(run, w, codec, src, TRUE), CopyPipe
    PROVE  /\ IsRun(run') /\ SameFile(run, run') /\ run'.phase = "copy"
           /\ Copying(run', w, codec, src, TRUE)
<1>1. PICK n \in 1 .. Len(Take(run.data, Temp)) :
         run' = [run EXCEPT !.stream = Accept(run.stream, Take(run.data, n)),
                            !.data = Drop(run.data, n)]
  BY DEF CopyPipe
<1>2. run.phase = "copy"
  BY DEF CopyPipe, CanRead
<1>3. /\ codec \in Codecs /\ w \in Seq(Byte) /\ src \in Seq(Byte)
      /\ Reading(run.stream, w, codec, src, run.data, Sure(codec, src, TRUE), TRUE)
  BY <1>2 DEF Copying
<1>4. run.data # <<>>
  <2>1. run.data \in Seq(Byte)
    BY <1>3 DEF Reading
  <2>2. Len(Take(run.data, Temp)) = IF Temp < Len(run.data) THEN Temp ELSE Len(run.data)
    <3>1. Temp \in Nat
      BY Sizes
    <3>2. QED
      BY <2>1, <3>1, TakeDrop
  <2>3. Len(run.data) # 0
    BY <1>1, <2>1, <2>2, Sizes
  <2>4. Len(<<>>) = 0
    OBVIOUS
  <2>5. QED
    BY <2>3, <2>4
<1>5. /\ IsRun(run') /\ SameFile(run, run') /\ run'.phase = "copy"
      /\ run'.stream = Accept(run.stream, Take(run.data, n))
      /\ run'.data = Drop(run.data, n)
  BY <1>1, <1>2, ChunkIs
<1>6. Reading(Accept(run.stream, Take(run.data, n)), w, codec, src, Drop(run.data, n),
              Sure(codec, src, TRUE), TRUE)
  <2>1. IsSure(Sure(codec, src, TRUE), TRUE, codec, src)
    BY SureEnough
  <2>2. QED
    BY <1>1, <1>3, <1>4, <2>1, ReadPipe
<1>7. QED
  BY <1>3, <1>5, <1>6 DEF Copying, Stopped

\* The end of the data: the streams are flushed, or closed.
LEMMA CopyingFlush ==
    ASSUME IsRun(run), NEW w, NEW codec, NEW src, Copying(run, w, codec, src, FALSE),
           CanRead, run.data = <<>>,
           run' = [run EXCEPT !.stream = Flush(@), !.phase = "flushed"]
    PROVE  /\ IsRun(run') /\ SameFile(run, run') /\ run'.phase = "flushed"
           /\ Copying(run', w, codec, src, FALSE)
<1>1. /\ IsRun(run') /\ SameFile(run, run') /\ run'.phase = "flushed"
      /\ run'.stream = Flush(run.stream)
  BY InputEndIs
<1>2. /\ codec \in Codecs /\ w \in Seq(Byte) /\ src \in Seq(Byte)
      /\ Reading(run.stream, w, codec, src, <<>>, Sure(codec, src, FALSE), FALSE)
  BY DEF Copying, CanRead
<1>3. Flushed(Flush(run.stream), w, codec, src, Sure(codec, src, FALSE))
  BY <1>2, SureEnough, ReadFlush
<1>4. QED
  BY <1>1, <1>2, <1>3 DEF Copying, Stopped

LEMMA CopyingReset ==
    ASSUME IsRun(run), NEW w, NEW codec, NEW src, NEW filter \in BOOLEAN,
           Copying(run, w, codec, src, filter), CanRead, run.data = <<>>,
           run' = [run EXCEPT !.stream = CloseStream(@), !.phase = "closing"]
    PROVE  /\ IsRun(run') /\ SameFile(run, run') /\ run'.phase = "closing"
           /\ Copying(run', w, codec, src, filter)
<1>1. /\ IsRun(run') /\ SameFile(run, run') /\ run'.phase = "closing"
      /\ run'.stream = CloseStream(run.stream)
  BY InputEndIs
<1>2. /\ codec \in Codecs /\ w \in Seq(Byte) /\ src \in Seq(Byte)
      /\ Reading(run.stream, w, codec, src, <<>>, Sure(codec, src, filter), filter)
  BY DEF Copying, CanRead
<1>3. IsSure(Sure(codec, src, filter), filter, codec, src)
  BY SureEnough
<1>4. Ending(Sure(codec, src, filter), CloseStream(run.stream), w, codec, src)
  BY <1>2, <1>3, ReadClose
<1>5. QED
  BY <1>1, <1>2, <1>4 DEF Copying, Stopped

LEMMA CopyingClose ==
    ASSUME IsRun(run), NEW w, NEW codec, NEW src, Copying(run, w, codec, src, FALSE),
           run.phase = "flushed",
           run' = [run EXCEPT !.stream = CloseStream(@), !.phase = "closing"]
    PROVE  /\ IsRun(run') /\ SameFile(run, run') /\ run'.phase = "closing"
           /\ run'.stream = CloseStream(run.stream)
           /\ Copying(run', w, codec, src, FALSE)
           /\ codec # "encode" /\ Pending(run.stream) = <<>> => Pending(run'.stream) = <<>>
<1>1. /\ IsRun(run') /\ SameFile(run, run') /\ run'.phase = "closing"
      /\ run'.stream = CloseStream(run.stream)
  BY InputEndIs
<1>2. /\ codec \in Codecs /\ w \in Seq(Byte) /\ src \in Seq(Byte)
      /\ Flushed(run.stream, w, codec, src, Sure(codec, src, FALSE))
  BY DEF Copying
<1>3. /\ Ending(Sure(codec, src, FALSE), CloseStream(run.stream), w, codec, src)
      /\ codec # "encode" /\ Pending(run.stream) = <<>>
            => Pending(CloseStream(run.stream)) = <<>>
  BY <1>2, FlushedEnds
<1>4. QED
  BY <1>1, <1>2, <1>3 DEF Copying, Stopped

Written1(r, q, w, codec, src, filter) ==
    /\ NextPiece(r.stream) \in Seq(Byte)
    /\ Copying(q, w \o NextPiece(r.stream), codec, src, filter)

LEMMA CopyingPiece ==
    ASSUME IsRun(run), NEW w, NEW codec, NEW src, NEW filter, Copying(run, w, codec, src, filter),
           run.phase \notin Stopped, Pending(run.stream) # <<>>, Given
    PROVE  /\ IsRun(run') /\ SameFile(run, run') /\ run'.phase = run.phase
           /\ Written1(run, run', w, codec, src, filter)
<1>1. /\ IsRun(run') /\ SameFile(run, run') /\ run'.phase = run.phase
      /\ run'.stream = PieceWritten(run.stream) /\ run'.data = run.data
  BY GivenIs
<1>2. /\ codec \in Codecs /\ w \in Seq(Byte) /\ src \in Seq(Byte)
      /\ run.phase \in {"copy", "flushed", "closing"}
  BY DEF Copying
<1>4. CASE run.phase = "copy"
  <2>1. Reading(run.stream, w, codec, src, run.data, Sure(codec, src, filter), filter)
    BY <1>4 DEF Copying
  <2>2. /\ Reading(PieceWritten(run.stream), w \o NextPiece(run.stream), codec, src, run.data,
                   Sure(codec, src, filter), filter)
        /\ NextPiece(run.stream) \in Seq(Byte)
    BY <1>2, <2>1, ReadingPiece
  <2>3. w \o NextPiece(run.stream) \in Seq(Byte)
    BY <1>2, <2>2
  <2>4. QED
    BY <1>1, <1>2, <1>4, <2>2, <2>3 DEF Copying, Written1, Stopped
<1>5. CASE run.phase = "flushed"
  <2>1. Flushed(run.stream, w, codec, src, Sure(codec, src, filter))
    BY <1>5 DEF Copying
  <2>2. /\ Flushed(PieceWritten(run.stream), w \o NextPiece(run.stream), codec, src,
                   Sure(codec, src, filter))
        /\ NextPiece(run.stream) \in Seq(Byte)
    BY <1>2, <2>1, FlushedPiece
  <2>3. w \o NextPiece(run.stream) \in Seq(Byte)
    BY <1>2, <2>2
  <2>4. QED
    BY <1>1, <1>2, <1>5, <2>2, <2>3 DEF Copying, Written1, Stopped
<1>6. CASE run.phase = "closing"
  <2>1. Ending(Sure(codec, src, filter), run.stream, w, codec, src)
    BY <1>6 DEF Copying
  <2>2. /\ Ending(Sure(codec, src, filter), PieceWritten(run.stream),
                  w \o NextPiece(run.stream), codec, src)
        /\ NextPiece(run.stream) \in Seq(Byte)
    BY <1>2, <2>1, EndingPiece
  <2>3. w \o NextPiece(run.stream) \in Seq(Byte)
    BY <1>2, <2>2
  <2>4. QED
    BY <1>1, <1>2, <1>6, <2>2, <2>3 DEF Copying, Written1, Stopped
<1>7. QED
  BY <1>1, <1>2, <1>4, <1>5, <1>6

LEMMA CopyingStops ==
    ASSUME NEW r, NEW q, NEW w, NEW codec, NEW src, NEW filter, Copying(r, w, codec, src, filter),
           q.phase \in Stopped
    PROVE  Copying(q, w, codec, src, filter)
<1>1. Sure(codec, src, filter) => IsPrefix(w, Through(codec, src))
  BY CopyingPrefix
<1>2. QED
  BY <1>1 DEF Copying, Stopped

LEMMA CopyingDone ==
    ASSUME NEW r, NEW w, NEW codec, NEW src, NEW filter, Copying(r, w, codec, src, filter),
           r.phase = "closing", Pending(r.stream) = <<>>, Sure(codec, src, filter)
    PROVE  w = Through(codec, src)
<1>1. /\ codec \in Codecs /\ w \in Seq(Byte) /\ src \in Seq(Byte)
      /\ Ending(Sure(codec, src, filter), r.stream, w, codec, src)
  BY DEF Copying
<1>2. QED
  BY <1>1, EndingNothing

-----------------------------------------------------------------------------
(* Types.                                                                  *)

NoCommand == [program |-> "none"]

RunTyped ==
    /\ IsRun(run) /\ run.open \in BOOLEAN /\ run.stamp \in Stamps
    /\ run.command \in Commands \cup {NoCommand}
    /\ run.phase \in {"copy", "flushed", "closing", "extract"} => run.open

TypeInv == Typed(files) /\ ImageTyped /\ (Disk => Mirrors(memory, image)) /\ RunTyped

LEMMA CommandIs ==
    ASSUME RunTyped
    PROVE  /\ run.command \in Commands \/ run.command = NoCommand
           /\ \A program \in {"disk", "text", "rt11", "mkfs"} :
                 run.command.program = program => run.command \in Commands
           /\ run.command.program \in {"disk", "text", "rt11", "mkfs", "none"}
<1>1. run.command \in Commands => run.command.program \in {"disk", "text", "rt11", "mkfs"}
  BY CommandsAssumption
<1>2. NoCommand.program = "none"
  BY DEF NoCommand
<1>3. QED
  BY <1>1, <1>2 DEF RunTyped

LEMMA NowIs == [atime |-> Now, mtime |-> Now] \in Stamps
BY FilesAssumption DEF Stamps

LEMMA KindIs ==
    ASSUME NEW name
    PROVE  Kind(name) \in DOMAIN KindNumber
<1>1. DOMAIN KindNumber = {"untypedfile", "xdskfile", "codefile", "textfile", "infofile",
                           "datafile", "graffile", "fotofile"}
  BY DEF KindNumber
<1>2. DOMAIN Extensions \subseteq DOMAIN KindNumber
  BY <1>1 DEF Extensions
<1>3. ExactKind(name) \in {"datafile", "codefile", "textfile", "none"}
  BY DEF ExactKind
<1>4. CASE ExactKind(name) # "none"
  <2>1. Kind(name) = ExactKind(name)
    BY <1>4 DEF Kind
  <2>2. QED
    BY <1>1, <1>3, <1>4, <2>1
<1>5. CASE ExactKind(name) = "none" /\ \E k \in DOMAIN Extensions : HasExtension(name, k)
  <2>1. Kind(name) = CHOOSE k \in DOMAIN Extensions : HasExtension(name, k)
    BY <1>5 DEF Kind
  <2>2. QED
    BY <1>2, <1>5, <2>1
<1>6. CASE ExactKind(name) = "none" /\ ~\E k \in DOMAIN Extensions : HasExtension(name, k)
  <2>1. Kind(name) = IF name.stem = "system" /\ name.ext # "" THEN "codefile" ELSE "datafile"
    BY <1>6 DEF Kind
  <2>2. QED
    BY <1>1, <2>1
<1>7. QED
  BY <1>4, <1>5, <1>6

LEMMA NewEntryIs ==
    ASSUME NEW name
    PROVE  /\ NewEntry(name) \in VolumeFiles(Dates) /\ NewEntry(name).data = <<>>
<1>1. Kind(name) \in DOMAIN KindNumber /\ Now \in Dates
  BY KindIs, FilesAssumption
<1>2. <<>> \in Seq(0 .. 255)
  OBVIOUS
<1>3. QED
  BY <1>1, <1>2 DEF NewEntry, VolumeFiles

\* The steps that the programs of the volume take with an entry.
Extended(e, d) == [e EXCEPT !.data = @ \o d, !.date = Now]

LEMMA TruncatedIs ==
    ASSUME NEW e \in VolumeFiles(Dates)
    PROVE  /\ Truncated(e) \in VolumeFiles(Dates) /\ Truncated(e).data = <<>>
           /\ Truncated(e).kind = e.kind
<1>1. Now \in Dates /\ <<>> \in Seq(0 .. 255)
  BY FilesAssumption
<1>2. QED
  BY <1>1 DEF Truncated, VolumeFiles

LEMMA DatedIs ==
    ASSUME NEW e \in VolumeFiles(Dates), NEW s \in Stamps
    PROVE  /\ Dated(e, s) \in VolumeFiles(Dates) /\ Dated(e, s).data = e.data
           /\ Dated(e, s).kind = e.kind
BY DEF Dated, VolumeFiles, Stamps

LEMMA ExtendedIs ==
    ASSUME NEW e \in VolumeFiles(Dates), NEW d \in Seq(Byte)
    PROVE  /\ Extended(e, d) \in VolumeFiles(Dates) /\ Extended(e, d).data = e.data \o d
           /\ Extended(e, d).kind = e.kind
<1>1. Now \in Dates /\ e.data \o d \in Seq(0 .. 255)
  BY FilesAssumption DEF VolumeFiles, Byte
<1>2. PICK b \in Seq(0 .. 255) : b = e.data \o d
  BY <1>1
<1>3. Extended(e, d) = [e EXCEPT !.data = b, !.date = Now]
  BY <1>2 DEF Extended
<1>4. QED
  BY <1>1, <1>2, <1>3 DEF VolumeFiles

-----------------------------------------------------------------------------
(* What ucsdpsys_disk has done, and what it is about.                      *)

FileCodec(command, kind) ==
    IF ~command.binary /\ kind = "textfile"
    THEN IF command.op = "put" THEN "encode" ELSE "decode" ELSE "none"

\* The file that the run r copies to the image i, or from it.
PutCopy(r, f, i) ==
    /\ r.target \in DOMAIN i.entries /\ r.source \in DOMAIN f
    /\ Copying(r, i.entries[r.target].data, FileCodec(r.command, i.entries[r.target].kind),
               f[r.source].data, FALSE)

GetCopy(r, f, i) ==
    /\ r.target \in DOMAIN f /\ r.source \in DOMAIN i.entries
    /\ Copying(r, f[r.target].data, FileCodec(r.command, i.entries[r.source].kind),
               i.entries[r.source].data, FALSE)
    /\ r.phase \notin Stopped => r.stamp.mtime = Date(i.entries[r.source].date)
    /\ r.phase = "closing" => /\ Pending(r.stream) = <<>>
                              /\ f[r.target].mtime = Date(i.entries[r.source].date)

PutWhole(command, f, i, c, p) ==
    /\ c \in DOMAIN i.entries
    /\ i.entries[c].data = Through(FileCodec(command, i.entries[c].kind), f[p].data)

GetWhole(command, f, i, p, c) ==
    /\ p \in DOMAIN f /\ c \in DOMAIN i.entries
    /\ f[p].data = Through(FileCodec(command, i.entries[c].kind), i.entries[c].data)
    /\ f[p].mtime = Date(i.entries[c].date)

\* The files that the run has done, but for the one it is doing again.
Again(r, x) == r.open /\ x = r.target

PutsWhole(r, f, i) ==
    \A c \in DOMAIN r.done : Again(r, c) \/ PutWhole(r.command, f, i, c, r.done[c])

GetsWhole(r, f, i) ==
    \A p \in DOMAIN r.done : \/ Again(r, p) \/ p \in ToSet(r.command.boot)
                             \/ GetWhole(r.command, f, i, p, r.done[p])

\* At each place of the program what it copies, and what it has done.
DiskInv ==
    run.command.program = "disk" =>
       /\ run.open => Op \in {"put", "get"} /\ run.phase # "ok"
       /\ Op = "put" => PutsWhole(run, files, image) /\ (run.open => PutCopy(run, files, image))
       /\ Op = "get" => /\ GetsWhole(run, files, image)
                        /\ run.open => GetCopy(run, files, image)
                        /\ Disk => memory = ReadEntries(image)

-----------------------------------------------------------------------------
\* Entries that stay what they are, but for their dates.
SameEntries(i, j, S) ==
    \A c \in DOMAIN i.entries \ S :
       /\ c \in DOMAIN j.entries /\ j.entries[c].data = i.entries[c].data
       /\ j.entries[c].kind = i.entries[c].kind

\* Only what the run is doing changes.
StillAgain(r, q, S) ==
    /\ q.done = r.done /\ q.command = r.command
    /\ r.open => q.open /\ q.target = r.target
    /\ \A x \in S : Again(q, x)

LEMMA PutsStayWhole ==
    ASSUME NEW r, NEW q, NEW f, NEW i, NEW j, NEW S, PutsWhole(r, f, i),
           SameEntries(i, j, S), StillAgain(r, q, S)
    PROVE  PutsWhole(q, f, j)
<1>1. SUFFICES ASSUME NEW c \in DOMAIN r.done, ~Again(q, c)
               PROVE  PutWhole(r.command, f, j, c, r.done[c])
  BY DEF StillAgain, PutsWhole
<1>2. c \notin S /\ ~Again(r, c)
  BY <1>1 DEF StillAgain, Again
<1>3. PutWhole(r.command, f, i, c, r.done[c])
  BY <1>2 DEF PutsWhole
<1>4. QED
  BY <1>2, <1>3 DEF PutWhole, SameEntries

LEMMA GetsStayWhole ==
    ASSUME NEW r, NEW q, NEW f, NEW g, NEW i, NEW S, GetsWhole(r, f, i), SameBut(f, g, S),
           StillAgain(r, q, S)
    PROVE  GetsWhole(q, g, i)
<1>1. SUFFICES ASSUME NEW p \in DOMAIN r.done, ~Again(q, p), p \notin ToSet(r.command.boot)
               PROVE  GetWhole(r.command, g, i, p, r.done[p])
  BY DEF StillAgain, GetsWhole
<1>2. p \notin S /\ ~Again(r, p)
  BY <1>1 DEF StillAgain, Again
<1>3. GetWhole(r.command, f, i, p, r.done[p])
  BY <1>1, <1>2 DEF GetsWhole
<1>4. QED
  BY <1>2, <1>3 DEF GetWhole, SameBut

LEMMA SameFileAgain ==
    ASSUME NEW r, NEW q, SameFile(r, q)
    PROVE  StillAgain(r, q, {}) /\ (r.open => StillAgain(r, q, {r.target}))
BY DEF SameFile, StillAgain, Again

LEMMA SameBothWays ==
    /\ \A f : SameBut(f, f, {})
    /\ \A i : SameEntries(i, i, {})
BY DEF SameBut, SameEntries

\* The directory is written.
LEMMA SyncedIs ==
    ASSUME TypeInv, NEW entries, entries \in [DOMAIN entries -> VolumeFiles(Dates)],
           Synced(entries)
    PROVE  /\ ImageTyped' /\ memory' = entries /\ Mirrors(memory', image')
           /\ DOMAIN image'.entries = DOMAIN entries
           /\ \A c \in DOMAIN entries :
                 /\ image'.entries[c].data = entries[c].data
                 /\ image'.entries[c].kind = entries[c].kind
<1>1. ImageTyped /\ image' = Written(image, entries) /\ memory' = entries
  BY DEF TypeInv, Synced
<1>2. ImageTyped' /\ Mirrors(entries, image') /\ DOMAIN image'.entries = DOMAIN entries
  BY <1>1, WrittenIs DEF ImageTyped
<1>3. QED
  BY <1>1, <1>2 DEF Mirrors

LEMMA MirrorsIs ==
    ASSUME NEW i, NEW e, Mirrors(e, i)
    PROVE  /\ DOMAIN e = DOMAIN i.entries /\ e \in [DOMAIN e -> VolumeFiles(Dates)]
           /\ \A c \in DOMAIN e : /\ e[c] \in VolumeFiles(Dates)
                                  /\ e[c].data = i.entries[c].data
                                  /\ e[c].kind = i.entries[c].kind
                                  /\ e[c].data \in Seq(Byte)
<1>1. DOMAIN e = DOMAIN i.entries /\ e \in [DOMAIN e -> VolumeFiles(Dates)]
  BY DEF Mirrors
<1>2. \A c \in DOMAIN e : e[c] \in VolumeFiles(Dates)
  BY <1>1
<1>3. \A c \in DOMAIN e : e[c].data \in Seq(Byte)
  BY <1>2, EntryParts
<1>4. QED
  BY <1>1, <1>2, <1>3 DEF Mirrors

-----------------------------------------------------------------------------
(* The steps of ucsdpsys_disk.                                             *)

LEMMA DiesStep ==
    ASSUME TypeInv, DiskInv, Dies \/ Killed
    PROVE  TypeInv' /\ DiskInv' /\ run'.open = run.open /\ run'.command = run.command
           /\ run'.target = run.target /\ run'.source = run.source /\ run'.done = run.done
           /\ run'.phase \in Stopped /\ UNCHANGED <<files, image>>
<1>1. PICK how \in Stopped : Ends(how)
  BY DEF Dies, Killed, Stopped
<1>2. UNCHANGED <<files, image>>
  BY DEF Dies, Killed
<1>3. /\ IsRun(run') /\ run'.phase \in Stopped /\ run'.command = run.command
      /\ run'.open = run.open /\ run'.source = run.source /\ run'.target = run.target
      /\ run'.done = run.done /\ run'.stamp = run.stamp
  BY <1>1, EndsIs DEF TypeInv, RunTyped
<1>4. TypeInv'
  <2>1. ~Disk'
    BY <1>3 DEF Disk, Running, Idle, Stopped
  <2>2. RunTyped'
    BY <1>3 DEF TypeInv, RunTyped, Stopped
  <2>3. QED
    BY <1>2, <2>1, <2>2 DEF TypeInv, ImageTyped
<1>5. DiskInv'
  <2>1. SUFFICES ASSUME run.command.program = "disk" PROVE DiskInv'
    BY <1>3 DEF DiskInv
  <2>2. ASSUME Op = "put"
        PROVE  PutsWhole(run', files', image') /\ (run'.open => PutCopy(run', files', image'))
    <3>1. PutsWhole(run, files, image) /\ StillAgain(run, run', {})
      BY <1>3, <2>1, <2>2 DEF DiskInv, StillAgain
    <3>2. PutsWhole(run', files, image)
      BY <3>1, PutsStayWhole, SameBothWays
    <3>3. ASSUME run.open PROVE PutCopy(run', files, image)
      <4>1. PutCopy(run, files, image)
        BY <2>1, <2>2, <3>3 DEF DiskInv
      <4>2. \A w, codec, src : Copying(run, w, codec, src, FALSE)
                                  => Copying(run', w, codec, src, FALSE)
        BY <1>3, CopyingStops
      <4>3. QED
        BY <1>3, <4>1, <4>2 DEF PutCopy
    <3>4. QED
      BY <1>2, <1>3, <3>2, <3>3
  <2>3. ASSUME Op = "get"
        PROVE  GetsWhole(run', files', image') /\ (run'.open => GetCopy(run', files', image'))
    <3>1. GetsWhole(run, files, image) /\ StillAgain(run, run', {})
      BY <1>3, <2>1, <2>3 DEF DiskInv, StillAgain
    <3>2. GetsWhole(run', files, image)
      BY <3>1, GetsStayWhole, SameBothWays
    <3>3. ASSUME run.open PROVE GetCopy(run', files, image)
      <4>1. GetCopy(run, files, image)
        BY <2>1, <2>3, <3>3 DEF DiskInv
      <4>2. \A w, codec, src : Copying(run, w, codec, src, FALSE)
                                  => Copying(run', w, codec, src, FALSE)
        BY <1>3, CopyingStops
      <4>3. run'.phase # "closing"
        BY <1>3 DEF Stopped
      <4>4. QED
        BY <1>3, <4>1, <4>2, <4>3 DEF GetCopy
    <3>4. QED
      BY <1>2, <1>3, <3>2, <3>3
  <2>4. ~Disk' /\ run'.phase # "ok"
    BY <1>3 DEF Disk, Running, Idle, Stopped
  <2>5. QED
    BY <1>3, <2>1, <2>2, <2>3, <2>4 DEF DiskInv, Op
<1>6. QED
  BY <1>2, <1>3, <1>4, <1>5

\* A command that begins with nothing open.
LEMMA BeginsTyped ==
    ASSUME TypeInv, NEW c \in Commands, IsRun(run'), run'.command = c, run'.open = FALSE,
           run'.done = <<>>, run'.stamp = [atime |-> Now, mtime |-> Now],
           run'.phase \notin {"copy", "flushed", "closing", "extract"},
           UNCHANGED <<files, image>>, Disk' => memory' = ReadEntries(image)
    PROVE  TypeInv' /\ DiskInv'
<1>1. RunTyped'
  BY NowIs DEF RunTyped
<1>2. Disk' => Mirrors(memory', image')
  BY ReadIs DEF TypeInv
<1>3. TypeInv'
  BY <1>1, <1>2 DEF TypeInv, ImageTyped
<1>4. DOMAIN run'.done = {}
  OBVIOUS
<1>5. DiskInv'
  BY <1>4 DEF DiskInv, PutsWhole, GetsWhole, ReadEntries
<1>6. QED
  BY <1>3, <1>5

LEMMA DiskStarts ==
    ASSUME TypeInv, NEW c \in Commands, Start(c) \/ CheckSystem(c)
    PROVE  TypeInv' /\ DiskInv' /\ run'.command = c
<1>1. IsRun(NewRun(c)) /\ NewRun(c).command = c /\ NewRun(c).open = FALSE
      /\ NewRun(c).done = <<>> /\ NewRun(c).stamp = [atime |-> Now, mtime |-> Now]
      /\ NewRun(c).phase = "next"
  BY NewRunIs
<1>2. \A p : /\ IsRun([NewRun(c) EXCEPT !.phase = p])
             /\ [NewRun(c) EXCEPT !.phase = p].phase = p
             /\ SameFile(NewRun(c), [NewRun(c) EXCEPT !.phase = p])
  BY <1>1, PhasedIs
<1>3. UNCHANGED <<files, image>>
  BY DEF Start, CheckSystem
<1>4. CASE /\ run' = [NewRun(c) EXCEPT !.left = c.args] /\ memory' = ReadEntries(image)
  <2>1. /\ IsRun(run') /\ run'.command = c /\ run'.open = FALSE /\ run'.phase = "next"
        /\ run'.done = <<>> /\ run'.stamp = [atime |-> Now, mtime |-> Now]
    BY <1>1, <1>4, LeftIs
  <2>2. QED
    BY <1>3, <1>4, <2>1, BeginsTyped
<1>5. CASE \E p \in {"ok", "failed"} : run' = [NewRun(c) EXCEPT !.phase = p]
  <2>1. /\ IsRun(run') /\ run'.command = c /\ run'.open = FALSE
        /\ run'.phase \in {"ok", "failed"}
        /\ run'.done = <<>> /\ run'.stamp = [atime |-> Now, mtime |-> Now]
    BY <1>1, <1>2, <1>5 DEF SameFile
  <2>2. ~Disk'
    BY <2>1 DEF Disk, Running, Idle
  <2>3. QED
    BY <1>3, <2>1, <2>2, BeginsTyped
<1>6. QED
  BY <1>4, <1>5 DEF Start, CheckSystem

LEMMA NothingOpen ==
    ASSUME DiskInv, Disk, run.phase = "next", RunTyped
    PROVE  run.open = FALSE
<1>1. SUFFICES ASSUME run.open PROVE FALSE
  BY DEF RunTyped
<1>2. PutCopy(run, files, image) \/ GetCopy(run, files, image)
  BY <1>1 DEF DiskInv, Disk, Running
<1>3. \E w, codec, src : Copying(run, w, codec, src, FALSE)
  BY <1>2 DEF PutCopy, GetCopy
<1>4. QED
  BY <1>3 DEF Copying, Stopped

\* A run that is between two files stays what it is.
LEMMA BetweenFiles ==
    ASSUME TypeInv, DiskInv, Disk, run.phase = "next",
           IsRun(run'), run'.command = run.command, run'.done = run.done,
           run'.open = run.open, run'.phase = "next", run'.stamp = run.stamp,
           UNCHANGED files, ImageTyped', Mirrors(memory', image'),
           \/ UNCHANGED <<image, memory>>
           \/ Op \notin {"put", "get"}
    PROVE  TypeInv' /\ DiskInv'
<1>1. run.open = FALSE /\ run.command.program = "disk"
  BY NothingOpen DEF TypeInv, Disk, Running
<1>2. RunTyped'
  BY <1>1 DEF TypeInv, RunTyped
<1>3. TypeInv'
  BY <1>2 DEF TypeInv, ImageTyped
<1>4. CASE UNCHANGED <<image, memory>>
  <2>1. StillAgain(run, run', {})
    BY <1>1 DEF StillAgain
  <2>2. ASSUME Op = "put" PROVE PutsWhole(run', files', image')
    <3>1. PutsWhole(run, files, image)
      BY <1>1, <2>2 DEF DiskInv
    <3>2. PutsWhole(run', files, image)
      BY <2>1, <3>1, PutsStayWhole, SameBothWays
    <3>3. QED
      BY <1>4, <3>2
  <2>3. ASSUME Op = "get"
        PROVE GetsWhole(run', files', image') /\ memory' = ReadEntries(image')
    <3>1. GetsWhole(run, files, image) /\ memory = ReadEntries(image)
      BY <1>1, <2>3 DEF DiskInv
    <3>2. GetsWhole(run', files, image)
      BY <2>1, <3>1, GetsStayWhole, SameBothWays
    <3>3. QED
      BY <1>4, <3>1, <3>2 DEF ReadEntries
  <2>4. QED
    BY <1>1, <1>3, <2>2, <2>3 DEF DiskInv, Op, ReadEntries
<1>5. CASE Op \notin {"put", "get"}
  BY <1>1, <1>3, <1>5 DEF DiskInv, Op
<1>6. QED
  BY <1>3, <1>4, <1>5

LEMMA ExpandStep ==
    ASSUME TypeInv, DiskInv, ExpandDirectory
    PROVE  TypeInv' /\ DiskInv' /\ run'.command = run.command
<1>1. PICK l : run' = [run EXCEPT !.left = l]
  BY DEF ExpandDirectory
<1>2. /\ IsRun(run') /\ run'.phase = run.phase /\ run'.open = run.open
      /\ run'.command = run.command /\ run'.done = run.done /\ run'.stamp = run.stamp
  BY <1>1, LeftIs DEF TypeInv, RunTyped
<1>3. /\ UNCHANGED <<files, image, memory>> /\ run.phase = "next" /\ Disk
      /\ Mirrors(memory', image') /\ ImageTyped'
  BY DEF ExpandDirectory, AtArgument, TypeInv, ImageTyped
<1>4. QED
  BY <1>2, <1>3, BetweenFiles

LEMMA RemoveStep ==
    ASSUME TypeInv, DiskInv, RemoveFile
    PROVE  TypeInv' /\ DiskInv' /\ run'.command = run.command
<1>1. PICK l : run' = [run EXCEPT !.left = l]
  BY DEF RemoveFile
<1>2. /\ IsRun(run') /\ run'.phase = run.phase /\ run'.open = run.open
      /\ run'.command = run.command /\ run'.done = run.done /\ run'.stamp = run.stamp
  BY <1>1, LeftIs DEF TypeInv, RunTyped
<1>3. /\ UNCHANGED files /\ run.phase = "next" /\ Disk /\ Op = "remove"
  BY DEF RemoveFile, AtFile, AtArgument
<1>4. PICK entries : /\ entries = [c \in DOMAIN memory \ {Cut(Argument.ucsd)} |-> memory[c]]
                     /\ Synced(entries)
  BY DEF RemoveFile
<1>5. entries \in [DOMAIN entries -> VolumeFiles(Dates)]
  <2>1. \A c \in DOMAIN memory : memory[c] \in VolumeFiles(Dates)
    BY <1>3, MirrorsIs DEF TypeInv
  <2>2. QED
    BY <1>4, <2>1
<1>6. ImageTyped' /\ Mirrors(memory', image')
  BY <1>4, <1>5, SyncedIs
<1>7. QED
  BY <1>2, <1>3, <1>6, BetweenFiles

\* A file is opened on the volume.
LEMMA PutStep ==
    ASSUME TypeInv, DiskInv, Put
    PROVE  TypeInv' /\ DiskInv' /\ run'.command = run.command
<1>1. /\ Disk /\ run.phase = "next" /\ Op = "put" /\ UNCHANGED files
      /\ Argument.unix \in DOMAIN files
  BY DEF Put, AtFile, AtArgument, Exists
<1>2. PICK c, entry : /\ c = Cut(Argument.ucsd)
                      /\ entry = IF c \in DOMAIN memory THEN memory[c]
                                 ELSE NewEntry(Argument.ucsd)
  OBVIOUS
<1>3. PICK path \in DOMAIN files, source \in UnixFiles :
         path = Argument.unix /\ source = files[path]
  BY <1>1 DEF TypeInv, Typed
<1>4. PICK stamp \in Stamps : stamp = [atime |-> source.atime, mtime |-> source.mtime]
  BY <1>3 DEF UnixFiles, Stamps
<1>5. PICK codec \in Codecs : codec = IF IsText(entry) THEN "encode" ELSE "none"
  BY DEF Codecs
<1>6. /\ Synced(With(memory, c, Truncated(entry)))
      /\ run' = [Opened(run, path, c, source.data, codec, stamp) EXCEPT !.left = Rest]
  BY <1>2, <1>3, <1>4, <1>5 DEF Put
<1>7. run.open = FALSE /\ IsRun(run) /\ run.command.program = "disk"
  BY <1>1, NothingOpen DEF TypeInv, RunTyped, Disk, Running
<1>8. /\ IsRun(run') /\ run'.command = run.command /\ run'.phase = "copy"
      /\ run'.open = TRUE /\ run'.source = path /\ run'.target = c
      /\ run'.data = source.data /\ run'.stream = NewStream(codec)
      /\ run'.stamp = stamp /\ run'.done = run.done
  <2>1. Opens(run, run', path, c, source.data, codec, stamp)
    BY <1>6, <1>7, OpenedLeft
  <2>2. QED
    BY <2>1 DEF Opens
<1>9. entry \in VolumeFiles(Dates)
  BY <1>1, <1>2, MirrorsIs, NewEntryIs DEF TypeInv
<1>10. PICK entries : entries = With(memory, c, Truncated(entry))
  OBVIOUS
<1>11. /\ DOMAIN entries = DOMAIN memory \cup {c} /\ entries[c] = Truncated(entry)
       /\ \A d \in DOMAIN memory : d # c => entries[d] = memory[d]
       /\ entries \in [DOMAIN entries -> VolumeFiles(Dates)]
  <2>1. memory \in [DOMAIN memory -> VolumeFiles(Dates)]
    BY <1>1, MirrorsIs DEF TypeInv
  <2>2. Truncated(entry) \in VolumeFiles(Dates)
    BY <1>9, TruncatedIs
  <2>3. entries \in [DOMAIN entries -> VolumeFiles(Dates)]
    BY <1>10, <2>1, <2>2, WithType
  <2>4. /\ DOMAIN With(memory, c, Truncated(entry)) = DOMAIN memory \cup {c}
        /\ With(memory, c, Truncated(entry))[c] = Truncated(entry)
        /\ \A d \in DOMAIN memory : d # c => With(memory, c, Truncated(entry))[d] = memory[d]
    BY DEF With
  <2>5. QED
    BY <1>10, <2>3, <2>4
<1>12. /\ ImageTyped' /\ Mirrors(memory', image') /\ DOMAIN image'.entries = DOMAIN entries
       /\ \A d \in DOMAIN entries : /\ image'.entries[d].data = entries[d].data
                                    /\ image'.entries[d].kind = entries[d].kind
  BY <1>6, <1>10, <1>11, SyncedIs
<1>13. TypeInv'
  <2>1. RunTyped'
    BY <1>8 DEF TypeInv, RunTyped
  <2>2. QED
    BY <1>1, <1>12, <2>1 DEF TypeInv
<1>14. PutsWhole(run', files', image')
  <2>1. SameEntries(image, image', {c})
    <3>1. \A d \in DOMAIN memory : /\ memory[d].data = image.entries[d].data
                                   /\ memory[d].kind = image.entries[d].kind
      BY <1>1, MirrorsIs DEF TypeInv
    <3>2. DOMAIN memory = DOMAIN image.entries
      BY <1>1, MirrorsIs DEF TypeInv
    <3>3. QED
      BY <1>11, <1>12, <3>1, <3>2 DEF SameEntries
  <2>2. StillAgain(run, run', {c})
    BY <1>7, <1>8 DEF StillAgain, Again
  <2>3. PutsWhole(run, files, image)
    BY <1>1, <1>7 DEF DiskInv
  <2>4. PutsWhole(run', files, image')
    BY <2>1, <2>2, <2>3, PutsStayWhole
  <2>5. QED
    BY <1>1, <2>4
<1>15. PutCopy(run', files', image')
  <2>1. image'.entries[c].data = <<>> /\ image'.entries[c].kind = entry.kind
    BY <1>9, <1>11, <1>12, TruncatedIs
  <2>2. codec = FileCodec(run.command, image'.entries[c].kind)
    BY <1>1, <1>5, <2>1 DEF FileCodec, IsText, Op
  <2>3. Copying(run', <<>>, codec, source.data, FALSE)
    <3>1. source.data \in Seq(Byte)
      BY <1>3 DEF UnixFiles, Byte
    <3>2. QED
      BY <1>8, <3>1, CopyingOpen
  <2>4. QED
    BY <1>1, <1>3, <1>8, <1>11, <1>12, <2>1, <2>2, <2>3 DEF PutCopy
<1>16. DiskInv'
  BY <1>1, <1>7, <1>8, <1>14, <1>15 DEF DiskInv, Op
<1>17. QED
  BY <1>8, <1>13, <1>16

\* A file is opened beside it.
LEMMA GetStep ==
    ASSUME TypeInv, DiskInv, Get
    PROVE  TypeInv' /\ DiskInv' /\ run'.command = run.command
<1>1. /\ Disk /\ run.phase = "next" /\ Op = "get" /\ UNCHANGED <<image, memory>>
      /\ Cut(Argument.ucsd) \in DOMAIN memory
  BY DEF Get, AtFile, AtArgument
<1>2. run.open = FALSE /\ IsRun(run) /\ run.command.program = "disk"
  BY <1>1, NothingOpen DEF TypeInv, RunTyped, Disk, Running
<1>3. memory = ReadEntries(image) /\ GetsWhole(run, files, image)
  BY <1>1, <1>2 DEF DiskInv
<1>4. PICK c \in DOMAIN memory, entry \in VolumeFiles(Dates) :
         c = Cut(Argument.ucsd) /\ entry = memory[c]
  BY <1>1, MirrorsIs DEF TypeInv
<1>5. PICK stamp \in Stamps : stamp = [atime |-> entry.date, mtime |-> entry.date]
  BY <1>4 DEF VolumeFiles, Stamps
<1>6. PICK codec \in Codecs : codec = IF IsText(entry) THEN "decode" ELSE "none"
  BY DEF Codecs
<1>7. PICK path : path = Argument.unix
  OBVIOUS
<1>8. /\ files' = Created(path)
      /\ run' = [Opened(run, c, path, entry.data, codec, stamp) EXCEPT !.left = Rest]
  BY <1>4, <1>5, <1>6, <1>7 DEF Get
<1>9. /\ IsRun(run') /\ run'.command = run.command /\ run'.phase = "copy"
      /\ run'.open = TRUE /\ run'.source = c /\ run'.target = path
      /\ run'.data = entry.data /\ run'.stream = NewStream(codec)
      /\ run'.stamp = stamp /\ run'.done = run.done
  <2>1. Opens(run, run', c, path, entry.data, codec, stamp)
    BY <1>2, <1>8, OpenedLeft
  <2>2. QED
    BY <2>1 DEF Opens
<1>10. /\ Typed(files') /\ DOMAIN files' = DOMAIN files \cup {path}
       /\ files'[path].data = <<>> /\ SameBut(files, files', {path})
  BY <1>8, CreatedIs DEF TypeInv
<1>11. TypeInv'
  <2>1. RunTyped'
    BY <1>9 DEF TypeInv, RunTyped
  <2>2. QED
    BY <1>1, <1>10, <2>1 DEF TypeInv, ImageTyped
<1>12. GetsWhole(run', files', image')
  <2>1. StillAgain(run, run', {path})
    BY <1>2, <1>9 DEF StillAgain, Again
  <2>2. GetsWhole(run', files', image)
    BY <1>3, <1>10, <2>1, GetsStayWhole
  <2>3. QED
    BY <1>1, <2>2
<1>13. GetCopy(run', files', image')
  <2>1. /\ c \in DOMAIN image.entries /\ image.entries[c].data = entry.data
        /\ image.entries[c].kind = entry.kind /\ entry.data \in Seq(Byte)
    BY <1>1, <1>4, MirrorsIs DEF TypeInv
  <2>2. entry.date = Date(image.entries[c].date)
    BY <1>3, <1>4, <2>1, ReadIs DEF TypeInv
  <2>3. codec = FileCodec(run.command, image.entries[c].kind)
    BY <1>1, <1>6, <2>1 DEF FileCodec, IsText, Op
  <2>4. Copying(run', <<>>, codec, entry.data, FALSE)
    BY <1>9, <2>1, CopyingOpen
  <2>5. stamp.mtime = entry.date
    BY <1>5
  <2>6. QED
    BY <1>1, <1>9, <1>10, <2>1, <2>2, <2>3, <2>4, <2>5 DEF GetCopy
<1>14. DiskInv'
  BY <1>1, <1>2, <1>3, <1>9, <1>12, <1>13 DEF DiskInv, Op, ReadEntries
<1>15. QED
  BY <1>9, <1>11, <1>14

LEMMA AtCopy ==
    ASSUME TypeInv, DiskInv, Disk, run.phase \in {"copy", "flushed", "closing"} \/ run.open
    PROVE  /\ run.open = TRUE /\ IsRun(run) /\ run.command.program = "disk"
           /\ run.phase \notin Stopped \cup {"ok"} /\ Mirrors(memory, image)
           /\ \/ Op = "put" /\ PutCopy(run, files, image) /\ PutsWhole(run, files, image)
              \/ /\ Op = "get" /\ GetCopy(run, files, image) /\ GetsWhole(run, files, image)
                 /\ memory = ReadEntries(image)
<1>1. run.open = TRUE /\ IsRun(run) /\ run.command.program = "disk" /\ Mirrors(memory, image)
  BY DEF TypeInv, RunTyped, Disk, Running
<1>2. run.phase \notin Stopped \cup {"ok"}
  BY DEF Disk, Running, Idle, Stopped
<1>3. QED
  BY <1>1, <1>2 DEF DiskInv

\* The streams get more of the data.
LEMMA StreamStep ==
    ASSUME TypeInv, DiskInv, Disk, run.phase = "copy", IsRun(run'), SameFile(run, run'),
           run'.phase \in {"copy", "flushed"}, UNCHANGED <<files, image, memory>>,
           \A w, codec, src : Copying(run, w, codec, src, FALSE)
                                 => Copying(run', w, codec, src, FALSE)
    PROVE  TypeInv' /\ DiskInv' /\ run'.command = run.command
<1>1. /\ run.open = TRUE /\ run.command.program = "disk"
      /\ \/ Op = "put" /\ PutCopy(run, files, image) /\ PutsWhole(run, files, image)
         \/ /\ Op = "get" /\ GetCopy(run, files, image) /\ GetsWhole(run, files, image)
            /\ memory = ReadEntries(image)
  BY AtCopy
<1>2. /\ run'.open = TRUE /\ run'.command = run.command /\ run'.source = run.source
      /\ run'.target = run.target /\ run'.stamp = run.stamp /\ run'.done = run.done
  BY <1>1 DEF SameFile
<1>3. TypeInv'
  <2>1. RunTyped'
    BY <1>2 DEF TypeInv, RunTyped
  <2>2. Disk' => Disk
    OBVIOUS
  <2>3. QED
    BY <2>1 DEF TypeInv, ImageTyped
<1>4. StillAgain(run, run', {})
  BY SameFileAgain
<1>5. CASE Op = "put"
  <2>1. PutsWhole(run', files, image)
    BY <1>1, <1>4, <1>5, PutsStayWhole, SameBothWays
  <2>2. PutCopy(run', files, image)
    <3>1. PutCopy(run, files, image)
      BY <1>1, <1>5
    <3>2. QED
      BY <1>2, <3>1 DEF PutCopy
  <2>3. PutsWhole(run', files', image') /\ PutCopy(run', files', image')
    BY <2>1, <2>2
  <2>4. QED
    BY <1>2, <1>3, <1>5, <2>3 DEF DiskInv, Op
<1>6. CASE Op = "get"
  <2>1. GetsWhole(run', files, image)
    BY <1>1, <1>4, <1>6, GetsStayWhole, SameBothWays
  <2>2. GetCopy(run', files, image)
    <3>1. GetCopy(run, files, image) /\ run.phase \notin Stopped
      BY <1>1, <1>6 DEF Stopped
    <3>2. QED
      BY <1>2, <3>1 DEF GetCopy
  <2>3. GetsWhole(run', files', image') /\ GetCopy(run', files', image')
    BY <2>1, <2>2
  <2>4. memory' = ReadEntries(image')
    BY <1>1, <1>6 DEF ReadEntries
  <2>5. QED
    BY <1>2, <1>3, <1>6, <2>3, <2>4 DEF DiskInv, Op, ReadEntries
<1>7. QED
  BY <1>1, <1>2, <1>5, <1>6

LEMMA CopyStep ==
    ASSUME TypeInv, DiskInv, Copy
    PROVE  TypeInv' /\ DiskInv' /\ run'.command = run.command
<1>1. Disk /\ run.phase = "copy" /\ CopyChunk /\ UNCHANGED <<files, image, memory>>
  BY DEF Copy, CopyChunk, CanRead
<1>2. IsRun(run)
  BY DEF TypeInv, RunTyped
<1>3. \A w, codec, src : Copying(run, w, codec, src, FALSE)
                            => /\ IsRun(run') /\ SameFile(run, run') /\ run'.phase = "copy"
                               /\ Copying(run', w, codec, src, FALSE)
  BY <1>1, <1>2, CopyingChunk
<1>4. \E w, codec, src : Copying(run, w, codec, src, FALSE)
  BY <1>1, AtCopy DEF PutCopy, GetCopy
<1>5. QED
  BY <1>1, <1>3, <1>4, StreamStep

LEMMA EndOfInputStep ==
    ASSUME TypeInv, DiskInv, EndOfInput
    PROVE  TypeInv' /\ DiskInv' /\ run'.command = run.command
<1>1. /\ Disk /\ run.phase = "copy" /\ CanRead /\ run.data = <<>>
      /\ run' = [run EXCEPT !.stream = Flush(@), !.phase = "flushed"]
      /\ UNCHANGED <<files, image, memory>>
  BY DEF EndOfInput, CanRead
<1>2. IsRun(run)
  BY DEF TypeInv, RunTyped
<1>3. \A w, codec, src : Copying(run, w, codec, src, FALSE)
                            => /\ IsRun(run') /\ SameFile(run, run') /\ run'.phase = "flushed"
                               /\ Copying(run', w, codec, src, FALSE)
  BY <1>1, <1>2, CopyingFlush
<1>4. \E w, codec, src : Copying(run, w, codec, src, FALSE)
  BY <1>1, AtCopy DEF PutCopy, GetCopy
<1>5. QED
  BY <1>1, <1>3, <1>4, StreamStep

\* A piece of a file goes to the volume.
LEMMA WritePieceStep ==
    ASSUME TypeInv, DiskInv, WritePiece
    PROVE  TypeInv' /\ DiskInv' /\ run'.command = run.command
<1>1. /\ Disk /\ run.open /\ Pending(run.stream) # <<>> /\ Op = "put" /\ Given
      /\ Synced(Grown) /\ UNCHANGED files
  BY DEF WritePiece, HasPiece
<1>2. /\ run.open = TRUE /\ IsRun(run) /\ run.command.program = "disk"
      /\ run.phase \notin Stopped \cup {"ok"} /\ Mirrors(memory, image)
      /\ PutCopy(run, files, image) /\ PutsWhole(run, files, image)
  BY <1>1, AtCopy
<1>3. PICK c \in DOMAIN image.entries, codec \in Codecs, src \in Seq(Byte) :
         /\ c = run.target /\ codec = FileCodec(run.command, image.entries[c].kind)
         /\ src = files[run.source].data /\ run.source \in DOMAIN files
         /\ Copying(run, image.entries[c].data, codec, src, FALSE)
  BY <1>2 DEF PutCopy, Copying
<1>4. /\ IsRun(run') /\ SameFile(run, run') /\ run'.phase = run.phase
      /\ Written1(run, run', image.entries[c].data, codec, src, FALSE)
  BY <1>1, <1>2, <1>3, CopyingPiece
<1>5. PICK d \in Seq(Byte) : /\ d = Piece
                             /\ Copying(run', image.entries[c].data \o d, codec, src, FALSE)
  BY <1>4 DEF Written1, Piece
<1>6. PICK e \in VolumeFiles(Dates) :
         /\ c \in DOMAIN memory /\ e = memory[c] /\ e.data = image.entries[c].data
         /\ e.kind = image.entries[c].kind
  BY <1>2, <1>3, MirrorsIs
<1>7. PICK new \in VolumeFiles(Dates) :
         new = Extended(e, d) /\ new.data = e.data \o d /\ new.kind = e.kind
  BY <1>5, <1>6, ExtendedIs
<1>8. Grown = [memory EXCEPT ![c] = new]
  <2>1. memory \in [DOMAIN memory -> VolumeFiles(Dates)]
    BY <1>2, MirrorsIs
  <2>2. QED
    BY <1>3, <1>5, <1>6, <1>7, <2>1 DEF Grown, Extended
<1>9. PICK entries : /\ entries = [memory EXCEPT ![c] = new]
                     /\ entries \in [DOMAIN entries -> VolumeFiles(Dates)]
                     /\ DOMAIN entries = DOMAIN memory /\ entries[c] = new
                     /\ \A x \in DOMAIN memory : x # c => entries[x] = memory[x]
  <2>1. memory \in [DOMAIN memory -> VolumeFiles(Dates)]
    BY <1>2, MirrorsIs
  <2>2. PICK m : m = [memory EXCEPT ![c] = new]
    OBVIOUS
  <2>3. DOMAIN m = DOMAIN memory /\ m[c] = new /\ m \in [DOMAIN memory -> VolumeFiles(Dates)]
    BY <1>6, <2>1, <2>2
  <2>4. \A x \in DOMAIN memory : x # c => m[x] = memory[x]
    BY <2>2
  <2>5. QED
    BY <2>2, <2>3, <2>4
<1>10. /\ ImageTyped' /\ Mirrors(memory', image') /\ DOMAIN image'.entries = DOMAIN entries
       /\ \A x \in DOMAIN entries : /\ image'.entries[x].data = entries[x].data
                                    /\ image'.entries[x].kind = entries[x].kind
  BY <1>1, <1>8, <1>9, SyncedIs
<1>11. /\ run'.open = TRUE /\ run'.command = run.command /\ run'.source = run.source
       /\ run'.target = run.target /\ run'.stamp = run.stamp
  BY <1>2, <1>4 DEF SameFile
<1>12. TypeInv'
  <2>1. RunTyped'
    BY <1>4, <1>11 DEF TypeInv, RunTyped
  <2>2. QED
    BY <1>1, <1>10, <2>1 DEF TypeInv
<1>13. PutsWhole(run', files', image')
  <2>1. SameEntries(image, image', {c})
    <3>1. \A x \in DOMAIN memory : /\ memory[x].data = image.entries[x].data
                                   /\ memory[x].kind = image.entries[x].kind
      BY <1>2, MirrorsIs
    <3>2. DOMAIN memory = DOMAIN image.entries
      BY <1>2, MirrorsIs
    <3>3. QED
      BY <1>9, <1>10, <3>1, <3>2 DEF SameEntries
  <2>2. StillAgain(run, run', {c})
    BY <1>2, <1>3, <1>4, SameFileAgain
  <2>3. PutsWhole(run', files, image')
    BY <1>2, <2>1, <2>2, PutsStayWhole
  <2>4. QED
    BY <1>1, <2>3
<1>14. PutCopy(run', files', image')
  <2>1. /\ image'.entries[c].data = image.entries[c].data \o d
        /\ image'.entries[c].kind = image.entries[c].kind /\ c \in DOMAIN image'.entries
    BY <1>6, <1>7, <1>9, <1>10
  <2>2. QED
    BY <1>1, <1>3, <1>5, <1>11, <2>1 DEF PutCopy
<1>15. DiskInv'
  BY <1>1, <1>2, <1>4, <1>11, <1>13, <1>14 DEF DiskInv, Op
<1>16. QED
  BY <1>11, <1>12, <1>15

\* A piece of an entry goes to the file.
LEMMA WriteFileStep ==
    ASSUME TypeInv, DiskInv, WriteFile
    PROVE  TypeInv' /\ DiskInv' /\ run'.command = run.command
<1>1. /\ Disk /\ run.open /\ Pending(run.stream) # <<>> /\ Op = "get" /\ Given
      /\ files' = Appended(run.target, Piece) /\ UNCHANGED <<image, memory>>
  BY DEF WriteFile, HasPiece
<1>2. /\ run.open = TRUE /\ IsRun(run) /\ run.command.program = "disk"
      /\ run.phase \notin Stopped \cup {"ok"} /\ Mirrors(memory, image)
      /\ GetCopy(run, files, image) /\ GetsWhole(run, files, image)
      /\ memory = ReadEntries(image)
  BY <1>1, AtCopy
<1>3. PICK p \in DOMAIN files, codec \in Codecs, src \in Seq(Byte) :
         /\ p = run.target /\ codec = FileCodec(run.command, image.entries[run.source].kind)
         /\ src = image.entries[run.source].data /\ run.source \in DOMAIN image.entries
         /\ Copying(run, files[p].data, codec, src, FALSE)
         /\ run.stamp.mtime = Date(image.entries[run.source].date)
         /\ run.phase # "closing"
  BY <1>1, <1>2 DEF GetCopy, Copying, Stopped
<1>4. /\ IsRun(run') /\ SameFile(run, run') /\ run'.phase = run.phase
      /\ Written1(run, run', files[p].data, codec, src, FALSE)
  BY <1>1, <1>2, <1>3, CopyingPiece
<1>5. PICK d \in Seq(Byte) : /\ d = Piece
                             /\ Copying(run', files[p].data \o d, codec, src, FALSE)
  BY <1>4 DEF Written1, Piece
<1>6. /\ Typed(files') /\ DOMAIN files' = DOMAIN files
      /\ files'[p].data = files[p].data \o d /\ SameBut(files, files', {p})
  <2>1. files' = Appended(p, d)
    BY <1>1, <1>3, <1>5
  <2>2. QED
    BY <2>1, AppendedIs DEF TypeInv
<1>7. /\ run'.open = TRUE /\ run'.command = run.command /\ run'.source = run.source
      /\ run'.target = run.target /\ run'.stamp = run.stamp
  BY <1>2, <1>4 DEF SameFile
<1>8. TypeInv'
  <2>1. RunTyped'
    BY <1>4, <1>7 DEF TypeInv, RunTyped
  <2>2. QED
    BY <1>1, <1>2, <1>6, <2>1 DEF TypeInv, ImageTyped
<1>9. GetsWhole(run', files', image')
  <2>1. StillAgain(run, run', {p})
    BY <1>2, <1>3, <1>4, SameFileAgain
  <2>2. GetsWhole(run', files', image)
    BY <1>2, <1>6, <2>1, GetsStayWhole
  <2>3. QED
    BY <1>1, <2>2
<1>10. GetCopy(run', files', image')
  BY <1>1, <1>3, <1>4, <1>5, <1>6, <1>7 DEF GetCopy
<1>11. DiskInv'
  BY <1>1, <1>2, <1>4, <1>7, <1>9, <1>10 DEF DiskInv, Op, ReadEntries
<1>12. QED
  BY <1>7, <1>8, <1>11

LEMMA StampStep ==
    ASSUME TypeInv, DiskInv, Stamp
    PROVE  TypeInv' /\ DiskInv' /\ run'.command = run.command
<1>1. /\ Disk /\ run.phase = "flushed" /\ UNCHANGED image
      /\ run' = [run EXCEPT !.stream = CloseStream(@), !.phase = "closing"]
  BY DEF Stamp
<1>2. /\ run.open = TRUE /\ IsRun(run) /\ run.command.program = "disk"
      /\ run.phase \notin Stopped \cup {"ok"} /\ Mirrors(memory, image)
      /\ \/ Op = "put" /\ PutCopy(run, files, image) /\ PutsWhole(run, files, image)
         \/ /\ Op = "get" /\ GetCopy(run, files, image) /\ GetsWhole(run, files, image)
            /\ memory = ReadEntries(image)
  BY <1>1, AtCopy
<1>3. Pending(run.stream) = <<>>
  BY <1>1, <1>2 DEF Stamp, HasPiece
<1>4. \A w, codec, src : Copying(run, w, codec, src, FALSE)
         => /\ IsRun(run') /\ SameFile(run, run') /\ run'.phase = "closing"
            /\ Copying(run', w, codec, src, FALSE)
            /\ codec # "encode" => Pending(run'.stream) = <<>>
  BY <1>1, <1>2, <1>3, CopyingClose
<1>5. IsRun(run') /\ SameFile(run, run') /\ run'.phase = "closing"
  BY <1>2, <1>4 DEF PutCopy, GetCopy
<1>6. /\ run'.open = TRUE /\ run'.command = run.command /\ run'.source = run.source
      /\ run'.target = run.target /\ run'.stamp = run.stamp /\ run'.done = run.done
  BY <1>2, <1>5 DEF SameFile
<1>7. RunTyped'
  BY <1>5, <1>6 DEF TypeInv, RunTyped
<1>8. StillAgain(run, run', {})
  BY <1>5, SameFileAgain
<1>9. CASE Op = "put"
  <2>1. UNCHANGED files /\ PutCopy(run, files, image) /\ PutsWhole(run, files, image)
    BY <1>2, <1>9 DEF Stamp
  <2>2. Mirrors(memory', image')
    <3>1. PICK c \in DOMAIN image.entries, stamp \in Stamps :
             c = run.target /\ stamp = run.stamp
      BY <2>1 DEF TypeInv, RunTyped, PutCopy
    <3>2. memory' = [memory EXCEPT ![c] = Dated(memory[c], stamp)]
      BY <1>9, <3>1 DEF Stamp
    <3>3. /\ DOMAIN memory = DOMAIN image.entries
          /\ memory \in [DOMAIN memory -> VolumeFiles(Dates)]
          /\ \A x \in DOMAIN memory : /\ memory[x] \in VolumeFiles(Dates)
                                      /\ memory[x].data = image.entries[x].data
                                      /\ memory[x].kind = image.entries[x].kind
      BY <1>2, MirrorsIs
    <3>4. c \in DOMAIN memory
      BY <2>1, <3>1, <3>3 DEF PutCopy
    <3>5. PICK new \in VolumeFiles(Dates) :
             /\ new = Dated(memory[c], stamp) /\ new.data = memory[c].data
             /\ new.kind = memory[c].kind
      BY <3>3, <3>4, DatedIs
    <3>6. memory' = [memory EXCEPT ![c] = new]
      BY <3>2, <3>5
    <3>7. \A x \in DOMAIN memory : memory'[x] = IF x = c THEN new ELSE memory[x]
      BY <3>6
    <3>8. DOMAIN memory' = DOMAIN memory /\ memory' \in [DOMAIN memory -> VolumeFiles(Dates)]
      BY <3>3, <3>6
    <3>9. QED
      BY <1>1, <3>3, <3>4, <3>5, <3>7, <3>8 DEF Mirrors
  <2>3. TypeInv'
    BY <1>1, <1>7, <2>1, <2>2 DEF TypeInv, ImageTyped
  <2>4. PutsWhole(run', files, image)
    BY <1>8, <2>1, PutsStayWhole, SameBothWays
  <2>5. PutCopy(run', files, image)
    BY <1>4, <1>6, <2>1 DEF PutCopy
  <2>6. PutsWhole(run', files', image') /\ PutCopy(run', files', image')
    BY <1>1, <2>1, <2>4, <2>5
  <2>7. QED
    BY <1>5, <1>6, <1>9, <2>3, <2>6 DEF DiskInv, Op
<1>10. CASE Op = "get"
  <2>1. /\ files' = Stamped(run.target, run.stamp) /\ UNCHANGED memory
        /\ GetCopy(run, files, image) /\ GetsWhole(run, files, image)
        /\ memory = ReadEntries(image)
    BY <1>2, <1>10 DEF Stamp
  <2>2. PICK p \in DOMAIN files, stamp \in Stamps :
           p = run.target /\ stamp = run.stamp
    BY <2>1 DEF GetCopy, TypeInv, RunTyped
  <2>3. /\ Typed(files') /\ DOMAIN files' = DOMAIN files
        /\ files'[p].data = files[p].data /\ files'[p].mtime = stamp.mtime
        /\ SameBut(files, files', {p})
    BY <2>1, <2>2, StampedIs DEF TypeInv
  <2>4. TypeInv'
    BY <1>1, <1>2, <1>7, <2>1, <2>3 DEF TypeInv, ImageTyped
  <2>5. GetsWhole(run', files', image')
    <3>1. StillAgain(run, run', {p})
      BY <1>2, <1>5, <2>2, SameFileAgain
    <3>2. GetsWhole(run', files', image)
      BY <2>1, <2>3, <3>1, GetsStayWhole
    <3>3. QED
      BY <1>1, <3>2
  <2>6. FileCodec(run.command, image.entries[run.source].kind) # "encode"
    BY <1>10 DEF FileCodec, Op
  <2>7. GetCopy(run', files', image')
    <3>1. /\ run.source \in DOMAIN image.entries
          /\ Copying(run, files[p].data, FileCodec(run.command, image.entries[run.source].kind),
                     image.entries[run.source].data, FALSE)
          /\ run.stamp.mtime = Date(image.entries[run.source].date)
      BY <1>2, <2>1, <2>2 DEF GetCopy
    <3>2. /\ Copying(run', files[p].data, FileCodec(run.command, image.entries[run.source].kind),
                     image.entries[run.source].data, FALSE)
          /\ Pending(run'.stream) = <<>>
      BY <1>4, <2>6, <3>1
    <3>3. QED
      BY <1>1, <1>6, <2>2, <2>3, <3>1, <3>2 DEF GetCopy
  <2>8. QED
    BY <1>1, <1>5, <1>6, <1>10, <2>1, <2>4, <2>5, <2>7 DEF DiskInv, Op, ReadEntries
<1>11. QED
  BY <1>2, <1>6, <1>9, <1>10

\* A file has been copied.
LEMMA ClosedStep ==
    ASSUME TypeInv, DiskInv, Closed
    PROVE  TypeInv' /\ DiskInv' /\ run'.command = run.command
<1>1. /\ Disk /\ run.phase = "closing" /\ UNCHANGED <<files, image, memory>>
      /\ run' = [run EXCEPT !.phase = "next", !.open = FALSE,
                            !.done = With(run.done, run.target, run.source)]
  BY DEF Closed
<1>2. /\ run.open = TRUE /\ IsRun(run) /\ run.command.program = "disk"
      /\ Mirrors(memory, image)
      /\ \/ Op = "put" /\ PutCopy(run, files, image) /\ PutsWhole(run, files, image)
         \/ /\ Op = "get" /\ GetCopy(run, files, image) /\ GetsWhole(run, files, image)
            /\ memory = ReadEntries(image)
  BY <1>1, AtCopy
<1>3. Pending(run.stream) = <<>>
  BY <1>1, <1>2 DEF Closed, HasPiece
<1>4. \A w, codec, src : Copying(run, w, codec, src, FALSE) => w = Through(codec, src)
  BY <1>1, <1>3, CopyingDone DEF Sure
<1>5. Shut(run, run', "next") /\ run'.done = With(run.done, run.target, run.source)
  BY <1>1, <1>2, NotedIs
<1>6. /\ IsRun(run') /\ run'.phase = "next" /\ run'.open = FALSE /\ run'.stamp = run.stamp
      /\ run'.command = run.command
      /\ DOMAIN run'.done = DOMAIN run.done \cup {run.target}
      /\ run'.done[run.target] = run.source
      /\ \A x \in DOMAIN run.done : x # run.target => run'.done[x] = run.done[x]
  BY <1>5 DEF Shut, With
<1>7. TypeInv'
  <2>1. RunTyped'
    BY <1>6 DEF TypeInv, RunTyped
  <2>2. QED
    BY <1>1, <1>2, <2>1 DEF TypeInv, ImageTyped
<1>8. CASE Op = "put"
  <2>1. PutCopy(run, files, image) /\ PutsWhole(run, files, image)
    BY <1>2, <1>8
  <2>2. PutWhole(run.command, files, image, run.target, run.source)
    BY <1>4, <2>1 DEF PutCopy, PutWhole
  <2>3. PutsWhole(run', files, image)
    BY <1>6, <2>1, <2>2 DEF PutsWhole, Again
  <2>4. PutsWhole(run', files', image')
    BY <1>1, <2>3
  <2>5. QED
    BY <1>6, <1>7, <1>8, <2>4 DEF DiskInv, Op
<1>9. CASE Op = "get"
  <2>1. GetCopy(run, files, image) /\ GetsWhole(run, files, image) /\ memory = ReadEntries(image)
    BY <1>2, <1>9
  <2>2. GetWhole(run.command, files, image, run.target, run.source)
    <3>1. files[run.target].mtime = Date(image.entries[run.source].date)
      BY <1>1, <2>1 DEF GetCopy
    <3>2. run.target \in DOMAIN files /\ run.source \in DOMAIN image.entries
      BY <2>1 DEF GetCopy
    <3>3. files[run.target].data = Through(FileCodec(run.command, image.entries[run.source].kind),
                                           image.entries[run.source].data)
      <4>1. Copying(run, files[run.target].data,
                    FileCodec(run.command, image.entries[run.source].kind),
                    image.entries[run.source].data, FALSE)
        BY <2>1 DEF GetCopy
      <4>2. QED
        BY <1>4, <4>1
    <3>4. QED
      BY <3>1, <3>2, <3>3 DEF GetWhole
  <2>3. GetsWhole(run', files, image)
    BY <1>6, <2>1, <2>2 DEF GetsWhole, Again
  <2>4. GetsWhole(run', files', image')
    BY <1>1, <2>3
  <2>5. memory' = ReadEntries(image')
    BY <1>1, <2>1 DEF ReadEntries
  <2>6. QED
    BY <1>6, <1>7, <1>9, <2>4, <2>5 DEF DiskInv, Op, ReadEntries
<1>10. QED
  BY <1>2, <1>6, <1>8, <1>9

\* The boot blocks of a volume.
LEMMA BootBlocksAre ==
    ASSUME NEW d \in Seq(Byte), NEW n \in Nat
    PROVE  Take(d, n) \o Times(n - Len(Take(d, n)), NUL) \in Seq(Byte)
<1>1. Take(d, n) \in Seq(Byte) /\ Len(Take(d, n)) = IF n < Len(d) THEN n ELSE Len(d)
  BY TakeDrop
<1>2. n - Len(Take(d, n)) \in Nat
  BY <1>1
<1>3. NUL \in Byte
  BY DEF NUL, Byte
<1>4. Times(n - Len(Take(d, n)), NUL) \in Seq(Byte)
  BY <1>2, <1>3, TimesIs
<1>5. QED
  BY <1>1, <1>4

\* An image with the same files, but for its boot blocks.
LEMMA BootedIs ==
    ASSUME NEW i, ImageIs(i), NEW b \in Seq(Byte), NEW j, j = [i EXCEPT !.boot = b]
    PROVE  /\ ImageIs(j) /\ j.entries = i.entries /\ j.formatted = i.formatted
           /\ j.blocks = i.blocks
BY DEF ImageIs

\* The files of a volume do not change when its directory is written as it is.
SameFiles(i, j) ==
    SameEntries(i, j, {})
    /\ \A c \in DOMAIN i.entries : Date(j.entries[c].date) = Date(i.entries[c].date)

LEMMA FilesKept ==
    ASSUME TypeInv, Disk, NEW j, j = Written(image, memory) \/ j = image
    PROVE  /\ ImageIs(j) /\ SameEntries(image, j, {})
           /\ memory = ReadEntries(image) => SameFiles(image, j)
<1>1. ImageTyped /\ Mirrors(memory, image)
  BY DEF TypeInv
<1>2. CASE j = image
  BY <1>1, <1>2, SameBothWays DEF ImageTyped, SameFiles
<1>3. CASE j = Written(image, memory)
  <2>1. /\ memory \in [DOMAIN memory -> VolumeFiles(Dates)]
        /\ DOMAIN memory = DOMAIN image.entries
        /\ \A c \in DOMAIN memory : /\ memory[c].data = image.entries[c].data
                                    /\ memory[c].kind = image.entries[c].kind
    BY <1>1, MirrorsIs
  <2>2. /\ ImageIs(j) /\ Mirrors(memory, j) /\ DOMAIN j.entries = DOMAIN memory
        /\ \A c \in DOMAIN memory : j.entries[c].date = Word(memory[c].date)
    BY <1>1, <1>3, <2>1, WrittenIs
  <2>3. SameEntries(image, j, {})
    <3>1. \A c \in DOMAIN memory : /\ memory[c].data = j.entries[c].data
                                   /\ memory[c].kind = j.entries[c].kind
      BY <2>2, MirrorsIs
    <3>2. QED
      BY <2>1, <2>2, <3>1 DEF SameEntries
  <2>4. ASSUME memory = ReadEntries(image), NEW c \in DOMAIN image.entries
        PROVE  Date(j.entries[c].date) = Date(image.entries[c].date)
    <3>1. PICK w \in Words : w = image.entries[c].date
      <4>1. image.entries[c] \in VolumeFiles(Words)
        BY <1>1 DEF ImageTyped, ImageIs
      <4>2. QED
        BY <4>1 DEF VolumeFiles
    <3>2. memory[c].date = Date(w)
      BY <1>1, <2>4, <3>1, ReadIs
    <3>3. j.entries[c].date = Word(Date(w))
      BY <2>1, <2>2, <3>2
    <3>4. QED
      BY <3>1, <3>3, DateIs
  <2>5. QED
    BY <2>2, <2>3, <2>4 DEF SameFiles
<1>4. QED
  BY <1>2, <1>3

LEMMA FinishStep ==
    ASSUME TypeInv, DiskInv, Finish
    PROVE  TypeInv' /\ DiskInv' /\ run'.command = run.command
<1>1. /\ Disk /\ run.phase = "next" /\ memory' = <<>>
      /\ files' = IF Boot # <<>> /\ Op = "get" THEN BootFile(Head(Boot)) ELSE files
  BY DEF Finish, AtEnd
<1>2. PICK moved, order, written :
         /\ moved \in BOOLEAN /\ written = IF moved THEN Written(image, memory) ELSE image
         /\ run' = [run EXCEPT !.phase = "ok", !.shown = order, !.data = <<>>,
                               !.stream = NewStream("none")]
         /\ image' = IF Boot # <<>> /\ Op = "put"
                     THEN [written EXCEPT !.boot = BootBlocks(files[Head(Boot)].data)]
                     ELSE written
  BY DEF Finish
<1>3. run.open = FALSE /\ IsRun(run) /\ run.command.program = "disk"
  BY <1>1, NothingOpen DEF TypeInv, RunTyped, Disk, Running
<1>4. /\ IsRun(run') /\ run'.phase = "ok" /\ run'.command = run.command /\ run'.open = FALSE
      /\ run'.done = run.done /\ run'.stamp = run.stamp
  BY <1>2, <1>3 DEF IsRun
<1>5. /\ ImageIs(written) /\ SameEntries(image, written, {})
      /\ memory = ReadEntries(image) => SameFiles(image, written)
  BY <1>1, <1>2, FilesKept
<1>6. ImageTyped' /\ image'.entries = written.entries
  <2>1. CASE Boot # <<>> /\ Op = "put"
    <3>1. Head(Boot) \in DOMAIN files
      BY <2>1 DEF Finish, Exists
    <3>2. files[Head(Boot)].data \in Seq(Byte)
      BY <3>1 DEF TypeInv, Typed, UnixFiles, Byte
    <3>3. BootBlocks(files[Head(Boot)].data) \in Seq(Byte)
      BY <3>2, Sizes, BootBlocksAre DEF BootBlocks, BootBytes
    <3>4. image' = [written EXCEPT !.boot = BootBlocks(files[Head(Boot)].data)]
      BY <1>2, <2>1
    <3>5. QED
      BY <1>5, <3>3, <3>4, BootedIs DEF ImageTyped
  <2>2. CASE ~(Boot # <<>> /\ Op = "put")
    BY <1>2, <1>5, <2>2 DEF ImageTyped
  <2>3. QED
    BY <2>1, <2>2
<1>7. Typed(files')
  <2>1. CASE files' = files
    BY <2>1 DEF TypeInv, Typed
  <2>2. CASE files' = BootFile(Head(Boot))
    <3>1. UnixFile(image.boot) \in UnixFiles
      BY UnixFileIs DEF TypeInv, ImageTyped, ImageIs
    <3>2. QED
      BY <2>2, <3>1, TypedWith DEF TypeInv, BootFile
  <2>3. QED
    BY <1>1, <2>1, <2>2
<1>8. TypeInv'
  <2>1. RunTyped'
    BY <1>4 DEF TypeInv, RunTyped
  <2>2. ~Disk'
    BY <1>4 DEF Disk, Running, Idle
  <2>3. QED
    BY <1>6, <1>7, <2>1, <2>2 DEF TypeInv
<1>9. ASSUME Op = "put" PROVE PutsWhole(run', files', image')
  <2>1. PutsWhole(run, files, image) /\ files' = files
    BY <1>1, <1>3, <1>9 DEF DiskInv
  <2>2. StillAgain(run, run', {})
    BY <1>3, <1>4 DEF StillAgain
  <2>3. PutsWhole(run', files, written)
    BY <1>5, <2>1, <2>2, PutsStayWhole
  <2>4. QED
    BY <1>6, <2>1, <2>3 DEF PutsWhole, PutWhole
<1>10. ASSUME Op = "get" PROVE GetsWhole(run', files', image')
  <2>1. GetsWhole(run, files, image) /\ memory = ReadEntries(image)
    BY <1>1, <1>3, <1>10 DEF DiskInv
  <2>2. SameFiles(image, written)
    BY <1>5, <2>1
  <2>3. SUFFICES ASSUME NEW p \in DOMAIN run.done, p \notin ToSet(run.command.boot)
                 PROVE  GetWhole(run.command, files', image', p, run.done[p])
    BY <1>4 DEF GetsWhole
  <2>4. GetWhole(run.command, files, image, p, run.done[p])
    BY <1>3, <2>1, <2>3 DEF GetsWhole, Again
  <2>5. p \in DOMAIN files' /\ files'[p] = files[p]
    <3>1. CASE files' = files
      BY <2>4, <3>1 DEF GetWhole
    <3>2. CASE Boot # <<>> /\ files' = BootFile(Head(Boot))
      <4>1. Boot = <<Head(Boot)>>
        BY <1>3, <3>2, CommandIs, CommandsAssumption DEF Boot, TypeInv
      <4>2. Head(Boot) \in ToSet(Boot)
        <5>1. PICK h : Boot = <<h>> /\ h = Head(Boot)
          BY <4>1
        <5>2. QED
          BY <5>1 DEF ToSet
      <4>3. p # Head(Boot)
        BY <2>3, <4>2 DEF Boot
      <4>4. p \in DOMAIN files
        BY <2>4 DEF GetWhole
      <4>5. QED
        BY <3>2, <4>3, <4>4 DEF BootFile, With
    <3>3. QED
      BY <1>1, <3>1, <3>2
  <2>6. QED
    BY <1>6, <2>2, <2>4, <2>5 DEF GetWhole, SameFiles, SameEntries
<1>11. DiskInv'
  <2>1. ~Disk'
    BY <1>4 DEF Disk, Running, Idle
  <2>2. QED
    BY <1>4, <1>9, <1>10, <2>1 DEF DiskInv, Op
<1>12. QED
  BY <1>4, <1>8, <1>11

\* The other programs are not about what ucsdpsys_disk has done.
DiskSteps ==
    \/ ExpandDirectory \/ Put \/ PutDies \/ Get \/ RemoveFile \/ NotFound
    \/ Copy \/ EndOfInput \/ WritePiece \/ NoSpace \/ WriteFile \/ Stamp \/ Closed
    \/ Finish \/ NoBootFile

LEMMA DiskStep ==
    ASSUME TypeInv, DiskInv, DiskSteps
    PROVE  TypeInv' /\ DiskInv' /\ run'.command = run.command /\ Disk
<1>1. Disk
  BY DEF DiskSteps, ExpandDirectory, Put, PutDies, Get, RemoveFile, NotFound, Copy,
         EndOfInput, WritePiece, NoSpace, WriteFile, Stamp, Closed, Finish, NoBootFile,
         AtArgument, AtFile, AtEnd, HasPiece
<1>2. CASE Dies
  BY <1>1, <1>2, DiesStep
<1>3. QED
  BY <1>1, <1>2, ExpandStep, PutStep, GetStep, RemoveStep, CopyStep, EndOfInputStep,
     WritePieceStep, WriteFileStep, StampStep, ClosedStep, FinishStep
     DEF DiskSteps, PutDies, NotFound, NoSpace, NoBootFile

-----------------------------------------------------------------------------
(* The names of temporary files.                                           *)

Path1(p) == p = [dir |-> p.dir, name |-> p.name, temp |-> p.temp]
Named(p, n) == [p EXCEPT !.temp = n]

LEMMA NamesDiffer ==
    ASSUME NEW p, Path1(p), NEW n, NEW m, Named(p, n) = Named(p, m)
    PROVE  n = m
BY DEF Path1, Named

\* There is always a name that no file has.
LEMMA TemporaryIsNew ==
    ASSUME Typed(files), NEW p, Path1(p)
    PROVE  Temporary(p) \notin DOMAIN files
<1>1. PICK m \in Nat : m = Cardinality(DOMAIN files)
  BY FS_CardinalityType DEF Typed
<1>2. PICK free : free = {n \in 1 .. m + 1 : Named(p, n) \notin DOMAIN files}
  OBVIOUS
<1>3. free # {}
  <2>1. SUFFICES ASSUME \A n \in 1 .. m + 1 : Named(p, n) \in DOMAIN files
                 PROVE  FALSE
    BY <1>2
  <2>2. PICK f : f = [n \in 1 .. m + 1 |-> Named(p, n)]
    OBVIOUS
  <2>3. f \in [1 .. m + 1 -> DOMAIN files]
    BY <2>1, <2>2
  <2>4. IsFiniteSet(1 .. m + 1) /\ Cardinality(1 .. m + 1) = m + 1
    <3>1. 1 \in Int /\ m + 1 \in Int /\ ~(1 > m + 1) /\ (m + 1) - 1 + 1 = m + 1
      BY <1>1
    <3>2. QED
      BY <3>1, FS_Interval
  <2>5. IsFiniteSet(DOMAIN files) /\ Cardinality(DOMAIN files) < m + 1
    BY <1>1 DEF Typed
  <2>6. \E x, y \in 1 .. m + 1 : x # y /\ f[x] = f[y]
    BY <2>3, <2>4, <2>5, FS_PigeonHole
  <2>7. QED
    BY <2>2, <2>6, NamesDiffer
<1>4. PICK n \in free : \A k \in free : n <= k
  <2>1. free \subseteq Nat
    BY <1>1, <1>2
  <2>2. QED
    BY <1>3, <2>1, LeastNumber
<1>5. /\ n \in 1 .. m + 1 /\ ~Exists(Named(p, n))
      /\ \A k \in 1 .. n - 1 : Exists(Named(p, k))
  <2>1. n \in 1 .. m + 1 /\ ~Exists(Named(p, n))
    BY <1>2 DEF Exists
  <2>2. ASSUME NEW k \in 1 .. n - 1 PROVE Exists(Named(p, k))
    <3>1. k \in 1 .. m + 1 /\ ~(n <= k)
      BY <1>1, <2>1, <2>2
    <3>2. QED
      BY <1>2, <1>4, <3>1 DEF Exists
  <2>3. QED
    BY <2>1, <2>2
<1>6. PICK c : /\ c = CHOOSE k \in 1 .. Cardinality(DOMAIN files) + 1 :
                        ~Exists(Named(p, k)) /\ \A j \in 1 .. k - 1 : Exists(Named(p, j))
               /\ ~Exists(Named(p, c))
  BY <1>1, <1>5
<1>7. Temporary(p) = Named(p, c)
  BY <1>6 DEF Temporary, Named
<1>8. QED
  BY <1>6, <1>7 DEF Exists

-----------------------------------------------------------------------------
(* ucsdpsys_text.                                                          *)

\* The file that the run r translates.
Translates(r, f) ==
    /\ r.source \in DOMAIN f /\ r.target \in DOMAIN f /\ r.source # r.target
    /\ Copying(r, f[r.target].data, r.command.op, f[r.source].data, Filter(r.command))

\* What a filter reads and writes, and what it has written in the end.
Filters(r, f) ==
    /\ r.command.input \in DOMAIN f /\ r.command.output \in DOMAIN f
    /\ r.open => r.source = r.command.input /\ r.target = r.command.output
    /\ ~r.open => /\ r.phase = "ok"
                  /\ Sure(r.command.op, f[r.command.input].data, TRUE) =>
                        f[r.command.output].data
                           = Through(r.command.op, f[r.command.input].data)

\* At each place of the program what it translates; of a filter, what became of it.
TextInv ==
    run.command.program = "text" =>
       /\ run.left \in Seq(ToSet(run.command.args))
       /\ run.open => run.phase # "ok" /\ Translates(run, files)
       /\ Filter(run.command) => Filters(run, files)
       /\ run.phase = "renamed" => run.source \in DOMAIN files

\* What a step does is not what the other programs are about.
LEMMA OtherProgram ==
    ASSUME TypeInv', run'.command = run.command, run.command.program # "disk"
    PROVE  DiskInv'
BY DEF DiskInv

LEMMA TextIs ==
    ASSUME RunTyped, run.command.program = "text"
    PROVE  /\ run.command \in Commands /\ run.command.op \in {"encode", "decode"}
           /\ run.command.op \in Codecs /\ run.command.args \in Seq(ToSet(run.command.args))
           /\ \A p \in ToSet(run.command.args) : Path1(p)
           /\ Filter(run.command) \in BOOLEAN
<1>1. run.command \in Commands
  BY CommandIs
<1>2. QED
  BY <1>1, CommandsAssumption DEF Path1, Codecs, Filter

LEMMA TextStarts ==
    ASSUME TypeInv, NEW c \in Commands, StartText(c)
    PROVE  TypeInv' /\ DiskInv' /\ TextInv' /\ run'.command = c
<1>1. c.program = "text" /\ ~Filter(c) /\ UNCHANGED <<files, image, memory>>
      /\ run' = [NewRun(c) EXCEPT !.left = c.args]
  BY DEF StartText
<1>2. /\ IsRun(run') /\ run'.command = c /\ run'.open = FALSE /\ run'.phase = "next"
      /\ run'.done = <<>> /\ run'.stamp = [atime |-> Now, mtime |-> Now] /\ run'.left = c.args
  <2>1. PICK r : /\ r = NewRun(c) /\ IsRun(r) /\ r.command = c /\ r.phase = "next"
                 /\ r.open = FALSE /\ r.done = <<>>
                 /\ r.stamp = [atime |-> Now, mtime |-> Now]
    BY NewRunIs
  <2>2. PICK l : l = c.args /\ run' = [r EXCEPT !.left = l]
    BY <1>1, <2>1
  <2>3. /\ IsRun(run') /\ run'.left = l /\ run'.phase = r.phase /\ run'.open = r.open
        /\ run'.command = r.command /\ run'.done = r.done /\ run'.stamp = r.stamp
    BY <2>1, <2>2, LeftIs
  <2>4. QED
    BY <2>1, <2>2, <2>3
<1>3. ~Disk'
  BY <1>1, <1>2 DEF Disk, Running
<1>4. TypeInv' /\ DiskInv'
  BY <1>1, <1>2, <1>3, BeginsTyped
<1>5. c.args \in Seq(ToSet(c.args))
  BY <1>1, CommandsAssumption
<1>6. QED
  BY <1>1, <1>2, <1>4, <1>5 DEF TextInv

\* Two files are opened, one of them new or cut to nothing.
LEMMA TextOpens ==
    ASSUME TypeInv, NEW r, IsRun(r), NEW source \in DOMAIN files, NEW target, source # target,
           r.command \in Commands, r.command.program = "text",
           NEW stamp \in Stamps, files' = Created(target),
           Opens(r, run', source, target, files[source].data, r.command.op, stamp),
           UNCHANGED image
    PROVE  TypeInv' /\ Translates(run', files') /\ SameBut(files, files', {target})
           /\ source \in DOMAIN files' /\ target \in DOMAIN files'
<1>1. /\ IsRun(run') /\ run'.command = r.command /\ run'.phase = "copy" /\ run'.open = TRUE
      /\ run'.source = source /\ run'.target = target /\ run'.data = files[source].data
      /\ run'.stream = NewStream(r.command.op) /\ run'.stamp = stamp
  BY DEF Opens
<1>2. /\ Typed(files') /\ DOMAIN files' = DOMAIN files \cup {target}
      /\ files'[target].data = <<>> /\ SameBut(files, files', {target})
  BY CreatedIs DEF TypeInv
<1>3. TypeInv'
  <2>1. RunTyped'
    BY <1>1 DEF RunTyped
  <2>2. ~Disk'
    BY <1>1 DEF Disk, Running
  <2>3. QED
    BY <1>2, <2>1, <2>2 DEF TypeInv, ImageTyped
<1>4. files'[source] = files[source]
  BY <1>2 DEF SameBut
<1>5. files[source].data \in Seq(Byte) /\ r.command.op \in Codecs
  BY CommandsAssumption DEF TypeInv, Typed, UnixFiles, Byte, Codecs
<1>6. Copying(run', <<>>, r.command.op, files[source].data, Filter(r.command))
  BY <1>1, <1>5, CopyingOpen
<1>7. QED
  BY <1>1, <1>2, <1>3, <1>4, <1>6 DEF Translates

LEMMA FilterStarts ==
    ASSUME TypeInv, NEW c \in Commands, StartFilter(c)
    PROVE  TypeInv' /\ DiskInv' /\ TextInv' /\ run'.command = c
<1>1. /\ c.program = "text" /\ Filter(c) /\ c.input \in DOMAIN files /\ UNCHANGED <<image, memory>>
      /\ files' = Created(c.output)
      /\ run' = Opened(NewRun(c), c.input, c.output, files[c.input].data, c.op,
                       [atime |-> Now, mtime |-> Now])
  BY DEF StartFilter, Exists
<1>2. /\ IsRun(NewRun(c)) /\ NewRun(c).command = c /\ NewRun(c).left = <<>>
  BY NewRunIs
<1>3. PICK source, target, stamp :
         /\ source \in DOMAIN files /\ stamp \in Stamps /\ source = c.input /\ target = c.output /\ source # target
         /\ stamp = [atime |-> Now, mtime |-> Now]
  BY <1>1, NowIs, CommandsAssumption
<1>4. /\ Opens(NewRun(c), run', source, target, files[source].data, c.op, stamp)
      /\ run'.left = <<>>
  BY <1>1, <1>2, <1>3, OpenedIs
<1>5. /\ TypeInv' /\ Translates(run', files') /\ source \in DOMAIN files'
      /\ target \in DOMAIN files'
  BY <1>1, <1>2, <1>3, <1>4, TextOpens
<1>6. /\ run'.command = c /\ run'.phase = "copy" /\ run'.open = TRUE
      /\ run'.source = source /\ run'.target = target
  BY <1>2, <1>4 DEF Opens
<1>7. Filters(run', files')
  BY <1>3, <1>5, <1>6 DEF Filters
<1>8. run'.left \in Seq(ToSet(c.args))
  BY <1>4
<1>9. QED
  BY <1>1, <1>5, <1>6, <1>7, <1>8 DEF TextInv, DiskInv

LEMMA AtTextCopy ==
    ASSUME TypeInv, TextInv, Text
    PROVE  /\ run.command.program = "text" /\ IsRun(run) /\ run.phase \notin Stopped \cup {"ok"}
           /\ run.left \in Seq(ToSet(run.command.args))
           /\ run.open => Translates(run, files)
           /\ Filter(run.command) => Filters(run, files) /\ run.open
           /\ run.phase \in {"copy", "flushed", "closing"} => run.open = TRUE
           /\ run.phase = "renamed" => run.source \in DOMAIN files
           /\ run.phase \in {"next", "renamed"} => ~run.open
<1>1. /\ run.command.program = "text" /\ run.phase \notin Stopped \cup {"ok"}
  BY DEF Text, Running, Idle, Stopped
<1>2. run.open => Translates(run, files) /\ run.phase \notin {"next", "renamed"}
  BY <1>1 DEF TextInv, Translates, Copying, Stopped
<1>3. Filter(run.command) => Filters(run, files) /\ run.open
  BY <1>1 DEF TextInv, Filters
<1>4. QED
  BY <1>1, <1>2, <1>3 DEF TextInv, TypeInv, RunTyped

\* The streams get more of the text, or are closed.
LEMMA TextStreamStep ==
    ASSUME TypeInv, TextInv, Text, run.phase = "copy", IsRun(run'), SameFile(run, run'),
           run'.phase \in {"copy", "closing"}, UNCHANGED <<files, image>>,
           NEW filter, filter = Filter(run.command),
           \A w, codec, src : Copying(run, w, codec, src, filter)
                                 => Copying(run', w, codec, src, filter)
    PROVE  TypeInv' /\ TextInv' /\ run'.command = run.command
<1>1. /\ run.command.program = "text" /\ run.open = TRUE /\ Translates(run, files)
      /\ Filter(run.command) => Filters(run, files)
      /\ run.left \in Seq(ToSet(run.command.args))
  BY AtTextCopy
<1>2. /\ run'.open = TRUE /\ run'.command = run.command /\ run'.source = run.source
      /\ run'.target = run.target /\ run'.stamp = run.stamp /\ run'.left = run.left
  BY <1>1 DEF SameFile
<1>3. TypeInv'
  <2>1. RunTyped'
    BY <1>2 DEF TypeInv, RunTyped
  <2>2. ~Disk'
    BY <1>1, <1>2 DEF Disk, Running
  <2>3. QED
    BY <2>1, <2>2 DEF TypeInv, ImageTyped
<1>4. Translates(run', files)
  BY <1>1, <1>2 DEF Translates
<1>5. Filter(run.command) => Filters(run', files)
  BY <1>1, <1>2 DEF Filters
<1>6. Translates(run', files') /\ (Filter(run.command) => Filters(run', files'))
  BY <1>4, <1>5
<1>7. QED
  BY <1>1, <1>2, <1>3, <1>6 DEF TextInv

LEMMA CopyTextStep ==
    ASSUME TypeInv, TextInv, CopyText \/ CopyPipe \/ Reset
    PROVE  TypeInv' /\ TextInv' /\ run'.command = run.command /\ Text /\ UNCHANGED files
<1>1. /\ Text /\ run.phase = "copy" /\ CanRead /\ UNCHANGED <<files, image, memory>>
      /\ \/ ~Filter(run.command) /\ CopyChunk
         \/ Filter(run.command) /\ CopyPipe
         \/ Reset
  BY DEF CopyText, CopyPipe, Reset, CopyChunk, CanRead, InFilter
<1>2. IsRun(run) /\ Translates(run, files) /\ Filter(run.command) \in BOOLEAN
  BY <1>1, AtTextCopy DEF Filter
<1>3. PICK filter \in BOOLEAN : filter = Filter(run.command)
  BY <1>2
<1>4. \E w, codec, src : Copying(run, w, codec, src, filter)
  BY <1>2, <1>3 DEF Translates
<1>5. CASE filter = FALSE /\ CopyChunk
  <2>1. \A w, codec, src : Copying(run, w, codec, src, FALSE)
           => /\ IsRun(run') /\ SameFile(run, run') /\ run'.phase = "copy"
              /\ Copying(run', w, codec, src, FALSE)
    BY <1>2, <1>5, CopyingChunk
  <2>2. QED
    BY <1>1, <1>3, <1>4, <1>5, <2>1, TextStreamStep
<1>6. CASE filter = TRUE /\ CopyPipe
  <2>1. \A w, codec, src : Copying(run, w, codec, src, TRUE)
           => /\ IsRun(run') /\ SameFile(run, run') /\ run'.phase = "copy"
              /\ Copying(run', w, codec, src, TRUE)
    BY <1>2, <1>6, CopyingPipe
  <2>2. QED
    BY <1>1, <1>3, <1>4, <1>6, <2>1, TextStreamStep
<1>7. CASE Reset
  <2>1. /\ run.data = <<>>
        /\ run' = [run EXCEPT !.stream = CloseStream(@), !.phase = "closing"]
    BY <1>7 DEF Reset
  <2>2. \A w, codec, src : Copying(run, w, codec, src, filter)
           => /\ IsRun(run') /\ SameFile(run, run') /\ run'.phase = "closing"
              /\ Copying(run', w, codec, src, filter)
    BY <1>1, <1>2, <2>1, CopyingReset
  <2>3. QED
    BY <1>1, <1>3, <1>4, <2>2, TextStreamStep
<1>8. QED
  BY <1>1, <1>3, <1>5, <1>6, <1>7

LEMMA InSituStep ==
    ASSUME TypeInv, TextInv, InSitu
    PROVE  /\ TypeInv' /\ TextInv' /\ run'.command = run.command /\ Text
           /\ \A p \in DOMAIN files : p \in DOMAIN files' /\ files'[p].data = files[p].data
<1>1. Text /\ run.phase = "next" /\ run.left # <<>> /\ UNCHANGED <<image, memory, ran>>
  BY DEF InSitu, AtText
<1>2. /\ run.command.program = "text" /\ IsRun(run) /\ ~run.open
      /\ run.left \in Seq(ToSet(run.command.args)) /\ ~Filter(run.command)
  BY <1>1, AtTextCopy
<1>3. PICK path, target, stamp :
         /\ path \in DOMAIN files /\ path = Head(run.left) /\ target = Temporary(path)
         /\ stamp = [atime |-> files[path].atime, mtime |-> files[path].mtime]
  BY DEF InSitu, Exists
<1>4. stamp \in Stamps
  BY <1>3 DEF TypeInv, Typed, UnixFiles, Stamps
<1>5. target \notin DOMAIN files
  <2>1. path \in ToSet(run.command.args)
    BY <1>1, <1>2, <1>3
  <2>2. Path1(path)
    BY <1>2, <2>1, TextIs DEF TypeInv
  <2>3. QED
    BY <1>3, <2>2, TemporaryIsNew DEF TypeInv
<1>6. /\ files' = Created(target)
      /\ run' = [Opened(run, path, target, files[path].data, run.command.op, stamp)
                   EXCEPT !.left = Tail(run.left)]
  <2>1. PICK data, codec, q :
           /\ data = files[path].data /\ codec = run.command.op
           /\ q = Opened(run, path, target, data, codec, stamp)
    OBVIOUS
  <2>2. IsRun(run)
    BY <1>2
  <2>3. Opens(run, q, path, target, data, codec, stamp) /\ q.left = run.left
    BY <2>1, <2>2, OpenedIs
  <2>4. run' = [q EXCEPT !.left = Tail(@)] /\ files' = Created(target)
    BY <1>3, <2>1 DEF InSitu
  <2>5. QED
    BY <2>1, <2>3, <2>4
<1>7. /\ Opens(run, run', path, target, files[path].data, run.command.op, stamp)
      /\ run'.left = Tail(run.left)
  <2>1. PICK data, codec, rest :
           /\ data = files[path].data /\ codec = run.command.op /\ rest = Tail(run.left)
           /\ run' = [Opened(run, path, target, data, codec, stamp) EXCEPT !.left = rest]
    BY <1>6
  <2>2. IsRun(run)
    BY <1>2
  <2>3. run' = [Opened(run, path, target, data, codec, stamp) EXCEPT !.left = rest]
    BY <2>1
  <2>4. Opens(run, run', path, target, data, codec, stamp) /\ run'.left = rest
    BY <2>2, <2>3, OpenedLeft
  <2>5. QED
    BY <2>1, <2>4
<1>8. /\ TypeInv' /\ Translates(run', files') /\ SameBut(files, files', {target})
  <2>1. path \in DOMAIN files /\ path # target /\ run.command \in Commands
    BY <1>2, <1>3, <1>5, TextIs DEF TypeInv
  <2>2. QED
    BY <1>1, <1>2, <1>4, <1>6, <1>7, <2>1, TextOpens
<1>9. /\ run'.command = run.command /\ run'.phase = "copy" /\ run'.open = TRUE
  BY <1>7 DEF Opens
<1>10. run'.left \in Seq(ToSet(run.command.args))
  <2>1. PICK S, l : S = ToSet(run.command.args) /\ l \in Seq(S) /\ l = run.left /\ l # <<>>
    BY <1>1, <1>2
  <2>2. Tail(l) \in Seq(S)
    BY <2>1, HeadTailProperties
  <2>3. QED
    BY <1>7, <2>1, <2>2
<1>11. TextInv'
  BY <1>2, <1>8, <1>9, <1>10 DEF TextInv
<1>12. QED
  BY <1>1, <1>5, <1>8, <1>9, <1>11 DEF SameBut

LEMMA TypeKept ==
    ASSUME RunTyped, Typed(files'), ImageTyped, UNCHANGED image, IsRun(run'), run'.command = run.command,
           run'.stamp = run.stamp, run'.open \in BOOLEAN,
           run'.phase \in {"copy", "flushed", "closing", "extract"} => run'.open, ~Disk'
    PROVE  TypeInv'
<1>1. RunTyped'
  BY DEF RunTyped
<1>2. QED
  BY <1>1 DEF TypeInv, ImageTyped

LEMMA WriteTemporaryStep ==
    ASSUME TypeInv, TextInv, WriteTemporary
    PROVE  /\ TypeInv' /\ TextInv' /\ run'.command = run.command /\ Text /\ run.open
           /\ SameBut(files, files', {run.target})
<1>1. /\ Text /\ run.open /\ Pending(run.stream) # <<>> /\ Given
      /\ files' = Appended(run.target, NextPiece(run.stream)) /\ UNCHANGED <<image, memory>>
  BY DEF WriteTemporary
<1>2. /\ run.command.program = "text" /\ IsRun(run) /\ run.phase \notin Stopped \cup {"ok"}
      /\ run.left \in Seq(ToSet(run.command.args)) /\ Translates(run, files)
      /\ Filter(run.command) => Filters(run, files)
  BY <1>1, AtTextCopy
<1>3. PICK p, w, codec, src, filter :
         /\ p = run.target /\ w = files[p].data /\ codec = run.command.op
         /\ src = files[run.source].data /\ filter = Filter(run.command)
  OBVIOUS
<1>4. /\ p \in DOMAIN files /\ run.source \in DOMAIN files /\ run.source # p
      /\ Copying(run, w, codec, src, filter)
  BY <1>2, <1>3 DEF Translates
<1>5. run.phase \notin Stopped /\ IsRun(run)
  BY <1>2
<1>6. /\ IsRun(run') /\ SameFile(run, run') /\ run'.phase = run.phase
      /\ Written1(run, run', w, codec, src, filter)
  BY <1>1, <1>4, <1>5, CopyingPiece
<1>7. PICK d \in Seq(Byte) : /\ d = NextPiece(run.stream)
                             /\ Copying(run', w \o d, codec, src, filter)
  BY <1>6 DEF Written1
<1>8. /\ Typed(files') /\ DOMAIN files' = DOMAIN files
      /\ files'[p].data = w \o d /\ SameBut(files, files', {p})
  <2>1. files' = Appended(p, d)
    BY <1>1, <1>3, <1>7
  <2>2. Typed(files)
    BY DEF TypeInv
  <2>3. QED
    BY <1>3, <1>4, <2>1, <2>2, AppendedIs
<1>9. /\ run'.open = run.open /\ run'.command = run.command /\ run'.source = run.source
      /\ run'.target = run.target /\ run'.stamp = run.stamp /\ run'.left = run.left
  BY <1>6 DEF SameFile
<1>10. TypeInv'
  <2>1. ~Disk'
    BY <1>2, <1>9 DEF Disk, Running
  <2>2. RunTyped /\ ImageTyped
    BY DEF TypeInv
  <2>3. /\ run'.open \in BOOLEAN
        /\ run'.phase \in {"copy", "flushed", "closing", "extract"} => run'.open
    BY <1>6, <1>9, <2>2 DEF RunTyped
  <2>4. QED
    BY <1>1, <1>6, <1>8, <1>9, <2>1, <2>2, <2>3, TypeKept
<1>11. files'[run.source] = files[run.source]
  BY <1>4, <1>8 DEF SameBut
<1>12. Translates(run', files')
  BY <1>3, <1>4, <1>7, <1>8, <1>9, <1>11 DEF Translates
<1>13. Filter(run.command) => Filters(run', files')
  BY <1>1, <1>2, <1>8, <1>9 DEF Filters
<1>14. TextInv'
  BY <1>1, <1>2, <1>4, <1>6, <1>8, <1>9, <1>12, <1>13 DEF TextInv
<1>15. QED
  BY <1>1, <1>3, <1>8, <1>9, <1>10, <1>14

LEMMA RenameStep ==
    ASSUME TypeInv, TextInv, RenameOver
    PROVE  /\ TypeInv' /\ TextInv' /\ run'.command = run.command /\ Text
           /\ run.open /\ run.source # run.target
           /\ DOMAIN files' = DOMAIN files \ {run.target}
           /\ SameBut(files, files', {run.target, run.source})
           /\ files'[run.source].data = Through(run.command.op, files[run.source].data)
<1>1. /\ Text /\ run.phase = "closing" /\ ~Filter(run.command)
      /\ Pending(run.stream) = <<>> /\ UNCHANGED <<image, memory>>
      /\ run' = [run EXCEPT !.phase = "renamed", !.open = FALSE]
      /\ files' = [p \in DOMAIN files \ {run.target} |->
                      IF p = run.source THEN files[run.target] ELSE files[p]]
  BY DEF RenameOver, WholeWritten
<1>2. /\ run.command.program = "text" /\ IsRun(run) /\ run.open = TRUE
      /\ run.left \in Seq(ToSet(run.command.args)) /\ Translates(run, files)
  BY <1>1, AtTextCopy
<1>3. /\ run.source \in DOMAIN files /\ run.target \in DOMAIN files /\ run.source # run.target
      /\ Copying(run, files[run.target].data, run.command.op, files[run.source].data,
                 Filter(run.command))
  BY <1>2 DEF Translates
<1>4. \A w, codec, src, filter : Copying(run, w, codec, src, filter) /\ ~filter
                                    => w = Through(codec, src)
  BY <1>1, CopyingDone DEF Sure
<1>5. files[run.target].data = Through(run.command.op, files[run.source].data)
  BY <1>1, <1>3, <1>4
<1>6. Typed(files')
  <2>1. files \in [DOMAIN files -> UnixFiles] /\ IsFiniteSet(DOMAIN files)
    BY DEF TypeInv, Typed
  <2>2. IsFiniteSet(DOMAIN files \ {run.target})
    BY <2>1, FS_RemoveElement
  <2>3. files' \in [DOMAIN files' -> UnixFiles] /\ DOMAIN files' = DOMAIN files \ {run.target}
    BY <1>1, <1>3, <2>1
  <2>4. QED
    BY <2>2, <2>3 DEF Typed
<1>7. Shut(run, run', "renamed")
  BY <1>1, <1>2, ShutIs
<1>8. /\ IsRun(run') /\ run'.phase = "renamed" /\ run'.open = FALSE
      /\ run'.command = run.command /\ run'.left = run.left /\ run'.source = run.source
      /\ run'.stamp = run.stamp
  BY <1>7 DEF Shut
<1>9. TypeInv'
  <2>1. ~Disk'
    BY <1>2, <1>8 DEF Disk, Running
  <2>2. RunTyped /\ ImageTyped
    BY DEF TypeInv
  <2>3. QED
    BY <1>1, <1>6, <1>8, <2>1, <2>2, TypeKept
<1>10. run.source \in DOMAIN files' /\ files'[run.source] = files[run.target]
  BY <1>1, <1>3
<1>11. TextInv'
  BY <1>1, <1>2, <1>8, <1>10 DEF TextInv
<1>12. QED
  BY <1>1, <1>2, <1>3, <1>5, <1>8, <1>9, <1>10, <1>11 DEF SameBut

LEMMA RestoreStep ==
    ASSUME TypeInv, TextInv, RestoreTimes
    PROVE  /\ TypeInv' /\ TextInv' /\ run'.command = run.command /\ Text
           /\ \A p \in DOMAIN files : p \in DOMAIN files' /\ files'[p].data = files[p].data
<1>1. /\ Text /\ run.phase = "renamed" /\ files' = Stamped(run.source, run.stamp)
      /\ run' = [run EXCEPT !.phase = "next"] /\ UNCHANGED <<image, memory>>
  BY DEF RestoreTimes
<1>2. /\ run.command.program = "text" /\ IsRun(run) /\ ~run.open /\ run.source \in DOMAIN files
      /\ run.left \in Seq(ToSet(run.command.args)) /\ ~Filter(run.command)
  BY <1>1, AtTextCopy
<1>3. /\ IsRun(run') /\ run'.phase = "next" /\ SameFile(run, run')
  <2>1. IsRun(run)
    BY <1>2
  <2>2. QED
    BY <1>1, <2>1, PhasedIs
<1>4. run'.open = FALSE /\ run'.command = run.command /\ run'.stamp = run.stamp
      /\ run'.left = run.left
  BY <1>2, <1>3 DEF SameFile, TypeInv, RunTyped
<1>5. PICK p \in DOMAIN files, stamp \in Stamps : p = run.source /\ stamp = run.stamp
  BY <1>2 DEF TypeInv, RunTyped
<1>6. /\ Typed(files') /\ DOMAIN files' = DOMAIN files /\ files'[p].data = files[p].data
      /\ SameBut(files, files', {p})
  BY <1>1, <1>5, StampedIs DEF TypeInv
<1>7. TypeInv'
  <2>1. ~Disk'
    BY <1>2, <1>4 DEF Disk, Running
  <2>2. RunTyped /\ ImageTyped
    BY DEF TypeInv
  <2>3. QED
    BY <1>1, <1>3, <1>4, <1>6, <2>1, <2>2, TypeKept
<1>8. TextInv'
  BY <1>2, <1>3, <1>4 DEF TextInv
<1>9. QED
  BY <1>1, <1>4, <1>6, <1>7, <1>8 DEF SameBut

\* The end of the program.
LEMMA TextEndsStep ==
    ASSUME TypeInv, TextInv, TextEnds
    PROVE  TypeInv' /\ TextInv' /\ run'.command = run.command /\ Text /\ UNCHANGED files
<1>1. Text /\ run.phase = "next" /\ Ends("ok") /\ UNCHANGED <<files, image, memory>>
  BY DEF TextEnds
<1>2. /\ run.command.program = "text" /\ IsRun(run) /\ ~run.open /\ ~Filter(run.command)
  BY <1>1, AtTextCopy
<1>3. /\ IsRun(run') /\ run'.phase = "ok" /\ run'.command = run.command
      /\ run'.open = run.open /\ run'.left = <<>> /\ run'.stamp = run.stamp
  BY <1>1, <1>2, EndsIs
<1>4. TypeInv'
  <2>1. ~Disk'
    BY <1>2, <1>3 DEF Disk, Running
  <2>2. RunTyped /\ ImageTyped /\ Typed(files)
    BY DEF TypeInv
  <2>3. run'.open \in BOOLEAN /\ Typed(files')
    BY <1>1, <1>3, <2>2 DEF RunTyped, Typed
  <2>4. QED
    BY <1>1, <1>3, <2>1, <2>2, <2>3, TypeKept
<1>5. run'.left \in Seq(ToSet(run.command.args))
  BY <1>3
<1>6. TextInv'
  BY <1>2, <1>3, <1>5 DEF TextInv
<1>7. QED
  BY <1>1, <1>3, <1>4, <1>6

LEMMA FilterEndsStep ==
    ASSUME TypeInv, TextInv, FilterEnds
    PROVE  TypeInv' /\ TextInv' /\ run'.command = run.command /\ Text /\ UNCHANGED files
<1>1. /\ Text /\ Filter(run.command) /\ run.phase = "closing" /\ Pending(run.stream) = <<>>
      /\ run' = [run EXCEPT !.phase = "ok", !.open = FALSE, !.stream = NewStream("none")]
      /\ UNCHANGED <<files, image, memory>>
  BY DEF FilterEnds, InFilter
<1>2. /\ run.command.program = "text" /\ IsRun(run) /\ run.open = TRUE
      /\ run.left \in Seq(ToSet(run.command.args)) /\ Translates(run, files)
      /\ Filters(run, files)
  BY <1>1, AtTextCopy
<1>3. Shut(run, run', "ok")
  BY <1>1, <1>2, FilterShutIs
<1>4. /\ IsRun(run') /\ run'.phase = "ok" /\ run'.open = FALSE
      /\ run'.command = run.command /\ run'.left = run.left /\ run'.stamp = run.stamp
  BY <1>3 DEF Shut
<1>5. TypeInv'
  <2>1. ~Disk'
    BY <1>2, <1>4 DEF Disk, Running
  <2>2. RunTyped /\ ImageTyped /\ Typed(files')
    BY <1>1 DEF TypeInv, Typed
  <2>3. QED
    BY <1>1, <1>4, <2>1, <2>2, TypeKept
<1>6. /\ run.command.input \in DOMAIN files /\ run.command.output \in DOMAIN files
      /\ run.source = run.command.input /\ run.target = run.command.output
  BY <1>2 DEF Filters
<1>7. \A w, codec, src : Copying(run, w, codec, src, TRUE) /\ Sure(codec, src, TRUE)
                            => w = Through(codec, src)
  BY <1>1, CopyingDone
<1>8. Copying(run, files[run.command.output].data, run.command.op,
              files[run.command.input].data, TRUE)
  <2>1. Filter(run.command) = TRUE
    BY <1>1 DEF Filter
  <2>2. QED
    BY <1>2, <1>6, <2>1 DEF Translates
<1>9. Filters(run', files')
  <2>1. Sure(run.command.op, files[run.command.input].data, TRUE)
           => files[run.command.output].data
                 = Through(run.command.op, files[run.command.input].data)
    BY <1>7, <1>8
  <2>2. run'.source = run.source /\ run'.target = run.target
    BY <1>3 DEF Shut
  <2>3. QED
    BY <1>1, <1>2, <1>4, <1>6, <2>1, <2>2 DEF Filters
<1>10. TextInv'
  BY <1>1, <1>2, <1>4, <1>9 DEF TextInv
<1>11. QED
  BY <1>1, <1>4, <1>5, <1>10

\* It is killed, or a file is not there.
LEMMA TextDiesStep ==
    ASSUME TypeInv, DiskInv, TextInv, Text, Dies \/ Killed
    PROVE  TypeInv' /\ TextInv' /\ run'.command = run.command /\ UNCHANGED files
<1>1. /\ TypeInv' /\ run'.open = run.open /\ run'.command = run.command
      /\ run'.target = run.target /\ run'.source = run.source
      /\ run'.phase \in Stopped /\ UNCHANGED <<files, image>>
  BY DiesStep
<1>2. run'.left = <<>>
  <2>1. IsRun(run) /\ \E how : Ends(how)
    BY DEF Dies, Killed, TypeInv, RunTyped
  <2>2. QED
    BY <2>1, EndsIs
<1>3. /\ run.command.program = "text"
      /\ run.open => Translates(run, files)
      /\ Filter(run.command) => Filters(run, files) /\ run.open
  BY AtTextCopy
<1>4. run.open => Translates(run', files')
  <2>1. \A w, codec, src, filter : Copying(run, w, codec, src, filter)
                                      => Copying(run', w, codec, src, filter)
    BY <1>1, CopyingStops
  <2>2. QED
    BY <1>1, <1>3, <2>1 DEF Translates
<1>5. Filter(run.command) => Filters(run', files')
  BY <1>1, <1>3 DEF Filters
<1>6. run'.left \in Seq(ToSet(run.command.args)) /\ run'.phase \notin {"ok", "renamed"}
  BY <1>1, <1>2 DEF Stopped
<1>7. QED
  BY <1>1, <1>3, <1>4, <1>5, <1>6 DEF TextInv

-----------------------------------------------------------------------------
(* ucsdpsys_rt11: its directory and its blocks.                            *)

\* One entry more.
BlocksStep(E) == [p \in Nat \X E |-> p[1] + LengthOf(p[2])]

LEMMA BlocksAreNumbers ==
    ASSUME NEW E, \A e \in E : e.length \in Nat, NEW s \in Seq(E)
    PROVE  FoldLeft(LAMBDA n, e : n + LengthOf(e), 0, s) \in Nat
<1>0. PICK n \in Nat : n = Len(s)
  OBVIOUS
<1> DEFINE IsFold(f) == f = [T \in SUBSET (1 .. n) |->
                               IF T = {} THEN 0 ELSE f[T \ {Max(T)}] + LengthOf(s[Max(T)])]
           h == FoldLeft(LAMBDA m, e : m + LengthOf(e), 0, s)
<1>1. DOMAIN s = 1 .. n /\ n \in Nat
  BY <1>0
<1>2. h = (CHOOSE f : IsFold(f))[1 .. n]
  BY <1>1, Zenon DEF FoldLeft, MapThenFoldSet
<1>3. \A x \in Nat, y \in E :
         BlocksStep(E)[<<x, y>>] = x + LengthOf(y) /\ BlocksStep(E)[<<x, y>>] \in Nat
  BY DEF BlocksStep, LengthOf
<1>4. PICK f : IsSteps(f, BlocksStep(E), 0, s, n)
  BY <1>1, StepsExist
<1>5. \A T \in SUBSET (1 .. n) :
         /\ f[T] \in Nat
         /\ T # {} => f[T \ {Max(T)}] \in Nat /\ s[Max(T)] \in E
  <2>1. \A x \in Nat, y \in E : BlocksStep(E)[<<x, y>>] \in Nat
    BY <1>3
  <2>2. QED
    BY <1>0, <1>4, <2>1, StepsType
<1>6. IsFold(f)
  <2>1. \A T \in SUBSET (1 .. n) :
           (IF T = {} THEN 0 ELSE BlocksStep(E)[<<f[T \ {Max(T)}], s[Max(T)]>>])
             = IF T = {} THEN 0 ELSE f[T \ {Max(T)}] + LengthOf(s[Max(T)])
    BY <1>3, <1>5
  <2>2. f = [T \in SUBSET (1 .. n) |->
               IF T = {} THEN 0 ELSE BlocksStep(E)[<<f[T \ {Max(T)}], s[Max(T)]>>]]
    BY <1>4 DEF IsSteps
  <2>3. QED
    BY <2>1, <2>2
<1>7. PICK g : IsFold(g) /\ h = g[1 .. n]
  <2> HIDE DEF IsFold, h
  <2>1. QED
    BY <1>2, <1>6
<1> DEFINE N == {m \in 0 .. n : g[1 .. m] \in Nat}
<1>8. 0 \in N
  <2>1. 1 .. 0 = {} /\ {} \in SUBSET (1 .. n)
    OBVIOUS
  <2>2. g[1 .. 0] = 0
    BY <1>7, <2>1
  <2>3. 0 \in 0 .. n
    BY <1>1
  <2>4. QED
    BY <2>2, <2>3
<1>9. \A m \in 0 .. n - 1 : m \in N => m + 1 \in N
  <2> SUFFICES ASSUME NEW m \in 0 .. n - 1, g[1 .. m] \in Nat
               PROVE  g[1 .. m + 1] \in Nat
    BY <1>1
  <2>1. /\ 1 .. m + 1 # {} /\ 1 .. m + 1 \in SUBSET (1 .. n)
        /\ Max(1 .. m + 1) = m + 1 /\ (1 .. m + 1) \ {m + 1} = 1 .. m
    BY <1>1, OneMore
  <2>2. g[1 .. m + 1] = g[1 .. m] + LengthOf(s[m + 1])
    BY <1>7, <2>1
  <2>3. s[m + 1] \in E
    BY <1>0
  <2>4. QED
    BY <2>2, <2>3 DEF LengthOf
<1>10. n \in N
  <2> HIDE DEF N
  <2>1. n \in Nat
    BY <1>1
  <2>2. \A k \in 0 .. n : k \in N
    BY <1>8, <1>9, <2>1, InductionUpTo
  <2>3. QED
    BY <2>1, <2>2
<1>11. QED
  <2> HIDE DEF IsFold, h
  <2>1. h \in Nat
    BY <1>7, <1>10 DEF N
  <2>2. QED
    BY <2>1 DEF h

\* The characters that are kept of a block.
LEMMA ExtractedType ==
    ASSUME NEW block \in Seq(Byte), NEW text
    PROVE  Extracted(block, text) \in Seq(Byte)
<1> DEFINE kept == [i \in DOMAIN block |->
                      IF block[i] \in {NUL, CR} THEN <<>> ELSE <<block[i]>>]
<1>1. kept \in Seq(Seq(Byte))
  <2>1. \A i \in DOMAIN block : (IF block[i] \in {NUL, CR} THEN <<>> ELSE <<block[i]>>) \in Seq(Byte)
    OBVIOUS
  <2>2. kept \in [1 .. Len(block) -> Seq(Byte)] /\ Len(block) \in Nat
    BY <2>1
  <2>3. QED
    BY <2>2
<1>2. FlattenSeq(kept) \in Seq(Byte)
  <2> HIDE DEF kept
  <2>1. QED
    BY <1>1, FlattenType
<1>3. QED
  BY <1>2 DEF Extracted

\* The blocks in front of the k-th of some entries, and the least of some numbers.
BlocksBefore(entries, k) ==
    FoldLeft(LAMBDA n, e : n + LengthOf(e), 0, SubSeq(entries, 1, k - 1))
LeastOf(S) == CHOOSE k \in S : \A j \in S : k <= j

Rt11Is ==
    /\ Entries \in Seq(ToSet(Entries))
    /\ \A e \in ToSet(Entries) : e.length \in Nat /\ e.date \in Dates
    /\ Blocks \in Seq(Seq(Byte))

LEMMA Rt11CommandIs ==
    ASSUME RunTyped, run.command.program = "rt11"
    PROVE  Rt11Is
<1>1. run.command \in Commands
  BY CommandIs
<1>2. QED
  BY <1>1, CommandsAssumption DEF Rt11Is, Entries, Blocks, Byte

LEMMA EntryIs ==
    ASSUME Rt11Is, NEW k \in DOMAIN Entries
    PROVE  /\ k \in Nat \ {0} /\ Entries[k].length \in Nat /\ Entries[k].date \in Dates
           /\ FirstBlock(k) = BlocksBefore(Entries, k) /\ FirstBlock(k) \in Nat
<1>1. /\ k \in Nat \ {0} /\ k \in 1 .. Len(Entries) /\ Entries[k] \in ToSet(Entries)
      /\ Len(Entries) \in Nat
  BY DEF Rt11Is, ToSet
<1>2. SubSeq(Entries, 1, k - 1) \in Seq(ToSet(Entries))
  <2>1. 1 .. k - 1 \subseteq 1 .. Len(Entries)
    BY <1>1
  <2>2. QED
    BY <1>1, <2>1, SubSeqProperties DEF Rt11Is
<1>3. BlocksBefore(Entries, k) \in Nat
  BY <1>2, BlocksAreNumbers DEF Rt11Is, BlocksBefore
<1>4. FirstBlock(k) = BlocksBefore(Entries, k)
  BY DEF FirstBlock, BlocksBefore
<1>5. QED
  BY <1>1, <1>3, <1>4 DEF Rt11Is

LEMMA LeastIs ==
    ASSUME NEW S, S \subseteq Nat, S # {}
    PROVE  LeastOf(S) \in S
<1>1. \E m \in S : \A k \in S : m <= k
  BY LeastNumber
<1>2. QED
  BY <1>1 DEF LeastOf

LEMMA FoundIs ==
    ASSUME Rt11Is, NEW title, Titled(title) # {}
    PROVE  /\ Find(title) \in DOMAIN Entries /\ Entries[Find(title)].title = title
<1>1. Titled(title) \subseteq Nat /\ Titled(title) \subseteq DOMAIN Entries
  BY DEF Titled, Rt11Is
<1>2. Find(title) = LeastOf(Titled(title))
  BY DEF Find, LeastOf
<1>3. Find(title) \in Titled(title)
  BY <1>1, <1>2, LeastIs
<1>4. QED
  BY <1>3 DEF Titled

LEMMA EndMarkIs ==
    ASSUME Rt11Is
    PROVE  EndMark \in Nat \ {0} /\ EndMark <= Len(Entries) + 1
<1> DEFINE marks == {k \in DOMAIN Entries : Entries[k].type = "endmark"}
<1>1. /\ marks \subseteq Nat \ {0} /\ marks \subseteq 1 .. Len(Entries) /\ Len(Entries) \in Nat
  BY DEF Rt11Is
<1>2. EndMark = IF marks = {} THEN Len(Entries) + 1 ELSE LeastOf(marks)
  BY DEF EndMark, LeastOf
<1>3. marks # {} => LeastOf(marks) \in marks
  BY <1>1, LeastIs
<1>4. QED
  BY <1>1, <1>2, <1>3

LEMMA FirstBlockIs == \A k : FirstBlock(k) = BlocksBefore(Entries, k)
BY DEF FirstBlock, BlocksBefore

\* The same command has the same disk.
LEMMA SameDisk ==
    ASSUME run'.command = run.command
    PROVE  /\ Entries' = Entries /\ Blocks' = Blocks /\ EndMark' = EndMark
           /\ \A k : FirstBlock(k)' = FirstBlock(k)
           /\ \A t : Find(t)' = Find(t)
<1>1. Entries' = Entries /\ Blocks' = Blocks
  BY DEF Entries, Blocks
<1>2. \A k : FirstBlock(k)' = FirstBlock(k)
  <2>1. \A k : FirstBlock(k) = BlocksBefore(Entries, k)
    BY FirstBlockIs
  <2>2. (\A k : FirstBlock(k) = BlocksBefore(Entries, k))'
    BY FirstBlockIs, PTL
  <2>3. QED
    BY <1>1, <2>1, <2>2
<1>3. \A t : Find(t)' = Find(t)
  <2>1. \A t : Titled(t)' = Titled(t)
    BY <1>1 DEF Titled
  <2>2. \A t : Find(t) = LeastOf(Titled(t)) /\ Find(t)' = LeastOf(Titled(t)')
    BY DEF Find, LeastOf
  <2>3. QED
    BY <2>1, <2>2
<1>4. EndMark' = EndMark
  BY <1>1 DEF EndMark
<1>5. QED
  BY <1>1, <1>2, <1>3, <1>4

\* What j blocks of the k-th entry become in the output, and those not yet read.
Part(blocks, first, j) ==
    [i \in 1 .. j |-> Extracted(blocks[first + i], LooksLikeText(blocks[first + 1]))]
ToRead(first, length, j) == [i \in 1 .. length - j |-> first + j + i]

\* The file p of f is what the k-th entry of the disk becomes.
Whole(f, p, blocks, first, length) ==
    /\ p \in DOMAIN f /\ first + length <= Len(blocks)
    /\ f[p].data = FlattenSeq(Part(blocks, first, length))

\* The file that is being extracted: j blocks of the k-th entry.
ExtractsPart(r, f, entries, blocks, k, first, j) ==
    /\ r.open /\ r.target \in DOMAIN f
    /\ r.source = <<k, LooksLikeText(blocks[first + 1])>>
    /\ r.target = PathOf(entries[k].title)
    /\ first \in Nat /\ first < Len(blocks) /\ first + j <= Len(blocks)
    /\ r.data = ToRead(first, entries[k].length, j)
    /\ f[r.target].data = FlattenSeq(Part(blocks, first, j))

\* The entries whose titles are left are still to be extracted; the others were.
Extracts(k) ==
    \/ Entries[k].title \in ToSet(run.left)
    \/ run.phase = "extract" /\ run.target = PathOf(Entries[k].title)
    \/ Whole(files, PathOf(Entries[k].title), Blocks, FirstBlock(k), Entries[k].length)

\* At each place of the program which entries are extracted, and how much of one.
Rt11Inv ==
    run.command.program = "rt11" =>
       /\ run.phase = "extract" =>
             \E k \in DOMAIN Entries : \E j \in 0 .. Entries[k].length :
                /\ Find(Entries[k].title) = k
                /\ ExtractsPart(run, files, Entries, Blocks, k, FirstBlock(k), j)
       /\ run.command.op = "all" /\ run.phase \in {"next", "extract", "ok"} =>
             /\ run.left \in Seq(ToSet(Titles))
             /\ run.phase = "ok" => run.left = <<>>
             /\ \A k \in 1 .. EndMark - 1 : Find(Entries[k].title) = k => Extracts(k)

LEMMA PartIs ==
    ASSUME NEW blocks \in Seq(Seq(Byte)), NEW first \in Nat, NEW j \in Nat,
           first + j <= Len(blocks)
    PROVE  /\ Part(blocks, first, j) \in Seq(Seq(Byte))
           /\ Part(blocks, first, 0) = <<>>
<1>1. \A i \in 1 .. j : blocks[first + i] \in Seq(Byte)
  OBVIOUS
<1>2. \A i \in 1 .. j : Extracted(blocks[first + i], LooksLikeText(blocks[first + 1])) \in Seq(Byte)
  BY <1>1, ExtractedType
<1>3. Part(blocks, first, j) \in [1 .. j -> Seq(Byte)]
  BY <1>2 DEF Part
<1>4. Part(blocks, first, 0) = <<>>
  BY DEF Part
<1>5. QED
  BY <1>3, <1>4

PartGrows(blocks, first, j, x) ==
    /\ x \in Seq(Byte)
    /\ FlattenSeq(Part(blocks, first, j + 1)) = FlattenSeq(Part(blocks, first, j)) \o x

LEMMA PartMore ==
    ASSUME NEW blocks \in Seq(Seq(Byte)), NEW first \in Nat, NEW j \in Nat,
           first + j + 1 <= Len(blocks), NEW x,
           x = Extracted(blocks[first + j + 1], LooksLikeText(blocks[first + 1]))
    PROVE  PartGrows(blocks, first, j, x)
<1>1. blocks[first + j + 1] \in Seq(Byte) /\ first + (j + 1) = first + j + 1
  OBVIOUS
<1>2. x \in Seq(Byte)
  BY <1>1, ExtractedType
<1>3. Part(blocks, first, j) \in Seq(Seq(Byte)) /\ Part(blocks, first, j + 1) \in Seq(Seq(Byte))
  BY PartIs
<1>4. Part(blocks, first, j + 1) = Append(Part(blocks, first, j), x)
  <2>1. /\ Len(Part(blocks, first, j)) = j /\ Len(Part(blocks, first, j + 1)) = j + 1
        /\ \A i \in 1 .. j : Part(blocks, first, j)[i] = Part(blocks, first, j + 1)[i]
        /\ Part(blocks, first, j + 1)[j + 1] = x
    BY <1>1, <1>3 DEF Part
  <2>2. PICK u, v : /\ u = Part(blocks, first, j + 1) /\ u \in Seq(Seq(Byte)) /\ Len(u) = j + 1
                    /\ v = Part(blocks, first, j) /\ v \in Seq(Seq(Byte)) /\ Len(v) = j
                    /\ \A i \in 1 .. j : v[i] = u[i]
                    /\ u[j + 1] = x
    BY <1>3, <2>1
  <2>3. /\ Append(v, x) \in Seq(Seq(Byte)) /\ Len(Append(v, x)) = j + 1
        /\ \A i \in 1 .. j + 1 : Append(v, x)[i] = u[i]
    <3>1. Append(v, x) \in Seq(Seq(Byte)) /\ Len(Append(v, x)) = j + 1
      BY <1>2, <2>2, AppendProperties
    <3>2. Append(v, x)[j + 1] = x /\ \A i \in 1 .. j : Append(v, x)[i] = v[i]
      <4>1. /\ Append(v, x)[Len(v) + 1] = x
            /\ \A i \in 1 .. Len(v) : Append(v, x)[i] = v[i]
        <5>1. v \in Seq(Seq(Byte))
          BY <2>2
        <5>2. QED
          BY <1>2, <5>1, AppendProperties
      <4>2. Len(v) = j
        BY <2>2
      <4>3. QED
        BY <4>1, <4>2
    <3>3. ASSUME NEW i \in 1 .. j + 1
          PROVE  Append(v, x)[i] = u[i]
      <4>1. CASE i \in 1 .. j
        <5>1. v[i] = u[i]
          BY <2>2, <4>1
        <5>2. QED
          BY <3>2, <4>1, <5>1
      <4>2. CASE i = j + 1
        <5>1. u[j + 1] = x
          BY <2>2
        <5>2. QED
          BY <3>2, <4>2, <5>1
      <4>3. i \in 1 .. j \/ i = j + 1
        OBVIOUS
      <4>4. QED
        BY <4>1, <4>2, <4>3
    <3>4. QED
      BY <3>1, <3>3
  <2>4. u = Append(v, x)
    BY <2>2, <2>3, SeqEqual
  <2>5. QED
    BY <2>2, <2>4
<1>5. FlattenSeq(Part(blocks, first, j + 1)) = FlattenSeq(Part(blocks, first, j)) \o x
  BY <1>2, <1>3, <1>4, FlattenAppend
<1>6. QED
  BY <1>2, <1>5 DEF PartGrows

\* What is left to read.
LEMMA RestIs ==
    ASSUME NEW first \in Nat, NEW length \in Nat, NEW j \in 0 .. length
    PROVE  /\ ToRead(first, length, j) = <<>> <=> j = length
           /\ j < length => /\ Head(ToRead(first, length, j)) = first + j + 1
                            /\ Tail(ToRead(first, length, j)) = ToRead(first, length, j + 1)
<1>1. ToRead(first, length, j) \in Seq(Nat) /\ Len(ToRead(first, length, j)) = length - j
  <2>1. ToRead(first, length, j) \in [1 .. length - j -> Nat] /\ length - j \in Nat
    BY DEF ToRead
  <2>2. QED
    BY <2>1
<1>2. ToRead(first, length, j) = <<>> <=> j = length
  BY <1>1
<1>3. ASSUME j < length
      PROVE  /\ Head(ToRead(first, length, j)) = first + j + 1
             /\ Tail(ToRead(first, length, j)) = ToRead(first, length, j + 1)
  <2>1. ToRead(first, length, j) # <<>>
    BY <1>2, <1>3
  <2>2. Head(ToRead(first, length, j)) = first + j + 1
    <3>1. Head(ToRead(first, length, j)) = ToRead(first, length, j)[1]
      BY <1>1, <2>1, HeadTailProperties
    <3>2. 1 \in 1 .. length - j
      BY <1>3
    <3>3. QED
      BY <3>1, <3>2 DEF ToRead
  <2>3. /\ Tail(ToRead(first, length, j)) \in Seq(Nat)
        /\ Len(Tail(ToRead(first, length, j))) = length - j - 1
        /\ \A i \in 1 .. length - j - 1 :
              Tail(ToRead(first, length, j))[i] = ToRead(first, length, j)[i + 1]
    BY <1>1, <2>1, HeadTailProperties
  <2>4. ToRead(first, length, j + 1) \in Seq(Nat) /\ Len(ToRead(first, length, j + 1)) = length - j - 1
    <3>1. ToRead(first, length, j + 1) \in [1 .. length - (j + 1) -> Nat]
          /\ length - (j + 1) \in Nat /\ length - (j + 1) = length - j - 1
      BY <1>3 DEF ToRead
    <3>2. QED
      BY <3>1
  <2>5. ASSUME NEW i \in 1 .. length - j - 1
        PROVE  ToRead(first, length, j)[i + 1] = ToRead(first, length, j + 1)[i]
    <3>1. i + 1 \in 1 .. length - j /\ i \in 1 .. length - (j + 1)
          /\ first + j + (i + 1) = first + (j + 1) + i
      BY <1>3
    <3>2. QED
      BY <3>1 DEF ToRead
  <2>6. QED
    <3> DEFINE u == Tail(ToRead(first, length, j))
               v == ToRead(first, length, j + 1)
    <3>1. u \in Seq(Nat) /\ v \in Seq(Nat) /\ Len(u) = Len(v)
      BY <2>3, <2>4
    <3>2. \A i \in 1 .. Len(u) : u[i] = v[i]
      BY <2>3, <2>5
    <3> HIDE DEF u, v
    <3>3. u = v
      BY <3>1, <3>2, SeqEqual
    <3>4. QED
      BY <2>2, <3>3 DEF u, v
<1>4. QED
  BY <1>2, <1>3

\* What is whole stays so when another file changes.
LEMMA StillWhole ==
    ASSUME NEW f, NEW g, NEW p, NEW S, SameBut(f, g, S), p \notin S,
           NEW blocks, NEW first, NEW length, Whole(f, p, blocks, first, length)
    PROVE  Whole(g, p, blocks, first, length)
BY DEF Whole, SameBut

LEMMA PathsDiffer ==
    ASSUME NEW t, NEW u, PathOf(t) = PathOf(u)
    PROVE  t = u
<1>1. PathOf(t).name = t /\ PathOf(u).name = u
  BY DEF PathOf
<1>2. QED
  BY <1>1

\* The run of ucsdpsys_rt11 goes on: it has its titles, opens a file, has copied
\* a block of it or all of them.
LEMMA ReadDirectoryIs ==
    ASSUME IsRun(run), NEW s, NEW l, run' = [run EXCEPT !.phase = "next", !.shown = s, !.left = l]
    PROVE  /\ IsRun(run') /\ run'.phase = "next" /\ run'.left = l /\ run'.command = run.command
           /\ run'.open = run.open /\ run'.stamp = run.stamp
BY DEF IsRun

ExtractFrom(r, l, s, t, d) ==
    [r EXCEPT !.phase = "extract", !.left = l, !.open = TRUE,
              !.source = s, !.target = t, !.data = d]

ExtractsFrom(r, q, l, s, t, d) ==
    /\ IsRun(q) /\ q.phase = "extract" /\ q.left = l /\ q.open = TRUE
    /\ q.source = s /\ q.target = t /\ q.data = d /\ q.command = r.command
    /\ q.stamp = r.stamp

LEMMA ExtractIs ==
    ASSUME NEW r, IsRun(r), NEW l, NEW s, NEW t, NEW d, NEW q, q = ExtractFrom(r, l, s, t, d)
    PROVE  ExtractsFrom(r, q, l, s, t, d)
BY DEF IsRun, ExtractFrom, ExtractsFrom

LEMMA BlockIs ==
    ASSUME IsRun(run), NEW d, run' = [run EXCEPT !.data = d]
    PROVE  /\ IsRun(run') /\ run'.data = d /\ SameFile(run, run') /\ run'.phase = run.phase
BY DEF IsRun, SameFile

-----------------------------------------------------------------------------
AtRt11 ==
    /\ run.command.program = "rt11" /\ IsRun(run) /\ Rt11Is /\ ~Disk
    /\ run.phase \notin Stopped \cup {"ok"} /\ Typed(files) /\ ImageTyped

LEMMA AtRt11Run ==
    ASSUME TypeInv, Rt11Runs
    PROVE  AtRt11
<1>1. run.command.program = "rt11" /\ ~Idle
  BY DEF Rt11Runs, Running
<1>2. RunTyped /\ Typed(files) /\ ImageTyped
  BY DEF TypeInv
<1>3. IsRun(run) /\ Rt11Is
  BY <1>1, <1>2, Rt11CommandIs DEF RunTyped
<1>4. QED
  BY <1>1, <1>2, <1>3 DEF AtRt11, Idle, Stopped, Disk, Running

\* The type of what a step leaves.
LEMMA Rt11Kept ==
    ASSUME TypeInv, AtRt11, IsRun(run'), run'.command = run.command,
           run'.stamp = run.stamp, run'.open \in BOOLEAN,
           run'.phase \in {"copy", "flushed", "closing", "extract"} => run'.open,
           Typed(files'), UNCHANGED image
    PROVE  TypeInv'
<1>1. RunTyped /\ ImageTyped
  BY DEF TypeInv
<1>2. ~Disk'
  BY DEF AtRt11, Disk, Running
<1>3. QED
  BY <1>1, <1>2, TypeKept

LEMMA Rt11Starts ==
    ASSUME TypeInv, NEW c \in Commands, StartRt11(c)
    PROVE  TypeInv' /\ DiskInv' /\ Rt11Inv' /\ run'.command = c /\ c.program = "rt11"
<1>1. /\ c.program = "rt11" /\ run' = [NewRun(c) EXCEPT !.phase = "begin"]
      /\ UNCHANGED <<files, image, memory>>
  BY DEF StartRt11
<1>2. PICK r : /\ r = NewRun(c) /\ IsRun(r) /\ r.command = c /\ r.open = FALSE /\ r.done = <<>>
               /\ r.stamp = [atime |-> Now, mtime |-> Now]
  BY NewRunIs
<1>3. run' = [r EXCEPT !.phase = "begin"]
  BY <1>1, <1>2
<1>4. IsRun(run') /\ run'.phase = "begin" /\ SameFile(r, run')
  BY <1>2, <1>3, PhasedIs
<1>5. /\ run'.command = c /\ run'.open = FALSE /\ run'.done = <<>>
      /\ run'.stamp = [atime |-> Now, mtime |-> Now]
  BY <1>2, <1>4 DEF SameFile
<1>6. ~Disk'
  BY <1>1, <1>5 DEF Disk, Running
<1>7. TypeInv' /\ DiskInv'
  BY <1>1, <1>4, <1>5, <1>6, BeginsTyped
<1>8. QED
  BY <1>1, <1>4, <1>5, <1>7 DEF Rt11Inv

LEMMA ReadDirectoryStep ==
    ASSUME TypeInv, ReadDirectory
    PROVE  TypeInv' /\ Rt11Inv' /\ run'.command = run.command /\ Rt11Runs
<1>1. /\ Rt11Runs /\ run.phase = "begin" /\ UNCHANGED <<files, image, memory>>
      /\ run' = [run EXCEPT !.phase = "next",
                          !.shown = IF run.command.op = "list" THEN Listed ELSE <<>>,
                          !.left = CASE run.command.op = "all" -> Titles
                                     [] run.command.op = "get" -> run.command.args
                                     [] run.command.op = "list" -> <<>>]
  BY DEF ReadDirectory
<1>2. AtRt11 /\ IsRun(run)
  BY <1>1, AtRt11Run DEF AtRt11
<1>3. PICK s, l : /\ run' = [run EXCEPT !.phase = "next", !.shown = s, !.left = l]
                  /\ run.command.op = "all" => l = Titles
  BY <1>1
<1>4. /\ IsRun(run') /\ run'.phase = "next" /\ run'.left = l /\ run'.command = run.command
      /\ run'.open = run.open /\ run'.stamp = run.stamp
  <2>1. IsRun(run)
    BY <1>2
  <2>2. run' = [run EXCEPT !.phase = "next", !.shown = s, !.left = l]
    BY <1>3
  <2>3. QED
    BY <2>1, <2>2, ReadDirectoryIs
<1>5. TypeInv'
  <2>1. run.open \in BOOLEAN /\ Typed(files)
    BY DEF TypeInv, RunTyped
  <2>2. Typed(files')
    BY <1>1, <2>1
  <2>3. QED
    BY <1>1, <1>2, <1>4, <2>1, <2>2, Rt11Kept
<1>6. ASSUME run.command.op = "all"
      PROVE  /\ l \in Seq(ToSet(Titles))
             /\ \A k \in 1 .. EndMark - 1 : Entries[k].title \in ToSet(l)
  <2>1. EndMark - 1 \in Nat /\ l = Titles /\ DOMAIN Titles = 1 .. EndMark - 1
    BY <1>2, <1>3, <1>6, EndMarkIs DEF AtRt11, Titles
  <2>2. Titles \in [1 .. EndMark - 1 -> ToSet(Titles)]
    BY <2>1 DEF ToSet, Titles
  <2>3. \A k \in 1 .. EndMark - 1 : Titles[k] = Entries[k].title
    BY DEF Titles
  <2>4. QED
    BY <2>1, <2>2, <2>3 DEF ToSet
<1>7. Rt11Inv'
  <2>1. Entries' = Entries /\ EndMark' = EndMark /\ Titles' = Titles
    BY <1>4, SameDisk DEF Titles
  <2>2. run.command.op = "all" => \A k \in 1 .. EndMark - 1 : Extracts(k)'
    BY <1>4, <1>6, <2>1 DEF Extracts
  <2>3. QED
    BY <1>4, <1>6, <2>1, <2>2 DEF Rt11Inv
<1>8. QED
  BY <1>1, <1>4, <1>5, <1>7

LEMMA HeadOrTail ==
    ASSUME NEW S, NEW s \in Seq(S), s # <<>>, NEW x \in ToSet(s)
    PROVE  (x = Head(s) \/ x \in ToSet(Tail(s))) /\ Tail(s) \in Seq(S)
<1>1. PICK i \in DOMAIN s : x = s[i]
  BY DEF ToSet
<1>2. /\ Tail(s) \in Seq(S) /\ Len(Tail(s)) = Len(s) - 1 /\ Head(s) = s[1]
      /\ \A j \in 1 .. Len(Tail(s)) : Tail(s)[j] = s[j + 1]
  BY HeadTailProperties
<1>3. CASE i = 1
  BY <1>1, <1>2, <1>3
<1>4. CASE i # 1
  <2>1. i - 1 \in 1 .. Len(Tail(s)) /\ i - 1 + 1 = i
    BY <1>1, <1>2, <1>4
  <2>2. Tail(s)[i - 1] = x
    BY <1>1, <1>2, <2>1
  <2>3. i - 1 \in DOMAIN Tail(s)
    BY <1>2, <2>1
  <2>4. QED
    BY <1>2, <2>2, <2>3 DEF ToSet
<1>5. QED
  BY <1>3, <1>4

LEMMA ExtractStep ==
    ASSUME TypeInv, Rt11Inv, Extract
    PROVE  TypeInv' /\ Rt11Inv' /\ run'.command = run.command /\ Rt11Runs
<1> DEFINE title == Head(run.left)
           k == Find(title)
           first == FirstBlock(k)
<1>1. /\ Rt11Runs /\ run.phase = "next" /\ run.left # <<>> /\ Titled(title) # {}
      /\ first < Len(Blocks) /\ files' = Created(PathOf(title)) /\ UNCHANGED <<image, memory>>
      /\ run' = [run EXCEPT !.phase = "extract", !.left = Tail(run.left), !.open = TRUE,
                            !.source = <<k, LooksLikeText(Blocks[first + 1])>>,
                            !.target = PathOf(title),
                            !.data = [i \in 1 .. Entries[k].length |-> first + i]]
  BY DEF Extract, AtTitle
<1>2. AtRt11 /\ IsRun(run) /\ Rt11Is /\ Typed(files)
  BY <1>1, AtRt11Run DEF AtRt11
<1>3. k \in DOMAIN Entries /\ Entries[k].title = title
  BY <1>1, <1>2, FoundIs
<1>4. first \in Nat /\ Entries[k].length \in Nat
  BY <1>2, <1>3, EntryIs
<1>5. /\ IsRun(run') /\ run'.phase = "extract" /\ run'.left = Tail(run.left) /\ run'.open = TRUE
      /\ run'.source = <<k, LooksLikeText(Blocks[first + 1])>> /\ run'.target = PathOf(title)
      /\ run'.data = [i \in 1 .. Entries[k].length |-> first + i]
      /\ run'.command = run.command /\ run'.stamp = run.stamp
  <2> HIDE DEF title, k, first
  <2>1. IsRun(run)
    BY <1>2
  <2>2. PICK l, s, t, d :
           /\ l = Tail(run.left) /\ s = <<k, LooksLikeText(Blocks[first + 1])>>
           /\ t = PathOf(title) /\ d = [i \in 1 .. Entries[k].length |-> first + i]
           /\ run' = [run EXCEPT !.phase = "extract", !.left = l, !.open = TRUE,
                                 !.source = s, !.target = t, !.data = d]
    BY <1>1
  <2>3. run' = ExtractFrom(run, l, s, t, d)
    BY <2>2 DEF ExtractFrom
  <2>4. ExtractsFrom(run, run', l, s, t, d)
    BY <2>1, <2>3, ExtractIs, Zenon
  <2>5. QED
    BY <2>2, <2>4 DEF ExtractsFrom
<1> HIDE DEF title, k, first
<1>6. /\ Typed(files') /\ PathOf(title) \in DOMAIN files' /\ files'[PathOf(title)].data = <<>>
      /\ SameBut(files, files', {PathOf(title)})
  BY <1>1, <1>2, CreatedIs
<1>7. TypeInv'
  <2>1. UNCHANGED image
    BY <1>1
  <2>2. QED
    BY <1>2, <1>5, <1>6, <2>1, Rt11Kept
<1>8. ExtractsPart(run', files', Entries, Blocks, k, first, 0)
  <2>1. /\ run'.source = <<k, LooksLikeText(Blocks[first + 1])>>
        /\ run'.target = PathOf(Entries[k].title) /\ run'.open
    BY <1>3, <1>5
  <2>2. run'.data = ToRead(first, Entries[k].length, 0)
    <3>1. /\ Entries[k].length - 0 = Entries[k].length
          /\ \A i \in 1 .. Entries[k].length : first + 0 + i = first + i
      BY <1>4
    <3>2. QED
      BY <1>5, <3>1 DEF ToRead
  <2>3. first + 0 <= Len(Blocks) /\ first < Len(Blocks)
    BY <1>1, <1>2, <1>4 DEF Rt11Is
  <2>4. FlattenSeq(Part(Blocks, first, 0)) = <<>>
    <3>1. Part(Blocks, first, 0) = <<>>
      BY DEF Part
    <3>2. QED
      BY <3>1, FlattenEmpty
  <2>5. files'[run'.target].data = FlattenSeq(Part(Blocks, first, 0)) /\ run'.target \in DOMAIN files'
    BY <1>5, <1>6, <2>4
  <2>6. QED
    BY <1>4, <2>1, <2>2, <2>3, <2>5 DEF ExtractsPart
<1>9. /\ Entries' = Entries /\ Blocks' = Blocks /\ EndMark' = EndMark /\ Titles' = Titles
      /\ \A j : FirstBlock(j)' = FirstBlock(j)
      /\ \A t : Find(t)' = Find(t)
  BY <1>5, SameDisk DEF Titles
<1>10. Find(Entries[k].title) = k /\ 0 \in 0 .. Entries[k].length
  BY <1>3, <1>4 DEF k
<1>11. \E i \in DOMAIN Entries' : \E j \in 0 .. Entries'[i].length :
          /\ Find(Entries[i].title)' = i
          /\ ExtractsPart(run', files', Entries', Blocks', i, FirstBlock(i)', j)
  BY <1>3, <1>8, <1>9, <1>10 DEF first
<1>12. ASSUME run.command.op = "all"
       PROVE  /\ run'.left \in Seq(ToSet(Titles))
              /\ \A j \in 1 .. EndMark - 1 : Find(Entries[j].title) = j => Extracts(j)'
  <2>1. /\ run.left \in Seq(ToSet(Titles))
        /\ \A j \in 1 .. EndMark - 1 : Find(Entries[j].title) = j => Extracts(j)
    BY <1>1, <1>2, <1>12 DEF Rt11Inv, AtRt11
  <2>2. ASSUME NEW j \in 1 .. EndMark - 1, Extracts(j)
        PROVE  Extracts(j)'
    <3>1. CASE Entries[j].title \in ToSet(run.left)
      <4>1. Entries[j].title = title \/ Entries[j].title \in ToSet(Tail(run.left))
        BY <1>1, <2>1, <3>1, HeadOrTail DEF title
      <4>2. QED
        BY <1>5, <1>9, <4>1 DEF Extracts
    <3>2. CASE /\ Entries[j].title \notin ToSet(run.left)
               /\ Whole(files, PathOf(Entries[j].title), Blocks, FirstBlock(j), Entries[j].length)
      <4>1. CASE Entries[j].title = title
        BY <1>5, <1>9, <4>1 DEF Extracts
      <4>2. CASE Entries[j].title # title
        <5>1. PathOf(Entries[j].title) \notin {PathOf(title)}
          BY <4>2, PathsDiffer
        <5>2. Whole(files', PathOf(Entries[j].title), Blocks, FirstBlock(j), Entries[j].length)
          BY <1>6, <3>2, <5>1, StillWhole
        <5>3. QED
          BY <1>9, <5>2 DEF Extracts
      <4>3. QED
        BY <4>1, <4>2
    <3>3. QED
      BY <1>1, <2>2, <3>1, <3>2 DEF Extracts
  <2>3. Tail(run.left) \in Seq(ToSet(Titles))
    BY <1>1, <2>1, HeadTailProperties
  <2>4. QED
    BY <1>5, <2>1, <2>2, <2>3
<1>13. Rt11Inv'
  BY <1>5, <1>9, <1>11, <1>12 DEF Rt11Inv
<1>14. QED
  BY <1>1, <1>5, <1>7, <1>13

\* What is being extracted.
LEMMA AtExtract ==
    ASSUME TypeInv, Rt11Inv, Extracting
    PROVE  /\ AtRt11 /\ run.phase = "extract"
           /\ \E k \in DOMAIN Entries : \E j \in 0 .. Entries[k].length :
                 /\ Find(Entries[k].title) = k
                 /\ ExtractsPart(run, files, Entries, Blocks, k, FirstBlock(k), j)
<1>1. Rt11Runs /\ run.phase = "extract"
  BY DEF Extracting
<1>2. AtRt11 /\ run.command.program = "rt11"
  BY <1>1, AtRt11Run DEF AtRt11
<1>3. QED
  BY <1>1, <1>2 DEF Rt11Inv

LEMMA CopyBlockStep ==
    ASSUME TypeInv, Rt11Inv, CopyBlock
    PROVE  TypeInv' /\ Rt11Inv' /\ run'.command = run.command /\ Rt11Runs
<1>1. /\ Extracting /\ run.data # <<>> /\ Head(run.data) <= Len(Blocks)
      /\ files' = Appended(run.target, Extracted(Blocks[Head(run.data)], run.source[2]))
      /\ run' = [run EXCEPT !.data = Tail(run.data)] /\ UNCHANGED <<image, memory>>
  BY DEF CopyBlock
<1>2. AtRt11 /\ run.phase = "extract" /\ IsRun(run) /\ Rt11Is /\ Typed(files) /\ Rt11Runs
      /\ run.command.program = "rt11"
  BY <1>1, AtExtract DEF AtRt11, Extracting
<1>3. PICK k \in DOMAIN Entries : \E j \in 0 .. Entries[k].length :
         /\ Find(Entries[k].title) = k
         /\ ExtractsPart(run, files, Entries, Blocks, k, FirstBlock(k), j)
  BY <1>1, AtExtract
<1>4. PICK length \in Nat, first \in Nat : length = Entries[k].length /\ first = FirstBlock(k)
  BY <1>2, <1>3, EntryIs
<1>5. PICK j \in 0 .. length :
         /\ Find(Entries[k].title) = k
         /\ ExtractsPart(run, files, Entries, Blocks, k, first, j)
  BY <1>3, <1>4
<1>6. /\ run.data = ToRead(first, length, j) /\ run.target \in DOMAIN files
      /\ run.source = <<k, LooksLikeText(Blocks[first + 1])>> /\ run.open
      /\ run.target = PathOf(Entries[k].title) /\ first < Len(Blocks)
      /\ files[run.target].data = FlattenSeq(Part(Blocks, first, j))
  BY <1>4, <1>5 DEF ExtractsPart
<1>7. /\ j < length /\ Head(run.data) = first + j + 1
      /\ Tail(run.data) = ToRead(first, length, j + 1)
  <2>1. j # length
    BY <1>1, <1>4, <1>5, <1>6, RestIs
  <2>2. j < length
    BY <1>4, <1>5, <2>1
  <2>3. /\ Head(ToRead(first, length, j)) = first + j + 1
        /\ Tail(ToRead(first, length, j)) = ToRead(first, length, j + 1)
    <3>1. first \in Nat /\ length \in Nat /\ j \in 0 .. length
      BY <1>4, <1>5
    <3>2. QED
      BY <2>2, <3>1, RestIs
  <2>4. QED
    BY <1>6, <2>2, <2>3
<1>8. PICK x : x = Extracted(Blocks[first + j + 1], LooksLikeText(Blocks[first + 1]))
  OBVIOUS
<1>9. /\ x \in Seq(Byte)
      /\ FlattenSeq(Part(Blocks, first, j + 1)) = FlattenSeq(Part(Blocks, first, j)) \o x
  <2>1. j \in Nat /\ first + j + 1 <= Len(Blocks) /\ Blocks \in Seq(Seq(Byte))
    BY <1>1, <1>2, <1>5, <1>7 DEF Rt11Is
  <2>2. QED
    <3>1. first \in Nat /\ j \in Nat /\ Blocks \in Seq(Seq(Byte))
      BY <1>4, <2>1
    <3>2. first + j + 1 <= Len(Blocks)
      BY <2>1
    <3>3. PartGrows(Blocks, first, j, x)
      BY <1>8, <3>1, <3>2, PartMore
    <3>4. QED
      BY <3>3 DEF PartGrows
<1>10. files' = Appended(run.target, x)
  BY <1>1, <1>6, <1>7, <1>8
<1>11. /\ Typed(files') /\ DOMAIN files' = DOMAIN files
       /\ files'[run.target].data = files[run.target].data \o x
       /\ SameBut(files, files', {run.target})
  BY <1>2, <1>6, <1>9, <1>10, AppendedIs
<1>12. /\ IsRun(run') /\ run'.data = Tail(run.data) /\ SameFile(run, run')
       /\ run'.phase = run.phase
  <2>1. IsRun(run)
    BY <1>2
  <2>2. run' = [run EXCEPT !.data = Tail(run.data)]
    BY <1>1
  <2>3. QED
    BY <2>1, <2>2, BlockIs
<1>13. /\ run'.command = run.command /\ run'.left = run.left /\ run'.open = run.open
       /\ run'.source = run.source /\ run'.target = run.target /\ run'.stamp = run.stamp
  BY <1>12 DEF SameFile
<1>14. TypeInv'
  <2>1. UNCHANGED image /\ run.open \in BOOLEAN /\ run.open
    BY <1>1, <1>6 DEF TypeInv, RunTyped
  <2>2. QED
    BY <1>2, <1>11, <1>12, <1>13, <2>1, Rt11Kept
<1>15. ExtractsPart(run', files', Entries, Blocks, k, first, j + 1) /\ j + 1 \in 0 .. Entries[k].length
  <2>1. first + (j + 1) <= Len(Blocks) /\ j + 1 \in 0 .. Entries[k].length
    <3>1. first + j + 1 <= Len(Blocks) /\ j \in Nat /\ first \in Nat /\ Len(Blocks) \in Nat
      BY <1>1, <1>2, <1>4, <1>5, <1>7 DEF Rt11Is
    <3>2. j + 1 \in 0 .. Entries[k].length
      BY <1>4, <1>5, <1>7
    <3>3. QED
      BY <3>1, <3>2
  <2>2. files'[run'.target].data = FlattenSeq(Part(Blocks, first, j + 1))
    BY <1>6, <1>9, <1>11, <1>13
  <2>3. QED
    BY <1>4, <1>6, <1>7, <1>11, <1>12, <1>13, <2>1, <2>2 DEF ExtractsPart
<1>16. /\ Entries' = Entries /\ Blocks' = Blocks /\ EndMark' = EndMark /\ Titles' = Titles
       /\ \A i : FirstBlock(i)' = FirstBlock(i)
       /\ \A t : Find(t)' = Find(t)
  BY <1>13, SameDisk DEF Titles
<1>17. \E i \in DOMAIN Entries' : \E m \in 0 .. Entries'[i].length :
          /\ Find(Entries[i].title)' = i
          /\ ExtractsPart(run', files', Entries', Blocks', i, FirstBlock(i)', m)
  BY <1>3, <1>4, <1>5, <1>15, <1>16
<1>18. ASSUME run.command.op = "all"
       PROVE  /\ run'.left \in Seq(ToSet(Titles))
              /\ \A i \in 1 .. EndMark - 1 : Find(Entries[i].title) = i => Extracts(i)'
  <2>1. /\ run.left \in Seq(ToSet(Titles))
        /\ \A i \in 1 .. EndMark - 1 : Find(Entries[i].title) = i => Extracts(i)
    BY <1>2, <1>18 DEF Rt11Inv
  <2>2. ASSUME NEW i \in 1 .. EndMark - 1, Extracts(i)
        PROVE  Extracts(i)'
    <3>1. CASE Entries[i].title \in ToSet(run.left) \/ run.target = PathOf(Entries[i].title)
      BY <1>2, <1>12, <1>13, <1>16, <3>1 DEF Extracts
    <3>2. CASE /\ run.target # PathOf(Entries[i].title)
               /\ Whole(files, PathOf(Entries[i].title), Blocks, FirstBlock(i), Entries[i].length)
      <4>1. Whole(files', PathOf(Entries[i].title), Blocks, FirstBlock(i), Entries[i].length)
        BY <1>11, <3>2, StillWhole
      <4>2. QED
        BY <1>16, <4>1 DEF Extracts
    <3>3. QED
      BY <2>2, <3>1, <3>2 DEF Extracts
  <2>3. QED
    BY <1>13, <2>1, <2>2
<1>19. Rt11Inv'
  BY <1>2, <1>12, <1>13, <1>16, <1>17, <1>18 DEF Rt11Inv
<1>20. QED
  BY <1>2, <1>13, <1>14, <1>19

\* The date of an entry is one of a file.
LEMMA MtimeIs ==
    ASSUME NEW e, e.date \in Dates
    PROVE  [atime |-> Mtime(e), mtime |-> Mtime(e)] \in Stamps
<1>1. Mtime(e) \in Dates
  <2>1. (e.date.year % 32) + 72 \in Nat
    BY DEF Dates
  <2>2. Mtime(e) = [e.date EXCEPT !.year = (e.date.year % 32) + 72]
    BY DEF Mtime
  <2>3. QED
    BY <2>1, <2>2 DEF Dates
<1>2. QED
  BY <1>1 DEF Stamps

LEMMA ExtractEndsStep ==
    ASSUME TypeInv, Rt11Inv, ExtractEnds
    PROVE  TypeInv' /\ Rt11Inv' /\ run'.command = run.command /\ Rt11Runs
<1> DEFINE e == Entries[run.source[1]]
           times == [atime |-> Mtime(e), mtime |-> Mtime(e)]
<1>1. /\ Extracting /\ run.data = <<>>
      /\ files' = files \/ files' = Stamped(run.target, times)
      /\ run' = [run EXCEPT !.phase = "next", !.open = FALSE,
                            !.done = With(run.done, run.target, run.source[1])]
      /\ UNCHANGED <<image, memory>>
  BY DEF ExtractEnds
<1>2. AtRt11 /\ run.phase = "extract" /\ IsRun(run) /\ Rt11Is /\ Typed(files) /\ Rt11Runs
      /\ run.command.program = "rt11"
  BY <1>1, AtExtract DEF AtRt11, Extracting
<1>3. PICK k \in DOMAIN Entries : \E j \in 0 .. Entries[k].length :
         /\ Find(Entries[k].title) = k
         /\ ExtractsPart(run, files, Entries, Blocks, k, FirstBlock(k), j)
  BY <1>1, AtExtract
<1>4. PICK length \in Nat, first \in Nat :
         length = Entries[k].length /\ first = FirstBlock(k) /\ Entries[k].date \in Dates
  BY <1>2, <1>3, EntryIs
<1>5. PICK j \in 0 .. length :
         /\ Find(Entries[k].title) = k
         /\ ExtractsPart(run, files, Entries, Blocks, k, first, j)
  BY <1>3, <1>4
<1>6. /\ run.data = ToRead(first, length, j) /\ run.target \in DOMAIN files
      /\ run.source = <<k, LooksLikeText(Blocks[first + 1])>>
      /\ run.target = PathOf(Entries[k].title) /\ first + j <= Len(Blocks)
      /\ files[run.target].data = FlattenSeq(Part(Blocks, first, j))
  BY <1>4, <1>5 DEF ExtractsPart
<1>7. j = length
  <2>1. first \in Nat /\ length \in Nat /\ j \in 0 .. length
    BY <1>4, <1>5
  <2>2. QED
    BY <1>1, <1>6, <2>1, RestIs
<1>8. times \in Stamps
  <2>1. e = Entries[k]
    BY <1>6
  <2>2. e.date \in Dates
    BY <1>4, <2>1
  <2> HIDE DEF e
  <2>3. QED
    BY <2>2, MtimeIs
<1> HIDE DEF times
<1>9. /\ Typed(files') /\ DOMAIN files' = DOMAIN files
      /\ files'[run.target].data = files[run.target].data
      /\ SameBut(files, files', {run.target})
  <2>1. CASE files' = files
    BY <1>2, <2>1 DEF SameBut
  <2>2. CASE files' = Stamped(run.target, times)
    BY <1>2, <1>6, <1>8, <2>2, StampedIs
  <2>3. QED
    BY <1>1, <2>1, <2>2
<1>10. Shut(run, run', "next")
  <2>1. IsRun(run)
    BY <1>2
  <2>2. PICK d : run' = [run EXCEPT !.phase = "next", !.open = FALSE, !.done = d]
    BY <1>1
  <2>3. QED
    BY <2>1, <2>2, NotedIs
<1>11. /\ IsRun(run') /\ run'.phase = "next" /\ run'.open = FALSE
       /\ run'.command = run.command /\ run'.left = run.left /\ run'.stamp = run.stamp
  BY <1>10 DEF Shut
<1>12. TypeInv'
  <2>1. UNCHANGED image
    BY <1>1
  <2>2. QED
    BY <1>2, <1>9, <1>11, <2>1, Rt11Kept
<1>13. Whole(files', run.target, Blocks, first, length)
  BY <1>6, <1>7, <1>9 DEF Whole
<1>14. /\ Entries' = Entries /\ Blocks' = Blocks /\ EndMark' = EndMark /\ Titles' = Titles
       /\ \A i : FirstBlock(i)' = FirstBlock(i)
       /\ \A t : Find(t)' = Find(t)
  BY <1>11, SameDisk DEF Titles
<1>15. ASSUME run.command.op = "all"
       PROVE  /\ run'.left \in Seq(ToSet(Titles))
              /\ \A i \in 1 .. EndMark - 1 : Find(Entries[i].title) = i => Extracts(i)'
  <2>1. /\ run.left \in Seq(ToSet(Titles))
        /\ \A i \in 1 .. EndMark - 1 : Find(Entries[i].title) = i => Extracts(i)
    BY <1>2, <1>15 DEF Rt11Inv
  <2>2. ASSUME NEW i \in 1 .. EndMark - 1, Find(Entries[i].title) = i, Extracts(i)
        PROVE  Extracts(i)'
    <3>1. CASE Entries[i].title \in ToSet(run.left)
      BY <1>11, <1>14, <3>1 DEF Extracts
    <3>2. CASE run.target = PathOf(Entries[i].title)
      <4>1. Entries[i].title = Entries[k].title
        BY <1>6, <3>2, PathsDiffer
      <4>2. i = k
        BY <1>5, <2>2, <4>1
      <4>3. Whole(files', PathOf(Entries[i].title), Blocks, FirstBlock(i), Entries[i].length)
        BY <1>4, <1>13, <3>2, <4>2
      <4>4. QED
        BY <1>14, <4>3 DEF Extracts
    <3>3. CASE /\ run.target # PathOf(Entries[i].title)
               /\ Whole(files, PathOf(Entries[i].title), Blocks, FirstBlock(i), Entries[i].length)
      <4>1. Whole(files', PathOf(Entries[i].title), Blocks, FirstBlock(i), Entries[i].length)
        BY <1>9, <3>3, StillWhole
      <4>2. QED
        BY <1>14, <4>1 DEF Extracts
    <3>4. QED
      BY <2>2, <3>1, <3>2, <3>3 DEF Extracts
  <2>3. QED
    BY <1>11, <2>1, <2>2
<1>16. Rt11Inv'
  BY <1>11, <1>14, <1>15 DEF Rt11Inv
<1>17. QED
  BY <1>2, <1>11, <1>12, <1>16

LEMMA Rt11EndsStep ==
    ASSUME TypeInv, Rt11Inv, Rt11Ends
    PROVE  TypeInv' /\ Rt11Inv' /\ run'.command = run.command /\ Rt11Runs
<1>1. /\ Rt11Runs /\ run.phase = "next" /\ run.left = <<>> /\ Ends("ok")
      /\ UNCHANGED <<files, image, memory>>
  BY DEF Rt11Ends
<1>2. AtRt11 /\ IsRun(run) /\ run.command.program = "rt11"
  BY <1>1, AtRt11Run DEF AtRt11
<1>3. /\ IsRun(run') /\ run'.phase = "ok" /\ run'.command = run.command
      /\ run'.open = run.open /\ run'.left = <<>> /\ run'.stamp = run.stamp
  BY <1>1, <1>2, EndsIs
<1>4. TypeInv'
  <2>1. run.open \in BOOLEAN /\ Typed(files)
    BY DEF TypeInv, RunTyped
  <2>2. Typed(files') /\ UNCHANGED image
    BY <1>1, <2>1
  <2>3. QED
    BY <1>2, <1>3, <2>1, <2>2, Rt11Kept
<1>5. /\ Entries' = Entries /\ Blocks' = Blocks /\ EndMark' = EndMark /\ Titles' = Titles
      /\ \A i : FirstBlock(i)' = FirstBlock(i)
      /\ \A t : Find(t)' = Find(t)
  BY <1>3, SameDisk DEF Titles
<1>6. run.command.op = "all" =>
         \A i \in 1 .. EndMark - 1 : Find(Entries[i].title) = i => Extracts(i)'
  BY <1>1, <1>2, <1>3, <1>5 DEF Rt11Inv, Extracts
<1>7. Rt11Inv'
  BY <1>3, <1>5, <1>6 DEF Rt11Inv
<1>8. QED
  BY <1>1, <1>3, <1>4, <1>7

LEMMA Rt11Dies ==
    ASSUME TypeInv, DiskInv, Dies \/ Killed
    PROVE  Rt11Inv'
<1>1. run'.phase \in Stopped
  BY DiesStep
<1>2. QED
  BY <1>1 DEF Rt11Inv, Stopped

\* An entry owns the blocks that are extracted of it.
LEMMA OwnedIs ==
    ASSUME Rt11Is, NEW k \in DOMAIN Entries, NEW p,
           Whole(files, p, Blocks, FirstBlock(k), Entries[k].length),
           NEW owned, owned = Owned(k)
    PROVE  files[p].data = FlattenSeq([i \in DOMAIN owned |->
                                         Extracted(owned[i], LooksLikeText(owned[1]))])
<1>1. PICK length \in Nat, first \in Nat : length = Entries[k].length /\ first = FirstBlock(k)
  BY EntryIs
<1>2. Owned(k) = SubSeq(Blocks, first + 1, first + length)
  <2>1. Owned(k) = SubSeq(Blocks, FirstBlock(k) + 1, FirstBlock(k) + Entries[k].length)
    BY DEF Owned, FirstBlock, LengthOf
  <2>2. QED
    BY <1>1, <2>1
<1>3. first + length <= Len(Blocks) /\ Blocks \in Seq(Seq(Byte))
      /\ files[p].data = FlattenSeq(Part(Blocks, first, length))
  BY <1>1 DEF Whole, Rt11Is
<1>4. DOMAIN owned = 1 .. length /\ \A i \in 1 .. length : owned[i] = Blocks[first + i]
  BY <1>1, <1>2, <1>3
<1>5. [i \in DOMAIN owned |-> Extracted(owned[i], LooksLikeText(owned[1]))]
         = Part(Blocks, first, length)
  <2>1. \A i \in 1 .. length : 1 \in 1 .. length /\ owned[1] = Blocks[first + 1]
    BY <1>1, <1>4
  <2>2. QED
    BY <1>4, <2>1 DEF Part
<1>6. QED
  BY <1>3, <1>5

\* What ran to its end has extracted every file.
LEMMA AllExtracted ==
    ASSUME TypeInv, Rt11Inv
    PROVE  PermanentFilesExtracted
<1> SUFFICES ASSUME run.phase = "ok", run.command.program = "rt11", run.command.op = "all",
                    NEW k \in 1 .. EndMark - 1, Find(Entries[k].title) = k,
                    NEW owned, owned = Owned(k)
             PROVE  /\ PathOf(Entries[k].title) \in DOMAIN files
                    /\ files[PathOf(Entries[k].title)].data
                          = FlattenSeq([i \in DOMAIN owned |->
                                          Extracted(owned[i], LooksLikeText(owned[1]))])
  BY DEF PermanentFilesExtracted, Exists
<1>1. Rt11Is
  BY Rt11CommandIs DEF TypeInv
<1>2. k \in DOMAIN Entries
  BY <1>1, EndMarkIs DEF Rt11Is
<1>3. Extracts(k) /\ run.left = <<>>
  BY DEF Rt11Inv
<1>4. Whole(files, PathOf(Entries[k].title), Blocks, FirstBlock(k), Entries[k].length)
  BY <1>3 DEF Extracts, ToSet
<1>5. QED
  BY <1>1, <1>2, <1>4, OwnedIs DEF Whole

-----------------------------------------------------------------------------
(* ucsdpsys_mkfs.                                                          *)

AtMkfs == run.command.program = "mkfs" /\ IsRun(run) /\ ~Disk /\ ImageTyped

LEMMA AtMkfsRun ==
    ASSUME TypeInv, Mkfs
    PROVE  AtMkfs
BY DEF Mkfs, Running, TypeInv, RunTyped, AtMkfs, Disk

\* The image of a volume that is being made.
LEMMA MkfsKept ==
    ASSUME TypeInv, AtMkfs, IsRun(run'), run'.command = run.command, run'.stamp = run.stamp,
           run'.open = run.open, run'.phase \notin {"copy", "flushed", "closing", "extract"},
           UNCHANGED files, ImageTyped'
    PROVE  TypeInv'
<1>1. RunTyped'
  BY DEF TypeInv, RunTyped
<1>2. ~Disk'
  BY DEF AtMkfs, Disk, Running
<1>3. QED
  BY <1>1, <1>2 DEF TypeInv

LEMMA MkfsStarts ==
    ASSUME TypeInv, NEW c \in Commands, StartMkfs(c)
    PROVE  TypeInv' /\ DiskInv' /\ run'.command = c /\ c.program = "mkfs"
<1>1. /\ c.program = "mkfs" /\ run' = [NewRun(c) EXCEPT !.phase = "options"]
      /\ UNCHANGED <<files, image, memory>>
  BY DEF StartMkfs
<1>2. PICK r : /\ r = NewRun(c) /\ IsRun(r) /\ r.command = c /\ r.open = FALSE /\ r.done = <<>>
               /\ r.stamp = [atime |-> Now, mtime |-> Now]
  BY NewRunIs
<1>3. run' = [r EXCEPT !.phase = "options"]
  BY <1>1, <1>2
<1>4. IsRun(run') /\ run'.phase = "options" /\ SameFile(r, run')
  BY <1>2, <1>3, PhasedIs
<1>5. /\ run'.command = c /\ run'.open = FALSE /\ run'.done = <<>>
      /\ run'.stamp = [atime |-> Now, mtime |-> Now]
  BY <1>2, <1>4 DEF SameFile
<1>6. ~Disk'
  BY <1>1, <1>5 DEF Disk, Running
<1>7. TypeInv' /\ DiskInv'
  BY <1>1, <1>4, <1>5, <1>6, BeginsTyped
<1>8. QED
  BY <1>1, <1>5, <1>7

LEMMA PhaseStep ==
    ASSUME TypeInv, AtMkfs, NEW p \in {"zeroed", "labelled"}, run' = [run EXCEPT !.phase = p],
           UNCHANGED files, ImageTyped'
    PROVE  TypeInv' /\ run'.command = run.command
<1>1. IsRun(run') /\ run'.phase = p /\ SameFile(run, run')
  BY PhasedIs DEF AtMkfs
<1>2. /\ run'.command = run.command /\ run'.open = run.open /\ run'.stamp = run.stamp
  BY <1>1 DEF SameFile
<1>3. QED
  BY <1>1, <1>2, MkfsKept

LEMMA ZeroStep ==
    ASSUME TypeInv, ZeroWholeVolume
    PROVE  TypeInv' /\ run'.command = run.command /\ Mkfs
<1>1. /\ Mkfs /\ UNCHANGED files /\ run' = [run EXCEPT !.phase = "zeroed"]
      /\ image' = [formatted |-> FALSE, sex |-> "LE", blocks |-> 2 * MkfsSize,
                   entries |-> <<>>, boot |-> Times(Page, NUL)]
  BY DEF ZeroWholeVolume
<1>2. AtMkfs
  BY <1>1, AtMkfsRun
<1>3. Times(Page, NUL) \in Seq(Byte)
  <2>1. NUL \in Byte
    BY DEF NUL, Byte
  <2>2. QED
    BY <2>1, Sizes, TimesIs
<1>4. ImageTyped'
  <2>1. <<>> \in [DOMAIN <<>> -> VolumeFiles(Words)]
    OBVIOUS
  <2>2. PICK n : n = 2 * MkfsSize
    OBVIOUS
  <2>3. image' = [formatted |-> FALSE, sex |-> "LE", blocks |-> n,
                  entries |-> <<>>, boot |-> Times(Page, NUL)]
    BY <1>1, <2>2
  <2>4. QED
    BY <1>3, <2>1, <2>3 DEF ImageTyped, ImageIs
<1>5. QED
  BY <1>1, <1>2, <1>4, PhaseStep

LEMMA LabelStep ==
    ASSUME TypeInv, WriteLabel
    PROVE  TypeInv' /\ run'.command = run.command /\ Mkfs
<1>1. /\ Mkfs /\ UNCHANGED files /\ run' = [run EXCEPT !.phase = "labelled"]
      /\ image' = [image EXCEPT !.formatted = TRUE, !.sex = ByteSex(MkfsMtype)]
  BY DEF WriteLabel
<1>2. AtMkfs /\ ImageIs(image)
  BY <1>1, AtMkfsRun DEF AtMkfs, ImageTyped
<1>3. ImageTyped'
  <2>1. PICK b : image' = [image EXCEPT !.formatted = TRUE, !.sex = b]
    BY <1>1
  <2>2. image' = [formatted |-> TRUE, sex |-> b, blocks |-> image.blocks,
                  entries |-> image.entries, boot |-> image.boot]
    BY <1>2, <2>1 DEF ImageIs
  <2>3. QED
    BY <1>2, <2>2 DEF ImageTyped, ImageIs
<1>4. QED
  BY <1>1, <1>2, <1>3, PhaseStep

LEMMA MkfsBootStep ==
    ASSUME TypeInv, MkfsBoot
    PROVE  TypeInv' /\ run'.command = run.command /\ Mkfs
<1>1. /\ Mkfs /\ UNCHANGED files /\ \E how \in {"ok", "failed"} : Ends(how)
      /\ \/ UNCHANGED image
         \/ \E p \in DOMAIN files :
               image' = [image EXCEPT !.boot = Take(files[p].data, Page)
                          \o Times(Page - Len(Take(files[p].data, Page)), NUL)]
  BY DEF MkfsBoot, Exists
<1>2. AtMkfs /\ ImageIs(image) /\ IsRun(run) /\ Typed(files)
  BY <1>1, AtMkfsRun DEF AtMkfs, ImageTyped, TypeInv
<1>3. ImageTyped'
  <2>1. CASE UNCHANGED image
    BY <1>2, <2>1 DEF ImageTyped
  <2>2. CASE \E p \in DOMAIN files :
               image' = [image EXCEPT !.boot = Take(files[p].data, Page)
                          \o Times(Page - Len(Take(files[p].data, Page)), NUL)]
    <3>1. PICK p \in DOMAIN files :
               image' = [image EXCEPT !.boot = Take(files[p].data, Page)
                          \o Times(Page - Len(Take(files[p].data, Page)), NUL)]
      BY <2>2
    <3>2. PICK d, b : d = files[p].data
                      /\ b = Take(d, Page) \o Times(Page - Len(Take(d, Page)), NUL)
      OBVIOUS
    <3>3. d \in Seq(Byte)
      BY <1>2, <3>1, <3>2 DEF Typed, UnixFiles, Byte
    <3>4. Take(d, Page) \o Times(Page - Len(Take(d, Page)), NUL) \in Seq(Byte)
      BY <3>3, Sizes, BootBlocksAre
    <3>5. image' = [image EXCEPT !.boot = b] /\ b \in Seq(Byte)
      BY <3>1, <3>2, <3>4
    <3>6. QED
      BY <1>2, <3>5, BootedIs DEF ImageTyped
  <2>3. QED
    BY <1>1, <2>1, <2>2
<1>4. PICK how \in {"ok", "failed"} : Ends(how)
  BY <1>1
<1>5. /\ IsRun(run') /\ run'.phase = how /\ run'.command = run.command
      /\ run'.open = run.open /\ run'.stamp = run.stamp
  BY <1>2, <1>4, EndsIs
<1>6. run'.phase \notin {"copy", "flushed", "closing", "extract"}
  BY <1>4, <1>5
<1>7. TypeInv'
  BY <1>1, <1>2, <1>3, <1>5, <1>6, MkfsKept
<1>8. QED
  BY <1>1, <1>5, <1>7

-----------------------------------------------------------------------------
(* All programs.                                                           *)

\* The inductive invariant.
IInv == TypeInv /\ DiskInv /\ TextInv /\ Rt11Inv

\* What is not about a program does not change with what it does.
LEMMA OthersKept ==
    ASSUME TypeInv', NEW program \in {"disk", "text", "rt11", "mkfs"},
           run'.command.program = program,
           program = "disk" => DiskInv', program = "text" => TextInv',
           program = "rt11" => Rt11Inv'
    PROVE  IInv'
BY DEF IInv, DiskInv, TextInv, Rt11Inv

LEMMA AllStarts ==
    ASSUME IInv, NEW c \in Commands,
           \/ Start(c) \/ CheckSystem(c) \/ StartText(c) \/ StartFilter(c)
           \/ StartRt11(c) \/ StartMkfs(c)
    PROVE  IInv'
<1>1. TypeInv
  BY DEF IInv
<1>2. CASE Start(c) \/ CheckSystem(c)
  <2>1. TypeInv' /\ DiskInv' /\ run'.command = c
    BY <1>1, <1>2, DiskStarts
  <2>2. c.program = "disk"
    BY <1>2 DEF Start, CheckSystem
  <2>3. QED
    BY <2>1, <2>2, OthersKept
<1>3. CASE StartText(c) \/ StartFilter(c)
  <2>1. TypeInv' /\ TextInv' /\ run'.command = c
    BY <1>1, <1>3, TextStarts, FilterStarts
  <2>2. c.program = "text"
    BY <1>3 DEF StartText, StartFilter
  <2>3. QED
    BY <2>1, <2>2, OthersKept
<1>4. CASE StartRt11(c)
  <2>1. TypeInv' /\ Rt11Inv' /\ run'.command = c /\ c.program = "rt11"
    BY <1>1, <1>4, Rt11Starts
  <2>2. QED
    BY <2>1, OthersKept
<1>5. CASE StartMkfs(c)
  <2>1. TypeInv' /\ run'.command = c /\ c.program = "mkfs"
    BY <1>1, <1>5, MkfsStarts
  <2>2. QED
    BY <2>1, OthersKept
<1>6. QED
  BY <1>2, <1>3, <1>4, <1>5

LEMMA AllDie ==
    ASSUME IInv, ~Idle, Dies \/ Killed
    PROVE  IInv' /\ UNCHANGED files
<1>1. TypeInv /\ DiskInv /\ TextInv /\ Rt11Inv
  BY DEF IInv
<1>2. TypeInv' /\ DiskInv' /\ run'.command = run.command /\ UNCHANGED files
  BY <1>1, DiesStep
<1>3. Rt11Inv'
  BY <1>1, Rt11Dies
<1>4. TextInv'
  <2>1. CASE run.command.program = "text"
    <3>1. Text
      BY <2>1 DEF Text, Running
    <3>2. QED
      BY <1>1, <3>1, TextDiesStep
  <2>2. CASE run.command.program # "text"
    BY <1>2, <2>2 DEF TextInv
  <2>3. QED
    BY <2>1, <2>2
<1>5. QED
  BY <1>2, <1>3, <1>4 DEF IInv

TextSteps ==
    \/ CopyPipe \/ FilterEnds \/ InSitu \/ CopyText \/ Reset \/ WriteTemporary
    \/ RenameOver \/ RestoreTimes \/ TextEnds
Rt11Steps == ReadDirectory \/ Extract \/ CopyBlock \/ ExtractEnds \/ Rt11Ends
MkfsSteps == ZeroWholeVolume \/ WriteLabel \/ MkfsBoot

LEMMA TextSteps1 ==
    ASSUME IInv, TextSteps
    PROVE  IInv' /\ Text
<1>1. TypeInv /\ TextInv
  BY DEF IInv
<1>2. TypeInv' /\ TextInv' /\ run'.command = run.command /\ Text
  BY <1>1, CopyTextStep, FilterEndsStep, InSituStep, WriteTemporaryStep, RenameStep,
     RestoreStep, TextEndsStep DEF TextSteps
<1>3. run'.command.program = "text"
  BY <1>2 DEF Text, Running
<1>4. QED
  BY <1>2, <1>3, OthersKept

LEMMA Rt11Steps1 ==
    ASSUME IInv, Rt11Steps
    PROVE  IInv' /\ Rt11Runs
<1>1. TypeInv /\ Rt11Inv
  BY DEF IInv
<1>2. TypeInv' /\ Rt11Inv' /\ run'.command = run.command /\ Rt11Runs
  BY <1>1, ReadDirectoryStep, ExtractStep, CopyBlockStep, ExtractEndsStep, Rt11EndsStep
  DEF Rt11Steps
<1>3. run'.command.program = "rt11"
  BY <1>2 DEF Rt11Runs, Running
<1>4. QED
  BY <1>2, <1>3, OthersKept

LEMMA MkfsSteps1 ==
    ASSUME IInv, MkfsSteps
    PROVE  IInv' /\ Mkfs
<1>1. TypeInv
  BY DEF IInv
<1>2. TypeInv' /\ run'.command = run.command /\ Mkfs
  BY <1>1, ZeroStep, LabelStep, MkfsBootStep DEF MkfsSteps
<1>3. run'.command.program = "mkfs"
  BY <1>2 DEF Mkfs, Running
<1>4. QED
  BY <1>2, <1>3, OthersKept

LEMMA DiskSteps1 ==
    ASSUME IInv, DiskSteps
    PROVE  IInv' /\ Disk
<1>1. TypeInv /\ DiskInv
  BY DEF IInv
<1>2. TypeInv' /\ DiskInv' /\ run'.command = run.command /\ Disk
  BY <1>1, DiskStep
<1>3. run'.command.program = "disk"
  BY <1>2 DEF Disk, Running
<1>4. QED
  BY <1>2, <1>3, OthersKept

Starts ==
    \E c \in Commands : \/ Start(c) \/ CheckSystem(c) \/ StartText(c) \/ StartFilter(c)
                        \/ StartRt11(c) \/ StartMkfs(c)

\* The steps of all programs.
LEMMA NextIs ==
    ASSUME Next
    PROVE  \/ Starts \/ DiskSteps \/ TextSteps \/ Rt11Steps \/ MkfsSteps
           \/ ~Idle /\ (Dies \/ Killed)
<1>1. CASE DiskNext
  BY <1>1 DEF DiskNext, Starts, DiskSteps
<1>2. CASE TextNext
  <2>1. CASE NoText
    BY <2>1 DEF NoText, AtText, Text, Running
  <2>2. CASE ~NoText
    BY <1>2, <2>2 DEF TextNext, Starts, TextSteps
  <2>3. QED
    BY <2>1, <2>2
<1>3. CASE Rt11Next
  <2>1. CASE ExtractDies \/ ShortFile
    BY <2>1 DEF ExtractDies, ShortFile, AtTitle, Extracting, Rt11Runs, Running
  <2>2. CASE ~(ExtractDies \/ ShortFile)
    BY <1>3, <2>2 DEF Rt11Next, Starts, Rt11Steps
  <2>3. QED
    BY <2>1, <2>2
<1>4. CASE MkfsNext
  <2>1. CASE BadOption
    BY <2>1 DEF BadOption, Mkfs, Running
  <2>2. CASE ~BadOption
    BY <1>4, <2>2 DEF MkfsNext, Starts, MkfsSteps
  <2>3. QED
    BY <2>1, <2>2
<1>5. CASE Killed
  BY <1>5 DEF Killed
<1>6. QED
  BY <1>1, <1>2, <1>3, <1>4, <1>5 DEF Next

LEMMA StutterStep ==
    ASSUME IInv, UNCHANGED vars
    PROVE  IInv'
<1>1. UNCHANGED <<files, image, memory, run>>
  BY DEF vars
<1>2. TypeInv'
  BY <1>1 DEF IInv, TypeInv, Typed, ImageTyped, RunTyped, Disk, Running, Idle
<1>3. DiskInv'
  BY <1>1 DEF IInv, DiskInv, Op, Disk, Running, Idle
<1>4. TextInv'
  BY <1>1 DEF IInv, TextInv
<1>5. Rt11Inv'
  <2>1. /\ Entries' = Entries /\ Blocks' = Blocks /\ EndMark' = EndMark /\ Titles' = Titles
        /\ \A i : FirstBlock(i)' = FirstBlock(i)
        /\ \A t : Find(t)' = Find(t)
    BY <1>1, SameDisk DEF Titles
  <2>2. QED
    BY <1>1, <2>1 DEF IInv, Rt11Inv, Extracts
<1>6. QED
  BY <1>2, <1>3, <1>4, <1>5 DEF IInv

LEMMA IInvInit ==
    ASSUME Init
    PROVE  IInv
<1>1. /\ files = Files0 /\ image = Image0 /\ run = [NewRun(NoCommand) EXCEPT !.phase = "ok"]
  BY DEF Init, NoCommand
<1>2. PICK r : /\ r = NewRun(NoCommand) /\ IsRun(r) /\ r.command = NoCommand /\ r.open = FALSE
               /\ r.stamp = [atime |-> Now, mtime |-> Now]
  BY NewRunIs
<1>3. run = [r EXCEPT !.phase = "ok"]
  BY <1>1, <1>2
<1>4. IsRun(run) /\ run.phase = "ok" /\ SameFile(r, run)
  BY <1>2, <1>3, PhasedIs
<1>5. run.command = NoCommand /\ run.open = FALSE /\ run.stamp = [atime |-> Now, mtime |-> Now]
  BY <1>2, <1>4 DEF SameFile
<1>6. RunTyped
  BY <1>4, <1>5, NowIs DEF RunTyped
<1>7. Typed(files) /\ ImageTyped
  BY <1>1, FilesAssumption, ImageAssumption DEF Typed, ImageTyped, ImageIs, Byte
<1>8. run.command.program = "none"
  BY <1>5 DEF NoCommand
<1>9. ~Disk
  BY <1>8 DEF Disk, Running
<1>10. QED
  BY <1>6, <1>7, <1>8, <1>9 DEF IInv, TypeInv, DiskInv, TextInv, Rt11Inv

LEMMA IInvStep ==
    ASSUME IInv, [Next]_vars
    PROVE  IInv'
<1>1. CASE Next
  <2>1. Starts => IInv'
    BY AllStarts DEF Starts
  <2>2. QED
    BY <1>1, <2>1, NextIs, DiskSteps1, TextSteps1, Rt11Steps1, MkfsSteps1, AllDie
<1>2. CASE UNCHANGED vars
  BY <1>2, StutterStep
<1>3. QED
  BY <1>1, <1>2

LEMMA Inductive == Spec => []IInv
<1>1. Init => IInv
  BY IInvInit
<1>2. IInv /\ [Next]_vars => IInv'
  BY IInvStep
<1>3. QED
  BY <1>1, <1>2, PTL DEF Spec

-----------------------------------------------------------------------------
(* The blocks that the files of a volume take.                             *)

AnyOf(S) == CHOOSE x \in S : TRUE
BlocksAt(e, c) == BlocksOf(e[c].data)

\* The function that UsedBy is defined by.
IsTotal(f, e, S) ==
    f = [s \in SUBSET S |-> IF s = {} THEN 0 ELSE f[s \ {AnyOf(s)}] + BlocksAt(e, AnyOf(s))]

\* The same for the sets of up to n elements.
UpTo(S, n) == {s \in SUBSET S : Cardinality(s) <= n}
IsTotalUpTo(f, e, S, n) ==
    f = [s \in UpTo(S, n) |-> IF s = {} THEN 0 ELSE f[s \ {AnyOf(s)}] + BlocksAt(e, AnyOf(s))]

LEMMA SubsetsOf ==
    ASSUME NEW S, IsFiniteSet(S), NEW s \in SUBSET S
    PROVE  /\ IsFiniteSet(s) /\ Cardinality(s) \in Nat /\ Cardinality(s) <= Cardinality(S)
           /\ Cardinality(s) = 0 <=> s = {}
           /\ \A x \in s : /\ s \ {x} \in SUBSET S
                           /\ Cardinality(s \ {x}) = Cardinality(s) - 1
<1>1. IsFiniteSet(s) /\ Cardinality(s) <= Cardinality(S)
  BY FS_Subset
<1>2. Cardinality(s) \in Nat
  BY <1>1, FS_CardinalityType
<1>3. Cardinality(s) = 0 <=> s = {}
  BY <1>1, FS_EmptySet
<1>4. \A x \in s : Cardinality(s \ {x}) = Cardinality(s) - 1
  BY <1>1, FS_RemoveElement
<1>5. QED
  BY <1>1, <1>2, <1>3, <1>4

LEMMA AnyIs ==
    ASSUME NEW s, s # {}
    PROVE  AnyOf(s) \in s
BY DEF AnyOf

LEMMA TotalsExist ==
    ASSUME NEW S, IsFiniteSet(S), NEW e
    PROVE  \E f : IsTotal(f, e, S)
<1>1. PICK n \in Nat : n = Cardinality(S)
  BY FS_CardinalityType
<1> DEFINE N == {m \in Nat : \E f : IsTotalUpTo(f, e, S, m)}
<1>2. 0 \in N
  <2> DEFINE g == [s \in UpTo(S, 0) |-> 0]
  <2>1. \A s \in UpTo(S, 0) : s = {}
    BY SubsetsOf DEF UpTo
  <2>2. g = [s \in UpTo(S, 0) |-> IF s = {} THEN 0 ELSE g[s \ {AnyOf(s)}] + BlocksAt(e, AnyOf(s))]
    BY <2>1
  <2>3. QED
    BY <2>2 DEF IsTotalUpTo
<1>3. \A m \in 0 .. n - 1 : m \in N => m + 1 \in N
  <2> SUFFICES ASSUME NEW m \in 0 .. n - 1, NEW f, IsTotalUpTo(f, e, S, m)
               PROVE  \E g : IsTotalUpTo(g, e, S, m + 1)
    BY <1>1
  <2>1. m \in Nat
    BY <1>1
  <2> DEFINE g == [s \in UpTo(S, m + 1) |->
                     IF s = {} THEN 0 ELSE f[s \ {AnyOf(s)}] + BlocksAt(e, AnyOf(s))]
  <2>2. \A s \in UpTo(S, m) : f[s] = IF s = {} THEN 0 ELSE f[s \ {AnyOf(s)}] + BlocksAt(e, AnyOf(s))
    BY DEF IsTotalUpTo
  <2>3. \A s \in UpTo(S, m) : s \in UpTo(S, m + 1)
    BY <2>1, SubsetsOf DEF UpTo
  <2>4. \A s \in UpTo(S, m) : g[s] = f[s]
    BY <2>2, <2>3
  <2>5. \A s \in UpTo(S, m + 1) : s # {} => s \ {AnyOf(s)} \in UpTo(S, m)
    <3> SUFFICES ASSUME NEW s \in UpTo(S, m + 1), s # {}
                 PROVE  s \ {AnyOf(s)} \in UpTo(S, m)
      OBVIOUS
    <3>1. AnyOf(s) \in s /\ s \in SUBSET S /\ Cardinality(s) <= m + 1
      BY AnyIs DEF UpTo
    <3>2. /\ s \ {AnyOf(s)} \in SUBSET S /\ Cardinality(s) \in Nat
          /\ Cardinality(s \ {AnyOf(s)}) = Cardinality(s) - 1
      BY <3>1, SubsetsOf
    <3>3. QED
      BY <2>1, <3>1, <3>2 DEF UpTo
  <2>6. \A s \in UpTo(S, m + 1) :
           g[s] = IF s = {} THEN 0 ELSE g[s \ {AnyOf(s)}] + BlocksAt(e, AnyOf(s))
    BY <2>4, <2>5
  <2>7. g = [s \in UpTo(S, m + 1) |-> g[s]]
    OBVIOUS
  <2> HIDE DEF g
  <2>8. IsTotalUpTo(g, e, S, m + 1)
    BY <2>6, <2>7 DEF IsTotalUpTo
  <2>9. QED
    BY <2>8
<1> HIDE DEF N
<1>4. n \in N
  BY <1>1, <1>2, <1>3, InductionUpTo
<1>5. PICK f : IsTotalUpTo(f, e, S, n)
  BY <1>4 DEF N
<1>6. UpTo(S, n) = SUBSET S
  BY <1>1, SubsetsOf DEF UpTo
<1>7. IsTotal(f, e, S)
  BY <1>5, <1>6 DEF IsTotal, IsTotalUpTo
<1>8. QED
  BY <1>7

LEMMA UsedByIs ==
    ASSUME NEW e, IsFiniteSet(DOMAIN e)
    PROVE  \E f : IsTotal(f, e, DOMAIN e) /\ UsedBy(e) = f[DOMAIN e]
<1>1. UsedBy(e) = (CHOOSE f : IsTotal(f, e, DOMAIN e))[DOMAIN e]
  BY Zenon DEF UsedBy, FoldSet, MapThenFoldSet, IsTotal, AnyOf, BlocksAt
<1>2. \E f : IsTotal(f, e, DOMAIN e)
  BY TotalsExist
<1>3. QED
  BY <1>1, <1>2

LEMMA TotalOf ==
    ASSUME NEW S, IsFiniteSet(S), NEW e, NEW f, IsTotal(f, e, S), NEW s \in SUBSET S
    PROVE  /\ s = {} => f[s] = 0
           /\ s # {} => /\ AnyOf(s) \in s /\ s \ {AnyOf(s)} \in SUBSET S
                        /\ f[s] = f[s \ {AnyOf(s)}] + BlocksAt(e, AnyOf(s))
BY AnyIs DEF IsTotal

\* The sets of n elements of S, or more, that have a property, one element at a time.
LEMMA BySize ==
    ASSUME NEW S, IsFiniteSet(S), NEW P, {} \in P,
           \A s \in SUBSET S : s # {} /\ (\A x \in s : s \ {x} \in P) => s \in P
    PROVE  \A s \in SUBSET S : s \in P
<1>1. PICK n \in Nat : n = Cardinality(S)
  BY FS_CardinalityType
<1> DEFINE N == {m \in Nat : \A s \in UpTo(S, m) : s \in P}
<1>2. 0 \in N
  <2>1. \A s \in UpTo(S, 0) : s = {}
    BY SubsetsOf DEF UpTo
  <2>2. QED
    BY <2>1
<1>3. \A m \in 0 .. n - 1 : m \in N => m + 1 \in N
  <2> SUFFICES ASSUME NEW m \in 0 .. n - 1, \A s \in UpTo(S, m) : s \in P,
                      NEW s \in UpTo(S, m + 1)
               PROVE  s \in P
    BY <1>1
  <2>1. CASE s = {}
    BY <2>1
  <2>2. CASE s # {}
    <3>1. ASSUME NEW x \in s
          PROVE  s \ {x} \in P
      <4>1. s \in SUBSET S /\ Cardinality(s) <= m + 1
        BY DEF UpTo
      <4>2. /\ s \ {x} \in SUBSET S /\ Cardinality(s) \in Nat
            /\ Cardinality(s \ {x}) = Cardinality(s) - 1
        BY <4>1, SubsetsOf
      <4>3. s \ {x} \in UpTo(S, m)
        BY <1>1, <4>1, <4>2 DEF UpTo
      <4>4. QED
        BY <4>3
    <3>2. s \in SUBSET S
      BY DEF UpTo
    <3>3. QED
      BY <2>2, <3>1, <3>2
  <2>3. QED
    BY <2>1, <2>2
<1> HIDE DEF N
<1>4. n \in N
  BY <1>1, <1>2, <1>3, InductionUpTo
<1>5. UpTo(S, n) = SUBSET S
  BY <1>1, SubsetsOf DEF UpTo
<1>6. QED
  BY <1>4, <1>5 DEF N

\* What takes a number of blocks.
Sized(e, S) == \A c \in S : BlocksAt(e, c) \in Nat

LEMMA TotalType ==
    ASSUME NEW S, IsFiniteSet(S), NEW e, Sized(e, S), NEW f, IsTotal(f, e, S)
    PROVE  \A s \in SUBSET S : f[s] \in Nat
<1> DEFINE P == {s \in SUBSET S : f[s] \in Nat}
<1>1. {} \in P
  <2>1. {} \in SUBSET S
    OBVIOUS
  <2>2. f[{}] = 0
    BY <2>1, TotalOf
  <2>3. QED
    BY <2>1, <2>2
<1>2. ASSUME NEW s \in SUBSET S, s # {}, \A x \in s : s \ {x} \in P
      PROVE  s \in P
  <2>1. /\ AnyOf(s) \in s /\ f[s] = f[s \ {AnyOf(s)}] + BlocksAt(e, AnyOf(s))
    BY <1>2, TotalOf
  <2>2. f[s \ {AnyOf(s)}] \in Nat /\ BlocksAt(e, AnyOf(s)) \in Nat
    BY <1>2, <2>1 DEF Sized
  <2>3. QED
    BY <2>1, <2>2
<1> HIDE DEF P
<1>3. \A s \in SUBSET S : s \in P
  BY <1>1, <1>2, BySize
<1>4. QED
  BY <1>3 DEF P

\* The order does not matter.
LEMMA TotalWithout ==
    ASSUME NEW S, IsFiniteSet(S), NEW e, Sized(e, S), NEW f, IsTotal(f, e, S)
    PROVE  \A s \in SUBSET S : \A y \in s : f[s] = f[s \ {y}] + BlocksAt(e, y)
<1> DEFINE P == {s \in SUBSET S : \A y \in s : f[s] = f[s \ {y}] + BlocksAt(e, y)}
<1>1. {} \in P
  OBVIOUS
<1>2. ASSUME NEW s \in SUBSET S, s # {}, \A x \in s : s \ {x} \in P
      PROVE  s \in P
  <2> SUFFICES ASSUME NEW y \in s
               PROVE  f[s] = f[s \ {y}] + BlocksAt(e, y)
    OBVIOUS
  <2>0. AnyOf(s) \in s /\ f[s] = f[s \ {AnyOf(s)}] + BlocksAt(e, AnyOf(s))
    BY <1>2, TotalOf
  <2>1. PICK x : x = AnyOf(s) /\ x \in s /\ f[s] = f[s \ {x}] + BlocksAt(e, x)
    BY <2>0
  <2>2. CASE x = y
    BY <2>1, <2>2
  <2>3. CASE x # y
    <3>1. f[s \ {x}] = f[(s \ {x}) \ {y}] + BlocksAt(e, y)
      BY <1>2, <2>1, <2>3
    <3>2. f[s \ {y}] = f[(s \ {y}) \ {x}] + BlocksAt(e, x)
      BY <1>2, <2>1, <2>3
    <3>3. (s \ {x}) \ {y} = (s \ {y}) \ {x}
      OBVIOUS
    <3>4. f[(s \ {y}) \ {x}] \in Nat /\ BlocksAt(e, x) \in Nat /\ BlocksAt(e, y) \in Nat
      <4>1. (s \ {y}) \ {x} \in SUBSET S /\ x \in S /\ y \in S
        BY <2>1
      <4>2. QED
        BY <4>1, TotalType DEF Sized
    <3>5. QED
      BY <2>1, <3>1, <3>2, <3>3, <3>4
  <2>4. QED
    BY <2>2, <2>3
<1> HIDE DEF P
<1>3. \A s \in SUBSET S : s \in P
  BY <1>1, <1>2, BySize
<1>4. QED
  BY <1>3 DEF P

\* Two totals are the same where the files take the same blocks.
LEMMA TotalsAgree ==
    ASSUME NEW S, IsFiniteSet(S), NEW T, IsFiniteSet(T), NEW e, NEW d,
           NEW f, IsTotal(f, e, S), NEW g, IsTotal(g, d, T),
           NEW U, U \subseteq S, U \subseteq T, \A c \in U : BlocksAt(e, c) = BlocksAt(d, c)
    PROVE  f[U] = g[U]
<1> DEFINE P == {s \in SUBSET U : f[s] = g[s]}
<1>1. {} \in P
  <2>1. {} \in SUBSET S /\ {} \in SUBSET T
    OBVIOUS
  <2>2. f[{}] = 0 /\ g[{}] = 0
    BY <2>1, TotalOf
  <2>3. QED
    BY <2>2
<1>2. ASSUME NEW s \in SUBSET U, s # {}, \A x \in s : s \ {x} \in P
      PROVE  s \in P
  <2>1. s \in SUBSET S /\ s \in SUBSET T
    OBVIOUS
  <2>2. /\ AnyOf(s) \in s
        /\ f[s] = f[s \ {AnyOf(s)}] + BlocksAt(e, AnyOf(s))
    BY <1>2, <2>1, TotalOf
  <2>3. g[s] = g[s \ {AnyOf(s)}] + BlocksAt(d, AnyOf(s))
    BY <1>2, <2>1, TotalOf
  <2>4. f[s \ {AnyOf(s)}] = g[s \ {AnyOf(s)}] /\ BlocksAt(e, AnyOf(s)) = BlocksAt(d, AnyOf(s))
    BY <1>2, <2>2
  <2>5. QED
    BY <2>2, <2>3, <2>4
<1> HIDE DEF P
<1>3. IsFiniteSet(U)
  BY FS_Subset
<1>4. \A s \in SUBSET U : s \in P
  BY <1>1, <1>2, <1>3, BySize
<1>5. QED
  BY <1>4 DEF P

LEMMA BlocksOfIs ==
    ASSUME NEW data \in Seq(Byte)
    PROVE  BlocksOf(data) \in Nat /\ (data = <<>> => BlocksOf(data) = 0)
<1>1. Block \in Nat \ {0} /\ Len(data) + Block - 1 \in Nat
  BY VolumeAssumption
<1>2. \A n \in Nat : n \div Block \in Nat /\ (n < Block => n \div Block = 0)
  BY <1>1
<1>3. data = <<>> => Len(data) + Block - 1 < Block
  BY <1>1
<1>4. QED
  BY <1>1, <1>2, <1>3 DEF BlocksOf

\* The blocks of the files but one, which is any name.
Others(f, e, c) == f[DOMAIN e \ {c}]
UsedIs(e, f, c) ==
    /\ Others(f, e, c) \in Nat
    /\ UsedBy(e) = Others(f, e, c) + (IF c \in DOMAIN e THEN BlocksAt(e, c) ELSE 0)

LEMMA UsedWithout ==
    ASSUME NEW e, IsFiniteSet(DOMAIN e), Sized(e, DOMAIN e), NEW c,
           NEW f, IsTotal(f, e, DOMAIN e), UsedBy(e) = f[DOMAIN e]
    PROVE  UsedIs(e, f, c)
<1>1. DOMAIN e \in SUBSET DOMAIN e /\ DOMAIN e \ {c} \in SUBSET DOMAIN e
  OBVIOUS
<1>2. f[DOMAIN e \ {c}] \in Nat /\ f[DOMAIN e] \in Nat
  BY <1>1, TotalType
<1>3. CASE c \in DOMAIN e
  <2>1. f[DOMAIN e] = f[DOMAIN e \ {c}] + BlocksAt(e, c)
    BY <1>1, <1>3, TotalWithout
  <2>2. QED
    BY <1>2, <1>3, <2>1 DEF UsedIs, Others
<1>4. CASE c \notin DOMAIN e
  <2>1. DOMAIN e \ {c} = DOMAIN e
    BY <1>4
  <2>2. QED
    BY <1>2, <1>4, <2>1 DEF UsedIs, Others
<1>5. QED
  BY <1>3, <1>4

\* Files that are those of e, but for c, which is empty if it is there.
Emptied(e, d, c) ==
    /\ DOMAIN d \ {c} = DOMAIN e \ {c}
    /\ \A x \in DOMAIN d \ {c} : BlocksAt(d, x) = BlocksAt(e, x)
    /\ c \in DOMAIN d => BlocksAt(d, c) = 0

LEMMA EmptiedUses ==
    ASSUME NEW e, IsFiniteSet(DOMAIN e), Sized(e, DOMAIN e),
           NEW d, IsFiniteSet(DOMAIN d), Sized(d, DOMAIN d), NEW c, Emptied(e, d, c)
    PROVE  UsedBy(d) \in Nat /\ UsedBy(e) \in Nat /\ UsedBy(d) <= UsedBy(e)
<1>1. PICK f : IsTotal(f, e, DOMAIN e) /\ UsedBy(e) = f[DOMAIN e]
  BY UsedByIs
<1>2. PICK g : IsTotal(g, d, DOMAIN d) /\ UsedBy(d) = g[DOMAIN d]
  BY UsedByIs
<1>3. UsedIs(e, f, c)
  BY <1>1, UsedWithout
<1>4. UsedIs(d, g, c)
  BY <1>2, UsedWithout
<1>5. g[DOMAIN d \ {c}] = f[DOMAIN d \ {c}]
  <2>1. DOMAIN d \ {c} \subseteq DOMAIN d /\ DOMAIN d \ {c} \subseteq DOMAIN e
    BY DEF Emptied
  <2>2. \A x \in DOMAIN d \ {c} : BlocksAt(d, x) = BlocksAt(e, x)
    BY DEF Emptied
  <2>3. QED
    BY <1>1, <1>2, <2>1, <2>2, TotalsAgree
<1>6. Others(g, d, c) = Others(f, e, c)
  BY <1>5 DEF Others, Emptied
<1>7. c \in DOMAIN e => BlocksAt(e, c) \in Nat
  BY DEF Sized
<1>8. QED
  BY <1>3, <1>4, <1>6, <1>7 DEF UsedIs, Emptied

\* Files that take the blocks that others do.
LEMMA SameUsed ==
    ASSUME NEW e, IsFiniteSet(DOMAIN e), NEW d, DOMAIN d = DOMAIN e,
           \A x \in DOMAIN e : BlocksAt(d, x) = BlocksAt(e, x)
    PROVE  UsedBy(d) = UsedBy(e)
<1>1. PICK f : IsTotal(f, e, DOMAIN e) /\ UsedBy(e) = f[DOMAIN e]
  BY UsedByIs
<1>2. PICK g : IsTotal(g, d, DOMAIN d) /\ UsedBy(d) = g[DOMAIN d]
  BY UsedByIs
<1>3. g[DOMAIN e] = f[DOMAIN e]
  BY <1>1, <1>2, TotalsAgree
<1>4. QED
  BY <1>1, <1>2, <1>3

LEMMA NoneUsed ==
    ASSUME NEW e, DOMAIN e = {}
    PROVE  UsedBy(e) = 0
<1>1. IsFiniteSet(DOMAIN e)
  BY FS_EmptySet
<1>2. PICK f : IsTotal(f, e, DOMAIN e) /\ UsedBy(e) = f[DOMAIN e]
  BY <1>1, UsedByIs
<1>3. DOMAIN e \in SUBSET DOMAIN e
  OBVIOUS
<1>4. f[DOMAIN e] = 0
  BY <1>1, <1>2, <1>3, TotalOf
<1>5. QED
  BY <1>2, <1>4

\* The entries of a volume.
LEMMA EntriesSized ==
    ASSUME NEW dates, NEW e, e \in [DOMAIN e -> VolumeFiles(dates)]
    PROVE  Sized(e, DOMAIN e)
<1>1. \A c \in DOMAIN e : e[c].data \in Seq(Byte)
  BY DEF VolumeFiles, Byte
<1>2. QED
  BY <1>1, BlocksOfIs DEF Sized, BlocksAt

-----------------------------------------------------------------------------
(* The volume is within its bounds.                                        *)

Bounded(i) ==
    /\ IsFiniteSet(DOMAIN i.entries) /\ Cardinality(DOMAIN i.entries) <= MaxEntries
    /\ \A c \in DOMAIN i.entries : c[1] \in LongStems => c[2] = ""
    /\ i.blocks \in Nat
    /\ i.formatted => UsedBy(i.entries) <= Space(i)

\* The image is within them; a volume that is being made is empty.
SizeInv ==
    /\ Bounded(image)
    /\ run.command.program = "mkfs" /\ run.phase = "zeroed" =>
          image.entries = <<>> /\ image.blocks >= 8

LEMMA SpaceIs ==
    ASSUME NEW i, Bounded(i)
    PROVE  Space(i) \in Int /\ Cardinality(DOMAIN i.entries) \in Nat
<1>1. Cardinality(DOMAIN i.entries) \in Nat
  BY FS_CardinalityType DEF Bounded
<1>2. Space(i) \in Int
  <2>1. i.blocks \in Nat
    BY DEF Bounded
  <2>2. LabelEnd \in Nat
    BY VolumeAssumption
  <2>3. QED
    BY <2>1, <2>2 DEF Space
<1>3. QED
  BY <1>1, <1>2

LEMMA NoMore ==
    ASSUME NEW a \in Nat, NEW b \in Nat, NEW s \in Int, b <= s, a <= s \/ a <= b
    PROVE  a <= s
OBVIOUS

\* A directory with other files in it, which take no more than there is.
LEMMA WrittenBounded ==
    ASSUME ImageTyped, Bounded(image),
           NEW entries, entries \in [DOMAIN entries -> VolumeFiles(Dates)],
           IsFiniteSet(DOMAIN entries), Cardinality(DOMAIN entries) <= MaxEntries,
           \A c \in DOMAIN entries : c[1] \in LongStems => c[2] = "",
           UsedBy(entries) <= Space(image) \/ UsedBy(entries) <= UsedBy(image.entries),
           UsedBy(entries) \in Nat, UsedBy(image.entries) \in Nat,
           NEW j, j = Written(image, entries)
    PROVE  Bounded(j)
<1>1. /\ Mirrors(entries, j) /\ j.formatted = image.formatted /\ j.blocks = image.blocks
      /\ DOMAIN j.entries = DOMAIN entries
  BY WrittenIs
<1>2. \A c \in DOMAIN entries : BlocksAt(j.entries, c) = BlocksAt(entries, c)
  BY <1>1 DEF Mirrors, BlocksAt
<1>3. UsedBy(j.entries) = UsedBy(entries)
  BY <1>1, <1>2, SameUsed
<1>4. Space(j) = Space(image) /\ Space(image) \in Int
  BY <1>1, SpaceIs DEF Space
<1>5. j.formatted => UsedBy(j.entries) <= Space(j)
  <2> SUFFICES ASSUME j.formatted
               PROVE  UsedBy(j.entries) <= Space(j)
    OBVIOUS
  <2>1. UsedBy(image.entries) <= Space(image)
    BY <1>1 DEF Bounded
  <2>2. UsedBy(entries) <= Space(image)
    <3>1. UsedBy(entries) <= Space(image) \/ UsedBy(entries) <= UsedBy(image.entries)
      OBVIOUS
    <3>2. UsedBy(entries) \in Nat /\ UsedBy(image.entries) \in Nat /\ Space(image) \in Int
      BY <1>4
    <3>3. QED
      BY <2>1, <3>1, <3>2, NoMore
  <2>3. QED
    BY <1>3, <1>4, <2>2
<1>6. j.blocks \in Nat
  BY <1>1 DEF Bounded
<1>7. QED
  BY <1>1, <1>5, <1>6 DEF Bounded

\* What is in memory takes what is on the image.
LEMMA MemoryUses ==
    ASSUME TypeInv, Disk, Bounded(image)
    PROVE  /\ DOMAIN memory = DOMAIN image.entries /\ IsFiniteSet(DOMAIN memory)
           /\ Cardinality(DOMAIN memory) \in Nat /\ Cardinality(DOMAIN memory) <= MaxEntries
           /\ \A c \in DOMAIN memory : c[1] \in LongStems => c[2] = ""
           /\ memory \in [DOMAIN memory -> VolumeFiles(Dates)]
           /\ Sized(memory, DOMAIN memory) /\ UsedBy(memory) = UsedBy(image.entries)
           /\ ImageTyped
<1>1. Mirrors(memory, image) /\ ImageTyped
  BY DEF TypeInv
<1>2. DOMAIN memory = DOMAIN image.entries /\ memory \in [DOMAIN memory -> VolumeFiles(Dates)]
  BY <1>1 DEF Mirrors
<1>3. IsFiniteSet(DOMAIN memory)
  BY <1>2 DEF Bounded
<1>4. \A c \in DOMAIN image.entries : BlocksAt(memory, c) = BlocksAt(image.entries, c)
  BY <1>1 DEF Mirrors, BlocksAt
<1>5. UsedBy(memory) = UsedBy(image.entries)
  BY <1>2, <1>4, SameUsed DEF Bounded
<1>6. Sized(memory, DOMAIN memory)
  BY <1>2, EntriesSized
<1>7. Cardinality(DOMAIN memory) \in Nat
  BY <1>2, SpaceIs
<1>8. QED
  BY <1>1, <1>2, <1>3, <1>5, <1>6, <1>7 DEF Bounded

LEMMA CutIs ==
    ASSUME NEW name
    PROVE  Cut(name)[1] \in LongStems => Cut(name)[2] = ""
BY DEF Cut

LEMMA EmptyTakesNone ==
    ASSUME NEW e, NEW c, e[c].data = <<>>
    PROVE  BlocksAt(e, c) = 0
<1>1. <<>> \in Seq(Byte)
  OBVIOUS
<1>2. BlocksOf(<<>>) = 0
  BY <1>1, BlocksOfIs
<1>3. QED
  BY <1>2 DEF BlocksAt

LEMMA PutBounded ==
    ASSUME TypeInv, Bounded(image), Put
    PROVE  Bounded(image')
<1>1. Disk /\ Synced(With(memory, Cut(Argument.ucsd), Truncated(
          IF Cut(Argument.ucsd) \in DOMAIN memory THEN memory[Cut(Argument.ucsd)]
          ELSE NewEntry(Argument.ucsd))))
  BY DEF Put, AtFile, AtArgument
<1>2. PICK c, entry : /\ c = Cut(Argument.ucsd)
                      /\ entry = IF c \in DOMAIN memory THEN memory[c] ELSE NewEntry(Argument.ucsd)
  OBVIOUS
<1>3. c \in DOMAIN memory \/ Cardinality(DOMAIN memory) < MaxEntries
  BY <1>2 DEF Put
<1>4. /\ DOMAIN memory = DOMAIN image.entries /\ IsFiniteSet(DOMAIN memory)
      /\ Cardinality(DOMAIN memory) \in Nat /\ Cardinality(DOMAIN memory) <= MaxEntries
      /\ \A x \in DOMAIN memory : x[1] \in LongStems => x[2] = ""
      /\ memory \in [DOMAIN memory -> VolumeFiles(Dates)]
      /\ Sized(memory, DOMAIN memory) /\ UsedBy(memory) = UsedBy(image.entries)
      /\ ImageTyped
  BY <1>1, MemoryUses
<1>5. entry \in VolumeFiles(Dates)
  BY <1>2, <1>4, NewEntryIs
<1>6. PICK t : t = Truncated(entry) /\ t \in VolumeFiles(Dates) /\ t.data = <<>>
  BY <1>5, TruncatedIs
<1>7. PICK e : e = With(memory, c, t)
  OBVIOUS
<1>8. /\ DOMAIN e = DOMAIN memory \cup {c} /\ e[c] = t
      /\ \A x \in DOMAIN memory : x # c => e[x] = memory[x]
  BY <1>7 DEF With
<1>9. e \in [DOMAIN e -> VolumeFiles(Dates)]
  BY <1>4, <1>6, <1>7, WithType
<1>10. /\ IsFiniteSet(DOMAIN e) /\ Cardinality(DOMAIN e) <= MaxEntries
  <2>1. CASE c \in DOMAIN memory
    <3>1. DOMAIN e = DOMAIN memory
      BY <1>8, <2>1
    <3>2. QED
      BY <1>4, <3>1
  <2>2. CASE c \notin DOMAIN memory
    <3>1. /\ IsFiniteSet(DOMAIN memory \cup {c})
          /\ Cardinality(DOMAIN memory \cup {c}) = Cardinality(DOMAIN memory) + 1
      BY <1>4, <2>2, FS_AddElement
    <3>2. Cardinality(DOMAIN memory) \in Nat /\ Cardinality(DOMAIN memory) < MaxEntries
      BY <1>3, <1>4, <2>2
    <3>3. Cardinality(DOMAIN memory \cup {c}) <= MaxEntries
      BY <3>1, <3>2, VolumeAssumption
    <3>4. QED
      BY <1>8, <3>1, <3>3
  <2>3. QED
    BY <2>1, <2>2
<1>11. Sized(e, DOMAIN e)
  BY <1>9, EntriesSized
<1>12. Emptied(memory, e, c)
  <2>1. DOMAIN e \ {c} = DOMAIN memory \ {c}
    BY <1>8
  <2>2. \A x \in DOMAIN e \ {c} : BlocksAt(e, x) = BlocksAt(memory, x)
    BY <1>8 DEF BlocksAt
  <2>3. BlocksAt(e, c) = 0
    BY <1>6, <1>8, EmptyTakesNone
  <2>4. QED
    BY <2>1, <2>2, <2>3 DEF Emptied
<1>13. UsedBy(e) \in Nat /\ UsedBy(memory) \in Nat /\ UsedBy(e) <= UsedBy(memory)
  BY <1>4, <1>10, <1>11, <1>12, EmptiedUses
<1>14. \A x \in DOMAIN e : x[1] \in LongStems => x[2] = ""
  BY <1>2, <1>4, <1>8, CutIs
<1>15. image' = Written(image, e)
  BY <1>1, <1>2, <1>6, <1>7 DEF Synced
<1>16. QED
  BY <1>4, <1>9, <1>10, <1>13, <1>14, <1>15, WrittenBounded

LEMMA RemoveBounded ==
    ASSUME TypeInv, Bounded(image), RemoveFile
    PROVE  Bounded(image')
<1>1. PICK c : c = Cut(Argument.ucsd)
  OBVIOUS
<1>2. PICK e : e = [x \in DOMAIN memory \ {c} |-> memory[x]]
  OBVIOUS
<1>3. Disk /\ image' = Written(image, e)
  BY <1>1, <1>2 DEF RemoveFile, AtFile, AtArgument, Synced
<1>4. /\ DOMAIN memory = DOMAIN image.entries /\ IsFiniteSet(DOMAIN memory)
      /\ Cardinality(DOMAIN memory) \in Nat /\ Cardinality(DOMAIN memory) <= MaxEntries
      /\ \A x \in DOMAIN memory : x[1] \in LongStems => x[2] = ""
      /\ memory \in [DOMAIN memory -> VolumeFiles(Dates)]
      /\ Sized(memory, DOMAIN memory) /\ UsedBy(memory) = UsedBy(image.entries)
      /\ ImageTyped
  BY <1>3, MemoryUses
<1>5. DOMAIN e = DOMAIN memory \ {c} /\ \A x \in DOMAIN e : e[x] = memory[x]
  BY <1>2
<1>6. IsFiniteSet(DOMAIN e) /\ Cardinality(DOMAIN e) <= MaxEntries
  <2>1. DOMAIN e \subseteq DOMAIN memory
    BY <1>5
  <2>2. /\ IsFiniteSet(DOMAIN e) /\ Cardinality(DOMAIN e) <= Cardinality(DOMAIN memory)
    BY <1>4, <2>1, FS_Subset
  <2>3. Cardinality(DOMAIN e) \in Nat
    BY <2>2, FS_CardinalityType
  <2>4. Cardinality(DOMAIN memory) \in Nat /\ Cardinality(DOMAIN memory) <= MaxEntries
    BY <1>4
  <2>5. Cardinality(DOMAIN e) <= MaxEntries
    BY <2>2, <2>3, <2>4, VolumeAssumption
  <2>6. QED
    BY <2>2, <2>5
<1>7. e \in [DOMAIN e -> VolumeFiles(Dates)]
  BY <1>2, <1>4, <1>5
<1>8. Sized(e, DOMAIN e)
  BY <1>7, EntriesSized
<1>9. Emptied(memory, e, c)
  <2>1. \A x \in DOMAIN e \ {c} : BlocksAt(e, x) = BlocksAt(memory, x)
    BY <1>5 DEF BlocksAt
  <2>2. QED
    BY <1>5, <2>1 DEF Emptied
<1>10. UsedBy(e) \in Nat /\ UsedBy(memory) \in Nat /\ UsedBy(e) <= UsedBy(memory)
  BY <1>4, <1>6, <1>8, <1>9, EmptiedUses
<1>11. \A x \in DOMAIN e : x[1] \in LongStems => x[2] = ""
  BY <1>4, <1>5
<1>12. QED
  BY <1>3, <1>4, <1>6, <1>7, <1>10, <1>11, WrittenBounded

\* Bounds are about the files and the blocks alone.
LEMMA BoundedBooted ==
    ASSUME NEW i, Bounded(i), NEW j, j.entries = i.entries, j.formatted = i.formatted,
           j.blocks = i.blocks
    PROVE  Bounded(j)
BY DEF Bounded, Space

LEMMA GrownIs ==
    ASSUME TypeInv, DiskInv, WritePiece
    PROVE  Grown \in [DOMAIN memory -> VolumeFiles(Dates)]
<1>1. /\ Disk /\ run.open /\ Pending(run.stream) # <<>> /\ Op = "put" /\ Given
  BY DEF WritePiece, HasPiece
<1>2. /\ run.open = TRUE /\ IsRun(run) /\ Mirrors(memory, image)
      /\ PutCopy(run, files, image) /\ run.phase \notin Stopped
  BY <1>1, AtCopy
<1>3. PICK c \in DOMAIN image.entries, codec \in Codecs, src \in Seq(Byte) :
         /\ c = run.target
         /\ Copying(run, image.entries[c].data, codec, src, FALSE)
  BY <1>2 DEF PutCopy, Copying
<1>4. /\ IsRun(run') /\ SameFile(run, run') /\ run'.phase = run.phase
      /\ Written1(run, run', image.entries[c].data, codec, src, FALSE)
  BY <1>1, <1>2, <1>3, CopyingPiece
<1>5. PICK d \in Seq(Byte) : d = Piece
  BY <1>4 DEF Written1, Piece
<1>6. PICK e \in VolumeFiles(Dates) : c \in DOMAIN memory /\ e = memory[c]
  BY <1>2, <1>3, MirrorsIs
<1>7. PICK new \in VolumeFiles(Dates) : new = Extended(e, d)
  BY <1>5, <1>6, ExtendedIs
<1>8. memory \in [DOMAIN memory -> VolumeFiles(Dates)]
  BY <1>2, MirrorsIs
<1>9. Grown = [memory EXCEPT ![c] = new]
  BY <1>3, <1>5, <1>6, <1>7, <1>8 DEF Grown, Extended
<1>10. QED
  BY <1>6, <1>7, <1>8, <1>9

LEMMA PieceBounded ==
    ASSUME TypeInv, DiskInv, Bounded(image), WritePiece
    PROVE  Bounded(image')
<1>1. Disk /\ image' = Written(image, Grown) /\ UsedBy(Grown) <= Space(image)
  BY DEF WritePiece, HasPiece, Synced
<1>2. PICK e : e = Grown /\ e \in [DOMAIN memory -> VolumeFiles(Dates)]
  BY GrownIs
<1>3. /\ DOMAIN memory = DOMAIN image.entries /\ IsFiniteSet(DOMAIN memory)
      /\ Cardinality(DOMAIN memory) <= MaxEntries
      /\ \A x \in DOMAIN memory : x[1] \in LongStems => x[2] = ""
      /\ Sized(memory, DOMAIN memory) /\ UsedBy(memory) = UsedBy(image.entries)
      /\ ImageTyped
  BY <1>1, MemoryUses
<1>4. DOMAIN e = DOMAIN memory /\ e \in [DOMAIN e -> VolumeFiles(Dates)]
  BY <1>2
<1>5. Sized(e, DOMAIN e) /\ IsFiniteSet(DOMAIN e) /\ Cardinality(DOMAIN e) <= MaxEntries
  BY <1>3, <1>4, EntriesSized
<1>6. UsedBy(e) \in Nat /\ UsedBy(memory) \in Nat
  <2>1. PICK c : c \notin DOMAIN e
    <3>1. {y \in DOMAIN e : y \notin y} \notin DOMAIN e
      OBVIOUS
    <3>2. QED
      BY <3>1
  <2>2. Emptied(e, e, c) /\ Emptied(memory, memory, c)
    BY <1>4, <2>1 DEF Emptied
  <2>3. QED
    BY <1>3, <1>5, <2>2, EmptiedUses
<1>7. UsedBy(e) <= Space(image) /\ image' = Written(image, e)
  BY <1>1, <1>2
<1>8. \A x \in DOMAIN e : x[1] \in LongStems => x[2] = ""
  BY <1>3, <1>4
<1>9. UsedBy(image.entries) \in Nat
  BY <1>3, <1>6
<1>10. QED
  BY <1>3, <1>4, <1>5, <1>6, <1>7, <1>8, <1>9, WrittenBounded

LEMMA FinishBounded ==
    ASSUME TypeInv, Bounded(image), Finish
    PROVE  Bounded(image')
<1>1. Disk
  BY DEF Finish, AtEnd
<1>2. PICK moved, written :
         /\ moved \in BOOLEAN /\ written = IF moved THEN Written(image, memory) ELSE image
         /\ image' = IF Boot # <<>> /\ Op = "put"
                     THEN [written EXCEPT !.boot = BootBlocks(files[Head(Boot)].data)]
                     ELSE written
  BY DEF Finish
<1>3. ImageIs(written)
  BY <1>1, <1>2, FilesKept
<1>4. Bounded(written)
  <2>1. CASE written = image
    BY <2>1
  <2>2. CASE written = Written(image, memory)
    <3>1. /\ DOMAIN memory = DOMAIN image.entries
          /\ memory \in [DOMAIN memory -> VolumeFiles(Dates)] /\ ImageTyped
          /\ UsedBy(memory) = UsedBy(image.entries)
      BY <1>1, MemoryUses
    <3>2. /\ Mirrors(memory, written) /\ written.formatted = image.formatted
          /\ written.blocks = image.blocks /\ DOMAIN written.entries = DOMAIN memory
      BY <2>2, <3>1, WrittenIs
    <3>3. \A x \in DOMAIN memory : BlocksAt(written.entries, x) = BlocksAt(memory, x)
      BY <3>2 DEF Mirrors, BlocksAt
    <3>4. IsFiniteSet(DOMAIN memory)
      BY <3>1 DEF Bounded
    <3>5. UsedBy(written.entries) = UsedBy(image.entries)
      BY <3>1, <3>2, <3>3, <3>4, SameUsed
    <3>6. Space(written) = Space(image)
      BY <3>2 DEF Space
    <3>7. DOMAIN written.entries = DOMAIN image.entries
      BY <3>1, <3>2
    <3>8. QED
      BY <3>2, <3>5, <3>6, <3>7 DEF Bounded
  <2>3. QED
    BY <1>2, <2>1, <2>2
<1>5. CASE image' = written
  BY <1>4, <1>5
<1>6. CASE image' = [written EXCEPT !.boot = BootBlocks(files[Head(Boot)].data)]
  <2>1. PICK b : image' = [written EXCEPT !.boot = b]
    BY <1>6
  <2>2. /\ image'.entries = written.entries /\ image'.formatted = written.formatted
        /\ image'.blocks = written.blocks
    BY <1>3, <2>1 DEF ImageIs
  <2>3. QED
    BY <1>4, <2>2, BoundedBooted
<1>7. QED
  BY <1>2, <1>5, <1>6

LEMMA MkfsSizeIs ==
    ASSUME RunTyped, run.command.program = "mkfs", SizeAllowed(MkfsSize)
    PROVE  2 * MkfsSize \in Nat /\ 2 * MkfsSize >= 8
<1>1. run.command \in Commands
  BY CommandIs
<1>2. CASE run.command.size = <<>>
  <2>1. MkfsSize = DefaultSize(MkfsMtype)
    BY <1>2 DEF MkfsSize
  <2>2. DefaultSize(MkfsMtype) \in {140, 800, 256}
    BY DEF DefaultSize
  <2>3. QED
    BY <2>1, <2>2
<1>3. CASE run.command.size # <<>>
  <2>1. MkfsSize = ParseSize(run.command.size)
    BY <1>3 DEF MkfsSize
  <2>2. PICK n \in Nat : n = run.command.size[1]
    BY <1>1, <1>3, CommandsAssumption
  <2>3. ParseSize(run.command.size) \in {n, CeilKB(n), 1024 * n, 1024 * 1024 * n, -1}
    BY <2>2 DEF ParseSize
  <2>4. CeilKB(n) \in Int
    BY <2>2 DEF CeilKB
  <2>5. PICK k \in Int : k = MkfsSize
    BY <2>1, <2>3, <2>4
  <2>6. k >= 4
    BY <2>5 DEF SizeAllowed
  <2>7. 2 * k \in Nat /\ 2 * k >= 8
    BY <2>6
  <2>8. QED
    BY <2>5, <2>7
<1>4. QED
  BY <1>2, <1>3

LEMMA ZeroBounded ==
    ASSUME TypeInv, ZeroWholeVolume
    PROVE  Bounded(image') /\ image'.entries = <<>> /\ image'.blocks >= 8
<1>1. 2 * MkfsSize \in Nat /\ 2 * MkfsSize >= 8
  BY MkfsSizeIs DEF ZeroWholeVolume, TypeInv, Mkfs, Running
<1>2. PICK n \in Nat : n = 2 * MkfsSize /\ n >= 8
  BY <1>1
<1>3. PICK b : image' = [formatted |-> FALSE, sex |-> "LE", blocks |-> n,
                         entries |-> <<>>, boot |-> b]
  BY <1>2 DEF ZeroWholeVolume
<1>4. DOMAIN <<>> = {} /\ image'.entries = <<>> /\ image'.blocks = n /\ ~image'.formatted
  BY <1>3
<1>5. IsFiniteSet(DOMAIN <<>>) /\ Cardinality(DOMAIN <<>>) = 0
  BY <1>4, FS_EmptySet
<1>6. 0 <= MaxEntries
  BY VolumeAssumption
<1>7. Bounded(image')
  BY <1>4, <1>5, <1>6 DEF Bounded
<1>8. QED
  BY <1>2, <1>4, <1>7

LEMMA LabelBounded ==
    ASSUME TypeInv, SizeInv, WriteLabel
    PROVE  Bounded(image')
<1>1. /\ ImageIs(image) /\ Bounded(image) /\ image.entries = <<>> /\ image.blocks >= 8
  BY DEF TypeInv, ImageTyped, SizeInv, WriteLabel, Mkfs, Running
<1>2. PICK b : image' = [image EXCEPT !.formatted = TRUE, !.sex = b]
  BY DEF WriteLabel
<1>3. image'.entries = <<>> /\ image'.blocks = image.blocks /\ image'.entries = image.entries
  BY <1>1, <1>2 DEF ImageIs
<1>4. UsedBy(image'.entries) = 0
  BY <1>3, NoneUsed
<1>5. 0 <= Space(image')
  <2>1. PICK n \in Nat, l \in 0 .. 8 : n = image.blocks /\ l = LabelEnd
    BY <1>1, VolumeAssumption DEF Bounded
  <2>2. n >= 8
    BY <1>1, <2>1
  <2>3. n - l >= 0
    BY <2>1, <2>2
  <2>4. QED
    BY <1>3, <2>1, <2>3 DEF Space
<1>6. QED
  BY <1>1, <1>3, <1>4, <1>5 DEF Bounded

LEMMA MkfsBootBounded ==
    ASSUME TypeInv, Bounded(image), MkfsBoot
    PROVE  Bounded(image')
<1>1. UNCHANGED image \/ \E b : image' = [image EXCEPT !.boot = b]
  BY DEF MkfsBoot
<1>2. CASE UNCHANGED image
  BY <1>2
<1>3. CASE \E b : image' = [image EXCEPT !.boot = b]
  <2>1. PICK b : image' = [image EXCEPT !.boot = b]
    BY <1>3
  <2>2. /\ image'.entries = image.entries /\ image'.formatted = image.formatted
        /\ image'.blocks = image.blocks
    BY <2>1 DEF TypeInv, ImageTyped, ImageIs
  <2>3. QED
    BY <2>2, BoundedBooted
<1>4. QED
  BY <1>1, <1>2, <1>3

\* What the steps of the programs do to the phase, and that they leave the image as it
\* is unless they are said to change it.
Places == run'.phase \in Phases /\ UNCHANGED ran

LEMMA KeptPlace ==
    ASSUME IsRun(run), run.phase \in Phases, UNCHANGED ran,
           \/ \E l : run' = [run EXCEPT !.left = l]
           \/ \E s : run' = [run EXCEPT !.stream = s]
           \/ \E d : run' = [run EXCEPT !.data = d]
           \/ \E s, d : run' = [run EXCEPT !.stream = s, !.data = d]
           \/ \E s : \E p \in Phases : run' = [run EXCEPT !.stream = s, !.phase = p]
           \/ \E p \in Phases : run' = [run EXCEPT !.phase = p, !.open = FALSE]
           \/ \E d : \E p \in Phases : run' = [run EXCEPT !.phase = p, !.open = FALSE, !.done = d]
           \/ \E s : \E p \in Phases : run' = [run EXCEPT !.phase = p, !.open = FALSE, !.stream = s]
           \/ \E p \in Phases : run' = [run EXCEPT !.phase = p]
           \/ \E s, l : \E p \in Phases : run' = [run EXCEPT !.phase = p, !.shown = s, !.left = l]
    PROVE  Places
<1>1. CASE \E l : run' = [run EXCEPT !.left = l]
  BY <1>1 DEF IsRun, Places
<1>2. CASE \E s : run' = [run EXCEPT !.stream = s]
  BY <1>2 DEF IsRun, Places
<1>3. CASE \E d : run' = [run EXCEPT !.data = d]
  BY <1>3 DEF IsRun, Places
<1>4. CASE \E s, d : run' = [run EXCEPT !.stream = s, !.data = d]
  BY <1>4 DEF IsRun, Places
<1>5. CASE \E s : \E p \in Phases : run' = [run EXCEPT !.stream = s, !.phase = p]
  BY <1>5 DEF IsRun, Places
<1>6. CASE \E p \in Phases : run' = [run EXCEPT !.phase = p, !.open = FALSE]
  BY <1>6 DEF IsRun, Places
<1>7. CASE \E d : \E p \in Phases : run' = [run EXCEPT !.phase = p, !.open = FALSE, !.done = d]
  BY <1>7 DEF IsRun, Places
<1>8. CASE \E s : \E p \in Phases : run' = [run EXCEPT !.phase = p, !.open = FALSE, !.stream = s]
  BY <1>8 DEF IsRun, Places
<1>9. CASE \E p \in Phases : run' = [run EXCEPT !.phase = p]
  BY <1>9 DEF IsRun, Places
<1>10. CASE \E s, l : \E p \in Phases : run' = [run EXCEPT !.phase = p, !.shown = s, !.left = l]
  BY <1>10 DEF IsRun, Places
<1>11. QED
  BY <1>1, <1>2, <1>3, <1>4, <1>5, <1>6, <1>7, <1>8, <1>9, <1>10

LEMMA EndsPlace ==
    ASSUME IsRun(run), NEW how \in {"ok", "failed", "killed"}, Ends(how), UNCHANGED ran
    PROVE  Places
<1>1. run'.phase = how
  BY EndsIs
<1>2. QED
  BY <1>1 DEF Places, Phases

LEMMA DiesPlace ==
    ASSUME IsRun(run), Dies \/ Killed
    PROVE  Places /\ UNCHANGED image
<1>1. UNCHANGED <<image, ran>> /\ (Ends("failed") \/ Ends("killed"))
  BY DEF Dies, Killed
<1>2. QED
  BY <1>1, EndsPlace

LEMMA OpenedPlace ==
    ASSUME NEW r, IsRun(r), NEW source, NEW target, NEW data, NEW codec, NEW stamp, NEW left,
           run' = [Opened(r, source, target, data, codec, stamp) EXCEPT !.left = left],
           UNCHANGED ran
    PROVE  Places
<1>1. run'.phase = "copy"
  BY OpenedLeft DEF Opens
<1>2. QED
  BY <1>1 DEF Places, Phases

DiskImageSteps == Put \/ RemoveFile \/ WritePiece \/ Finish

LEMMA DiskPlaces ==
    ASSUME IsRun(run), run.phase \in Phases, DiskSteps
    PROVE  Places /\ (DiskImageSteps \/ UNCHANGED image)
<1>1. CASE ExpandDirectory \/ RemoveFile
  <2>1. UNCHANGED ran /\ \E l : run' = [run EXCEPT !.left = l]
    BY <1>1 DEF ExpandDirectory, RemoveFile
  <2>2. RemoveFile \/ UNCHANGED image
    BY <1>1 DEF ExpandDirectory
  <2>3. QED
    BY <2>1, <2>2, KeptPlace DEF DiskImageSteps
<1>2. CASE Put \/ Get
  <2>1. UNCHANGED ran /\ \E source, target, data, codec, stamp, left :
           run' = [Opened(run, source, target, data, codec, stamp) EXCEPT !.left = left]
    BY <1>2 DEF Put, Get
  <2>2. Put \/ UNCHANGED image
    BY <1>2 DEF Get
  <2>3. QED
    BY <2>1, <2>2, OpenedPlace DEF DiskImageSteps
<1>3. CASE PutDies \/ NotFound \/ NoSpace \/ NoBootFile
  BY <1>3, DiesPlace DEF PutDies, NotFound, NoSpace, NoBootFile
<1>4. CASE Copy
  <2>1. UNCHANGED <<image, ran>> /\ \E s, d : run' = [run EXCEPT !.stream = s, !.data = d]
    BY <1>4 DEF Copy, CopyChunk
  <2>2. QED
    BY <2>1, KeptPlace
<1>5. CASE EndOfInput \/ Stamp
  <2>1. /\ UNCHANGED <<image, ran>>
        /\ \E s : \E p \in {"flushed", "closing"} : run' = [run EXCEPT !.stream = s, !.phase = p]
    BY <1>5 DEF EndOfInput, Stamp
  <2>2. \E s : \E p \in Phases : run' = [run EXCEPT !.stream = s, !.phase = p]
    BY <2>1 DEF Phases
  <2>3. QED
    BY <2>1, <2>2, KeptPlace
<1>6. CASE WritePiece \/ WriteFile
  <2>1. UNCHANGED ran /\ \E s : run' = [run EXCEPT !.stream = s]
    BY <1>6 DEF WritePiece, WriteFile, Given
  <2>2. WritePiece \/ UNCHANGED image
    BY <1>6 DEF WriteFile
  <2>3. QED
    BY <2>1, <2>2, KeptPlace DEF DiskImageSteps
<1>7. CASE Closed
  <2>1. /\ UNCHANGED <<image, ran>> /\ "next" \in Phases
        /\ \E d : run' = [run EXCEPT !.phase = "next", !.open = FALSE, !.done = d]
    BY <1>7 DEF Closed, Phases
  <2>2. \E d : \E p \in Phases : run' = [run EXCEPT !.phase = p, !.open = FALSE, !.done = d]
    BY <2>1
  <2>3. QED
    BY <2>1, <2>2, KeptPlace
<1>8. CASE Finish
  <2>1. UNCHANGED ran /\ \E o, d, s : run' = [run EXCEPT !.phase = "ok", !.shown = o, !.data = d,
                                                         !.stream = s]
    BY <1>8 DEF Finish
  <2>2. run'.phase = "ok"
    BY <2>1 DEF IsRun
  <2>3. QED
    BY <1>8, <2>1, <2>2 DEF Places, Phases, DiskImageSteps
<1>9. QED
  BY <1>1, <1>2, <1>3, <1>4, <1>5, <1>6, <1>7, <1>8 DEF DiskSteps

LEMMA TextPlaces ==
    ASSUME IsRun(run), run.phase \in Phases, TextSteps
    PROVE  Places /\ UNCHANGED image
<1>1. CASE CopyPipe \/ CopyText
  <2>1. UNCHANGED <<image, ran>> /\ \E s, d : run' = [run EXCEPT !.stream = s, !.data = d]
    BY <1>1 DEF CopyPipe, CopyText, CopyChunk
  <2>2. QED
    BY <2>1, KeptPlace
<1>2. CASE FilterEnds
  <2>1. /\ UNCHANGED <<image, ran>> /\ "ok" \in Phases
        /\ \E s : run' = [run EXCEPT !.phase = "ok", !.open = FALSE, !.stream = s]
    BY <1>2 DEF FilterEnds, Phases
  <2>2. \E s : \E p \in Phases : run' = [run EXCEPT !.phase = p, !.open = FALSE, !.stream = s]
    BY <2>1
  <2>3. QED
    BY <2>1, <2>2, KeptPlace
<1>3. CASE InSitu
  <2>1. UNCHANGED <<image, ran>>
    BY <1>3 DEF InSitu
  <2>2. PICK source, target, data, codec, stamp :
           run' = [Opened(run, source, target, data, codec, stamp) EXCEPT !.left = Tail(@)]
    BY <1>3 DEF InSitu
  <2>3. PICK q : /\ q = Opened(run, source, target, data, codec, stamp)
                 /\ Opens(run, q, source, target, data, codec, stamp)
    BY OpenedIs
  <2>4. run' = [q EXCEPT !.left = Tail(q.left)]
    BY <2>2, <2>3
  <2>5. run'.phase = "copy"
    BY <2>3, <2>4, LeftIs DEF Opens
  <2>6. QED
    BY <2>1, <2>5 DEF Places, Phases
<1>4. CASE Reset
  <2>1. /\ UNCHANGED <<image, ran>> /\ "closing" \in Phases
        /\ \E s : run' = [run EXCEPT !.stream = s, !.phase = "closing"]
    BY <1>4 DEF Reset, Phases
  <2>2. \E s : \E p \in Phases : run' = [run EXCEPT !.stream = s, !.phase = p]
    BY <2>1
  <2>3. QED
    BY <2>1, <2>2, KeptPlace
<1>5. CASE WriteTemporary
  <2>1. UNCHANGED <<image, ran>> /\ \E s : run' = [run EXCEPT !.stream = s]
    BY <1>5 DEF WriteTemporary, Given
  <2>2. QED
    BY <2>1, KeptPlace
<1>6. CASE RenameOver
  <2>1. /\ UNCHANGED <<image, ran>> /\ "renamed" \in Phases
        /\ run' = [run EXCEPT !.phase = "renamed", !.open = FALSE]
    BY <1>6 DEF RenameOver, Phases
  <2>2. \E p \in Phases : run' = [run EXCEPT !.phase = p, !.open = FALSE]
    BY <2>1
  <2>3. QED
    BY <2>1, <2>2, KeptPlace
<1>7. CASE RestoreTimes
  <2>1. UNCHANGED <<image, ran>> /\ "next" \in Phases /\ run' = [run EXCEPT !.phase = "next"]
    BY <1>7 DEF RestoreTimes, Phases
  <2>2. \E p \in Phases : run' = [run EXCEPT !.phase = p]
    BY <2>1
  <2>3. QED
    BY <2>1, <2>2, KeptPlace
<1>8. CASE TextEnds
  BY <1>8, EndsPlace DEF TextEnds
<1>9. QED
  BY <1>1, <1>2, <1>3, <1>4, <1>5, <1>6, <1>7, <1>8 DEF TextSteps

LEMMA Rt11Places ==
    ASSUME IsRun(run), run.phase \in Phases, Rt11Steps
    PROVE  Places /\ UNCHANGED image
<1>1. CASE ReadDirectory
  <2>1. /\ UNCHANGED <<image, ran>> /\ "next" \in Phases
        /\ \E s, l : run' = [run EXCEPT !.phase = "next", !.shown = s, !.left = l]
    BY <1>1 DEF ReadDirectory, Phases
  <2>2. \E s, l : \E p \in Phases : run' = [run EXCEPT !.phase = p, !.shown = s, !.left = l]
    BY <2>1
  <2>3. QED
    BY <2>1, <2>2, KeptPlace
<1>2. CASE Extract
  <2>1. UNCHANGED <<image, ran>>
    BY <1>2 DEF Extract
  <2>2. PICK l, s, t, d, q : q = run' /\ q = ExtractFrom(run, l, s, t, d)
    BY <1>2 DEF Extract, ExtractFrom
  <2>3. ExtractsFrom(run, q, l, s, t, d)
    BY <2>2, ExtractIs
  <2>4. run'.phase = "extract"
    BY <2>2, <2>3 DEF ExtractsFrom
  <2>5. QED
    BY <2>1, <2>4 DEF Places, Phases
<1>3. CASE CopyBlock
  <2>1. UNCHANGED <<image, ran>> /\ \E d : run' = [run EXCEPT !.data = d]
    BY <1>3 DEF CopyBlock
  <2>2. QED
    BY <2>1, KeptPlace
<1>4. CASE ExtractEnds
  <2>1. /\ UNCHANGED <<image, ran>> /\ "next" \in Phases
        /\ \E d : run' = [run EXCEPT !.phase = "next", !.open = FALSE, !.done = d]
    BY <1>4 DEF ExtractEnds, Phases
  <2>2. \E d : \E p \in Phases : run' = [run EXCEPT !.phase = p, !.open = FALSE, !.done = d]
    BY <2>1
  <2>3. QED
    BY <2>1, <2>2, KeptPlace
<1>5. CASE Rt11Ends
  BY <1>5, EndsPlace DEF Rt11Ends
<1>6. QED
  BY <1>1, <1>2, <1>3, <1>4, <1>5 DEF Rt11Steps

LEMMA MkfsPlaces ==
    ASSUME TypeInv, SizeInv, run.phase \in Phases, MkfsSteps
    PROVE  Places /\ SizeInv'
<1>1. IsRun(run) /\ Bounded(image)
  BY DEF TypeInv, RunTyped, SizeInv
<1>2. CASE ZeroWholeVolume
  <2>1. UNCHANGED ran /\ "zeroed" \in Phases /\ run' = [run EXCEPT !.phase = "zeroed"]
    BY <1>2 DEF ZeroWholeVolume, Phases
  <2>2. \E p \in Phases : run' = [run EXCEPT !.phase = p]
    BY <2>1
  <2>3. Places
    BY <1>1, <2>1, <2>2, KeptPlace
  <2>4. Bounded(image') /\ image'.entries = <<>> /\ image'.blocks >= 8
    BY <1>2, ZeroBounded
  <2>5. QED
    BY <2>3, <2>4 DEF SizeInv
<1>3. CASE WriteLabel
  <2>1. UNCHANGED ran /\ "labelled" \in Phases /\ run' = [run EXCEPT !.phase = "labelled"]
    BY <1>3 DEF WriteLabel, Phases
  <2>2. \E p \in Phases : run' = [run EXCEPT !.phase = p]
    BY <2>1
  <2>3. Places /\ run'.phase = "labelled"
    BY <1>1, <2>1, <2>2, KeptPlace, PhasedIs
  <2>4. Bounded(image')
    BY <1>3, LabelBounded
  <2>5. QED
    BY <2>3, <2>4 DEF SizeInv
<1>4. CASE MkfsBoot
  <2>1. UNCHANGED ran /\ \E how \in {"ok", "failed"} : Ends(how)
    BY <1>4 DEF MkfsBoot
  <2>2. Places
    BY <1>1, <2>1, EndsPlace
  <2>3. run'.phase \in {"ok", "failed"}
    BY <1>1, <2>1, EndsIs
  <2>4. Bounded(image')
    BY <1>1, <1>4, MkfsBootBounded
  <2>5. QED
    BY <2>2, <2>3, <2>4 DEF SizeInv
<1>5. QED
  BY <1>2, <1>3, <1>4 DEF MkfsSteps

\* A program begins in one of four phases, on the image as it is.
LEMMA StartPlaces ==
    ASSUME Starts
    PROVE  /\ run'.phase \in {"next", "failed", "ok", "begin", "options", "copy"}
           /\ ran' = ran + 1 /\ ran < MaxRuns /\ UNCHANGED image
<1> SUFFICES ASSUME NEW c \in Commands,
                    \/ Start(c) \/ CheckSystem(c) \/ StartText(c) \/ StartFilter(c)
                    \/ StartRt11(c) \/ StartMkfs(c)
             PROVE  /\ run'.phase \in {"next", "failed", "ok", "begin", "options", "copy"}
                    /\ ran' = ran + 1 /\ ran < MaxRuns /\ UNCHANGED image
  BY DEF Starts
<1>1. ran' = ran + 1 /\ ran < MaxRuns /\ UNCHANGED image
  BY DEF Start, CheckSystem, StartText, StartFilter, StartRt11, StartMkfs
<1>2. PICK r : r = NewRun(c) /\ IsRun(r)
  BY NewRunIs
<1>3. CASE StartFilter(c)
  <2>1. PICK source, target, data, codec, stamp :
           run' = Opened(r, source, target, data, codec, stamp)
    BY <1>2, <1>3 DEF StartFilter
  <2>2. PICK q : q = run' /\ q = Opened(r, source, target, data, codec, stamp)
    BY <2>1
  <2>3. Opens(r, q, source, target, data, codec, stamp)
    BY <1>2, <2>2, OpenedIs
  <2>4. QED
    BY <1>1, <2>2, <2>3 DEF Opens
<1>4. CASE ~StartFilter(c)
  <2>1. \/ \E l : run' = [r EXCEPT !.left = l]
        \/ \E p \in {"failed", "ok", "begin", "options"} : run' = [r EXCEPT !.phase = p]
    BY <1>2, <1>4 DEF Start, CheckSystem, StartText, StartRt11, StartMkfs
  <2>2. r.phase = "next"
    BY <1>2, NewRunIs
  <2>3. run'.phase \in {"next", "failed", "ok", "begin", "options"}
    BY <1>2, <2>1, <2>2 DEF IsRun
  <2>4. QED
    BY <1>1, <2>3
<1>5. QED
  BY <1>3, <1>4

\* The inductive invariant of the bounds.
BoundsInv == IInv /\ SizeInv /\ run.phase \in Phases /\ ran \in 0 .. MaxRuns

LEMMA BoundsInit ==
    ASSUME Init
    PROVE  BoundsInv
<1>1. IInv
  BY IInvInit
<1>2. Bounded(image)
  BY ImageAssumption DEF Init, Bounded
<1>3. run.phase = "ok" /\ ran \in 0 .. MaxRuns
  <2>1. PICK r : r = NewRun([program |-> "none"]) /\ IsRun(r)
    BY NewRunIs
  <2>2. run = [r EXCEPT !.phase = "ok"] /\ ran = 0
    BY <2>1 DEF Init
  <2>3. run.phase = "ok"
    BY <2>1, <2>2, PhasedIs
  <2>4. QED
    BY <2>2, <2>3, VolumeAssumption
<1>4. QED
  BY <1>1, <1>2, <1>3 DEF BoundsInv, SizeInv, Phases

LEMMA BoundsStep ==
    ASSUME BoundsInv, [Next]_vars
    PROVE  BoundsInv'
<1>1. /\ IInv /\ SizeInv /\ run.phase \in Phases /\ ran \in 0 .. MaxRuns
      /\ TypeInv /\ DiskInv /\ IsRun(run) /\ Bounded(image)
  BY DEF BoundsInv, IInv, TypeInv, RunTyped, SizeInv
<1>2. IInv'
  BY <1>1, IInvStep
<1>3. CASE UNCHANGED vars
  BY <1>1, <1>2, <1>3 DEF vars, BoundsInv, SizeInv
<1>4. CASE Starts
  <2>1. /\ run'.phase \in {"next", "failed", "ok", "begin", "options", "copy"}
        /\ ran' = ran + 1 /\ ran < MaxRuns /\ UNCHANGED image
    BY <1>4, StartPlaces
  <2>2. ran' \in 0 .. MaxRuns
    BY <1>1, <2>1, VolumeAssumption
  <2>3. SizeInv'
    BY <1>1, <2>1 DEF SizeInv
  <2>4. QED
    BY <1>2, <2>1, <2>2, <2>3 DEF BoundsInv, Phases
<1>5. CASE DiskSteps
  <2>1. Places /\ (DiskImageSteps \/ UNCHANGED image)
    BY <1>1, <1>5, DiskPlaces
  <2>2. run'.command.program = "disk"
    BY <1>1, <1>5, DiskStep DEF Disk, Running
  <2>3. Bounded(image')
    BY <1>1, <2>1, PutBounded, RemoveBounded, PieceBounded, FinishBounded DEF DiskImageSteps
  <2>4. QED
    BY <1>1, <1>2, <2>1, <2>2, <2>3 DEF BoundsInv, SizeInv, Places
<1>6. CASE TextSteps
  <2>1. Places /\ UNCHANGED image
    BY <1>1, <1>6, TextPlaces
  <2>2. run'.command.program = "text"
    <3>1. TextInv
      BY <1>1 DEF IInv
    <3>2. run'.command = run.command /\ Text
      BY <1>1, <1>6, <3>1, CopyTextStep, FilterEndsStep, InSituStep, WriteTemporaryStep,
         RenameStep, RestoreStep, TextEndsStep DEF TextSteps
    <3>3. QED
      BY <3>2 DEF Text, Running
  <2>3. QED
    BY <1>1, <1>2, <2>1, <2>2 DEF BoundsInv, SizeInv, Places
<1>7. CASE Rt11Steps
  <2>1. Places /\ UNCHANGED image
    BY <1>1, <1>7, Rt11Places
  <2>2. run'.command.program = "rt11"
    <3>1. Rt11Inv
      BY <1>1 DEF IInv
    <3>2. run'.command = run.command /\ Rt11Runs
      BY <1>1, <1>7, <3>1, ReadDirectoryStep, ExtractStep, CopyBlockStep, ExtractEndsStep,
         Rt11EndsStep DEF Rt11Steps
    <3>3. QED
      BY <3>2 DEF Rt11Runs, Running
  <2>3. QED
    BY <1>1, <1>2, <2>1, <2>2 DEF BoundsInv, SizeInv, Places
<1>8. CASE MkfsSteps
  <2>1. Places /\ SizeInv'
    BY <1>1, <1>8, MkfsPlaces
  <2>2. QED
    BY <1>1, <1>2, <2>1 DEF BoundsInv, Places
<1>9. CASE Dies \/ Killed
  <2>1. Places /\ UNCHANGED image
    BY <1>1, <1>9, DiesPlace
  <2>2. \E how \in {"failed", "killed"} : Ends(how)
    BY <1>9 DEF Dies, Killed
  <2>3. run'.phase \in {"failed", "killed"}
    BY <1>1, <2>2, EndsIs
  <2>4. QED
    BY <1>1, <1>2, <2>1, <2>3 DEF BoundsInv, SizeInv, Places
<1>10. QED
  BY <1>3, <1>4, <1>5, <1>6, <1>7, <1>8, <1>9, NextIs

LEMMA ByteOf ==
    ASSUME NEW d \in Seq(Byte), NEW i \in DOMAIN d
    PROVE  d[i] \in Byte
OBVIOUS

-----------------------------------------------------------------------------
(* The theorems.                                                           *)

LEMMA CodecOf ==
    ASSUME NEW e
    PROVE  /\ Op = "put" => FileCodec(run.command, e.kind)
                               = IF IsText(e) THEN "encode" ELSE "none"
           /\ Op # "put" => FileCodec(run.command, e.kind)
                               = IF IsText(e) THEN "decode" ELSE "none"
BY DEF FileCodec, IsText, Op

LEMMA CompleteNow ==
    ASSUME IInv
    PROVE  SuccessIsComplete
<1>1. DiskInv
  BY DEF IInv
<1>2. ASSUME DiskDone("put"), NEW c \in DOMAIN run.done
      PROVE  /\ c \in DOMAIN image.entries
             /\ image.entries[c].data =
                   Through(IF IsText(image.entries[c]) THEN "encode" ELSE "none",
                           files[run.done[c]].data)
  <2>1. run.command.program = "disk" /\ Op = "put" /\ ~run.open
    BY <1>1, <1>2 DEF DiskDone, DiskInv
  <2>2. PutWhole(run.command, files, image, c, run.done[c])
    BY <1>1, <2>1 DEF DiskInv, PutsWhole, Again
  <2>3. FileCodec(run.command, image.entries[c].kind)
           = IF IsText(image.entries[c]) THEN "encode" ELSE "none"
    BY <2>1, CodecOf
  <2>4. QED
    BY <2>2, <2>3 DEF PutWhole
<1>3. ASSUME DiskDone("get"), NEW p \in DOMAIN run.done \ ToSet(Boot),
             NEW e, e = image.entries[run.done[p]]
      PROVE  /\ files[p].data = Through(IF IsText(e) THEN "decode" ELSE "none", e.data)
             /\ files[p].mtime = Date(e.date)
  <2>1. run.command.program = "disk" /\ Op = "get" /\ ~run.open
    BY <1>1, <1>3 DEF DiskDone, DiskInv
  <2>2. GetWhole(run.command, files, image, p, run.done[p])
    BY <1>1, <1>3, <2>1 DEF DiskInv, GetsWhole, Again, Boot
  <2>3. FileCodec(run.command, e.kind) = IF IsText(e) THEN "decode" ELSE "none"
    BY <2>1, CodecOf
  <2>4. QED
    BY <1>3, <2>2, <2>3 DEF GetWhole
<1>4. QED
  BY <1>2, <1>3 DEF SuccessIsComplete

LEMMA PrefixNow ==
    ASSUME IInv
    PROVE  CopyIsPrefix
<1>1. DiskInv /\ TextInv
  BY DEF IInv
<1>2. DiskCopyIsPrefix
  <2>1. ASSUME run.open, run.command.program = "disk", Op = "put", NEW e,
               e = image.entries[run.target]
        PROVE  IsPrefix(e.data, Through(IF IsText(e) THEN "encode" ELSE "none",
                                        files[run.source].data))
    <3>1. PutCopy(run, files, image)
      BY <1>1, <2>1 DEF DiskInv
    <3>2. Copying(run, e.data, FileCodec(run.command, e.kind), files[run.source].data, FALSE)
      BY <2>1, <3>1 DEF PutCopy
    <3>3. Sure(FileCodec(run.command, e.kind), files[run.source].data, FALSE)
      BY DEF Sure
    <3>4. IsPrefix(e.data, Through(FileCodec(run.command, e.kind), files[run.source].data))
      BY <3>2, <3>3, CopyingPrefix
    <3>5. QED
      BY <2>1, <3>4, CodecOf
  <2>2. ASSUME run.open, run.command.program = "disk", Op # "put", NEW e,
               e = image.entries[run.source]
        PROVE  IsPrefix(files[run.target].data,
                        Through(IF IsText(e) THEN "decode" ELSE "none", e.data))
    <3>1. GetCopy(run, files, image)
      BY <1>1, <2>2 DEF DiskInv
    <3>2. Copying(run, files[run.target].data, FileCodec(run.command, e.kind), e.data, FALSE)
      BY <2>2, <3>1 DEF GetCopy
    <3>3. Sure(FileCodec(run.command, e.kind), e.data, FALSE)
      BY DEF Sure
    <3>4. IsPrefix(files[run.target].data, Through(FileCodec(run.command, e.kind), e.data))
      BY <3>2, <3>3, CopyingPrefix
    <3>5. QED
      BY <2>2, <3>4, CodecOf
  <2>3. QED
    BY <2>1, <2>2 DEF DiskCopyIsPrefix
<1>3. FilterCopies
  <2> SUFFICES ASSUME run.command.program = "text", Filter(run.command),
                      NEW input, input = files[run.command.input].data,
                      NEW output, output = files[run.command.output].data,
                      run.command.op = "encode" \/ PlainHeader(input),
                      NEW whole, whole = Through(run.command.op, input)
               PROVE  IsPrefix(output, whole) /\ (run.phase = "ok" => output = whole)
    BY DEF FilterCopies
  <2>1. Filters(run, files)
    BY <1>1 DEF TextInv
  <2>2. Sure(run.command.op, input, TRUE)
    BY DEF Sure
  <2>3. CASE run.open
    <3>1. run.phase # "ok" /\ Translates(run, files)
      BY <1>1, <2>3 DEF TextInv
    <3>2. run.source = run.command.input /\ run.target = run.command.output
      BY <2>1, <2>3 DEF Filters
    <3>3. Copying(run, output, run.command.op, input, TRUE)
      <4>1. Filter(run.command) = TRUE
        BY DEF Filter
      <4>2. QED
        BY <3>1, <3>2, <4>1 DEF Translates
    <3>4. IsPrefix(output, Through(run.command.op, input))
      BY <2>2, <3>3, CopyingPrefix
    <3>5. QED
      BY <3>1, <3>4
  <2>4. CASE ~run.open
    <3>1. output = whole
      BY <2>1, <2>2, <2>4 DEF Filters
    <3>2. whole \in Seq(Byte)
      <4>1. run.command \in Commands \/ run.command = NoCommand
        BY DEF IInv, TypeInv, RunTyped
      <4>2. RunTyped /\ Typed(files)
        BY DEF IInv, TypeInv
      <4>3. run.command.op \in Codecs
        BY <4>2, TextIs
      <4>4. input \in Seq(Byte)
        BY <2>1, <4>2 DEF Filters, Typed, UnixFiles, Byte
      <4>5. QED
        BY <4>3, <4>4, ThroughType
    <3>3. IsPrefix(whole, whole)
      <4>1. Len(whole) \in Nat /\ SubSeq(whole, 1, Len(whole)) = whole
        BY <3>2
      <4>2. QED
        BY <3>2, <4>1 DEF IsPrefix
    <3>4. QED
      BY <3>1, <3>3
  <2>5. QED
    BY <2>3, <2>4
<1>4. QED
  BY <1>2, <1>3 DEF CopyIsPrefix

\* What a step of ucsdpsys_text does to the files there were.
Replaces ==
    Text /\ ~Filter(run.command) =>
       \A p \in DOMAIN files :
          \/ p = run.target /\ run.open
          \/ /\ p \in DOMAIN files'
             /\ \/ files'[p].data = files[p].data
                \/ /\ p = run.source
                   /\ files'[p].data = Through(run.command.op, files[p].data)

LEMMA ReplacesStep ==
    ASSUME IInv, [Next]_vars
    PROVE  Replaces
<1> SUFFICES ASSUME Text
             PROVE  Replaces
  BY DEF Replaces
<1>1. TypeInv /\ DiskInv /\ TextInv
  BY DEF IInv
<1>2. run.command.program = "text" /\ ~Idle
  BY DEF Text, Running
<1>3. CASE UNCHANGED files
  BY <1>3 DEF Replaces
<1>4. CASE TextSteps
  <2>1. CASE CopyPipe \/ FilterEnds \/ CopyText \/ Reset \/ TextEnds
    BY <1>1, <1>3, <2>1, CopyTextStep, FilterEndsStep, TextEndsStep
  <2>2. CASE InSitu \/ RestoreTimes
    <3>1. \A p \in DOMAIN files : p \in DOMAIN files' /\ files'[p].data = files[p].data
      BY <1>1, <2>2, InSituStep, RestoreStep
    <3>2. QED
      BY <3>1 DEF Replaces
  <2>3. CASE WriteTemporary
    <3>1. run.open /\ SameBut(files, files', {run.target})
      BY <1>1, <2>3, WriteTemporaryStep
    <3>2. QED
      BY <3>1 DEF Replaces, SameBut
  <2>4. CASE RenameOver
    <3>1. /\ run.open /\ run.source # run.target
          /\ DOMAIN files' = DOMAIN files \ {run.target}
          /\ SameBut(files, files', {run.target, run.source})
          /\ files'[run.source].data = Through(run.command.op, files[run.source].data)
      BY <1>1, <2>4, RenameStep
    <3>2. QED
      BY <3>1 DEF Replaces, SameBut
  <2>5. QED
    BY <1>4, <2>1, <2>2, <2>3, <2>4 DEF TextSteps
<1>5. CASE ~Idle /\ (Dies \/ Killed)
  BY <1>3, <1>5, AllDie
<1>6. ~Starts
  BY <1>2 DEF Starts, Start, CheckSystem, StartText, StartFilter, StartRt11, StartMkfs
<1>7. ~DiskSteps /\ ~Rt11Steps /\ ~MkfsSteps
  <2>1. ~Disk /\ ~Rt11Runs /\ ~Mkfs
    BY <1>2 DEF Disk, Rt11Runs, Mkfs, Running
  <2>2. QED
    BY <2>1, DiskSteps1, Rt11Steps1, MkfsSteps1
<1>8. CASE UNCHANGED vars
  BY <1>3, <1>8 DEF vars
<1>9. QED
  BY <1>4, <1>5, <1>6, <1>7, <1>8, NextIs

\* Success of put or get means that every file is there as a whole: nothing was
\* left in a buffer, no chunk was taken twice, and no file that was done before
\* was touched again (ucsdpsys_disk/main.cc:77-113, 152-205, 495-540).
THEOREM Completes == Spec => []SuccessIsComplete
<1>1. IInv => SuccessIsComplete
  BY CompleteNow
<1>2. QED
  BY <1>1, Inductive, PTL

\* Wherever a copy stops - a kill, a full volume, the end of a pipe in the middle
\* of a page - what was written is the beginning of what it would have become
\* (output/psystem.cc:30-117, output/file.cc:61-74, ucsdpsys_text/main.cc:121-136).
THEOREM CopiesArePrefixes == Spec => []CopyIsPrefix
<1>1. IInv => CopyIsPrefix
  BY PrefixNow
<1>2. QED
  BY <1>1, Inductive, PTL

\* When all files of an RT-11 disk were extracted, each permanent one is there
\* with the contents of its own blocks (ucsdpsys_rt11/main.cc:334-431, 552-565).
THEOREM Extractions == Spec => []PermanentFilesExtracted
<1>1. IInv => PermanentFilesExtracted
  BY AllExtracted DEF IInv
<1>2. QED
  BY <1>1, Inductive, PTL

\* A file that is translated in its place is the old text until it is the whole new
\* one, and no other file is touched, temporary ones that a killed run left
\* included (ucsdpsys_text/main.cc:57-118).
THEOREM Replacements == Spec => ReplacedAsAWhole
<1>1. IInv /\ [Next]_vars => [Replaces]_vars
  BY ReplacesStep
<1>2. QED
  BY <1>1, Inductive, PTL DEF Spec, ReplacedAsAWhole, Replaces

\* The type of every variable, and of a volume that it is within its bounds: names
\* are cut as an entry holds them, no more entries are made than there is room for,
\* and a write that would need more blocks than there are is refused, whatever
\* program made the volume or stopped in the middle of a file
\* (ucsdpsys_disk/main.cc:152-205, output/psystem.cc:100-117, ucsdpsys_mkfs/main.cc).
THEOREM TypeCorrect == Spec => []TypeOK
<1>1. BoundsInv => TypeOK
  <2> SUFFICES ASSUME BoundsInv
               PROVE  TypeOK
    OBVIOUS
  <2>1. /\ Bounded(image) /\ run.phase \in Phases /\ ran \in 0 .. MaxRuns /\ TypeInv
    BY DEF BoundsInv, SizeInv, IInv
  <2>2. \A p \in DOMAIN files : \A i \in DOMAIN files[p].data : files[p].data[i] \in 0 .. 255
    <3> SUFFICES ASSUME NEW p \in DOMAIN files, NEW i \in DOMAIN files[p].data
                 PROVE  files[p].data[i] \in 0 .. 255
      OBVIOUS
    <3>1. files[p].data \in Seq(Byte)
      BY <2>1 DEF TypeInv, Typed, UnixFiles, Byte
    <3>2. QED
      BY <3>1, ByteOf DEF Byte
  <2>3. \A c \in DOMAIN image.entries :
           /\ c[1] \in LongStems => c[2] = ""
           /\ image.entries[c].kind \in DOMAIN KindNumber
           /\ image.entries[c].date.year \in 0 .. 99
    <3>1. \A c \in DOMAIN image.entries : c[1] \in LongStems => c[2] = ""
      BY <2>1 DEF Bounded
    <3>2. \A c \in DOMAIN image.entries :
             /\ image.entries[c].kind \in DOMAIN KindNumber
             /\ image.entries[c].date.year \in 0 .. 99
      BY <2>1 DEF TypeInv, ImageTyped, ImageIs, VolumeFiles, Words
    <3>3. QED
      BY <3>1, <3>2, Zenon
  <2>4. Disk => /\ DOMAIN memory = DOMAIN image.entries
                /\ \A c \in DOMAIN memory : memory[c].data = image.entries[c].data
    BY <2>1 DEF TypeInv, Mirrors
  <2>5. /\ Cardinality(DOMAIN image.entries) <= MaxEntries
        /\ image.formatted => UsedBy(image.entries) <= Space(image)
    BY <2>1 DEF Bounded
  <2>6. QED
    BY <2>1, <2>2, <2>3, <2>4, <2>5, Zenon DEF TypeOK
<1>2. Init => BoundsInv
  BY BoundsInit
<1>3. BoundsInv /\ [Next]_vars => BoundsInv'
  BY BoundsStep
<1>4. QED
  BY <1>1, <1>2, <1>3, PTL DEF Spec

=============================================================================
