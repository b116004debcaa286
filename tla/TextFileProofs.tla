--------------------------- MODULE TextFileProofs ---------------------------
(***************************************************************************)
(* Text that is translated on the fly, for every size of a page, of a tab  *)
(* and of a code of blanks, every text and every number of calls: what is  *)
(* written is read back as the text it was, but for the blanks that a text *)
(* file has no room for; a file that is read and written back keeps every  *)
(* byte; and its pages are whole.                                          *)
(*                                                                         *)
(* The encoder and the decoder are folds, which are taken character by     *)
(* character (EncodedSteps, DecodedSteps).  The state of the encoder       *)
(* behind a text depends on its last line alone (EncodedIs), so that the   *)
(* file is made line by line (OutSteps), as is what is kept of the text    *)
(* (DoneAppend).  A line is read back as what is kept of it (DecodeLine),  *)
(* what is kept of a line is written as the line is (KeptCode), and no     *)
(* line crosses the end of a page (PutPaged).                              *)
(***************************************************************************)
EXTENDS TextFile, SequenceTheorems, WellFoundedInduction, TLAPS

\* A set of numbers that is not empty has a least one.
LEMMA LeastNumber ==
    ASSUME NEW S, S \subseteq Nat, S # {}
    PROVE  \E m \in S : \A k \in S : m <= k
<1> DEFINE R == OpToRel(<, Nat)
<1>1. IsWellFoundedOn(R, Nat)
  BY NatLessThanWellFounded
<1>2. \A m, k \in Nat : k < m => <<k, m>> \in R
  BY DEF OpToRel
<1> HIDE DEF R
<1>3. PICK m \in S : \A k \in S : ~ (<<k, m>> \in R)
  BY <1>1, WFMin
<1>4. \A k \in S : ~ (k < m) /\ k \in Nat /\ m \in Nat
  BY <1>2, <1>3
<1>5. QED
  BY <1>4

\* A set that holds 0, and k + 1 with every k below n, holds every number up to n.
LEMMA InductionUpTo ==
    ASSUME NEW S, NEW n \in Nat, 0 \in S,
           \A k \in 0 .. n - 1 : k \in S => k + 1 \in S
    PROVE  \A k \in 0 .. n : k \in S
<1> SUFFICES ASSUME NEW k \in 0 .. n, k \notin S PROVE FALSE
  OBVIOUS
<1> DEFINE B == {m \in 0 .. n : m \notin S}
<1>1. PICK m \in B : \A l \in B : m <= l
  <2>1. B \subseteq Nat /\ B # {}
    OBVIOUS
  <2> HIDE DEF B
  <2>2. QED
    BY <2>1, LeastNumber
<1>2. m # 0 /\ m - 1 \in 0 .. n - 1 /\ m - 1 \in S
  BY <1>1
<1>3. QED
  BY <1>1, <1>2

\* The beginning of a sequence grows by one element at a time.
LEMMA Prefix ==
    ASSUME NEW A, NEW t \in Seq(A), NEW m \in 0 .. Len(t) - 1
    PROVE  /\ SubSeq(t, 1, m) \in Seq(A) /\ Len(SubSeq(t, 1, m)) = m
           /\ t[m + 1] \in A
           /\ SubSeq(t, 1, m + 1) = Append(SubSeq(t, 1, m), t[m + 1])
<1>1. /\ SubSeq(t, 1, m) \in Seq(A) /\ Len(SubSeq(t, 1, m)) = m /\ t[m + 1] \in A
      /\ SubSeq(t, 1, m + 1) \in Seq(A) /\ Len(SubSeq(t, 1, m + 1)) = m + 1
  OBVIOUS
<1>2. \A i \in 1 .. m + 1 : SubSeq(t, 1, m + 1)[i] = Append(SubSeq(t, 1, m), t[m + 1])[i]
  BY <1>1
<1>3. QED
  BY <1>1, <1>2, SeqEqual, AppendProperties

\* A set that holds the empty sequence, and with each sequence all that are one
\* element longer, holds every sequence.
LEMMA SequenceInduction ==
    ASSUME NEW A, NEW P, <<>> \in P,
           \A t \in Seq(A), c \in A : t \in P => Append(t, c) \in P
    PROVE  \A t \in Seq(A) : t \in P
<1> SUFFICES ASSUME NEW t \in Seq(A) PROVE t \in P
  OBVIOUS
<1> DEFINE S == {m \in 0 .. Len(t) : SubSeq(t, 1, m) \in P}
<1>1. 0 \in S
  <2>1. SubSeq(t, 1, 0) = <<>>
    BY SubSeqEmpty
  <2>2. 0 \in 0 .. Len(t)
    OBVIOUS
  <2>3. QED
    BY <2>1, <2>2
<1>2. \A m \in 0 .. Len(t) - 1 : m \in S => m + 1 \in S
  <2> SUFFICES ASSUME NEW m \in 0 .. Len(t) - 1, SubSeq(t, 1, m) \in P
               PROVE  SubSeq(t, 1, m + 1) \in P
    OBVIOUS
  <2>1. /\ SubSeq(t, 1, m) \in Seq(A) /\ t[m + 1] \in A
        /\ SubSeq(t, 1, m + 1) = Append(SubSeq(t, 1, m), t[m + 1])
    BY Prefix
  <2>2. QED
    BY <2>1
<1>3. Len(t) \in Nat /\ Len(t) \in 0 .. Len(t)
  OBVIOUS
<1> HIDE DEF S
<1>4. Len(t) \in S
  BY <1>1, <1>2, <1>3, InductionUpTo
<1>5. QED
  BY <1>4, SubSeqFull DEF S

-----------------------------------------------------------------------------
(* The fold over a text, character by character.                           *)

\* The fold takes the elements from the greatest down.
LEMMA GreatestIsMax ==
    ASSUME NEW m \in Nat, NEW S \in SUBSET (1 .. m), m \in S
    PROVE  Max(S) = m
<1> DEFINE Greatest(x) == x \in S /\ \A y \in S : x >= y
<1>1. Greatest(m)
  OBVIOUS
<1>2. \A x : Greatest(x) => x = m
  OBVIOUS
<1>3. Max(S) = CHOOSE x : Greatest(x)
  BY DEF Max
<1> HIDE DEF Greatest
<1>4. QED
  BY <1>1, <1>2, <1>3

\* The function that the fold of the encoder is defined by.
IsEncodeFold(f, s, t, m) ==
    f = [S \in SUBSET (1 .. m) |->
            IF S = {} THEN s
            ELSE EncodeCharacter(f[S \ {Max(S)}], t[Max(S)])]

LEMMA EncodeFoldExists ==
    ASSUME NEW s, NEW t, NEW n \in Nat
    PROVE  \E f : IsEncodeFold(f, s, t, n)
<1> DEFINE N == {m \in Nat : \E f : IsEncodeFold(f, s, t, m)}
<1>1. 0 \in N
  <2> DEFINE g == [S \in SUBSET (1 .. 0) |-> s]
  <2>1. \A S \in SUBSET (1 .. 0) : S = {}
    OBVIOUS
  <2>2. g = [S \in SUBSET (1 .. 0) |->
                IF S = {} THEN s ELSE EncodeCharacter(g[S \ {Max(S)}], t[Max(S)])]
    BY <2>1
  <2>3. QED
    BY <2>2 DEF IsEncodeFold
<1>2. \A m \in 0 .. n - 1 : m \in N => m + 1 \in N
  <2> SUFFICES ASSUME NEW m \in 0 .. n - 1, NEW f, IsEncodeFold(f, s, t, m)
               PROVE  \E g : IsEncodeFold(g, s, t, m + 1)
    OBVIOUS
  <2> DEFINE g == [S \in SUBSET (1 .. m + 1) |->
                      IF m + 1 \in S THEN EncodeCharacter(f[S \ {m + 1}], t[m + 1])
                      ELSE f[S]]
             Folded(S) == IF S = {} THEN s
                        ELSE EncodeCharacter(g[S \ {Max(S)}], t[Max(S)])
  <2>1. ASSUME NEW S \in SUBSET (1 .. m + 1)
        PROVE  g[S] = Folded(S)
    <3>1. CASE m + 1 \in S
      <4>1. Max(S) = m + 1
        BY <3>1, GreatestIsMax
      <4>2. S \ {m + 1} \in SUBSET (1 .. m + 1) /\ m + 1 \notin S \ {m + 1}
        OBVIOUS
      <4>3. g[S \ {m + 1}] = f[S \ {m + 1}]
        BY <4>2
      <4>4. g[S] = EncodeCharacter(f[S \ {m + 1}], t[m + 1])
        BY <3>1
      <4> HIDE DEF g
      <4>5. S # {}
        BY <3>1
      <4>6. QED
        BY <4>1, <4>3, <4>4, <4>5
    <3>2. CASE m + 1 \notin S
      <4>1. S \in SUBSET (1 .. m)
        BY <3>2
      <4>2. g[S] = f[S]
        BY <3>2
      <4>3. f[S] = IF S = {} THEN s ELSE EncodeCharacter(f[S \ {Max(S)}], t[Max(S)])
        BY <4>1 DEF IsEncodeFold
      <4>4. /\ S \ {Max(S)} \in SUBSET (1 .. m + 1)
            /\ m + 1 \notin S \ {Max(S)}
        BY <3>2, Zenon
      <4>5. g[S \ {Max(S)}] = f[S \ {Max(S)}]
        BY <4>4
      <4> HIDE DEF g
      <4>6. QED
        BY <4>2, <4>3, <4>5
    <3>3. QED
      BY <3>1, <3>2
  <2>2. g = [S \in SUBSET (1 .. m + 1) |-> g[S]]
    OBVIOUS
  <2> HIDE DEF g
  <2>3. g = [S \in SUBSET (1 .. m + 1) |-> Folded(S)]
    BY <2>1, <2>2
  <2>4. QED
    BY <2>3 DEF IsEncodeFold
<1> HIDE DEF N
<1>3. n \in N
  BY <1>1, <1>2, InductionUpTo
<1>4. QED
  BY <1>3 DEF N

LEMMA EncodeFoldIs ==
    ASSUME NEW s, NEW t \in Seq(0 .. 255)
    PROVE  \E f : /\ IsEncodeFold(f, s, t, Len(t))
                  /\ FoldLeft(EncodeCharacter, s, t) = f[1 .. Len(t)]
<1>1. DOMAIN t = 1 .. Len(t)
  OBVIOUS
<1>2. FoldLeft(EncodeCharacter, s, t)
        = (CHOOSE f : IsEncodeFold(f, s, t, Len(t)))[1 .. Len(t)]
  BY <1>1, Zenon DEF FoldLeft, MapThenFoldSet, IsEncodeFold
<1>3. PICK g : IsEncodeFold(g, s, t, Len(t))
  <2>1. Len(t) \in Nat
    OBVIOUS
  <2>2. QED
    BY <2>1, EncodeFoldExists
<1>4. QED
  BY <1>2, <1>3

LEMMA EncodeFoldEmpty ==
    ASSUME NEW s
    PROVE  FoldLeft(EncodeCharacter, s, <<>>) = s
<1>1. <<>> \in Seq(0 .. 255) /\ Len(<<>>) = 0 /\ 1 .. 0 = {}
  OBVIOUS
<1>2. PICK f : IsEncodeFold(f, s, <<>>, 0) /\ FoldLeft(EncodeCharacter, s, <<>>) = f[1 .. 0]
  BY <1>1, EncodeFoldIs
<1>3. f[{}] = s
  BY <1>2 DEF IsEncodeFold
<1>4. QED
  BY <1>1, <1>2, <1>3

LEMMA EncodeFoldAppend ==
    ASSUME NEW s, NEW t \in Seq(0 .. 255), NEW c \in 0 .. 255
    PROVE  FoldLeft(EncodeCharacter, s, Append(t, c))
             = EncodeCharacter(FoldLeft(EncodeCharacter, s, t), c)
<1> DEFINE u == Append(t, c)
           n == Len(t)
<1>1. /\ u \in Seq(0 .. 255) /\ Len(u) = n + 1 /\ n \in Nat /\ u[n + 1] = c
      /\ \A i \in 1 .. n : u[i] = t[i]
  OBVIOUS
<1>2. PICK f : IsEncodeFold(f, s, t, n) /\ FoldLeft(EncodeCharacter, s, t) = f[1 .. n]
  BY EncodeFoldIs
<1>3. PICK g : /\ IsEncodeFold(g, s, u, n + 1)
               /\ FoldLeft(EncodeCharacter, s, u) = g[1 .. n + 1]
  <2> HIDE DEF u, n
  <2>1. \E g : /\ IsEncodeFold(g, s, u, Len(u))
              /\ FoldLeft(EncodeCharacter, s, u) = g[1 .. Len(u)]
    BY <1>1, EncodeFoldIs
  <2>2. QED
    BY <1>1, <2>1
<1> DEFINE N == {m \in 0 .. n : f[1 .. m] = g[1 .. m]}
<1> HIDE DEF u, n
<1>4. 0 \in N
  <2>1. 1 .. 0 = {} /\ {} \in SUBSET (1 .. n) /\ {} \in SUBSET (1 .. n + 1)
    OBVIOUS
  <2>2. f[{}] = s /\ g[{}] = s
    BY <1>2, <1>3, <2>1 DEF IsEncodeFold
  <2>3. QED
    BY <1>1, <2>1, <2>2
<1>5. \A m \in 0 .. n - 1 : m \in N => m + 1 \in N
  <2> SUFFICES ASSUME NEW m \in 0 .. n - 1, f[1 .. m] = g[1 .. m]
               PROVE  f[1 .. m + 1] = g[1 .. m + 1]
    BY <1>1
  <2>1. /\ m + 1 \in 1 .. m + 1 /\ m + 1 \in 1 .. n
        /\ \A i \in 1 .. m + 1 : i \in 1 .. n /\ i \in 1 .. n + 1
        /\ 1 .. m + 1 # {} /\ 1 .. m + 1 \in SUBSET (1 .. n)
        /\ 1 .. m + 1 \in SUBSET (1 .. n + 1)
    <3>1. n \in Nat /\ m \in Nat /\ m < n
      BY <1>1
    <3>2. m + 1 \in 1 .. m + 1 /\ m + 1 \in 1 .. n
      BY <3>1
    <3>3. \A i \in 1 .. m + 1 : i \in 1 .. n /\ i \in 1 .. n + 1
      BY <3>1
    <3>4. QED
      BY <3>2, <3>3, Zenon
  <2>2. Max(1 .. m + 1) = m + 1
    BY <1>1, GreatestIsMax
  <2>3. (1 .. m + 1) \ {m + 1} = 1 .. m
    BY <1>1
  <2>4. f[1 .. m + 1] = EncodeCharacter(f[1 .. m], t[m + 1])
    BY <1>2, <2>1, <2>2, <2>3 DEF IsEncodeFold
  <2>5. g[1 .. m + 1] = EncodeCharacter(g[1 .. m], u[m + 1])
    BY <1>3, <2>1, <2>2, <2>3 DEF IsEncodeFold
  <2>6. QED
    BY <1>1, <2>1, <2>4, <2>5
<1>6. n \in N
  <2>1. n \in 0 .. n
    BY <1>1
  <2> HIDE DEF N
  <2>2. QED
    BY <1>1, <1>4, <1>5, <2>1, InductionUpTo
<1>7. g[1 .. n + 1] = EncodeCharacter(g[1 .. n], u[n + 1])
  <2>1. n + 1 \in 1 .. n + 1
    BY <1>1
  <2>2. Max(1 .. n + 1) = n + 1
    BY <1>1, GreatestIsMax
  <2>3. (1 .. n + 1) \ {n + 1} = 1 .. n
    BY <1>1
  <2>4. 1 .. n + 1 # {} /\ 1 .. n + 1 \in SUBSET (1 .. n + 1)
    BY <2>1, Zenon
  <2>5. QED
    BY <1>3, <2>2, <2>3, <2>4 DEF IsEncodeFold
<1>8. QED
  BY <1>1, <1>2, <1>3, <1>6, <1>7 DEF u

\* The same of the decoder.
IsDecodeFold(f, s, t, m) ==
    f = [S \in SUBSET (1 .. m) |->
            IF S = {} THEN s
            ELSE DecodeCharacter(f[S \ {Max(S)}], t[Max(S)])]

LEMMA DecodeFoldExists ==
    ASSUME NEW s, NEW t, NEW n \in Nat
    PROVE  \E f : IsDecodeFold(f, s, t, n)
<1> DEFINE N == {m \in Nat : \E f : IsDecodeFold(f, s, t, m)}
<1>1. 0 \in N
  <2> DEFINE g == [S \in SUBSET (1 .. 0) |-> s]
  <2>1. \A S \in SUBSET (1 .. 0) : S = {}
    OBVIOUS
  <2>2. g = [S \in SUBSET (1 .. 0) |->
                IF S = {} THEN s ELSE DecodeCharacter(g[S \ {Max(S)}], t[Max(S)])]
    BY <2>1
  <2>3. QED
    BY <2>2 DEF IsDecodeFold
<1>2. \A m \in 0 .. n - 1 : m \in N => m + 1 \in N
  <2> SUFFICES ASSUME NEW m \in 0 .. n - 1, NEW f, IsDecodeFold(f, s, t, m)
               PROVE  \E g : IsDecodeFold(g, s, t, m + 1)
    OBVIOUS
  <2> DEFINE g == [S \in SUBSET (1 .. m + 1) |->
                      IF m + 1 \in S THEN DecodeCharacter(f[S \ {m + 1}], t[m + 1])
                      ELSE f[S]]
             Folded(S) == IF S = {} THEN s
                        ELSE DecodeCharacter(g[S \ {Max(S)}], t[Max(S)])
  <2>1. ASSUME NEW S \in SUBSET (1 .. m + 1)
        PROVE  g[S] = Folded(S)
    <3>1. CASE m + 1 \in S
      <4>1. Max(S) = m + 1
        BY <3>1, GreatestIsMax
      <4>2. S \ {m + 1} \in SUBSET (1 .. m + 1) /\ m + 1 \notin S \ {m + 1}
        OBVIOUS
      <4>3. g[S \ {m + 1}] = f[S \ {m + 1}]
        BY <4>2
      <4>4. g[S] = DecodeCharacter(f[S \ {m + 1}], t[m + 1])
        BY <3>1
      <4> HIDE DEF g
      <4>5. S # {}
        BY <3>1
      <4>6. QED
        BY <4>1, <4>3, <4>4, <4>5
    <3>2. CASE m + 1 \notin S
      <4>1. S \in SUBSET (1 .. m)
        BY <3>2
      <4>2. g[S] = f[S]
        BY <3>2
      <4>3. f[S] = IF S = {} THEN s ELSE DecodeCharacter(f[S \ {Max(S)}], t[Max(S)])
        BY <4>1 DEF IsDecodeFold
      <4>4. /\ S \ {Max(S)} \in SUBSET (1 .. m + 1)
            /\ m + 1 \notin S \ {Max(S)}
        BY <3>2, Zenon
      <4>5. g[S \ {Max(S)}] = f[S \ {Max(S)}]
        BY <4>4
      <4> HIDE DEF g
      <4>6. QED
        BY <4>2, <4>3, <4>5
    <3>3. QED
      BY <3>1, <3>2
  <2>2. g = [S \in SUBSET (1 .. m + 1) |-> g[S]]
    OBVIOUS
  <2> HIDE DEF g
  <2>3. g = [S \in SUBSET (1 .. m + 1) |-> Folded(S)]
    BY <2>1, <2>2
  <2>4. QED
    BY <2>3 DEF IsDecodeFold
<1> HIDE DEF N
<1>3. n \in N
  BY <1>1, <1>2, InductionUpTo
<1>4. QED
  BY <1>3 DEF N

LEMMA DecodeFoldIs ==
    ASSUME NEW s, NEW t \in Seq(0 .. 255)
    PROVE  \E f : /\ IsDecodeFold(f, s, t, Len(t))
                  /\ FoldLeft(DecodeCharacter, s, t) = f[1 .. Len(t)]
<1>1. DOMAIN t = 1 .. Len(t)
  OBVIOUS
<1>2. FoldLeft(DecodeCharacter, s, t)
        = (CHOOSE f : IsDecodeFold(f, s, t, Len(t)))[1 .. Len(t)]
  BY <1>1, Zenon DEF FoldLeft, MapThenFoldSet, IsDecodeFold
<1>3. PICK g : IsDecodeFold(g, s, t, Len(t))
  <2>1. Len(t) \in Nat
    OBVIOUS
  <2>2. QED
    BY <2>1, DecodeFoldExists
<1>4. QED
  BY <1>2, <1>3

LEMMA DecodeFoldEmpty ==
    ASSUME NEW s
    PROVE  FoldLeft(DecodeCharacter, s, <<>>) = s
<1>1. <<>> \in Seq(0 .. 255) /\ Len(<<>>) = 0 /\ 1 .. 0 = {}
  OBVIOUS
<1>2. PICK f : IsDecodeFold(f, s, <<>>, 0) /\ FoldLeft(DecodeCharacter, s, <<>>) = f[1 .. 0]
  BY <1>1, DecodeFoldIs
<1>3. f[{}] = s
  BY <1>2 DEF IsDecodeFold
<1>4. QED
  BY <1>1, <1>2, <1>3

LEMMA DecodeFoldAppend ==
    ASSUME NEW s, NEW t \in Seq(0 .. 255), NEW c \in 0 .. 255
    PROVE  FoldLeft(DecodeCharacter, s, Append(t, c))
             = DecodeCharacter(FoldLeft(DecodeCharacter, s, t), c)
<1> DEFINE u == Append(t, c)
           n == Len(t)
<1>1. /\ u \in Seq(0 .. 255) /\ Len(u) = n + 1 /\ n \in Nat /\ u[n + 1] = c
      /\ \A i \in 1 .. n : u[i] = t[i]
  OBVIOUS
<1>2. PICK f : IsDecodeFold(f, s, t, n) /\ FoldLeft(DecodeCharacter, s, t) = f[1 .. n]
  BY DecodeFoldIs
<1>3. PICK g : /\ IsDecodeFold(g, s, u, n + 1)
               /\ FoldLeft(DecodeCharacter, s, u) = g[1 .. n + 1]
  <2> HIDE DEF u, n
  <2>1. \E g : /\ IsDecodeFold(g, s, u, Len(u))
              /\ FoldLeft(DecodeCharacter, s, u) = g[1 .. Len(u)]
    BY <1>1, DecodeFoldIs
  <2>2. QED
    BY <1>1, <2>1
<1> DEFINE N == {m \in 0 .. n : f[1 .. m] = g[1 .. m]}
<1> HIDE DEF u, n
<1>4. 0 \in N
  <2>1. 1 .. 0 = {} /\ {} \in SUBSET (1 .. n) /\ {} \in SUBSET (1 .. n + 1)
    OBVIOUS
  <2>2. f[{}] = s /\ g[{}] = s
    BY <1>2, <1>3, <2>1 DEF IsDecodeFold
  <2>3. QED
    BY <1>1, <2>1, <2>2
<1>5. \A m \in 0 .. n - 1 : m \in N => m + 1 \in N
  <2> SUFFICES ASSUME NEW m \in 0 .. n - 1, f[1 .. m] = g[1 .. m]
               PROVE  f[1 .. m + 1] = g[1 .. m + 1]
    BY <1>1
  <2>1. /\ m + 1 \in 1 .. m + 1 /\ m + 1 \in 1 .. n
        /\ \A i \in 1 .. m + 1 : i \in 1 .. n /\ i \in 1 .. n + 1
        /\ 1 .. m + 1 # {} /\ 1 .. m + 1 \in SUBSET (1 .. n)
        /\ 1 .. m + 1 \in SUBSET (1 .. n + 1)
    <3>1. n \in Nat /\ m \in Nat /\ m < n
      BY <1>1
    <3>2. m + 1 \in 1 .. m + 1 /\ m + 1 \in 1 .. n
      BY <3>1
    <3>3. \A i \in 1 .. m + 1 : i \in 1 .. n /\ i \in 1 .. n + 1
      BY <3>1
    <3>4. QED
      BY <3>2, <3>3, Zenon
  <2>2. Max(1 .. m + 1) = m + 1
    BY <1>1, GreatestIsMax
  <2>3. (1 .. m + 1) \ {m + 1} = 1 .. m
    BY <1>1
  <2>4. f[1 .. m + 1] = DecodeCharacter(f[1 .. m], t[m + 1])
    BY <1>2, <2>1, <2>2, <2>3 DEF IsDecodeFold
  <2>5. g[1 .. m + 1] = DecodeCharacter(g[1 .. m], u[m + 1])
    BY <1>3, <2>1, <2>2, <2>3 DEF IsDecodeFold
  <2>6. QED
    BY <1>1, <2>1, <2>4, <2>5
<1>6. n \in N
  <2>1. n \in 0 .. n
    BY <1>1
  <2> HIDE DEF N
  <2>2. QED
    BY <1>1, <1>4, <1>5, <2>1, InductionUpTo
<1>7. g[1 .. n + 1] = DecodeCharacter(g[1 .. n], u[n + 1])
  <2>1. n + 1 \in 1 .. n + 1
    BY <1>1
  <2>2. Max(1 .. n + 1) = n + 1
    BY <1>1, GreatestIsMax
  <2>3. (1 .. n + 1) \ {n + 1} = 1 .. n
    BY <1>1
  <2>4. 1 .. n + 1 # {} /\ 1 .. n + 1 \in SUBSET (1 .. n + 1)
    BY <2>1, Zenon
  <2>5. QED
    BY <1>3, <2>2, <2>3, <2>4 DEF IsDecodeFold
<1>8. QED
  BY <1>1, <1>2, <1>3, <1>6, <1>7 DEF u

-----------------------------------------------------------------------------
(* Sequences of sequences, one behind the other.                           *)

\* The function that FlattenSeq is defined by.
IsFlat(f, ss, m) == f = [i \in 1 .. m |-> IF i = 1 THEN ss[i] ELSE f[i - 1] \o ss[i]]

LEMMA FlatExists ==
    ASSUME NEW ss, NEW n \in Nat
    PROVE  \E f : IsFlat(f, ss, n)
<1> DEFINE N == {m \in Nat : \E f : IsFlat(f, ss, m)}
<1>1. 0 \in N
  <2>1. IsFlat([i \in 1 .. 0 |-> <<>>], ss, 0)
    BY DEF IsFlat
  <2>2. QED
    BY <2>1
<1>2. \A m \in 0 .. n - 1 : m \in N => m + 1 \in N
  <2> SUFFICES ASSUME NEW m \in 0 .. n - 1, NEW f, IsFlat(f, ss, m)
               PROVE  \E g : IsFlat(g, ss, m + 1)
    OBVIOUS
  <2> DEFINE g == [i \in 1 .. m + 1 |-> IF i = 1 THEN ss[i] ELSE f[i - 1] \o ss[i]]
  <2>1. \A i \in 1 .. m : f[i] = IF i = 1 THEN ss[i] ELSE f[i - 1] \o ss[i]
    BY DEF IsFlat
  <2>2. \A i \in 1 .. m : g[i] = f[i]
    BY <2>1
  <2>3. \A i \in 1 .. m + 1 : i # 1 => i - 1 \in 1 .. m
    OBVIOUS
  <2>4. \A i \in 1 .. m + 1 : g[i] = IF i = 1 THEN ss[i] ELSE g[i - 1] \o ss[i]
    BY <2>2, <2>3
  <2>5. g = [i \in 1 .. m + 1 |-> g[i]]
    OBVIOUS
  <2> HIDE DEF g
  <2>6. IsFlat(g, ss, m + 1)
    BY <2>4, <2>5 DEF IsFlat
  <2>7. QED
    BY <2>6
<1> HIDE DEF N
<1>3. n \in N
  BY <1>1, <1>2, InductionUpTo
<1>4. QED
  BY <1>3 DEF N

LEMMA FlattenIs ==
    ASSUME NEW A, NEW ss \in Seq(A)
    PROVE  \E f : /\ IsFlat(f, ss, Len(ss))
                  /\ FlattenSeq(ss) = IF Len(ss) = 0 THEN <<>> ELSE f[Len(ss)]
<1>1. FlattenSeq(ss) = IF Len(ss) = 0 THEN ss
                       ELSE (CHOOSE f : IsFlat(f, ss, Len(ss)))[Len(ss)]
  BY Zenon DEF FlattenSeq, IsFlat
<1>2. Len(ss) \in Nat /\ (Len(ss) = 0 => ss = <<>>)
  OBVIOUS
<1>3. PICK f : IsFlat(f, ss, Len(ss))
  BY <1>2, FlatExists
<1>4. QED
  BY <1>1, <1>2, <1>3

LEMMA FlatAt ==
    ASSUME NEW f, NEW ss, NEW n \in Nat, IsFlat(f, ss, n), NEW m \in 0 .. n - 1
    PROVE  f[m + 1] = IF m = 0 THEN ss[1] ELSE f[m] \o ss[m + 1]
<1>1. m + 1 \in 1 .. n /\ m + 1 - 1 = m /\ (m + 1 = 1 <=> m = 0)
  OBVIOUS
<1>2. \A i \in 1 .. n : f[i] = IF i = 1 THEN ss[i] ELSE f[i - 1] \o ss[i]
  BY DEF IsFlat
<1>3. f[m + 1] = IF m + 1 = 1 THEN ss[m + 1] ELSE f[m + 1 - 1] \o ss[m + 1]
  BY <1>1, <1>2
<1>4. QED
  BY <1>1, <1>3

LEMMA FlattenEmpty == FlattenSeq(<<>>) = <<>>
BY DEF FlattenSeq

LEMMA FlatType ==
    ASSUME NEW A, NEW ss \in Seq(Seq(A)), NEW f, IsFlat(f, ss, Len(ss)),
           NEW i \in 1 .. Len(ss)
    PROVE  f[i] \in Seq(A)
<1>1. PICK n \in Nat : n = Len(ss)
  OBVIOUS
<1> DEFINE N == {m \in 0 .. n : m > 0 => f[m] \in Seq(A)}
<1>2. 0 \in N
  OBVIOUS
<1>3. \A m \in 0 .. n - 1 : m \in N => m + 1 \in N
  <2> SUFFICES ASSUME NEW m \in 0 .. n - 1, m > 0 => f[m] \in Seq(A)
               PROVE  f[m + 1] \in Seq(A)
    BY <1>1
  <2>1. ss[m + 1] \in Seq(A)
    BY <1>1
  <2>2. f[m + 1] = IF m = 0 THEN ss[1] ELSE f[m] \o ss[m + 1]
    BY <1>1, FlatAt
  <2>3. QED
    BY <2>1, <2>2
<1> HIDE DEF N
<1>4. \A m \in 0 .. n : m \in N
  BY <1>1, <1>2, <1>3, InductionUpTo
<1>5. QED
  BY <1>1, <1>4 DEF N

LEMMA FlattenType ==
    ASSUME NEW A, NEW ss \in Seq(Seq(A))
    PROVE  FlattenSeq(ss) \in Seq(A)
<1>1. PICK f : /\ IsFlat(f, ss, Len(ss))
               /\ FlattenSeq(ss) = IF Len(ss) = 0 THEN <<>> ELSE f[Len(ss)]
  BY FlattenIs
<1>2. Len(ss) # 0 => Len(ss) \in 1 .. Len(ss)
  OBVIOUS
<1>3. QED
  BY <1>1, <1>2, FlatType

SameUpTo(ss, tt, n) == \A i \in 1 .. n : ss[i] = tt[i]

\* Prefixes of the same sequence are flattened in the same way.
LEMMA FlatAgree ==
    ASSUME NEW ss, NEW tt, NEW k \in Nat, NEW l \in Nat, NEW n \in 1 .. k, n <= l,
           SameUpTo(ss, tt, n),
           NEW f, IsFlat(f, ss, k), NEW g, IsFlat(g, tt, l)
    PROVE  f[n] = g[n]
<1> DEFINE N == {m \in 0 .. n : m > 0 => f[m] = g[m]}
<1>1. 0 \in N
  OBVIOUS
<1>2. \A m \in 0 .. n - 1 : m \in N => m + 1 \in N
  <2> SUFFICES ASSUME NEW m \in 0 .. n - 1, m > 0 => f[m] = g[m]
               PROVE  f[m + 1] = g[m + 1]
    OBVIOUS
  <2>1. f[m + 1] = IF m = 0 THEN ss[1] ELSE f[m] \o ss[m + 1]
    <3>1. m \in 0 .. k - 1
      OBVIOUS
    <3>2. QED
      BY <3>1, FlatAt
  <2>2. g[m + 1] = IF m = 0 THEN tt[1] ELSE g[m] \o tt[m + 1]
    <3>1. m \in 0 .. l - 1
      OBVIOUS
    <3>2. QED
      BY <3>1, FlatAt
  <2>3. ss[m + 1] = tt[m + 1] /\ (m = 0 => ss[1] = tt[1])
    BY DEF SameUpTo
  <2>4. m # 0 => m > 0
    OBVIOUS
  <2>5. QED
    BY <2>1, <2>2, <2>3, <2>4
<1>3. n \in Nat /\ n \in 0 .. n /\ n > 0
  OBVIOUS
<1> HIDE DEF N
<1>4. n \in N
  BY <1>1, <1>2, <1>3, InductionUpTo
<1>5. QED
  BY <1>3, <1>4 DEF N

\* One more sequence at the end.
LEMMA FlattenAppend ==
    ASSUME NEW A, NEW ss \in Seq(Seq(A)), NEW x \in Seq(A)
    PROVE  FlattenSeq(Append(ss, x)) = FlattenSeq(ss) \o x
<1> DEFINE tt == Append(ss, x)
           n == Len(ss)
<1>1. /\ tt \in Seq(Seq(A)) /\ Len(tt) = n + 1 /\ tt[n + 1] = x /\ n \in Nat
      /\ \A i \in 1 .. n : tt[i] = ss[i]
  OBVIOUS
<1>2. PICK f : IsFlat(f, ss, n) /\ FlattenSeq(ss) = IF n = 0 THEN <<>> ELSE f[n]
  BY FlattenIs
<1> HIDE DEF tt, n
<1>3. PICK g : IsFlat(g, tt, n + 1) /\ FlattenSeq(tt) = g[n + 1]
  <2>1. PICK g : /\ IsFlat(g, tt, Len(tt))
                 /\ FlattenSeq(tt) = IF Len(tt) = 0 THEN <<>> ELSE g[Len(tt)]
    BY <1>1, FlattenIs
  <2>2. QED
    BY <1>1, <2>1
<1>4. g[n + 1] = IF n = 0 THEN tt[1] ELSE g[n] \o tt[n + 1]
  <2>1. n \in 0 .. n + 1 - 1 /\ n + 1 \in Nat
    BY <1>1
  <2>2. QED
    BY <1>3, <2>1, FlatAt
<1>5. n # 0 => f[n] = g[n]
  <2> SUFFICES ASSUME n # 0 PROVE f[n] = g[n]
    OBVIOUS
  <2>1. n \in 1 .. n /\ n <= n + 1 /\ n + 1 \in Nat /\ n \in Nat
    BY <1>1
  <2>3. SameUpTo(ss, tt, n)
    BY <1>1 DEF SameUpTo
  <2>4. IsFlat(f, ss, n) /\ IsFlat(g, tt, n + 1)
    BY <1>2, <1>3
  <2>2. QED
    BY <2>1, <2>3, <2>4, FlatAgree
<1>6. FlattenSeq(tt) = IF n = 0 THEN x ELSE f[n] \o x
  BY <1>1, <1>3, <1>4, <1>5
<1>7. x = <<>> \o x
  OBVIOUS
<1>8. QED
  BY <1>2, <1>6, <1>7 DEF tt

-----------------------------------------------------------------------------
(* A number divided by another.                                            *)

LEMMA Division ==
    ASSUME NEW n \in Nat, NEW d \in Nat \ {0}
    PROVE  /\ n \div d \in Nat /\ n % d \in 0 .. d - 1
           /\ n = (n \div d) * d + (n % d)
<1> DEFINE q == n \div d
           r == n % d
<1>1. q \in Int /\ q * d <= n /\ n < (q + 1) * d
  OBVIOUS
<1>2. r \in 0 .. d - 1
  OBVIOUS
<1>3. n = q * d + r
  OBVIOUS
<1> HIDE DEF q, r
<1>4. q >= 0
  <2>1. SUFFICES ASSUME q + 1 <= 0 PROVE FALSE
    BY <1>1
  <2>2. (q + 1) * d <= 0
    BY <1>1, <2>1
  <2>3. (q + 1) * d \in Int
    BY <1>1
  <2>4. QED
    BY <1>1, <2>2, <2>3
<1>5. QED
  BY <1>1, <1>2, <1>3, <1>4 DEF q, r

Byte == 0 .. 255

LEMMA Sizes ==
    /\ Page \in Nat /\ Page > 2 /\ Tab \in Nat \ {0} /\ MaxBlanks \in Nat \ {0}
    /\ MaxBlanks + 32 < 256 /\ PerPage = Page - 1 /\ PerPage \in Nat
BY SizesAssumption DEF PerPage

LEMMA NextTabType ==
    ASSUME NEW n \in Nat
    PROVE  NextTab(n) \in Nat /\ NextTab(n) > n /\ NextTab(n) - n \in Nat
<1>1. n % Tab \in 0 .. Tab - 1 /\ n % Tab <= n /\ Tab \in Nat
  <2>1. /\ n \div Tab \in Nat /\ n % Tab \in 0 .. Tab - 1
        /\ n = (n \div Tab) * Tab + (n % Tab)
    BY Sizes, Division
  <2> DEFINE q == n \div Tab
             r == n % Tab
  <2> HIDE DEF q, r
  <2>2. q * Tab \in Nat
    BY <2>1, Sizes DEF q
  <2>3. r <= n
    BY <2>1, <2>2 DEF q, r
  <2>4. QED
    BY <2>1, <2>3, Sizes DEF r
<1> DEFINE r == n % Tab
<1>2. NextTab(n) = n - r + Tab
  BY DEF NextTab
<1> HIDE DEF r
<1>3. r \in 0 .. Tab - 1 /\ r <= n
  BY <1>1 DEF r
<1>4. QED
  BY <1>1, <1>2, <1>3

-----------------------------------------------------------------------------
(* The columns of a line.                                                  *)

\* The column behind a character.
NextColumn(n, c) ==
    IF c \in Ignored THEN n ELSE IF c = TAB THEN NextTab(n) ELSE n + 1

IsColumn(f, l, m) ==
    f = [i \in 0 .. m |->
            IF i = 0 THEN 0
            ELSE IF l[i] \in Ignored THEN f[i - 1]
            ELSE IF l[i] = TAB THEN NextTab(f[i - 1]) ELSE f[i - 1] + 1]

LEMMA ColumnExists ==
    ASSUME NEW l, NEW n \in Nat
    PROVE  \E f : IsColumn(f, l, n)
<1> DEFINE N == {m \in Nat : \E f : IsColumn(f, l, m)}
           Value(f, i) == IF i = 0 THEN 0
                          ELSE IF l[i] \in Ignored THEN f[i - 1]
                          ELSE IF l[i] = TAB THEN NextTab(f[i - 1]) ELSE f[i - 1] + 1
<1>1. 0 \in N
  <2>1. IsColumn([i \in 0 .. 0 |-> 0], l, 0)
    BY DEF IsColumn
  <2>2. QED
    BY <2>1
<1>2. \A m \in 0 .. n - 1 : m \in N => m + 1 \in N
  <2> SUFFICES ASSUME NEW m \in 0 .. n - 1, NEW f, IsColumn(f, l, m)
               PROVE  \E g : IsColumn(g, l, m + 1)
    OBVIOUS
  <2> DEFINE g == [i \in 0 .. m + 1 |-> Value(f, i)]
  <2>1. \A i \in 0 .. m : f[i] = Value(f, i)
    BY DEF IsColumn
  <2>2. \A i \in 0 .. m : g[i] = f[i]
    BY <2>1
  <2>3. \A i \in 0 .. m + 1 : i # 0 => i - 1 \in 0 .. m
    OBVIOUS
  <2>4. \A i \in 0 .. m + 1 : i # 0 => g[i - 1] = f[i - 1]
    BY <2>2, <2>3
  <2>5. \A i \in 0 .. m + 1 : g[i] = Value(g, i)
    BY <2>4
  <2>6. g = [i \in 0 .. m + 1 |-> g[i]]
    OBVIOUS
  <2> HIDE DEF g
  <2>7. IsColumn(g, l, m + 1)
    BY <2>5, <2>6 DEF IsColumn
  <2>8. QED
    BY <2>7
<1> HIDE DEF N
<1>3. n \in N
  BY <1>1, <1>2, InductionUpTo
<1>4. QED
  BY <1>3 DEF N

LEMMA ColumnSteps ==
    ASSUME NEW l \in Seq(Byte)
    PROVE  /\ Column(l)[0] = 0
           /\ \A m \in 0 .. Len(l) - 1 :
                 Column(l)[m + 1] = NextColumn(Column(l)[m], l[m + 1])
<1>1. Len(l) \in Nat
  OBVIOUS
<1>2. Column(l) = CHOOSE f : IsColumn(f, l, Len(l))
  BY Zenon DEF Column, IsColumn
<1>3. PICK f : f = Column(l) /\ IsColumn(f, l, Len(l))
  BY <1>1, <1>2, ColumnExists
<1>4. \A i \in 0 .. Len(l) :
         f[i] = IF i = 0 THEN 0
                ELSE IF l[i] \in Ignored THEN f[i - 1]
                ELSE IF l[i] = TAB THEN NextTab(f[i - 1]) ELSE f[i - 1] + 1
  BY <1>3 DEF IsColumn
<1>5. ASSUME NEW m \in 0 .. Len(l) - 1
      PROVE  f[m + 1] = NextColumn(f[m], l[m + 1])
  <2>1. m + 1 \in 0 .. Len(l) /\ m + 1 # 0 /\ m + 1 - 1 = m
    BY <1>1
  <2>2. QED
    BY <1>4, <2>1 DEF NextColumn
<1>6. f[0] = 0
  BY <1>1, <1>4
<1>7. QED
  BY <1>3, <1>5, <1>6

LEMMA ColumnType ==
    ASSUME NEW l \in Seq(Byte)
    PROVE  \A m \in 0 .. Len(l) : Column(l)[m] \in Nat
<1>1. PICK n \in Nat : n = Len(l)
  OBVIOUS
<1>2. PICK f : f = Column(l)
  OBVIOUS
<1> DEFINE N == {m \in 0 .. n : f[m] \in Nat}
<1>3. 0 \in N
  BY <1>2, ColumnSteps
<1>4. \A m \in 0 .. n - 1 : m \in N => m + 1 \in N
  <2> SUFFICES ASSUME NEW m \in 0 .. n - 1, f[m] \in Nat PROVE f[m + 1] \in Nat
    OBVIOUS
  <2>1. f[m + 1] = NextColumn(f[m], l[m + 1])
    BY <1>1, <1>2, ColumnSteps
  <2>2. NextTab(f[m]) \in Nat
    BY NextTabType
  <2>3. QED
    BY <2>1, <2>2 DEF NextColumn
<1> HIDE DEF N
<1>5. \A m \in 0 .. n : m \in N
  BY <1>3, <1>4, InductionUpTo
<1>6. QED
  BY <1>1, <1>2, <1>5 DEF N

LEMMA ColumnAppend ==
    ASSUME NEW l \in Seq(Byte), NEW c \in Byte
    PROVE  /\ \A m \in 0 .. Len(l) : Column(Append(l, c))[m] = Column(l)[m]
           /\ Column(Append(l, c))[Len(l) + 1] = NextColumn(Column(l)[Len(l)], c)
<1> DEFINE k == Append(l, c)
<1>1. PICK n \in Nat : n = Len(l)
  OBVIOUS
<1>2. /\ k \in Seq(Byte) /\ Len(k) = n + 1 /\ k[n + 1] = c
      /\ \A i \in 1 .. n : k[i] = l[i]
  BY <1>1
<1>3. PICK f : f = Column(l)
  OBVIOUS
<1>4. PICK g : g = Column(k)
  OBVIOUS
<1> HIDE DEF k
<1> DEFINE N == {m \in 0 .. n : g[m] = f[m]}
<1>5. 0 \in N
  BY <1>2, <1>3, <1>4, ColumnSteps
<1>6. \A m \in 0 .. n : g[m + 1] = NextColumn(g[m], k[m + 1])
  BY <1>2, <1>4, ColumnSteps
<1>7. \A m \in 0 .. n - 1 : m \in N => m + 1 \in N
  <2> SUFFICES ASSUME NEW m \in 0 .. n - 1, g[m] = f[m] PROVE g[m + 1] = f[m + 1]
    OBVIOUS
  <2>1. f[m + 1] = NextColumn(f[m], l[m + 1])
    BY <1>1, <1>3, ColumnSteps
  <2>2. k[m + 1] = l[m + 1] /\ m \in 0 .. n
    BY <1>2
  <2>3. QED
    BY <1>6, <2>1, <2>2
<1> HIDE DEF N
<1>8. \A m \in 0 .. n : m \in N
  BY <1>5, <1>7, InductionUpTo
<1>9. \A m \in 0 .. n : g[m] = f[m]
  BY <1>8 DEF N
<1>10. g[n + 1] = NextColumn(f[n], c)
  BY <1>2, <1>6, <1>9
<1>11. QED
  BY <1>1, <1>3, <1>4, <1>9, <1>10 DEF k

-----------------------------------------------------------------------------
(* The characters in front of the first that leaves a mark.                *)

White == {Blank, TAB} \cup Ignored

IsLeading(l, n) ==
    /\ n \in 0 .. Len(l)
    /\ \A i \in 1 .. n : l[i] \in White
    /\ n < Len(l) => l[n + 1] \notin White

LEMMA LeadingIs ==
    ASSUME NEW l \in Seq(Byte)
    PROVE  IsLeading(l, Leading(l))
<1>1. Leading(l) = CHOOSE n : IsLeading(l, n)
  BY DEF Leading, IsLeading, White
<1> DEFINE B == {n \in 0 .. Len(l) : n < Len(l) => l[n + 1] \notin White}
<1>2. PICK n \in B : \A k \in B : n <= k
  <2>1. B \subseteq Nat /\ Len(l) \in B
    OBVIOUS
  <2> HIDE DEF B
  <2>2. QED
    BY <2>1, LeastNumber
<1>3. \A i \in 1 .. n : l[i] \in White
  <2> SUFFICES ASSUME NEW i \in 1 .. n, l[i] \notin White PROVE FALSE
    OBVIOUS
  <2>1. i - 1 \in B
    OBVIOUS
  <2>2. QED
    BY <1>2, <2>1
<1>4. IsLeading(l, n)
  BY <1>2, <1>3 DEF IsLeading
<1>5. QED
  BY <1>1, <1>4

LEMMA LeadingUnique ==
    ASSUME NEW l \in Seq(Byte), NEW n, IsLeading(l, n)
    PROVE  n = Leading(l)
<1>1. PICK m : m = Leading(l)
  OBVIOUS
<1>2. IsLeading(l, m)
  BY <1>1, LeadingIs
<1>3. m \in Nat /\ n \in Nat /\ m <= Len(l) /\ n <= Len(l) /\ Len(l) \in Nat
  BY <1>2 DEF IsLeading
<1>4. ~ (m < n)
  <2> SUFFICES ASSUME m < n PROVE FALSE
    OBVIOUS
  <2>1. m + 1 \in 1 .. n /\ m < Len(l)
    BY <1>3
  <2>2. QED
    BY <1>2, <2>1 DEF IsLeading
<1>5. ~ (n < m)
  <2> SUFFICES ASSUME n < m PROVE FALSE
    OBVIOUS
  <2>1. n + 1 \in 1 .. m /\ n < Len(l)
    BY <1>3
  <2>2. QED
    BY <1>2, <2>1 DEF IsLeading
<1>6. QED
  BY <1>1, <1>3, <1>4, <1>5

\* Whether a line has a character that leaves a mark.
Marked(l) == Leading(l) < Len(l)

LEMMA LeadingAppend ==
    ASSUME NEW l \in Seq(Byte), NEW c \in Byte
    PROVE  /\ Leading(l) \in 0 .. Len(l) /\ Leading(Append(l, c)) \in 0 .. Len(l) + 1
           /\ ~Marked(l) => Leading(l) = Len(l)
           /\ Marked(l) => Leading(Append(l, c)) = Leading(l)
           /\ ~Marked(l) => Leading(Append(l, c)) = IF c \in White THEN Len(l) + 1 ELSE Len(l)
<1> DEFINE k == Append(l, c)
<1>1. PICK n \in Nat : n = Len(l)
  OBVIOUS
<1>2. /\ k \in Seq(Byte) /\ Len(k) = n + 1 /\ k[n + 1] = c
      /\ \A i \in 1 .. n : k[i] = l[i]
  BY <1>1
<1> HIDE DEF k
<1>3. PICK m : m = Leading(l)
  OBVIOUS
<1>4. IsLeading(l, m) /\ m \in 0 .. n
  BY <1>1, <1>3, LeadingIs DEF IsLeading
<1>5. ~Marked(l) => m = n
  BY <1>1, <1>3, <1>4 DEF Marked
<1>6. ASSUME Marked(l) PROVE Leading(k) = m
  <2>1. m < n
    BY <1>1, <1>3, <1>6 DEF Marked
  <2>2. m + 1 \in 1 .. n /\ m \in 0 .. n + 1 /\ \A i \in 1 .. m : i \in 1 .. n
    BY <1>4, <2>1
  <2>3. IsLeading(k, m)
    BY <1>1, <1>2, <1>4, <2>1, <2>2 DEF IsLeading
  <2>4. QED
    BY <1>2, <2>3, LeadingUnique
<1>7. ASSUME ~Marked(l) PROVE Leading(k) = IF c \in White THEN n + 1 ELSE n
  <2>1. m = n
    BY <1>5, <1>7
  <2>2. \A i \in 1 .. n : k[i] \in White
    BY <1>2, <1>4, <2>1 DEF IsLeading
  <2>3. CASE c \in White
    <3>1. \A i \in 1 .. n + 1 : k[i] \in White
      BY <1>2, <2>2, <2>3
    <3>2. IsLeading(k, n + 1)
      BY <1>2, <3>1 DEF IsLeading
    <3>3. QED
      BY <1>2, <2>3, <3>2, LeadingUnique
  <2>4. CASE c \notin White
    <3>1. IsLeading(k, n)
      BY <1>2, <2>2, <2>4 DEF IsLeading
    <3>2. QED
      BY <1>2, <2>4, <3>1, LeadingUnique
  <2>5. QED
    BY <2>3, <2>4
<1>8. Leading(k) \in 0 .. n + 1
  BY <1>2, LeadingIs DEF IsLeading
<1>9. QED
  BY <1>1, <1>3, <1>4, <1>5, <1>6, <1>7, <1>8 DEF k

-----------------------------------------------------------------------------
(* What a line leaves.                                                     *)

Mark == 32 .. 126

LEMMA TimesIs ==
    ASSUME NEW A, NEW n \in Nat, NEW c \in A
    PROVE  /\ Times(n, c) \in Seq(A) /\ Len(Times(n, c)) = n
           /\ \A i \in 1 .. n : Times(n, c)[i] = c
BY DEF Times

LEMMA ShownIs ==
    ASSUME NEW c \in Byte
    PROVE  /\ Shown(c) \in Seq(Mark) /\ Len(Shown(c)) \in Nat \ {0}
           /\ c # Blank => Shown(c)[1] # Blank
           /\ c \in Mark => Shown(c) = <<c>>
<1>1. CASE Printable(c)
  <2>1. Shown(c) = <<c>> /\ c \in Mark
    BY <1>1 DEF Shown, Printable, Mark
  <2>2. QED
    BY <2>1
<1>2. CASE ~Printable(c)
  <2>1. c \notin Mark
    BY <1>2 DEF Printable, Mark
  <2>2. c \div 16 \in 0 .. 15 /\ c % 16 \in 0 .. 15
    BY DEF Byte
  <2>3. \A d \in 0 .. 15 : Digit(d) \in Mark
    BY DEF Digit, Mark
  <2>4. Shown(c) = <<92, 120, Digit(c \div 16), Digit(c % 16)>>
    BY <1>2 DEF Shown
  <2>5. PICK a \in Mark, b \in Mark : Shown(c) = <<92, 120, a, b>>
    BY <2>2, <2>3, <2>4
  <2>6. 92 \in Mark /\ 120 \in Mark /\ 92 # Blank
    BY DEF Mark, Blank
  <2>7. QED
    BY <2>1, <2>5, <2>6
<1>3. QED
  BY <1>1, <1>2

\* What the i-th character of a line leaves in its body.
Piece(l, i) ==
    IF i <= Leading(l) \/ l[i] \in Ignored THEN <<>>
    ELSE IF l[i] = TAB THEN Times(Column(l)[i] - Column(l)[i - 1], Blank)
    ELSE Shown(l[i])

Pieces(l) == [i \in 1 .. Len(l) |-> Piece(l, i)]

LEMMA BodyIs ==
    ASSUME NEW l
    PROVE  Body(l) = FlattenSeq(Pieces(l))
BY DEF Body, Pieces, Piece

LEMMA PieceType ==
    ASSUME NEW l \in Seq(Byte), NEW i \in 1 .. Len(l)
    PROVE  Piece(l, i) \in Seq(Mark)
<1>1. l[i] \in Byte
  OBVIOUS
<1>2. Shown(l[i]) \in Seq(Mark)
  BY <1>1, ShownIs
<1>3. CASE l[i] = TAB
  <2>1. i - 1 \in 0 .. Len(l) - 1 /\ i - 1 \in 0 .. Len(l) /\ i - 1 + 1 = i
    OBVIOUS
  <2>2. Column(l)[i - 1 + 1] = NextColumn(Column(l)[i - 1], l[i - 1 + 1])
    BY <2>1, ColumnSteps
  <2>3. TAB \notin Ignored
    BY DEF TAB, Ignored, NUL, DLE
  <2>4. Column(l)[i] = NextTab(Column(l)[i - 1]) /\ Column(l)[i - 1] \in Nat
    BY <1>3, <2>1, <2>2, <2>3, ColumnType DEF NextColumn
  <2>5. Column(l)[i] - Column(l)[i - 1] \in Nat
    BY <2>4, NextTabType
  <2>6. Blank \in Mark
    BY DEF Blank, Mark
  <2>7. Times(Column(l)[i] - Column(l)[i - 1], Blank) \in Seq(Mark)
    BY <2>5, <2>6, TimesIs
  <2>8. QED
    BY <1>2, <2>7 DEF Piece
<1>4. QED
  BY <1>2, <1>3 DEF Piece

LEMMA BodyType ==
    ASSUME NEW l \in Seq(Byte)
    PROVE  Body(l) \in Seq(Mark) /\ Pieces(l) \in Seq(Seq(Mark))
<1>1. Pieces(l) \in Seq(Seq(Mark))
  BY PieceType DEF Pieces
<1>2. QED
  BY <1>1, BodyIs, FlattenType

LEMMA LineEmpty ==
    /\ ~Marked(<<>>) /\ Body(<<>>) = <<>> /\ Column(<<>>)[Len(<<>>)] = 0
    /\ <<>> \in Seq(Byte)
<1>1. <<>> \in Seq(Byte) /\ Len(<<>>) = 0
  OBVIOUS
<1>2. Leading(<<>>) \in 0 .. 0
  BY <1>1, LeadingIs DEF IsLeading
<1>3. ~Marked(<<>>)
  BY <1>1, <1>2 DEF Marked
<1>4. Pieces(<<>>) = <<>>
  BY <1>1 DEF Pieces
<1>5. QED
  BY <1>1, <1>3, <1>4, BodyIs, FlattenEmpty, ColumnSteps

\* What a further character leaves.
Left(l, c) ==
    IF (~Marked(l) /\ c \in White) \/ c \in Ignored THEN <<>>
    ELSE IF c = TAB
    THEN Times(NextTab(Column(l)[Len(l)]) - Column(l)[Len(l)], Blank)
    ELSE Shown(c)

\* What one more character does to a line.
LEMMA LineGrows ==
    ASSUME NEW l \in Seq(Byte), NEW c \in Byte, NEW k, k = Append(l, c)
    PROVE  /\ Column(k)[Len(k)] = NextColumn(Column(l)[Len(l)], c)
           /\ Marked(k) <=> Marked(l) \/ c \notin White
           /\ Marked(l) => Column(k)[Leading(k)] = Column(l)[Leading(l)]
           /\ ~Marked(l) /\ c \notin White => Column(k)[Leading(k)] = Column(l)[Len(l)]
           /\ Body(k) = Body(l) \o Left(l, c)
<1>1. PICK n \in Nat : n = Len(l)
  OBVIOUS
<1>2. /\ k \in Seq(Byte) /\ Len(k) = n + 1 /\ k[n + 1] = c
      /\ \A i \in 1 .. n : k[i] = l[i]
  BY <1>1
<1>3. /\ \A m \in 0 .. n : Column(k)[m] = Column(l)[m]
      /\ Column(k)[n + 1] = NextColumn(Column(l)[n], c)
  BY <1>1, ColumnAppend
<1>4. /\ Leading(l) \in 0 .. n /\ Leading(k) \in 0 .. n + 1
      /\ ~Marked(l) => Leading(l) = n
      /\ Marked(l) => Leading(k) = Leading(l)
      /\ ~Marked(l) => Leading(k) = IF c \in White THEN n + 1 ELSE n
  BY <1>1, LeadingAppend
<1>5. Marked(k) <=> Marked(l) \/ c \notin White
  <2>1. Marked(l) <=> Leading(l) < n
    BY <1>1 DEF Marked
  <2>2. Marked(k) <=> Leading(k) < n + 1
    BY <1>2 DEF Marked
  <2>3. QED
    BY <1>4, <2>1, <2>2
<1>6. Marked(l) => Column(k)[Leading(k)] = Column(l)[Leading(l)]
  BY <1>3, <1>4
<1>7. ~Marked(l) /\ c \notin White => Column(k)[Leading(k)] = Column(l)[n]
  <2>1. n \in 0 .. n
    OBVIOUS
  <2>2. QED
    BY <1>3, <1>4, <2>1
<1>8. Body(k) = Body(l) \o Left(l, c)
  <2>1. \A i \in 1 .. n : Piece(k, i) = Piece(l, i)
    <3> SUFFICES ASSUME NEW i \in 1 .. n PROVE Piece(k, i) = Piece(l, i)
      OBVIOUS
    <3>1. i <= Leading(k) <=> i <= Leading(l)
      BY <1>4
    <3>2. /\ k[i] = l[i] /\ Column(k)[i] = Column(l)[i]
          /\ Column(k)[i - 1] = Column(l)[i - 1]
      <4>1. i \in 0 .. n /\ i - 1 \in 0 .. n
        OBVIOUS
      <4>2. QED
        BY <1>2, <1>3, <4>1
    <3>3. QED
      BY <3>1, <3>2 DEF Piece
  <2>2. Piece(k, n + 1) = Left(l, c)
    <3>1. n + 1 <= Leading(k) <=> ~Marked(l) /\ c \in White
      <4>1. Marked(l) <=> Leading(l) < n
        BY <1>1 DEF Marked
      <4>2. QED
        BY <1>4, <4>1
    <3>2. n + 1 - 1 = n /\ n \in 0 .. n
      OBVIOUS
    <3>3. c = TAB => Column(k)[n + 1] = NextTab(Column(l)[n])
      BY <1>3 DEF NextColumn, TAB, Ignored, NUL, DLE
    <3>4. Column(k)[n + 1 - 1] = Column(l)[n]
      BY <1>3, <3>2
    <3>5. QED
      BY <1>1, <1>2, <3>1, <3>3, <3>4 DEF Piece, Left
  <2>3. Pieces(k) = Append(Pieces(l), Left(l, c))
    <3>1. Pieces(k) = [i \in 1 .. n + 1 |-> Piece(k, i)]
      BY <1>2 DEF Pieces
    <3>2. Pieces(l) = [i \in 1 .. n |-> Piece(l, i)]
      BY <1>1 DEF Pieces
    <3>3. Append(Pieces(l), Left(l, c))
            = [i \in 1 .. n + 1 |-> IF i <= n THEN Piece(l, i) ELSE Left(l, c)]
      BY <3>2
    <3>4. \A i \in 1 .. n + 1 : Piece(k, i) = IF i <= n THEN Piece(l, i) ELSE Left(l, c)
      BY <2>1, <2>2
    <3>5. QED
      BY <3>1, <3>3, <3>4
  <2>4. Left(l, c) \in Seq(Mark)
    <3>1. n + 1 \in 1 .. Len(k)
      BY <1>2
    <3>2. QED
      BY <1>2, <2>2, <3>1, PieceType
  <2>5. QED
    BY <2>3, <2>4, BodyType, BodyIs, FlattenAppend
<1>9. QED
  BY <1>1, <1>2, <1>3, <1>5, <1>6, <1>7, <1>8

\* A line has a body just if a character of it leaves a mark, and the body does not
\* begin with a blank.
LEMMA BodyMarked ==
    ASSUME NEW l \in Seq(Byte)
    PROVE  /\ ~Marked(l) => Body(l) = <<>>
           /\ Marked(l) => Body(l) # <<>> /\ Body(l)[1] # Blank
<1> DEFINE Good(m) == /\ ~Marked(m) => Body(m) = <<>>
                      /\ Marked(m) => Body(m) # <<>> /\ Body(m)[1] # Blank
           P == {m \in Seq(Byte) : Good(m)}
<1>1. <<>> \in P
  BY LineEmpty
<1>2. \A m \in Seq(Byte), c \in Byte : m \in P => Append(m, c) \in P
  <2> SUFFICES ASSUME NEW m \in Seq(Byte), NEW c \in Byte, Good(m)
               PROVE  Good(Append(m, c))
    OBVIOUS
  <2>1. PICK k : k = Append(m, c)
    OBVIOUS
  <2>2. /\ Marked(k) <=> Marked(m) \/ c \notin White
        /\ Body(k) = Body(m) \o Left(m, c)
    BY <2>1, LineGrows
  <2>3. k \in Seq(Byte) /\ Body(m) \in Seq(Mark) /\ Body(k) \in Seq(Mark)
    <3>1. k \in Seq(Byte)
      BY <2>1
    <3>2. QED
      BY <3>1, BodyType
  <2>4. CASE Marked(m)
    <3>1. Left(m, c) \in Seq(Mark)
      <4>1. Column(m)[Len(m)] \in Nat
        BY ColumnType
      <4>2. NextTab(Column(m)[Len(m)]) - Column(m)[Len(m)] \in Nat
        BY <4>1, NextTabType
      <4>3. Blank \in Mark
        BY DEF Blank, Mark
      <4>4. Times(NextTab(Column(m)[Len(m)]) - Column(m)[Len(m)], Blank) \in Seq(Mark)
        BY <4>2, <4>3, TimesIs
      <4>5. QED
        BY <4>4, ShownIs DEF Left
    <3>2. Body(k) # <<>> /\ Body(k)[1] = Body(m)[1]
      BY <2>2, <2>3, <2>4, <3>1
    <3>3. QED
      BY <2>1, <2>2, <2>4, <3>2
  <2>5. CASE ~Marked(m) /\ c \in White
    <3>1. Left(m, c) = <<>>
      BY <2>5 DEF Left
    <3>2. Body(k) = <<>>
      BY <2>2, <2>5, <3>1
    <3>3. QED
      BY <2>1, <2>2, <2>5, <3>2
  <2>6. CASE ~Marked(m) /\ c \notin White
    <3>1. c # Blank /\ c # TAB /\ c \notin Ignored
      BY <2>6 DEF White
    <3>2. Left(m, c) = Shown(c)
      BY <3>1 DEF Left, White
    <3>3. Shown(c) \in Seq(Mark) /\ Len(Shown(c)) \in Nat \ {0} /\ Shown(c)[1] # Blank
      BY <3>1, ShownIs
    <3>4. Body(k) = Shown(c)
      BY <2>2, <2>6, <3>2, <3>3
    <3>5. Body(k) # <<>>
      BY <3>3, <3>4
    <3>6. QED
      BY <2>1, <2>2, <2>6, <3>3, <3>4, <3>5
  <2>7. QED
    BY <2>4, <2>5, <2>6
<1>3. l \in P
  <2> HIDE DEF P
  <2>1. QED
    BY <1>1, <1>2, SequenceInduction
<1>4. QED
  BY <1>3

-----------------------------------------------------------------------------
(* The encoder, character by character.                                    *)

Encoded(s, t) == FoldLeft(EncodeCharacter, s, t)

LEMMA EncodedSteps ==
    ASSUME NEW s
    PROVE  /\ Encoded(s, <<>>) = s
           /\ \A t \in Seq(Byte), c \in Byte :
                 Encoded(s, Append(t, c)) = EncodeCharacter(Encoded(s, t), c)
BY EncodeFoldEmpty, EncodeFoldAppend DEF Encoded, Byte

\* A text is encoded in two parts as it is in one.
LEMMA EncodedConcat ==
    ASSUME NEW s, NEW t \in Seq(Byte), NEW u \in Seq(Byte)
    PROVE  Encoded(s, t \o u) = Encoded(Encoded(s, t), u)
<1> DEFINE P == {v \in Seq(Byte) : Encoded(s, t \o v) = Encoded(Encoded(s, t), v)}
<1>1. <<>> \in P
  <2>1. t \o <<>> = t /\ <<>> \in Seq(Byte)
    OBVIOUS
  <2>2. QED
    BY <2>1, EncodedSteps
<1>2. \A v \in Seq(Byte), c \in Byte : v \in P => Append(v, c) \in P
  <2> SUFFICES ASSUME NEW v \in Seq(Byte), NEW c \in Byte, v \in P
               PROVE  Append(v, c) \in P
    OBVIOUS
  <2>1. t \o Append(v, c) = Append(t \o v, c) /\ t \o v \in Seq(Byte)
    OBVIOUS
  <2>2. Encoded(s, Append(t \o v, c)) = EncodeCharacter(Encoded(s, t \o v), c)
    BY <2>1, EncodedSteps
  <2>3. Encoded(Encoded(s, t), Append(v, c))
          = EncodeCharacter(Encoded(Encoded(s, t), v), c)
    BY EncodedSteps
  <2>4. Append(v, c) \in Seq(Byte)
    OBVIOUS
  <2>5. QED
    BY <2>1, <2>2, <2>3, <2>4
<1>3. u \in P
  <2> HIDE DEF P
  <2>1. QED
    BY <1>1, <1>2, SequenceInduction
<1>4. QED
  BY <1>3

\* The encoder in front of the first mark of a line, and behind it.
AtIndent(out, column) ==
    [out |-> out, line |-> <<>>, column |-> column, nonWhite |-> FALSE]
OnLine(out, line, column) ==
    [out |-> out, line |-> line, column |-> column, nonWhite |-> TRUE]

\* line_character, case by case.
LEMMA CharacterIgnored ==
    ASSUME NEW s, NEW c, c \in Ignored
    PROVE  LineCharacter(s, c) = s
<1>1. c # TAB /\ c # Blank /\ c \in {NUL, DLE}
  BY DEF TAB, NUL, DLE, Blank, Ignored
<1>2. QED
  BY <1>1 DEF LineCharacter

LEMMA CharacterTab ==
    ASSUME NEW out, NEW line, NEW column, NEW c, c = TAB
    PROVE  /\ LineCharacter(OnLine(out, line, column), c) =
                OnLine(out, line \o Times(NextTab(column) - column, Blank), NextTab(column))
           /\ LineCharacter(AtIndent(out, column), c) = AtIndent(out, NextTab(column))
<1> DEFINE Result(s) == [s EXCEPT !.line = IF s.nonWhite
                                           THEN @ \o Times(NextTab(s.column) - s.column, Blank)
                                           ELSE @,
                                   !.column = NextTab(@)]
<1>1. c \notin {NUL, DLE} /\ c # Blank
  BY DEF TAB, NUL, DLE, Blank, White, Ignored
<1>2. LineCharacter(OnLine(out, line, column), c) = Result(OnLine(out, line, column))
  BY <1>1 DEF LineCharacter
<1>3. LineCharacter(AtIndent(out, column), c) = Result(AtIndent(out, column))
  BY <1>1 DEF LineCharacter
<1>4. QED
  BY <1>2, <1>3 DEF OnLine, AtIndent

LEMMA CharacterBlank ==
    ASSUME NEW out, NEW line, NEW column, NEW c, c = Blank
    PROVE  /\ LineCharacter(OnLine(out, line, column), c) =
                OnLine(out, Append(line, Blank), column + 1)
           /\ LineCharacter(AtIndent(out, column), c) = AtIndent(out, column + 1)
<1> DEFINE Result(s) == [s EXCEPT !.line = IF s.nonWhite THEN Append(@, Blank) ELSE @,
                                   !.column = @ + 1]
<1>1. c \notin {NUL, DLE} /\ c # TAB
  BY DEF TAB, NUL, DLE, Blank, White, Ignored
<1>2. LineCharacter(OnLine(out, line, column), c) = Result(OnLine(out, line, column))
  BY <1>1 DEF LineCharacter
<1>3. LineCharacter(AtIndent(out, column), c) = Result(AtIndent(out, column))
  BY <1>1 DEF LineCharacter
<1>4. QED
  BY <1>2, <1>3 DEF OnLine, AtIndent

LEMMA CharacterMark ==
    ASSUME NEW out, NEW line, NEW column, NEW c, c \notin White
    PROVE  /\ LineCharacter(OnLine(out, line, column), c) =
                OnLine(out, line \o Shown(c), column + 1)
           /\ LineCharacter(AtIndent(out, column), c) =
                OnLine(out, (<<>> \o Indent(column)) \o Shown(c), column + 1)
<1> DEFINE Result(s) == [s EXCEPT !.line = (IF s.nonWhite THEN @ ELSE @ \o Indent(s.column))
                                           \o Shown(c),
                                   !.nonWhite = TRUE,
                                   !.column = @ + 1]
<1>1. c \notin {NUL, DLE} /\ c # TAB /\ c # Blank
  BY DEF TAB, NUL, DLE, Blank, White, Ignored
<1>2. LineCharacter(OnLine(out, line, column), c) = Result(OnLine(out, line, column))
  BY <1>1 DEF LineCharacter
<1>3. LineCharacter(AtIndent(out, column), c) = Result(AtIndent(out, column))
  BY <1>1 DEF LineCharacter
<1>4. QED
  BY <1>2, <1>3 DEF OnLine, AtIndent

\* What stands in a file for a line.
Code(l) == IF Marked(l) THEN Indent(Column(l)[Leading(l)]) \o Body(l) ELSE <<>>

\* The encoder when it has written the bytes out and then seen l of a line.
LineState(out, l) ==
    IF Marked(l) THEN OnLine(out, Code(l), Column(l)[Len(l)])
    ELSE AtIndent(out, Column(l)[Len(l)])

Fresh(out) == AtIndent(out, 0)

LEMMA FreshLine ==
    ASSUME NEW out
    PROVE  LineState(out, <<>>) = Fresh(out)
<1>1. LineState(out, <<>>) = AtIndent(out, Column(<<>>)[Len(<<>>)])
  BY LineEmpty, Zenon DEF LineState
<1>2. QED
  BY <1>1, LineEmpty DEF Fresh

Visible == 1 .. 255

LEMMA CodePair ==
    ASSUME NEW n \in 0 .. MaxBlanks
    PROVE  <<DLE, 32 + n>> \in Seq(Visible) /\ Len(<<DLE, 32 + n>>) = 2
<1>1. DLE \in Visible /\ 32 + n \in Visible
  BY Sizes DEF DLE, Visible
<1>2. QED
  BY <1>1

\* The whole DLE codes of an indent, and the blanks that are left.
Pairs(n) == FlattenSeq(Times(n, <<DLE, 32 + MaxBlanks>>))

LEMMA PairsGrow ==
    /\ Pairs(0) = <<>>
    /\ \A n \in Nat : Pairs(n) \in Seq(Visible)
    /\ \A n \in Nat : Pairs(n + 1) = Pairs(n) \o <<DLE, 32 + MaxBlanks>>
<1> DEFINE x == <<DLE, 32 + MaxBlanks>>
<1>1. x \in Seq(Visible)
  <2>1. MaxBlanks \in 0 .. MaxBlanks
    BY Sizes
  <2>2. QED
    BY <2>1, CodePair
<1>2. Pairs(0) = <<>>
  <2>1. Times(0, x) = <<>>
    BY DEF Times
  <2>2. QED
    BY <2>1, FlattenEmpty DEF Pairs
<1> HIDE DEF x
<1>3. ASSUME NEW n \in Nat
      PROVE  Times(n, x) \in Seq(Seq(Visible)) /\ Times(n + 1, x) = Append(Times(n, x), x)
  BY <1>1 DEF Times
<1>4. \A n \in Nat : FlattenSeq(Times(n, x)) \in Seq(Visible)
  BY <1>3, FlattenType
<1>5. \A n \in Nat : FlattenSeq(Times(n + 1, x)) = FlattenSeq(Times(n, x)) \o x
  BY <1>1, <1>3, FlattenAppend
<1>6. QED
  BY <1>2, <1>4, <1>5 DEF Pairs, x

Rest(r) == IF r <= 2 THEN Times(r, Blank) ELSE <<DLE, 32 + r>>

LEMMA IndentIs ==
    ASSUME NEW n \in Nat
    PROVE  /\ n \div MaxBlanks \in Nat /\ n % MaxBlanks \in 0 .. MaxBlanks - 1
           /\ n = (n \div MaxBlanks) * MaxBlanks + (n % MaxBlanks)
           /\ Indent(n) = Pairs(n \div MaxBlanks) \o Rest(n % MaxBlanks)
           /\ Rest(n % MaxBlanks) \in Seq(Visible)
           /\ Indent(n) \in Seq(Visible)
<1>1. /\ n \div MaxBlanks \in Nat /\ n % MaxBlanks \in 0 .. MaxBlanks - 1
      /\ n = (n \div MaxBlanks) * MaxBlanks + (n % MaxBlanks)
  BY Sizes, Division
<1>2. Indent(n) = Pairs(n \div MaxBlanks) \o Rest(n % MaxBlanks)
  BY DEF Indent, Pairs, Rest
<1>3. Rest(n % MaxBlanks) \in Seq(Visible)
  <2>1. PICK r \in 0 .. MaxBlanks : r = n % MaxBlanks
    BY <1>1, Sizes
  <2>2. Blank \in Visible
    BY DEF Blank, Visible
  <2>3. r \in Nat
    BY Sizes
  <2>4. Times(r, Blank) \in Seq(Visible)
    BY <2>2, <2>3, TimesIs
  <2>5. QED
    BY <2>1, <2>4, CodePair DEF Rest
<1>4. Pairs(n \div MaxBlanks) \in Seq(Visible)
  BY <1>1, PairsGrow
<1>5. QED
  BY <1>1, <1>2, <1>3, <1>4

LEMMA LineNumbers ==
    ASSUME NEW l \in Seq(Byte)
    PROVE  Column(l)[Len(l)] \in Nat /\ Column(l)[Leading(l)] \in Nat
<1>1. Len(l) \in 0 .. Len(l)
  OBVIOUS
<1>2. Leading(l) \in 0 .. Len(l)
  BY LeadingIs DEF IsLeading
<1>3. QED
  BY <1>1, <1>2, ColumnType

LEMMA CodeType ==
    ASSUME NEW l \in Seq(Byte)
    PROVE  /\ Code(l) \in Seq(Visible) /\ Body(l) \in Seq(Visible)
           /\ Code(l) = <<>> <=> ~Marked(l)
<1>1. Body(l) \in Seq(Visible)
  <2>1. Mark \subseteq Visible
    BY DEF Mark, Visible
  <2>2. QED
    BY <2>1, BodyType, SeqMonotonic
<1>2. Indent(Column(l)[Leading(l)]) \in Seq(Visible)
  BY LineNumbers, IndentIs
<1>3. Marked(l) => Body(l) # <<>>
  BY BodyMarked
<1>4. QED
  BY <1>1, <1>2, <1>3, ConcatEqualIffEmpty DEF Code

LEMMA CodeGrows ==
    ASSUME NEW l \in Seq(Byte), NEW c \in Byte, NEW k, k = Append(l, c)
    PROVE  Code(k) = CASE Marked(l) -> Code(l) \o Left(l, c)
                       [] ~Marked(l) /\ c \notin White -> Indent(Column(l)[Len(l)]) \o Shown(c)
                       [] ~Marked(l) /\ c \in White -> <<>>
<1>1. /\ Marked(k) <=> Marked(l) \/ c \notin White
      /\ Marked(l) => Column(k)[Leading(k)] = Column(l)[Leading(l)]
      /\ ~Marked(l) /\ c \notin White => Column(k)[Leading(k)] = Column(l)[Len(l)]
      /\ Body(k) = Body(l) \o Left(l, c)
  BY LineGrows
<1>2. /\ Indent(Column(l)[Leading(l)]) \in Seq(Visible) /\ Body(l) \in Seq(Visible)
      /\ ~Marked(l) => Body(l) = <<>>
  BY LineNumbers, IndentIs, CodeType, BodyMarked
<1>3. Marked(l) => Left(l, c) \in Seq(Visible)
  <2>1. NextTab(Column(l)[Len(l)]) - Column(l)[Len(l)] \in Nat
    BY LineNumbers, NextTabType
  <2>2. Blank \in Visible /\ Mark \subseteq Visible
    BY DEF Blank, Visible, Mark
  <2>3. Times(NextTab(Column(l)[Len(l)]) - Column(l)[Len(l)], Blank) \in Seq(Visible)
    BY <2>1, <2>2, TimesIs
  <2>4. Shown(c) \in Seq(Mark)
    BY ShownIs
  <2>5. Shown(c) \in Seq(Visible)
    BY <2>2, <2>4, SeqMonotonic
  <2>6. QED
    BY <2>3, <2>5 DEF Left
<1>4. CASE Marked(l)
  <2>1. Code(k) = Indent(Column(l)[Leading(l)]) \o (Body(l) \o Left(l, c))
    BY <1>1, <1>4 DEF Code
  <2>2. Code(l) = Indent(Column(l)[Leading(l)]) \o Body(l)
    BY <1>4 DEF Code
  <2>3. \A x \in Seq(Visible) : (Indent(Column(l)[Leading(l)]) \o Body(l)) \o x =
                                Indent(Column(l)[Leading(l)]) \o (Body(l) \o x)
    BY <1>2, ConcatAssociative
  <2>4. Code(k) = Code(l) \o Left(l, c)
    BY <1>3, <1>4, <2>1, <2>2, <2>3, Zenon
  <2>5. QED
    BY <1>4, <2>4, Zenon
<1>5. CASE ~Marked(l) /\ c \notin White
  <2>1. c # TAB /\ c \notin Ignored
    BY <1>5 DEF White
  <2>2. Left(l, c) = Shown(c)
    BY <1>5, <2>1 DEF Left
  <2>3. Shown(c) \in Seq(Mark)
    BY ShownIs
  <2>4. Body(k) = Shown(c)
    BY <1>1, <1>2, <1>5, <2>2, <2>3
  <2>5. QED
    BY <1>1, <1>5, <2>4 DEF Code
<1>6. CASE ~Marked(l) /\ c \in White
  BY <1>1, <1>6 DEF Code
<1>7. QED
  BY <1>4, <1>5, <1>6

\* line_character does to the encoder what a further character does to the line.
LEMMA EncodeInLine ==
    ASSUME NEW out, NEW l \in Seq(Byte), NEW c \in Byte, c \notin LineEnds
    PROVE  EncodeCharacter(LineState(out, l), c) = LineState(out, Append(l, c))
<1>1. PICK k : k = Append(l, c)
  OBVIOUS
<1>2. PICK line, column : line = Code(l) /\ column = Column(l)[Len(l)]
  OBVIOUS
<1>3. /\ Column(k)[Len(k)] = NextColumn(column, c)
      /\ Marked(k) <=> Marked(l) \/ c \notin White
  BY <1>1, <1>2, LineGrows
<1>4. Code(k) = CASE Marked(l) -> line \o Left(l, c)
                  [] ~Marked(l) /\ c \notin White -> Indent(column) \o Shown(c)
                  [] ~Marked(l) /\ c \in White -> <<>>
  BY <1>1, <1>2, CodeGrows
<1>5. line \in Seq(Visible) /\ Indent(column) \in Seq(Visible)
  BY <1>2, CodeType, LineNumbers, IndentIs
<1>6. EncodeCharacter(LineState(out, l), c) = LineCharacter(LineState(out, l), c)
  BY DEF EncodeCharacter, LineEnds
<1>7. /\ TAB \notin Ignored /\ Blank \notin Ignored /\ Blank # TAB
      /\ Ignored \subseteq White /\ TAB \in White /\ Blank \in White
  BY DEF NUL, DLE, TAB, Blank, Ignored, White
<1>8. /\ c \in Ignored => NextColumn(column, c) = column
      /\ c = TAB => NextColumn(column, c) = NextTab(column)
      /\ c = Blank \/ c \notin White => NextColumn(column, c) = column + 1
  BY <1>7 DEF NextColumn
<1>9. CASE Marked(l)
  <2>1. LineState(out, l) = OnLine(out, line, column)
    BY <1>2, <1>9 DEF LineState
  <2>2. LineState(out, k) = OnLine(out, line \o Left(l, c), NextColumn(column, c))
    BY <1>3, <1>4, <1>9 DEF LineState
  <2>3. CASE c \in Ignored
    <3>1. Left(l, c) = <<>>
      BY <2>3 DEF Left
    <3>2. line \o <<>> = line
      BY <1>5
    <3>3. QED
      BY <1>1, <1>6, <1>8, <2>1, <2>2, <2>3, <3>1, <3>2, CharacterIgnored
  <2>4. CASE c = TAB
    <3>1. Left(l, c) = Times(NextTab(column) - column, Blank)
      BY <1>2, <1>7, <1>9, <2>4 DEF Left
    <3>2. QED
      BY <1>1, <1>6, <1>8, <2>1, <2>2, <2>4, <3>1, CharacterTab
  <2>5. CASE c = Blank
    <3>1. Shown(Blank) = <<Blank>>
      BY DEF Shown, Printable, Blank
    <3>2. Left(l, c) = <<Blank>>
      BY <1>7, <1>9, <2>5, <3>1 DEF Left
    <3>3. line \o <<Blank>> = Append(line, Blank)
      BY <1>5
    <3>4. LineCharacter(OnLine(out, line, column), c)
            = OnLine(out, Append(line, Blank), column + 1)
      BY <2>5, CharacterBlank
    <3>5. LineState(out, k) = OnLine(out, Append(line, Blank), column + 1)
      BY <1>8, <2>2, <2>5, <3>2, <3>3
    <3>6. QED
      BY <1>1, <1>6, <2>1, <3>4, <3>5
  <2>6. CASE c \notin White
    <3>1. Left(l, c) = Shown(c)
      BY <1>7, <1>9, <2>6 DEF Left
    <3>2. QED
      BY <1>1, <1>6, <1>8, <2>1, <2>2, <2>6, <3>1, CharacterMark
  <2>7. QED
    BY <2>3, <2>4, <2>5, <2>6 DEF White
<1>10. CASE ~Marked(l)
  <2>1. LineState(out, l) = AtIndent(out, column)
    BY <1>2, <1>10 DEF LineState
  <2>2. CASE c \in White
    <3>1. LineState(out, k) = AtIndent(out, NextColumn(column, c))
      BY <1>3, <1>10, <2>2 DEF LineState
    <3>2. CASE c \in Ignored
      BY <1>1, <1>6, <1>8, <2>1, <3>1, <3>2, CharacterIgnored
    <3>3. CASE c = TAB
      BY <1>1, <1>6, <1>8, <2>1, <3>1, <3>3, CharacterTab
    <3>4. CASE c = Blank
      BY <1>1, <1>6, <1>8, <2>1, <3>1, <3>4, CharacterBlank
    <3>5. QED
      BY <2>2, <3>2, <3>3, <3>4 DEF White
  <2>3. CASE c \notin White
    <3>1. LineState(out, k)
            = OnLine(out, Indent(column) \o Shown(c), NextColumn(column, c))
      BY <1>3, <1>4, <1>10, <2>3 DEF LineState
    <3>2. <<>> \o Indent(column) = Indent(column)
      BY <1>5
    <3>3. QED
      BY <1>1, <1>6, <1>8, <2>1, <2>3, <3>1, <3>2, CharacterMark
  <2>4. QED
    BY <2>2, <2>3
<1>11. QED
  BY <1>9, <1>10

-----------------------------------------------------------------------------
(* The lines of a text.                                                    *)

\* Where the line in front of position e starts.
IsStart(t, e, a) ==
    /\ a \in 1 .. e
    /\ a > 1 => t[a - 1] \in LineEnds
    /\ \A i \in a .. e - 1 : t[i] \notin LineEnds

LEMMA StartIs ==
    ASSUME NEW t, NEW e \in Nat \ {0}
    PROVE  IsStart(t, e, LineStart(t, e))
<1>1. LineStart(t, e) = CHOOSE a : IsStart(t, e, a)
  BY DEF LineStart, IsStart
<1> DEFINE N == {m \in 0 .. e - 1 : \E a : IsStart(t, m + 1, a)}
<1>2. 0 \in N
  <2>1. IsStart(t, 0 + 1, 1)
    BY DEF IsStart
  <2>2. QED
    BY <2>1
<1>3. \A m \in 0 .. e - 1 - 1 : m \in N => m + 1 \in N
  <2> SUFFICES ASSUME NEW m \in 0 .. e - 1 - 1, NEW a, IsStart(t, m + 1, a)
               PROVE  \E b : IsStart(t, m + 1 + 1, b)
    OBVIOUS
  <2>1. CASE t[m + 1] \in LineEnds
    <3>1. IsStart(t, m + 1 + 1, m + 1 + 1)
      BY <2>1 DEF IsStart
    <3>2. QED
      BY <3>1
  <2>2. CASE t[m + 1] \notin LineEnds
    <3>1. IsStart(t, m + 1 + 1, a)
      BY <2>2 DEF IsStart
    <3>2. QED
      BY <3>1
  <2>3. QED
    BY <2>1, <2>2
<1>4. e - 1 \in Nat /\ e - 1 \in 0 .. e - 1 /\ e - 1 + 1 = e
  OBVIOUS
<1> HIDE DEF N
<1>5. e - 1 \in N
  BY <1>2, <1>3, <1>4, InductionUpTo
<1>6. \E a : IsStart(t, e, a)
  BY <1>4, <1>5 DEF N
<1>7. QED
  BY <1>1, <1>6

LEMMA StartUnique ==
    ASSUME NEW t, NEW e \in Nat \ {0}, NEW a, IsStart(t, e, a)
    PROVE  a = LineStart(t, e)
<1>1. PICK b : b = LineStart(t, e)
  OBVIOUS
<1>2. IsStart(t, e, b)
  BY <1>1, StartIs
<1>3. a \in 1 .. e /\ b \in 1 .. e
  BY <1>2 DEF IsStart
<1>4. ~ (a < b)
  BY <1>2, <1>3 DEF IsStart
<1>5. ~ (b < a)
  BY <1>2, <1>3 DEF IsStart
<1>6. QED
  BY <1>1, <1>3, <1>4, <1>5

\* What stands behind the last line end.
LastLine(t) == Line(t, Len(t) + 1)

LEMMA LastLineIs ==
    ASSUME NEW t, NEW n \in Nat, n = Len(t)
    PROVE  LastLine(t) = SubSeq(t, LineStart(t, n + 1), n)
<1>1. LastLine(t) = Line(t, n + 1)
  BY DEF LastLine
<1>2. PICK e \in Nat : e = n + 1
  OBVIOUS
<1>3. Line(t, e) = SubSeq(t, LineStart(t, e), e - 1) /\ e - 1 = n
  BY <1>2 DEF Line
<1>4. QED
  BY <1>1, <1>2, <1>3

LEMMA LineAppend ==
    ASSUME NEW t \in Seq(Byte), NEW c \in Byte, NEW e \in 1 .. Len(t) + 1
    PROVE  Line(Append(t, c), e) = Line(t, e)
<1>1. PICK u : u = Append(t, c)
  OBVIOUS
<1>2. \A i \in 1 .. Len(t) : u[i] = t[i]
  BY <1>1
<1>3. PICK a : a = LineStart(t, e)
  OBVIOUS
<1>4. IsStart(t, e, a) /\ e \in Nat \ {0}
  BY <1>3, StartIs
<1>5. IsStart(u, e, a)
  BY <1>2, <1>4 DEF IsStart
<1>6. LineStart(u, e) = a
  BY <1>4, <1>5, StartUnique
<1>7. a \in 1 .. e
  BY <1>4 DEF IsStart
<1>8. SubSeq(u, a, e - 1) = SubSeq(t, a, e - 1)
  BY <1>1, <1>2, <1>7
<1>9. QED
  BY <1>1, <1>3, <1>6, <1>8 DEF Line

LEMMA LastType ==
    ASSUME NEW t \in Seq(Byte)
    PROVE  LastLine(t) \in Seq(Byte)
<1>1. PICK n \in Nat : n = Len(t)
  OBVIOUS
<1>2. PICK a : a = LineStart(t, n + 1)
  OBVIOUS
<1>3. a \in 1 .. n + 1
  BY <1>2, StartIs DEF IsStart
<1>4. SubSeq(t, a, n + 1 - 1) \in Seq(Byte)
  BY <1>1, <1>3
<1>5. QED
  BY <1>1, <1>2, <1>4 DEF LastLine, Line

LEMMA LastEmpty == LastLine(<<>>) = <<>>
<1>1. Len(<<>>) = 0
  OBVIOUS
<1>2. LineStart(<<>>, 1) \in 1 .. 1
  BY StartIs DEF IsStart
<1>3. SubSeq(<<>>, 1, 0) = <<>>
  OBVIOUS
<1>4. LastLine(<<>>) = SubSeq(<<>>, LineStart(<<>>, 1), 0)
  <2>1. 0 \in Nat /\ 0 + 1 = 1
    OBVIOUS
  <2>2. LastLine(<<>>) = SubSeq(<<>>, LineStart(<<>>, 0 + 1), 0)
    BY <1>1, <2>1, LastLineIs
  <2>3. QED
    BY <2>1, <2>2
<1>5. QED
  BY <1>2, <1>3, <1>4

LEMMA LastAppend ==
    ASSUME NEW t \in Seq(Byte), NEW c \in Byte
    PROVE  LastLine(Append(t, c)) = IF c \in LineEnds THEN <<>> ELSE Append(LastLine(t), c)
<1>1. PICK u : u = Append(t, c)
  OBVIOUS
<1>2. PICK n \in Nat : n = Len(t)
  OBVIOUS
<1>3. u \in Seq(Byte) /\ Len(u) = n + 1 /\ u[n + 1] = c /\ \A i \in 1 .. n : u[i] = t[i]
  BY <1>1, <1>2
<1>4. LastLine(u) = SubSeq(u, LineStart(u, n + 2), n + 1)
  <2>1. PICK m \in Nat : m = n + 1
    OBVIOUS
  <2>2. m = Len(u) /\ m + 1 = n + 2
    BY <1>3, <2>1
  <2>3. LastLine(u) = SubSeq(u, LineStart(u, m + 1), m)
    BY <2>2, LastLineIs
  <2>4. QED
    BY <2>1, <2>2, <2>3
<1>5. CASE c \in LineEnds
  <2>1. IsStart(u, n + 2, n + 2)
    BY <1>3, <1>5 DEF IsStart
  <2>2. LineStart(u, n + 2) = n + 2
    BY <2>1, StartUnique
  <2>3. SubSeq(u, n + 2, n + 1) = <<>>
    BY <1>3, SubSeqEmpty
  <2>4. QED
    BY <1>1, <1>4, <1>5, <2>2, <2>3
<1>6. CASE c \notin LineEnds
  <2>1. PICK a : a = LineStart(t, n + 1)
    OBVIOUS
  <2>2. IsStart(t, n + 1, a)
    BY <2>1, StartIs
  <2>3. a \in 1 .. n + 1
    BY <2>2 DEF IsStart
  <2>4. IsStart(u, n + 2, a)
    <3>1. a > 1 => u[a - 1] \in LineEnds
      BY <1>3, <2>2, <2>3 DEF IsStart
    <3>2. \A i \in a .. n + 1 : u[i] \notin LineEnds
      BY <1>3, <1>6, <2>2, <2>3 DEF IsStart
    <3>3. QED
      BY <2>3, <3>1, <3>2 DEF IsStart
  <2>5. LineStart(u, n + 2) = a
    BY <2>4, StartUnique
  <2>6. LastLine(t) = SubSeq(t, a, n)
    <3>1. LastLine(t) = SubSeq(t, LineStart(t, n + 1), n)
      BY <1>2, LastLineIs
    <3>2. QED
      BY <2>1, <3>1
  <2>7. SubSeq(u, a, n + 1) = Append(SubSeq(t, a, n), c)
    <3> DEFINE x == SubSeq(u, a, n + 1)
               y == Append(SubSeq(t, a, n), c)
    <3>1. /\ SubSeq(t, a, n) \in Seq(Byte) /\ Len(SubSeq(t, a, n)) = n - a + 1
          /\ \A i \in 1 .. n - a + 1 : SubSeq(t, a, n)[i] = t[a + i - 1]
      BY <1>2, <2>3
    <3>2. /\ x \in Seq(Byte) /\ Len(x) = n - a + 2
          /\ \A i \in 1 .. n - a + 2 : x[i] = u[a + i - 1]
      BY <1>3, <2>3
    <3>3. /\ y \in Seq(Byte) /\ Len(y) = n - a + 2
          /\ \A i \in 1 .. n - a + 2 :
                y[i] = IF i = n - a + 2 THEN c ELSE SubSeq(t, a, n)[i]
      BY <2>3, <3>1
    <3>4. \A i \in 1 .. n - a + 2 : x[i] = y[i]
      BY <1>3, <2>3, <3>1, <3>2, <3>3
    <3> HIDE DEF x, y
    <3>5. x = y
      BY <3>2, <3>3, <3>4, SeqEqual
    <3>6. QED
      BY <3>5 DEF x, y
  <2>8. QED
    BY <1>1, <1>4, <1>6, <2>5, <2>6, <2>7
<1>7. QED
  BY <1>5, <1>6

-----------------------------------------------------------------------------
(* What a text file keeps of the lines that have ended.                    *)

Inline == Byte \ LineEnds

Ending(t, e) == IF t[e] \in LineEnds THEN Append(Kept(Line(t, e)), LF) ELSE <<>>

\* What is kept of the lines that have ended, and whether they fit.
Done(t) == FlattenSeq([e \in 1 .. Len(t) |-> Ending(t, e)])

FitsDone(t) == \A e \in 1 .. Len(t) : t[e] \in LineEnds => Fits(Line(t, e))

\* The text with an end for its last line.
Closed(t) == IF Marked(LastLine(t)) THEN Append(t, LF) ELSE t

\* The blanks of an indent that have no code.
Loose(n) == IF n % MaxBlanks <= 2 THEN n % MaxBlanks ELSE 0

LEMMA KeptIs ==
    ASSUME NEW l \in Seq(Byte)
    PROVE  /\ ~Marked(l) => Kept(l) = <<>>
           /\ Marked(l) =>
                LET n == Column(l)[Leading(l)]
                IN Kept(l) = Times((n - Loose(n)) \div Tab, TAB)
                             \o Times(((n - Loose(n)) % Tab) + Loose(n), Blank) \o Body(l)
<1>1. Marked(l) <=> Body(l) # <<>>
  BY BodyMarked
<1>2. QED
  BY <1>1 DEF Kept, Loose

LEMMA LooseIs ==
    ASSUME NEW n \in Nat
    PROVE  /\ Loose(n) \in Nat /\ n - Loose(n) \in Nat
           /\ (n - Loose(n)) \div Tab \in Nat /\ (n - Loose(n)) % Tab \in Nat
           /\ n - Loose(n) = ((n - Loose(n)) \div Tab) * Tab + ((n - Loose(n)) % Tab)
<1>1. PICK q \in Nat, r \in Nat : /\ r = n % MaxBlanks /\ r <= n
  <2>1. /\ n \div MaxBlanks \in Nat /\ n % MaxBlanks \in Nat
        /\ n = (n \div MaxBlanks) * MaxBlanks + (n % MaxBlanks)
    BY IndentIs, Sizes
  <2>2. PICK q \in Nat, r \in Nat : q = n \div MaxBlanks /\ r = n % MaxBlanks
    BY <2>1
  <2>3. q * MaxBlanks \in Nat
    BY Sizes
  <2>4. QED
    BY <2>1, <2>2, <2>3
<1>2. PICK k : k = Loose(n)
  OBVIOUS
<1>3. k \in Nat /\ n - k \in Nat
  BY <1>1, <1>2 DEF Loose
<1>4. PICK m \in Nat : m = n - k
  BY <1>3
<1>5. m \div Tab \in Nat /\ m % Tab \in 0 .. Tab - 1 /\ m = (m \div Tab) * Tab + (m % Tab)
  BY Sizes, Division
<1>6. QED
  BY <1>2, <1>3, <1>4, <1>5, Sizes

LEMMA KeptType ==
    ASSUME NEW l \in Seq(Byte)
    PROVE  Kept(l) \in Seq(Inline)
<1>1. CASE ~Marked(l)
  <2>1. Kept(l) = <<>>
    BY <1>1, KeptIs
  <2>2. QED
    BY <2>1
<1>2. CASE Marked(l)
  <2>1. PICK n \in Nat : n = Column(l)[Leading(l)]
    BY LineNumbers
  <2>2. PICK i \in Nat, j \in Nat :
           i = (n - Loose(n)) \div Tab /\ j = ((n - Loose(n)) % Tab) + Loose(n)
    <3>1. /\ (n - Loose(n)) \div Tab \in Nat
          /\ (n - Loose(n)) % Tab \in Nat /\ Loose(n) \in Nat
      BY LooseIs
    <3>2. PICK a \in Nat, b \in Nat : a = (n - Loose(n)) % Tab /\ b = Loose(n)
      BY <3>1
    <3>3. a + b \in Nat
      OBVIOUS
    <3>4. QED
      BY <3>1, <3>2, <3>3
  <2>3. Kept(l) = Times(i, TAB) \o Times(j, Blank) \o Body(l)
    BY <1>2, <2>1, <2>2, KeptIs
  <2>4. Mark \subseteq Inline /\ TAB \in Inline /\ Blank \in Inline
    BY DEF Mark, Inline, Byte, LineEnds, TAB, Blank, LF, CR
  <2>5. Body(l) \in Seq(Inline)
    BY <2>4, BodyType, SeqMonotonic
  <2>6. Times(i, TAB) \in Seq(Inline) /\ Times(j, Blank) \in Seq(Inline)
    BY <2>4, TimesIs
  <2>7. QED
    BY <2>3, <2>5, <2>6
<1>3. QED
  BY <1>1, <1>2

LEMMA LineType ==
    ASSUME NEW t \in Seq(Byte), NEW e \in 1 .. Len(t) + 1
    PROVE  Line(t, e) \in Seq(Byte)
<1>1. PICK n \in Nat : n = Len(t)
  OBVIOUS
<1>2. PICK a : a = LineStart(t, e)
  OBVIOUS
<1>3. e \in Nat \ {0}
  OBVIOUS
<1>4. a \in 1 .. e
  BY <1>2, <1>3, StartIs DEF IsStart
<1>5. SubSeq(t, a, e - 1) \in Seq(Byte)
  BY <1>4
<1>6. QED
  BY <1>2, <1>5 DEF Line

LEMMA KeptLine ==
    ASSUME NEW l \in Seq(Byte)
    PROVE  Append(Kept(l), LF) \in Seq(Byte)
<1>1. Inline \subseteq Byte /\ LF \in Byte
  BY DEF Inline, Byte, LF
<1>2. Kept(l) \in Seq(Byte)
  BY <1>1, KeptType, SeqMonotonic
<1>3. QED
  BY <1>1, <1>2

LEMMA EndingType ==
    ASSUME NEW t \in Seq(Byte)
    PROVE  [e \in 1 .. Len(t) |-> Ending(t, e)] \in Seq(Seq(Byte))
<1>1. \A e \in 1 .. Len(t) : Ending(t, e) \in Seq(Byte)
  <2> SUFFICES ASSUME NEW e \in 1 .. Len(t) PROVE Ending(t, e) \in Seq(Byte)
    OBVIOUS
  <2>1. e \in 1 .. Len(t) + 1
    OBVIOUS
  <2>2. Line(t, e) \in Seq(Byte)
    BY <2>1, LineType
  <2>3. Append(Kept(Line(t, e)), LF) \in Seq(Byte)
    BY <2>2, KeptLine
  <2>4. <<>> \in Seq(Byte)
    OBVIOUS
  <2>5. QED
    BY <2>3, <2>4 DEF Ending
<1>2. QED
  BY <1>1

LEMMA DoneEmpty == Done(<<>>) = <<>> /\ FitsDone(<<>>)
<1>1. Len(<<>>) = 0
  OBVIOUS
<1>2. [e \in 1 .. Len(<<>>) |-> Ending(<<>>, e)] = <<>>
  BY <1>1
<1>3. QED
  BY <1>1, <1>2, FlattenEmpty DEF Done, FitsDone

LEMMA DoneType ==
    ASSUME NEW t \in Seq(Byte)
    PROVE  Done(t) \in Seq(Byte)
BY EndingType, FlattenType DEF Done

LEMMA DoneAppend ==
    ASSUME NEW t \in Seq(Byte), NEW c \in Byte
    PROVE  /\ c \in LineEnds =>
                Done(Append(t, c)) = Done(t) \o Append(Kept(LastLine(t)), LF)
           /\ c \notin LineEnds => Done(Append(t, c)) = Done(t)
           /\ FitsDone(Append(t, c)) <=> FitsDone(t) /\ (c \in LineEnds => Fits(LastLine(t)))
<1>1. PICK u : u = Append(t, c)
  OBVIOUS
<1>2. PICK n \in Nat : n = Len(t)
  OBVIOUS
<1>3. u \in Seq(Byte) /\ Len(u) = n + 1 /\ u[n + 1] = c /\ \A i \in 1 .. n : u[i] = t[i]
  BY <1>1, <1>2
<1>4. \A e \in 1 .. n : Line(u, e) = Line(t, e)
  BY <1>1, <1>2, LineAppend
<1>5. Line(u, n + 1) = LastLine(t)
  BY <1>1, <1>2, LineAppend DEF LastLine
<1>6. \A e \in 1 .. n : Ending(u, e) = Ending(t, e)
  BY <1>3, <1>4 DEF Ending
<1>7. PICK x : x = Ending(u, n + 1)
  OBVIOUS
<1>8. x = IF c \in LineEnds THEN Append(Kept(LastLine(t)), LF) ELSE <<>>
  BY <1>3, <1>5, <1>7 DEF Ending
<1>9. x \in Seq(Byte)
  BY <1>8, LastType, KeptLine
<1>10. [e \in 1 .. n + 1 |-> Ending(u, e)] = Append([e \in 1 .. n |-> Ending(t, e)], x)
  <2>1. Append([e \in 1 .. n |-> Ending(t, e)], x)
          = [e \in 1 .. n + 1 |-> IF e <= n THEN Ending(t, e) ELSE x]
    OBVIOUS
  <2>2. \A e \in 1 .. n + 1 : Ending(u, e) = IF e <= n THEN Ending(t, e) ELSE x
    BY <1>6, <1>7
  <2>3. QED
    BY <2>1, <2>2
<1>11. Done(u) = Done(t) \o x
  BY <1>2, <1>3, <1>9, <1>10, EndingType, FlattenAppend DEF Done
<1>12. Done(t) \o <<>> = Done(t)
  BY DoneType
<1>13. FitsDone(u) <=> FitsDone(t) /\ (c \in LineEnds => Fits(LastLine(t)))
  BY <1>2, <1>3, <1>4, <1>5 DEF FitsDone
<1>14. QED
  BY <1>1, <1>8, <1>11, <1>12, <1>13

LEMMA ClosedIs ==
    ASSUME NEW t \in Seq(Byte)
    PROVE  /\ Closed(t) \in Seq(Byte) /\ ~Marked(LastLine(Closed(t)))
           /\ Canonical(t) = Done(Closed(t))
           /\ LinesFit(t) <=> FitsDone(Closed(t))
<1>1. PICK n \in Nat : n = Len(t)
  OBVIOUS
<1>2. LF \in Byte /\ LF \in LineEnds
  BY DEF LF, Byte, LineEnds
<1>3. Closed(t) \in Seq(Byte)
  BY <1>2 DEF Closed
<1>4. ~Marked(LastLine(Closed(t)))
  BY <1>2, LastAppend, LineEmpty DEF Closed
<1>5. /\ \A e \in 1 .. n : Ended(t, e) <=> t[e] \in LineEnds
      /\ Ended(t, n + 1) <=> Marked(LastLine(t))
  <2>1. Ended(t, n + 1) <=> Body(LastLine(t)) # <<>>
    BY <1>1 DEF Ended, LastLine
  <2>2. QED
    BY <1>1, <2>1, LastType, BodyMarked DEF Ended
<1>6. PICK x : x = IF Marked(LastLine(t)) THEN Append(Kept(LastLine(t)), LF) ELSE <<>>
  OBVIOUS
<1>7. x \in Seq(Byte)
  BY <1>6, LastType, KeptLine
<1>8. Canonical(t) = Done(t) \o x
  <2> DEFINE F(e) == IF Ended(t, e) THEN Append(Kept(Line(t, e)), LF) ELSE <<>>
  <2>1. \A e \in 1 .. n : F(e) = Ending(t, e)
    BY <1>5 DEF Ending
  <2>2. F(n + 1) = x
    BY <1>1, <1>5, <1>6 DEF LastLine
  <2>3. Canonical(t) = FlattenSeq([e \in 1 .. n + 1 |-> F(e)])
    BY <1>1 DEF Canonical
  <2> HIDE DEF F
  <2>4. [e \in 1 .. n + 1 |-> F(e)] = Append([e \in 1 .. n |-> Ending(t, e)], x)
    <3>1. Append([e \in 1 .. n |-> Ending(t, e)], x)
            = [e \in 1 .. n + 1 |-> IF e <= n THEN Ending(t, e) ELSE x]
      OBVIOUS
    <3>2. \A e \in 1 .. n + 1 : F(e) = IF e <= n THEN Ending(t, e) ELSE x
      BY <2>1, <2>2
    <3>3. QED
      BY <3>1, <3>2
  <2>5. QED
    BY <1>1, <1>7, <2>3, <2>4, EndingType, FlattenAppend DEF Done
<1>9. Done(t) \o <<>> = Done(t)
  BY DoneType
<1>10. Canonical(t) = Done(Closed(t))
  BY <1>2, <1>6, <1>8, <1>9, DoneAppend DEF Closed
<1>11. LinesFit(t) <=> FitsDone(t) /\ (Marked(LastLine(t)) => Fits(LastLine(t)))
  BY <1>1, <1>5 DEF LinesFit, FitsDone, LastLine
<1>12. LinesFit(t) <=> FitsDone(Closed(t))
  BY <1>2, <1>11, DoneAppend DEF Closed
<1>13. QED
  BY <1>3, <1>4, <1>10, <1>12

-----------------------------------------------------------------------------
(* What is kept of a line has the indent and the body of the line.         *)

\* A number is divided in one way only.
LEMMA DivisionUnique ==
    ASSUME NEW q \in Int, NEW d \in Nat \ {0}, NEW r \in 0 .. d - 1
    PROVE  (q * d + r) \div d = q /\ (q * d + r) % d = r
<1>1. PICK n \in Int : n = q * d + r
  <2>1. q * d \in Int
    OBVIOUS
  <2>2. QED
    BY <2>1
<1>2. PICK p \in Int, s \in 0 .. d - 1 : p = n \div d /\ s = n % d /\ n = p * d + s
  <2>1. n \div d \in Int /\ n % d \in 0 .. d - 1 /\ n = (n \div d) * d + (n % d)
    OBVIOUS
  <2>2. QED
    BY <2>1
<1>3. p * d \in Int /\ q * d \in Int
  OBVIOUS
<1>4. ~ (p < q)
  <2> SUFFICES ASSUME p + 1 <= q PROVE FALSE
    OBVIOUS
  <2>1. PICK a \in Nat : q = p + 1 + a
    <3>1. q - (p + 1) \in Nat /\ q = p + 1 + (q - (p + 1))
      OBVIOUS
    <3>2. QED
      BY <3>1
  <2>2. q * d = p * d + d + a * d
    BY <2>1
  <2>3. a * d \in Nat
    OBVIOUS
  <2>4. QED
    BY <1>1, <1>2, <1>3, <2>2, <2>3
<1>5. ~ (q < p)
  <2> SUFFICES ASSUME q + 1 <= p PROVE FALSE
    OBVIOUS
  <2>1. PICK a \in Nat : p = q + 1 + a
    <3>1. p - (q + 1) \in Nat /\ p = q + 1 + (p - (q + 1))
      OBVIOUS
    <3>2. QED
      BY <3>1
  <2>2. p * d = q * d + d + a * d
    BY <2>1
  <2>3. a * d \in Nat
    OBVIOUS
  <2>4. QED
    BY <1>1, <1>2, <1>3, <2>2, <2>3
<1>6. p = q
  BY <1>4, <1>5
<1>7. s = r
  BY <1>1, <1>2, <1>3, <1>6
<1>8. QED
  BY <1>1, <1>2, <1>6, <1>7

\* A line of blanks that ends at a column.
AtColumn(l, n) == l \in Seq(Byte) /\ ~Marked(l) /\ Column(l)[Len(l)] = n

LEMMA AtColumnGrows ==
    ASSUME NEW l, NEW n \in Nat, AtColumn(l, n)
    PROVE  AtColumn(Append(l, TAB), NextTab(n)) /\ AtColumn(Append(l, Blank), n + 1)
<1>1. /\ TAB \in Byte /\ Blank \in Byte /\ TAB \in White /\ Blank \in White
      /\ TAB \notin Ignored /\ Blank \notin Ignored /\ Blank # TAB
  BY DEF TAB, Blank, Byte, White, Ignored, NUL, DLE
<1>2. l \in Seq(Byte) /\ ~Marked(l) /\ Column(l)[Len(l)] = n
  BY DEF AtColumn
<1>3. NextColumn(n, TAB) = NextTab(n) /\ NextColumn(n, Blank) = n + 1
  BY <1>1 DEF NextColumn
<1>4. PICK k : k = Append(l, TAB)
  OBVIOUS
<1>5. k \in Seq(Byte) /\ ~Marked(k) /\ Column(k)[Len(k)] = NextTab(n)
  <2>1. k \in Seq(Byte)
    BY <1>1, <1>2, <1>4
  <2>2. /\ Column(k)[Len(k)] = NextColumn(Column(l)[Len(l)], TAB)
        /\ Marked(k) <=> Marked(l) \/ TAB \notin White
    BY <1>1, <1>2, <1>4, LineGrows
  <2>3. QED
    BY <1>1, <1>2, <1>3, <2>1, <2>2
<1>6. PICK m : m = Append(l, Blank)
  OBVIOUS
<1>7. m \in Seq(Byte) /\ ~Marked(m) /\ Column(m)[Len(m)] = n + 1
  <2>1. m \in Seq(Byte)
    BY <1>1, <1>2, <1>6
  <2>2. /\ Column(m)[Len(m)] = NextColumn(Column(l)[Len(l)], Blank)
        /\ Marked(m) <=> Marked(l) \/ Blank \notin White
    BY <1>1, <1>2, <1>6, LineGrows
  <2>3. QED
    BY <1>1, <1>2, <1>3, <2>1, <2>2
<1>8. QED
  BY <1>4, <1>5, <1>6, <1>7 DEF AtColumn

LEMMA TimesAppend ==
    ASSUME NEW n \in Nat, NEW c
    PROVE  Times(n + 1, c) = Append(Times(n, c), c) /\ Times(0, c) = <<>>
<1>1. Times(n, c) \in Seq({c}) /\ Len(Times(n, c)) = n
  BY TimesIs
<1>2. Append(Times(n, c), c) = [i \in 1 .. n + 1 |-> IF i <= n THEN c ELSE c]
  BY <1>1 DEF Times
<1>3. QED
  BY <1>2 DEF Times

LEMMA TabsColumn ==
    ASSUME NEW n \in Nat
    PROVE  AtColumn(Times(n, TAB), n * Tab)
<1> DEFINE N == {j \in Nat : AtColumn(Times(j, TAB), j * Tab)}
<1>1. 0 \in N
  <2>1. Times(0, TAB) = <<>>
    BY TimesAppend
  <2>2. 0 * Tab = 0
    BY Sizes
  <2>3. AtColumn(<<>>, 0)
    BY LineEmpty DEF AtColumn
  <2>4. AtColumn(Times(0, TAB), 0 * Tab)
    BY <2>1, <2>2, <2>3
  <2>5. QED
    BY <2>4
<1>2. \A j \in 0 .. n - 1 : j \in N => j + 1 \in N
  <2> SUFFICES ASSUME NEW j \in 0 .. n - 1, AtColumn(Times(j, TAB), j * Tab)
               PROVE  AtColumn(Times(j + 1, TAB), (j + 1) * Tab)
    OBVIOUS
  <2>1. j \in Nat /\ Tab \in Nat \ {0}
    BY Sizes
  <2>2. PICK m \in Nat : m = j * Tab
    BY <2>1
  <2>3. m % Tab = 0
    <3>1. 0 \in 0 .. Tab - 1 /\ m = j * Tab + 0 /\ j \in Int
      BY <2>1, <2>2
    <3>2. (j * Tab + 0) % Tab = 0
      BY <2>1, <3>1, DivisionUnique
    <3>3. QED
      BY <3>1, <3>2
  <2>4. NextTab(m) = (j + 1) * Tab
    BY <2>1, <2>2, <2>3 DEF NextTab
  <2>5. AtColumn(Append(Times(j, TAB), TAB), NextTab(m))
    BY <2>2, AtColumnGrows
  <2>6. QED
    BY <2>1, <2>4, <2>5, TimesAppend
<1>3. n \in 0 .. n
  OBVIOUS
<1> HIDE DEF N
<1>4. n \in N
  BY <1>1, <1>2, <1>3, InductionUpTo
<1>5. QED
  BY <1>4 DEF N

LEMMA BlanksColumn ==
    ASSUME NEW l, NEW m \in Nat, AtColumn(l, m), NEW n \in Nat
    PROVE  AtColumn(l \o Times(n, Blank), m + n)
<1> DEFINE N == {j \in Nat : AtColumn(l \o Times(j, Blank), m + j)}
<1>0. l \in Seq(Byte)
  BY DEF AtColumn
<1>1. 0 \in N
  <2>1. l \o Times(0, Blank) = l
    BY <1>0, TimesAppend
  <2>2. m + 0 = m
    OBVIOUS
  <2>3. AtColumn(l \o Times(0, Blank), m + 0)
    BY <2>1, <2>2
  <2>4. QED
    BY <2>3
<1>2. \A j \in 0 .. n - 1 : j \in N => j + 1 \in N
  <2> SUFFICES ASSUME NEW j \in 0 .. n - 1, AtColumn(l \o Times(j, Blank), m + j)
               PROVE  AtColumn(l \o Times(j + 1, Blank), m + (j + 1))
    OBVIOUS
  <2>1. AtColumn(Append(l \o Times(j, Blank), Blank), m + j + 1)
    <3>1. m + j \in Nat
      OBVIOUS
    <3>2. QED
      BY <3>1, AtColumnGrows
  <2>2. Times(j, Blank) \in Seq(Byte) /\ Blank \in Byte
    <3>1. Blank \in Byte
      BY DEF Blank, Byte
    <3>2. QED
      BY <3>1, TimesIs
  <2>3. l \o Append(Times(j, Blank), Blank) = Append(l \o Times(j, Blank), Blank)
    BY <1>0, <2>2
  <2>4. m + j + 1 = m + (j + 1)
    OBVIOUS
  <2>5. Times(j + 1, Blank) = Append(Times(j, Blank), Blank)
    BY TimesAppend
  <2>6. QED
    BY <2>1, <2>3, <2>4, <2>5
<1>3. n \in 0 .. n
  OBVIOUS
<1> HIDE DEF N
<1>4. n \in N
  BY <1>1, <1>2, <1>3, InductionUpTo
<1>5. QED
  BY <1>4 DEF N

\* A line with its indent and its body.
HasBody(l, n, x) == l \in Seq(Byte) /\ Marked(l) /\ Column(l)[Leading(l)] = n /\ Body(l) = x

LEMMA BodyGrows ==
    ASSUME NEW l, NEW n, NEW x \in Seq(Mark), NEW c \in Mark
    PROVE  /\ HasBody(l, n, x) => HasBody(Append(l, c), n, Append(x, c))
           /\ AtColumn(l, n) /\ c # Blank => HasBody(Append(l, c), n, <<c>>)
<1>1. c \in Byte /\ c # TAB /\ c \notin Ignored /\ Shown(c) = <<c>>
  <2>1. c \in Byte /\ c # TAB /\ c \notin Ignored
    BY DEF Mark, Byte, TAB, Ignored, NUL, DLE
  <2>2. QED
    BY <2>1, ShownIs
<1>2. PICK k : k = Append(l, c)
  OBVIOUS
<1>3. ASSUME HasBody(l, n, x) PROVE HasBody(k, n, Append(x, c))
  <2>1. l \in Seq(Byte) /\ Marked(l) /\ Column(l)[Leading(l)] = n /\ Body(l) = x
    BY <1>3 DEF HasBody
  <2>2. Left(l, c) = <<c>>
    BY <1>1, <2>1 DEF Left
  <2>3. x \o <<c>> = Append(x, c)
    OBVIOUS
  <2>4. /\ Marked(k) <=> Marked(l) \/ c \notin White
        /\ Marked(l) => Column(k)[Leading(k)] = Column(l)[Leading(l)]
        /\ Body(k) = Body(l) \o Left(l, c)
    BY <1>1, <1>2, <2>1, LineGrows
  <2>5. k \in Seq(Byte)
    BY <1>1, <1>2, <2>1
  <2>6. QED
    BY <2>1, <2>2, <2>3, <2>4, <2>5 DEF HasBody
<1>4. ASSUME AtColumn(l, n), c # Blank PROVE HasBody(k, n, <<c>>)
  <2>1. l \in Seq(Byte) /\ ~Marked(l) /\ Column(l)[Len(l)] = n /\ Body(l) = <<>>
    BY <1>4, BodyMarked DEF AtColumn
  <2>2. c \notin White
    BY <1>1, <1>4 DEF White
  <2>3. Left(l, c) = <<c>>
    BY <1>1, <2>2 DEF Left
  <2>4. <<>> \o <<c>> = <<c>>
    OBVIOUS
  <2>5. /\ Marked(k) <=> Marked(l) \/ c \notin White
        /\ ~Marked(l) /\ c \notin White => Column(k)[Leading(k)] = Column(l)[Len(l)]
        /\ Body(k) = Body(l) \o Left(l, c)
    BY <1>1, <1>2, <2>1, LineGrows
  <2>6. k \in Seq(Byte)
    BY <1>1, <1>2, <2>1
  <2>7. QED
    BY <2>1, <2>2, <2>3, <2>4, <2>5, <2>6 DEF HasBody
<1>5. QED
  BY <1>2, <1>3, <1>4

LEMMA BodyExtended ==
    ASSUME NEW l, NEW n, NEW x \in Seq(Mark), HasBody(l, n, x), NEW v \in Seq(Mark)
    PROVE  HasBody(l \o v, n, x \o v)
<1> DEFINE P == {w \in Seq(Mark) : HasBody(l \o w, n, x \o w)}
<1>1. <<>> \in P
  <2>1. l \o <<>> = l /\ x \o <<>> = x
    BY DEF HasBody
  <2>2. QED
    BY <2>1
<1>2. \A w \in Seq(Mark), c \in Mark : w \in P => Append(w, c) \in P
  <2> SUFFICES ASSUME NEW w \in Seq(Mark), NEW c \in Mark, HasBody(l \o w, n, x \o w)
               PROVE  HasBody(l \o Append(w, c), n, x \o Append(w, c))
    OBVIOUS
  <2>1. HasBody(Append(l \o w, c), n, Append(x \o w, c))
    <3>1. x \o w \in Seq(Mark)
      OBVIOUS
    <3>2. QED
      BY <3>1, BodyGrows
  <2>2. l \in Seq(Byte) /\ w \in Seq(Byte) /\ c \in Byte
    <3>1. Mark \subseteq Byte
      BY DEF Mark, Byte
    <3>2. QED
      BY <3>1, SeqMonotonic DEF HasBody
  <2>3. l \o Append(w, c) = Append(l \o w, c)
    BY <2>2
  <2>4. x \o Append(w, c) = Append(x \o w, c)
    OBVIOUS
  <2>5. QED
    BY <2>1, <2>3, <2>4
<1> HIDE DEF P
<1>3. v \in P
  BY <1>1, <1>2, SequenceInduction
<1>4. QED
  BY <1>3 DEF P

\* What is kept of a line is written as the line is, and is kept as it is.
LEMMA KeptCode ==
    ASSUME NEW l \in Seq(Byte)
    PROVE  /\ Kept(l) \in Seq(Byte) /\ (Marked(Kept(l)) <=> Marked(l))
           /\ Body(Kept(l)) = Body(l)
           /\ Marked(l) => Column(Kept(l))[Leading(Kept(l))] = Column(l)[Leading(l)]
           /\ Code(Kept(l)) = Code(l) /\ Kept(Kept(l)) = Kept(l)
<1>1. CASE ~Marked(l)
  <2>1. Kept(l) = <<>> /\ Body(l) = <<>>
    BY <1>1, KeptIs, BodyMarked
  <2>2. ~Marked(<<>>) /\ Body(<<>>) = <<>> /\ <<>> \in Seq(Byte) /\ Kept(<<>>) = <<>>
    BY LineEmpty, KeptIs
  <2>3. Code(l) = <<>> /\ Code(<<>>) = <<>>
    BY <1>1, <2>2 DEF Code
  <2>4. QED
    BY <1>1, <2>1, <2>2, <2>3
<1>2. CASE Marked(l)
  <2>1. PICK n \in Nat : n = Column(l)[Leading(l)]
    BY LineNumbers
  <2>2. PICK a \in Nat, q \in Nat, r \in Nat :
           /\ a = Loose(n) /\ q = (n - Loose(n)) \div Tab /\ r = (n - Loose(n)) % Tab
           /\ n - a = q * Tab + r
    <3>1. /\ Loose(n) \in Nat /\ (n - Loose(n)) \div Tab \in Nat
          /\ (n - Loose(n)) % Tab \in Nat
          /\ n - Loose(n) = ((n - Loose(n)) \div Tab) * Tab + ((n - Loose(n)) % Tab)
      BY LooseIs
    <3>2. QED
      BY <3>1
  <2>3. Kept(l) = Times(q, TAB) \o Times(r + a, Blank) \o Body(l)
    BY <1>2, <2>1, <2>2, KeptIs
  <2>4. AtColumn(Times(q, TAB) \o Times(r + a, Blank), n)
    <3>1. q * Tab \in Nat /\ r + a \in Nat
      BY Sizes
    <3>2. q * Tab + (r + a) = n
      <4>1. PICK z \in Nat : z = q * Tab
        BY <3>1
      <4>2. n - a = z + r
        BY <2>2, <4>1
      <4>3. z + (r + a) = n
        BY <4>2
      <4>4. QED
        BY <4>1, <4>3
    <3>3. AtColumn(Times(q, TAB) \o Times(r + a, Blank), q * Tab + (r + a))
      BY <3>1, TabsColumn, BlanksColumn
    <3>4. QED
      BY <3>2, <3>3
  <2>5. PICK p : p = Times(q, TAB) \o Times(r + a, Blank)
    OBVIOUS
  <2>6. PICK b \in Seq(Mark) : b = Body(l) /\ b # <<>> /\ b[1] # Blank
    BY <1>2, BodyType, BodyMarked
  <2>7. PICK c \in Mark, v \in Seq(Mark) : b = <<c>> \o v /\ c # Blank
    <3>1. b = <<Head(b)>> \o Tail(b) /\ Head(b) \in Mark /\ Tail(b) \in Seq(Mark)
          /\ Head(b) = b[1]
      BY <2>6
    <3>2. QED
      BY <2>6, <3>1
  <2>8. HasBody(Append(p, c), n, <<c>>)
    BY <2>4, <2>5, <2>7, BodyGrows
  <2>9. HasBody(Append(p, c) \o v, n, b)
    <3>1. <<c>> \in Seq(Mark)
      OBVIOUS
    <3>2. QED
      BY <2>7, <2>8, <3>1, BodyExtended
  <2>10. Append(p, c) \o v = p \o b
    <3>1. p \in Seq(Byte) /\ c \in Byte /\ v \in Seq(Byte)
      <4>1. Mark \subseteq Byte
        BY DEF Mark, Byte
      <4>2. QED
        BY <2>4, <2>5, <4>1, SeqMonotonic DEF AtColumn
    <3>2. Append(p, c) = p \o <<c>>
      BY <3>1
    <3>3. (p \o <<c>>) \o v = p \o (<<c>> \o v)
      <4>1. <<c>> \in Seq(Byte)
        BY <3>1
      <4>2. QED
        BY <3>1, <4>1, ConcatAssociative
    <3>4. QED
      BY <2>7, <3>2, <3>3
  <2>11. PICK k : k = Kept(l)
    OBVIOUS
  <2>12. HasBody(k, n, b)
    BY <2>3, <2>5, <2>6, <2>9, <2>10, <2>11
  <2>13. /\ k \in Seq(Byte) /\ Marked(k) /\ Body(k) = Body(l)
         /\ Column(k)[Leading(k)] = n
    BY <2>6, <2>12 DEF HasBody
  <2>14. Code(k) = Code(l)
    BY <1>2, <2>1, <2>13 DEF Code
  <2>15. Kept(k) = Kept(l)
    BY <1>2, <2>1, <2>13, KeptIs
  <2>16. QED
    BY <1>2, <2>1, <2>11, <2>13, <2>14, <2>15
<1>3. QED
  BY <1>1, <1>2

-----------------------------------------------------------------------------
(* The encoder, line by line.                                              *)

Header == Times(Page, NUL)

Padding(out, line) ==
    IF (Len(out) % Page) + Len(line) > PerPage
    THEN Times(Page - (Len(out) % Page), NUL) ELSE <<>>

\* What is written when line l ends.
Put(out, l) ==
    (out \o Padding(out, Append(Code(l), CR))) \o Split(Append(Code(l), CR))

\* What is written when all of t has been read but for its end.
Out(t) == Encoded(Fresh(Header), t).out

LEMMA StateFields ==
    ASSUME NEW out, NEW l
    PROVE  LineState(out, l).out = out /\ LineState(out, l).line = Code(l)
<1>1. CASE Marked(l)
  BY <1>1 DEF LineState, OnLine
<1>2. CASE ~Marked(l)
  BY <1>2 DEF LineState, AtIndent, Code
<1>3. QED
  BY <1>1, <1>2

LEMMA WriteOneLineIs ==
    ASSUME NEW out, NEW l, NEW s, s.out = out, s.line = Code(l)
    PROVE  WriteOneLine(s) = Fresh(Put(out, l))
<1>1. PICK line : line = Append(Code(l), CR)
  OBVIOUS
<1>2. WriteOneLine(s) =
        [out |-> (s.out \o Padding(s.out, line)) \o Split(line),
         line |-> <<>>, column |-> 0, nonWhite |-> FALSE]
  BY <1>1 DEF WriteOneLine, Padding
<1>3. QED
  BY <1>1, <1>2 DEF Put, Fresh, AtIndent

LEMMA EncodeLineEnd ==
    ASSUME NEW out, NEW l, NEW c \in LineEnds
    PROVE  EncodeCharacter(LineState(out, l), c) = Fresh(Put(out, l))
<1>1. EncodeCharacter(LineState(out, l), c) = WriteOneLine(LineState(out, l))
  BY DEF EncodeCharacter, LineEnds
<1>2. QED
  BY <1>1, StateFields, WriteOneLineIs

\* The encoder in a text: the lines that have ended, and the state of the last one.
LEMMA EncodedIs ==
    ASSUME NEW t \in Seq(Byte)
    PROVE  Encoded(Fresh(Header), t) = LineState(Out(t), LastLine(t))
<1> DEFINE P == {u \in Seq(Byte) : Encoded(Fresh(Header), u) = LineState(Out(u), LastLine(u))}
<1>1. <<>> \in P
  <2>1. Encoded(Fresh(Header), <<>>) = Fresh(Header)
    BY EncodedSteps
  <2>2. Out(<<>>) = Header
    BY <2>1, FreshLine, StateFields DEF Out
  <2>3. Encoded(Fresh(Header), <<>>) = LineState(Out(<<>>), LastLine(<<>>))
    BY <2>1, <2>2, FreshLine, LastEmpty
  <2>4. <<>> \in Seq(Byte)
    OBVIOUS
  <2>5. QED
    BY <2>3, <2>4
<1>2. \A u \in Seq(Byte), c \in Byte : u \in P => Append(u, c) \in P
  <2> SUFFICES ASSUME NEW u \in Seq(Byte), NEW c \in Byte,
                      Encoded(Fresh(Header), u) = LineState(Out(u), LastLine(u))
               PROVE  Append(u, c) \in P
    OBVIOUS
  <2>1. PICK k : k = Append(u, c)
    OBVIOUS
  <2>2. Encoded(Fresh(Header), k) = EncodeCharacter(LineState(Out(u), LastLine(u)), c)
    <3>1. Encoded(Fresh(Header), Append(u, c)) = EncodeCharacter(Encoded(Fresh(Header), u), c)
      BY EncodedSteps
    <3>2. QED
      BY <2>1, <3>1
  <2>3. LastLine(u) \in Seq(Byte)
    BY LastType
  <2>4. CASE c \in LineEnds
    <3>1. Encoded(Fresh(Header), k) = LineState(Put(Out(u), LastLine(u)), <<>>)
      BY <2>2, <2>4, EncodeLineEnd, FreshLine
    <3>2. Out(k) = Put(Out(u), LastLine(u))
      BY <3>1, StateFields DEF Out
    <3>3. LastLine(k) = <<>>
      BY <2>1, <2>4, LastAppend
    <3>4. Encoded(Fresh(Header), k) = LineState(Out(k), LastLine(k))
      BY <3>1, <3>2, <3>3
    <3>5. QED
      BY <2>1, <3>4
  <2>5. CASE c \notin LineEnds
    <3>1. Encoded(Fresh(Header), k) = LineState(Out(u), Append(LastLine(u), c))
      BY <2>2, <2>3, <2>5, EncodeInLine
    <3>2. Out(k) = Out(u)
      BY <3>1, StateFields DEF Out
    <3>3. LastLine(k) = Append(LastLine(u), c)
      BY <2>1, <2>5, LastAppend
    <3>4. Encoded(Fresh(Header), k) = LineState(Out(k), LastLine(k))
      BY <3>1, <3>2, <3>3
    <3>5. QED
      BY <2>1, <3>4
  <2>6. QED
    BY <2>4, <2>5
<1> HIDE DEF P
<1>3. t \in P
  BY <1>1, <1>2, SequenceInduction
<1>4. QED
  BY <1>3 DEF P

\* A line is put into the file when it ends.
LEMMA OutSteps ==
    /\ Out(<<>>) = Header
    /\ \A t \in Seq(Byte), c \in Byte :
          /\ c \in LineEnds => Out(Append(t, c)) = Put(Out(t), LastLine(t))
          /\ c \notin LineEnds => Out(Append(t, c)) = Out(t)
<1>1. Out(<<>>) = Header
  BY EncodedSteps, FreshLine, StateFields DEF Out
<1>2. ASSUME NEW t \in Seq(Byte), NEW c \in Byte
      PROVE  /\ c \in LineEnds => Out(Append(t, c)) = Put(Out(t), LastLine(t))
             /\ c \notin LineEnds => Out(Append(t, c)) = Out(t)
  <2>1. PICK k : k = Append(t, c)
    OBVIOUS
  <2>2. Encoded(Fresh(Header), k) = EncodeCharacter(LineState(Out(t), LastLine(t)), c)
    <3>1. Encoded(Fresh(Header), Append(t, c)) = EncodeCharacter(Encoded(Fresh(Header), t), c)
      BY EncodedSteps
    <3>2. QED
      BY <2>1, <3>1, EncodedIs
  <2>3. CASE c \in LineEnds
    <3>1. Encoded(Fresh(Header), k) = LineState(Put(Out(t), LastLine(t)), <<>>)
      BY <2>2, <2>3, EncodeLineEnd, FreshLine
    <3>2. QED
      BY <2>1, <2>3, <3>1, StateFields DEF Out
  <2>4. CASE c \notin LineEnds
    <3>1. Encoded(Fresh(Header), k) = LineState(Out(t), Append(LastLine(t), c))
      BY <2>2, <2>4, LastType, EncodeInLine
    <3>2. QED
      BY <2>1, <2>4, <3>1, StateFields DEF Out
  <2>5. QED
    BY <2>1, <2>3, <2>4
<1>3. QED
  BY <1>1, <1>2

LEMMA EncodeIs ==
    ASSUME NEW t \in Seq(Byte)
    PROVE  Encode(t) = Out(Closed(t)) \o Times((-Len(Out(Closed(t)))) % Page, NUL)
<1>1. PICK all : all = Encoded(Fresh(Header), t)
  OBVIOUS
<1>2. all = LineState(Out(t), LastLine(t))
  BY <1>1, EncodedIs
<1>3. all.out = Out(t) /\ all.line = Code(LastLine(t))
  BY <1>2, StateFields
<1>4. PICK last : last = IF all.line = <<>> THEN all ELSE WriteOneLine(all)
  OBVIOUS
<1>5. Encode(t) = last.out \o Times((-Len(last.out)) % Page, NUL)
  BY <1>1, <1>4 DEF Encode, Encoded, Fresh, AtIndent, Header
<1>6. last.out = Out(Closed(t))
  <2>1. Code(LastLine(t)) = <<>> <=> ~Marked(LastLine(t))
    BY LastType, CodeType
  <2>2. CASE Marked(LastLine(t))
    <3>1. last = Fresh(Put(Out(t), LastLine(t)))
      BY <1>3, <1>4, <2>1, <2>2, WriteOneLineIs
    <3>2. last.out = Put(Out(t), LastLine(t))
      BY <3>1 DEF Fresh, AtIndent
    <3>3. LF \in LineEnds /\ LF \in Byte
      BY DEF LF, LineEnds, Byte
    <3>4. Out(Append(t, LF)) = Put(Out(t), LastLine(t))
      BY <3>3, OutSteps
    <3>5. QED
      BY <2>2, <3>2, <3>4 DEF Closed
  <2>3. CASE ~Marked(LastLine(t))
    BY <1>3, <1>4, <2>1, <2>3 DEF Closed
  <2>4. QED
    BY <2>2, <2>3
<1>7. QED
  BY <1>5, <1>6

-----------------------------------------------------------------------------
(* What is kept of a text is written as the text is.                       *)

\* Characters that end no line.
LEMMA LineExtended ==
    ASSUME NEW t \in Seq(Byte), LastLine(t) = <<>>, NEW v \in Seq(Inline)
    PROVE  /\ t \o v \in Seq(Byte) /\ LastLine(t \o v) = v
           /\ Done(t \o v) = Done(t) /\ Out(t \o v) = Out(t)
<1> DEFINE Good(w) == /\ t \o w \in Seq(Byte) /\ LastLine(t \o w) = w
                      /\ Done(t \o w) = Done(t) /\ Out(t \o w) = Out(t)
           P == {w \in Seq(Inline) : Good(w)}
<1>1. <<>> \in P
  <2>1. t \o <<>> = t /\ <<>> \in Seq(Inline)
    OBVIOUS
  <2>2. QED
    BY <2>1
<1>2. \A w \in Seq(Inline), c \in Inline : w \in P => Append(w, c) \in P
  <2> SUFFICES ASSUME NEW w \in Seq(Inline), NEW c \in Inline, Good(w)
               PROVE  Good(Append(w, c))
    OBVIOUS
  <2>1. c \in Byte /\ c \notin LineEnds
    BY DEF Inline
  <2>2. t \o Append(w, c) = Append(t \o w, c)
    <3>1. w \in Seq(Byte)
      <4>1. Inline \subseteq Byte
        BY DEF Inline
      <4>2. QED
        BY <4>1, SeqMonotonic
    <3>2. QED
      BY <2>1, <3>1
  <2>3. PICK x \in Seq(Byte) : x = t \o w
    OBVIOUS
  <2>4. LastLine(Append(x, c)) = Append(LastLine(x), c)
    BY <2>1, LastAppend
  <2>5. Done(Append(x, c)) = Done(x)
    BY <2>1, DoneAppend
  <2>6. Out(Append(x, c)) = Out(x)
    BY <2>1, OutSteps
  <2>7. Append(x, c) \in Seq(Byte)
    BY <2>1
  <2>8. QED
    BY <2>2, <2>3, <2>4, <2>5, <2>6, <2>7
<1> HIDE DEF P
<1>3. v \in P
  BY <1>1, <1>2, SequenceInduction
<1>4. QED
  BY <1>3 DEF P

LEMMA DoneAgain ==
    ASSUME NEW t \in Seq(Byte)
    PROVE  LastLine(Done(t)) = <<>> /\ Done(Done(t)) = Done(t) /\ Out(Done(t)) = Out(t)
<1> DEFINE Good(u) == /\ LastLine(Done(u)) = <<>> /\ Done(Done(u)) = Done(u)
                      /\ Out(Done(u)) = Out(u)
           P == {u \in Seq(Byte) : Good(u)}
<1>1. <<>> \in P
  <2>1. Done(<<>>) = <<>> /\ LastLine(<<>>) = <<>> /\ <<>> \in Seq(Byte)
    BY DoneEmpty, LastEmpty
  <2>2. QED
    BY <2>1
<1>2. \A u \in Seq(Byte), c \in Byte : u \in P => Append(u, c) \in P
  <2> SUFFICES ASSUME NEW u \in Seq(Byte), NEW c \in Byte, Good(u)
               PROVE  Append(u, c) \in P
    OBVIOUS
  <2>0. Append(u, c) \in Seq(Byte)
    BY AppendProperties
  <2>1. PICK k \in Seq(Byte) : k = Append(u, c)
    BY <2>0
  <2>2. CASE c \notin LineEnds
    <3>1. Done(k) = Done(u) /\ Out(k) = Out(u)
      BY <2>1, <2>2, DoneAppend, OutSteps
    <3>2. QED
      BY <2>1, <3>1
  <2>3. CASE c \in LineEnds
    <3>1. PICK l \in Seq(Byte) : l = LastLine(u)
      BY LastType
    <3>2. PICK v \in Seq(Inline) : v = Kept(l)
      BY KeptType
    <3>3. PICK d \in Seq(Byte) : d = Done(u)
      BY DoneType
    <3>4. Done(k) = d \o Append(v, LF) /\ Out(k) = Put(Out(u), l)
      BY <2>1, <2>3, <3>1, <3>2, <3>3, DoneAppend, OutSteps
    <3>5. PICK x \in Seq(Byte) : /\ x = d \o v /\ LastLine(x) = v
                                 /\ Done(x) = d /\ Out(x) = Out(u)
      <4>1. LastLine(d) = <<>> /\ Done(d) = d /\ Out(d) = Out(u)
        BY <3>3
      <4>2. /\ d \o v \in Seq(Byte) /\ LastLine(d \o v) = v
            /\ Done(d \o v) = Done(d) /\ Out(d \o v) = Out(d)
        BY <4>1, LineExtended
      <4>3. QED
        BY <4>1, <4>2
    <3>6. LF \in Byte /\ LF \in LineEnds
      BY DEF LF, Byte, LineEnds
    <3>7. Done(k) = Append(x, LF)
      <4>1. Inline \subseteq Byte
        BY DEF Inline
      <4>2. v \in Seq(Byte)
        BY <4>1, SeqMonotonic
      <4>3. d \o Append(v, LF) = Append(d \o v, LF)
        BY <3>6, <4>2
      <4>4. QED
        BY <3>4, <3>5, <4>3
    <3>8. Code(v) = Code(l) /\ Kept(v) = v
      BY <3>2, KeptCode
    <3>9. Done(Append(x, LF)) = d \o Append(Kept(v), LF)
      BY <3>5, <3>6, DoneAppend
    <3>10. Out(Append(x, LF)) = Put(Out(u), v)
      BY <3>5, <3>6, OutSteps
    <3>11. Put(Out(u), v) = Put(Out(u), l)
      BY <3>8 DEF Put
    <3>12. LastLine(Append(x, LF)) = <<>>
      BY <3>6, LastAppend
    <3>13. QED
      BY <2>1, <3>4, <3>7, <3>8, <3>9, <3>10, <3>11, <3>12
  <2>4. QED
    BY <2>2, <2>3
<1> HIDE DEF P
<1>3. t \in P
  BY <1>1, <1>2, SequenceInduction
<1>4. QED
  BY <1>3 DEF P

\* What is kept of a text leaves the same file, and is kept as it is.
LEMMA CanonicalAgain ==
    ASSUME NEW t \in Seq(Byte)
    PROVE  /\ Canonical(t) \in Seq(Byte) /\ Canonical(Canonical(t)) = Canonical(t)
           /\ Encode(Canonical(t)) = Encode(t)
<1>1. PICK u \in Seq(Byte) : u = Closed(t) /\ Canonical(t) = Done(u)
  BY ClosedIs
<1>2. PICK d \in Seq(Byte) : d = Done(u)
  BY DoneType
<1>3. LastLine(d) = <<>> /\ Done(d) = d /\ Out(d) = Out(u)
  BY <1>2, DoneAgain
<1>4. Closed(d) = d
  BY <1>3, LineEmpty DEF Closed
<1>5. Canonical(d) = d
  BY <1>3, <1>4, ClosedIs
<1>6. Encode(d) = Encode(t)
  BY <1>1, <1>3, <1>4, EncodeIs
<1>7. QED
  BY <1>1, <1>2, <1>5, <1>6

-----------------------------------------------------------------------------
(* The pages of a file.                                                    *)

\* A page: characters, a line end if there are any, and NULs.
GoodPage(g) ==
    /\ g \in Seq(Byte) /\ Len(g) = Page
    /\ \E n \in 0 .. Page - 1 :
          /\ \A i \in 1 .. Page : g[i] = NUL <=> i > n
          /\ n > 0 => g[n] = CR

\* An empty header and k - 1 pages.
Whole(w, k) ==
    /\ w \in Seq(Byte) /\ Len(w) = k * Page
    /\ \A i \in 1 .. Page : w[i] = NUL
    /\ \A p \in 1 .. k - 1 : GoodPage(SubSeq(w, p * Page + 1, (p + 1) * Page))

\* The beginning of a page.
GoodTail(x) ==
    /\ x \in Seq(Visible) /\ Len(x) <= PerPage
    /\ x # <<>> => x[Len(x)] = CR

Paged(out) ==
    \E k \in Nat \ {0} : \E w, x : Whole(w, k) /\ GoodTail(x) /\ out = w \o x

LEMMA Multiples ==
    ASSUME NEW p \in Nat, NEW q \in Nat, NEW d \in Nat, p <= q
    PROVE  p * d \in Nat /\ q * d \in Nat /\ p * d <= q * d
<1>1. PICK a \in Nat : q = p + a
  <2>1. q - p \in Nat /\ q = p + (q - p)
    OBVIOUS
  <2>2. QED
    BY <2>1
<1>2. q * d = p * d + a * d
  BY <1>1
<1>3. p * d \in Nat /\ q * d \in Nat /\ a * d \in Nat
  OBVIOUS
<1>4. QED
  BY <1>2, <1>3

LEMMA VisibleBytes ==
    ASSUME NEW x \in Seq(Visible)
    PROVE  x \in Seq(Byte) /\ \A i \in 1 .. Len(x) : x[i] # NUL
<1>1. Visible \subseteq Byte /\ NUL \notin Visible
  BY DEF Visible, Byte, NUL
<1>2. x \in Seq(Byte)
  BY <1>1, SeqMonotonic
<1>3. \A i \in 1 .. Len(x) : x[i] \in Visible
  OBVIOUS
<1>4. QED
  BY <1>1, <1>2, <1>3

LEMMA SubSeqConcat ==
    ASSUME NEW w \in Seq(Byte), NEW g \in Seq(Byte),
           NEW a \in Nat \ {0}, NEW b \in Nat, b <= Len(w)
    PROVE  SubSeq(w \o g, a, b) = SubSeq(w, a, b)
<1>1. PICK u : u = w \o g
  OBVIOUS
<1>2. u \in Seq(Byte) /\ Len(u) = Len(w) + Len(g) /\ \A i \in 1 .. Len(w) : u[i] = w[i]
  BY <1>1, ConcatProperties
<1>3. SubSeq(u, a, b) = SubSeq(w, a, b)
  BY <1>2
<1>4. QED
  BY <1>1, <1>3

LEMMA ConcatEnd ==
    ASSUME NEW w \in Seq(Byte), NEW g \in Seq(Byte), NEW m \in Nat, m = Len(w),
           NEW n \in Nat, n = Len(g)
    PROVE  SubSeq(w \o g, m + 1, m + n) = g
<1>1. PICK u : u = w \o g
  OBVIOUS
<1>2. u \in Seq(Byte) /\ Len(u) = m + n /\ \A i \in 1 .. n : u[m + i] = g[i]
  BY <1>1
<1>3. PICK v : v = SubSeq(u, m + 1, m + n)
  OBVIOUS
<1>4. v \in Seq(Byte) /\ Len(v) = n /\ \A i \in 1 .. n : v[i] = u[m + i]
  BY <1>2, <1>3
<1>5. v = g
  BY <1>2, <1>4, SeqEqual
<1>6. QED
  BY <1>1, <1>3, <1>5

LEMMA WholeGrows ==
    ASSUME NEW k \in Nat \ {0}, NEW w, Whole(w, k), NEW g, GoodPage(g)
    PROVE  Whole(w \o g, k + 1)
<1>1. /\ w \in Seq(Byte) /\ Len(w) = k * Page /\ g \in Seq(Byte) /\ Len(g) = Page
      /\ \A i \in 1 .. Page : w[i] = NUL
      /\ \A p \in 1 .. k - 1 : GoodPage(SubSeq(w, p * Page + 1, (p + 1) * Page))
  BY DEF Whole, GoodPage
<1>2. PICK m \in Nat : m = k * Page /\ Page <= m
  <2>1. 1 * Page <= k * Page /\ k * Page \in Nat /\ 1 * Page = Page
    BY Sizes, Multiples
  <2>2. QED
    BY <2>1
<1>3. (k + 1) * Page = m + Page
  BY <1>2, Sizes
<1>4. w \o g \in Seq(Byte) /\ Len(w \o g) = (k + 1) * Page
  BY <1>1, <1>2, <1>3
<1>5. \A i \in 1 .. Page : (w \o g)[i] = NUL
  BY <1>1, <1>2
<1>6. ASSUME NEW p \in 1 .. k
      PROVE  GoodPage(SubSeq(w \o g, p * Page + 1, (p + 1) * Page))
  <2>1. CASE p = k
    <3>1. SubSeq(w \o g, m + 1, m + Page) = g
      BY <1>1, <1>2, Sizes, ConcatEnd
    <3>2. QED
      BY <1>2, <1>3, <2>1, <3>1
  <2>2. CASE p # k
    <3>1. p \in Nat /\ p \in 1 .. k - 1 /\ p + 1 \in Nat /\ p + 1 <= k
      BY <2>2
    <3>2. PICK a \in Nat, b \in Nat : a = p * Page + 1 /\ a # 0 /\ b = (p + 1) * Page /\ b <= m
      <4>1. p * Page \in Nat /\ (p + 1) * Page \in Nat /\ (p + 1) * Page <= k * Page
        BY <3>1, Sizes, Multiples
      <4>2. p * Page + 1 \in Nat /\ p * Page + 1 # 0
        BY <4>1
      <4>3. QED
        BY <1>2, <4>1, <4>2
    <3>3. SubSeq(w \o g, a, b) = SubSeq(w, a, b)
      <4>1. a \in Nat \ {0} /\ b <= Len(w)
        BY <1>1, <1>2, <3>2
      <4>2. QED
        BY <1>1, <4>1, SubSeqConcat
    <3>4. QED
      BY <1>1, <3>1, <3>2, <3>3
  <2>3. QED
    BY <2>1, <2>2
<1>7. (k + 1) - 1 = k
  OBVIOUS
<1>8. QED
  BY <1>4, <1>5, <1>6, <1>7 DEF Whole

LEMMA HeaderWhole == Whole(Header, 1)
<1>1. NUL \in Byte /\ 1 * Page = Page /\ 1 .. 1 - 1 = {}
  BY Sizes DEF NUL, Byte
<1>2. Header \in Seq(Byte) /\ Len(Header) = Page /\ \A i \in 1 .. Page : Header[i] = NUL
  BY <1>1, Sizes, TimesIs DEF Header
<1>3. QED
  BY <1>1, <1>2 DEF Whole

LEMMA GoodPadded ==
    ASSUME NEW x, GoodTail(x)
    PROVE  GoodPage(x \o Times(Page - Len(x), NUL))
<1>1. x \in Seq(Byte) /\ (\A i \in 1 .. Len(x) : x[i] # NUL) /\ Len(x) <= PerPage
      /\ (x # <<>> => x[Len(x)] = CR)
  BY VisibleBytes DEF GoodTail
<1>2. PICK m \in Nat : m = Len(x) /\ m <= Page - 1
  BY <1>1, Sizes
<1>3. PICK z : z = Times(Page - m, NUL)
  OBVIOUS
<1>4. z \in Seq(Byte) /\ Len(z) = Page - m /\ \A i \in 1 .. Page - m : z[i] = NUL
  <2>1. NUL \in Byte /\ Page - m \in Nat
    BY <1>2, Sizes DEF NUL, Byte
  <2>2. QED
    BY <1>3, <2>1, TimesIs
<1>5. PICK g : g = x \o z
  OBVIOUS
<1>6. /\ g \in Seq(Byte) /\ Len(g) = Page
      /\ \A i \in 1 .. m : g[i] = x[i]
      /\ \A i \in m + 1 .. Page : g[i] = z[i - m]
  BY <1>1, <1>2, <1>4, <1>5, Sizes
<1>7. \A i \in 1 .. Page : g[i] = NUL <=> i > m
  <2> SUFFICES ASSUME NEW i \in 1 .. Page PROVE g[i] = NUL <=> i > m
    OBVIOUS
  <2>1. CASE i > m
    <3>1. i \in m + 1 .. Page /\ i - m \in 1 .. Page - m
      BY <2>1, Sizes
    <3>2. QED
      BY <1>4, <1>6, <2>1, <3>1
  <2>2. CASE ~ (i > m)
    <3>1. i \in 1 .. m
      BY <2>2
    <3>2. QED
      BY <1>1, <1>2, <1>6, <2>2, <3>1
  <2>3. QED
    BY <2>1, <2>2
<1>8. m > 0 => g[m] = CR
  BY <1>1, <1>2, <1>6
<1>9. m \in 0 .. Page - 1
  BY <1>2, Sizes
<1>10. QED
  BY <1>2, <1>3, <1>5, <1>6, <1>7, <1>8, <1>9 DEF GoodPage

\* A piece of a line that is split fills a page.
LEMMA PieceFills ==
    ASSUME NEW x \in Seq(Visible), Len(x) = Page - 2
    PROVE  GoodPage(x \o <<CR, NUL>>)
<1>1. x \in Seq(Byte) /\ \A i \in 1 .. Len(x) : x[i] # NUL
  BY VisibleBytes
<1>2. PICK m \in Nat : m = Len(x) /\ m = Page - 2
  OBVIOUS
<1>3. CR \in Byte /\ NUL \in Byte /\ CR # NUL
  BY DEF CR, NUL, Byte
<1>4. PICK g : g = x \o <<CR, NUL>>
  OBVIOUS
<1>5. /\ g \in Seq(Byte) /\ Len(g) = m + 2 /\ g[m + 1] = CR /\ g[m + 2] = NUL
      /\ \A i \in 1 .. m : g[i] = x[i]
  BY <1>1, <1>2, <1>3, <1>4
<1>6. Page = m + 2 /\ Page - 1 = m + 1
  BY <1>2, Sizes
<1>7. \A i \in 1 .. m + 2 : g[i] = NUL <=> i > m + 1
  <2> SUFFICES ASSUME NEW i \in 1 .. m + 2 PROVE g[i] = NUL <=> i > m + 1
    OBVIOUS
  <2>1. CASE i \in 1 .. m
    <3>1. g[i] # NUL
      BY <1>1, <1>2, <1>5, <2>1
    <3>2. QED
      BY <2>1, <3>1
  <2>2. CASE i = m + 1
    BY <1>3, <1>5, <2>2
  <2>3. CASE i = m + 2
    BY <1>5, <2>3
  <2>4. QED
    BY <2>1, <2>2, <2>3
<1>8. m + 1 \in 0 .. Page - 1
  BY <1>6
<1>9. QED
  BY <1>4, <1>5, <1>6, <1>7, <1>8 DEF GoodPage

\* A line that is too long for a page is cut into pages, and the rest starts one.
LEMMA SplitPaged ==
    ASSUME NEW k \in Nat \ {0}, NEW w, Whole(w, k),
           NEW line \in Seq(Visible), line # <<>>, line[Len(line)] = CR
    PROVE  Paged(w \o Split(line))
<1>1. PICK L \in Nat \ {0} : L = Len(line)
  OBVIOUS
<1>2. CASE L <= PerPage
  <2>1. Split(line) = line
    BY <1>1, <1>2 DEF Split
  <2>2. GoodTail(line)
    BY <1>1, <1>2 DEF GoodTail
  <2>3. QED
    BY <2>1, <2>2 DEF Paged
<1>3. CASE ~ (L <= PerPage)
  <2>1. PICK d \in Nat \ {0} : d = PerPage - 1 /\ d = Page - 2 /\ L > d + 1 /\ PerPage = d + 1
    BY <1>3, Sizes
  <2>2. PICK n \in Nat \ {0}, r \in 0 .. d - 1 :
           n = (L - PerPage + PerPage - 2) \div d /\ L - 2 = n * d + r
    <3>1. L - PerPage + PerPage - 2 = L - 2 /\ L - 2 \in Nat
      BY <2>1, Sizes
    <3>2. /\ (L - 2) \div d \in Nat /\ (L - 2) % d \in 0 .. d - 1
          /\ L - 2 = ((L - 2) \div d) * d + ((L - 2) % d)
      BY <3>1, Division
    <3>3. (L - 2) \div d # 0
      <4> SUFFICES ASSUME (L - 2) \div d = 0 PROVE FALSE
        OBVIOUS
      <4>1. ((L - 2) \div d) * d = 0
        OBVIOUS
      <4>2. QED
        BY <2>1, <3>2, <4>1
    <3>4. QED
      BY <3>1, <3>2, <3>3
  <2>3. PICK m \in Nat : m = n * d /\ L - m \in 2 .. PerPage
    <3>1. n * d \in Nat
      BY Multiples
    <3>2. PICK m \in Nat : m = n * d
      BY <3>1
    <3>3. L - 2 = m + r
      BY <2>2, <3>2
    <3>4. L - m \in 2 .. PerPage
      BY <2>1, <3>3
    <3>5. QED
      BY <3>2, <3>4
  <2> DEFINE piece(i) == SubSeq(line, (i - 1) * d + 1, i * d)
             F(j) == [i \in 1 .. j |-> piece(i) \o <<CR, NUL>>]
             N == {j \in 0 .. n : Whole(w \o FlattenSeq(F(j)), k + j)}
  <2>4. Split(line) = FlattenSeq(F(n)) \o SubSeq(line, m + 1, L)
    BY <1>1, <1>3, <2>1, <2>2, <2>3 DEF Split
  <2>5. ASSUME NEW i \in 1 .. n
        PROVE  /\ GoodPage(piece(i) \o <<CR, NUL>>)
               /\ piece(i) \o <<CR, NUL>> \in Seq(Byte)
    <3>1. PICK a \in Nat, b \in Nat : a = (i - 1) * d /\ b = i * d /\ b = a + d /\ b <= L
      <4>1. i - 1 \in Nat /\ i \in Nat /\ i <= n
        OBVIOUS
      <4>2. (i - 1) * d \in Nat /\ i * d \in Nat /\ i * d <= n * d
        BY <4>1, Multiples
      <4>3. i * d = (i - 1) * d + d
        BY <4>1
      <4>4. n * d <= L
        BY <2>3
      <4>5. i * d <= L
        BY <2>3, <4>2, <4>4
      <4>6. QED
        BY <4>2, <4>3, <4>5
    <3>2. PICK x : x = SubSeq(line, a + 1, b)
      OBVIOUS
    <3>3. x \in Seq(Visible) /\ Len(x) = Page - 2
      <4>1. a + 1 \in 1 .. L /\ b \in 1 .. L /\ b - (a + 1) + 1 = d
        BY <3>1
      <4>2. x \in Seq(Visible) /\ Len(x) = b - (a + 1) + 1
        BY <1>1, <3>1, <3>2, <4>1
      <4>3. QED
        BY <2>1, <4>1, <4>2
    <3>4. GoodPage(x \o <<CR, NUL>>)
      BY <3>3, PieceFills
    <3>5. x \o <<CR, NUL>> \in Seq(Byte)
      BY <3>4 DEF GoodPage
    <3>6. QED
      BY <3>1, <3>2, <3>4, <3>5
  <2>6. w \in Seq(Byte)
    BY DEF Whole
  <2>7. 0 \in N
    <3>1. F(0) = <<>>
      OBVIOUS
    <3> HIDE DEF F
    <3>2. FlattenSeq(F(0)) = <<>>
      BY <3>1, FlattenEmpty
    <3>3. w \o <<>> = w /\ k + 0 = k
      BY <2>6
    <3>4. Whole(w \o FlattenSeq(F(0)), k + 0)
      BY <3>2, <3>3
    <3>5. QED
      BY <3>4
  <2> DEFINE h(i) == piece(i) \o <<CR, NUL>>
  <2>8. ASSUME NEW j \in 0 .. n
        PROVE  F(j) \in Seq(Seq(Byte)) /\ F(j) = [i \in 1 .. j |-> h(i)]
    <3>1. \A i \in 1 .. j : h(i) \in Seq(Byte)
      BY <2>5
    <3>2. F(j) = [i \in 1 .. j |-> h(i)]
      OBVIOUS
    <3> HIDE DEF h, F
    <3>3. QED
      BY <3>1, <3>2
  <2>9. ASSUME NEW j \in 0 .. n - 1
        PROVE  /\ h(j + 1) \in Seq(Byte) /\ GoodPage(h(j + 1))
               /\ F(j + 1) = Append(F(j), h(j + 1)) /\ F(j) \in Seq(Seq(Byte))
    <3>1. j + 1 \in 1 .. n /\ j \in 0 .. n /\ j + 1 \in 0 .. n
      OBVIOUS
    <3>2. GoodPage(h(j + 1)) /\ h(j + 1) \in Seq(Byte)
      BY <2>5, <3>1
    <3>3. /\ F(j) \in Seq(Seq(Byte)) /\ F(j) = [i \in 1 .. j |-> h(i)]
          /\ F(j + 1) = [i \in 1 .. j + 1 |-> h(i)]
      BY <2>8, <3>1
    <3> HIDE DEF h, F
    <3>4. Append(F(j), h(j + 1)) = [i \in 1 .. j + 1 |-> IF i <= j THEN h(i) ELSE h(j + 1)]
      BY <3>3
    <3>5. \A i \in 1 .. j + 1 : h(i) = IF i <= j THEN h(i) ELSE h(j + 1)
      OBVIOUS
    <3>6. F(j + 1) = Append(F(j), h(j + 1))
      BY <3>3, <3>4, <3>5
    <3>7. QED
      BY <3>2, <3>3, <3>6
  <2> HIDE DEF h, F, piece
  <2>20. \A j \in 0 .. n - 1 : j \in N => j + 1 \in N
    <3> SUFFICES ASSUME NEW j \in 0 .. n - 1, j \in N PROVE j + 1 \in N
      OBVIOUS
    <3>1. PICK g \in Seq(Byte) : g = h(j + 1) /\ GoodPage(g)
      BY <2>9
    <3>2. F(j + 1) = Append(F(j), g) /\ F(j) \in Seq(Seq(Byte))
      BY <2>9, <3>1
    <3>3. PICK a \in Seq(Byte) : a = FlattenSeq(F(j))
      BY <3>2, FlattenType
    <3>4. FlattenSeq(F(j + 1)) = a \o g
      BY <3>2, <3>3, FlattenAppend
    <3>5. w \o (a \o g) = (w \o a) \o g
      <4>1. \A y \in Seq(Byte) : (w \o a) \o y = w \o (a \o y)
        BY <2>6, ConcatAssociative
      <4>2. QED
        BY <4>1, Zenon
    <3>6. k + j \in Nat \ {0} /\ (k + j) + 1 = k + (j + 1) /\ j + 1 \in 0 .. n
      OBVIOUS
    <3>7. Whole(w \o a, k + j)
      BY <3>3
    <3>8. Whole((w \o a) \o g, (k + j) + 1)
      BY <3>1, <3>6, <3>7, WholeGrows
    <3>9. Whole(w \o FlattenSeq(F(j + 1)), k + (j + 1))
      BY <3>4, <3>5, <3>6, <3>8
    <3>10. QED
      BY <3>6, <3>9
  <2>10. n \in 0 .. n /\ n \in Nat
    OBVIOUS
  <2>11. Whole(w \o FlattenSeq(F(n)), k + n)
    <3> HIDE DEF N
    <3>1. n \in N
      BY <2>7, <2>10, <2>20, InductionUpTo
    <3>2. QED
      BY <3>1 DEF N
  <2>12. PICK x : x = SubSeq(line, m + 1, L)
    OBVIOUS
  <2>13. GoodTail(x)
    <3>1. m + 1 \in 1 .. L /\ L - m >= 2 /\ L - m <= PerPage
      BY <2>3, Sizes
    <3>2. x \in Seq(Visible) /\ Len(x) = L - m /\ x[L - m] = line[L]
      BY <1>1, <2>12, <3>1
    <3>3. QED
      BY <1>1, <3>1, <3>2 DEF GoodTail
  <2>14. w \o Split(line) = (w \o FlattenSeq(F(n))) \o x
    <3>1. F(n) \in Seq(Seq(Byte))
      BY <2>8, <2>10
    <3>2. PICK a \in Seq(Byte) : a = FlattenSeq(F(n))
      BY <3>1, FlattenType
    <3>3. x \in Seq(Byte)
      BY <2>13, VisibleBytes DEF GoodTail
    <3>4. w \o (a \o x) = (w \o a) \o x
      BY <2>6, <3>2, <3>3, ConcatAssociative
    <3>5. QED
      BY <2>4, <2>12, <3>2, <3>4
  <2>15. k + n \in Nat \ {0}
    OBVIOUS
  <2>16. QED
    BY <2>11, <2>13, <2>14, <2>15 DEF Paged
<1>4. QED
  BY <1>2, <1>3

LEMMA PagedLength ==
    ASSUME NEW k \in Nat \ {0}, NEW w, Whole(w, k), NEW x, GoodTail(x)
    PROVE  /\ w \in Seq(Byte) /\ x \in Seq(Byte) /\ Len(x) \in 0 .. Page - 1
           /\ Len(w \o x) = k * Page + Len(x)
<1>1. w \in Seq(Byte) /\ x \in Seq(Byte)
  BY VisibleBytes DEF Whole, GoodTail
<1>2. Len(w) = k * Page /\ Len(x) <= PerPage
  BY DEF Whole, GoodTail
<1>3. PICK a \in Nat, m \in Nat : a = Len(w) /\ m = Len(x)
  BY <1>1
<1>4. Len(w \o x) = a + m
  BY <1>1, <1>3
<1>5. m \in 0 .. Page - 1
  BY <1>2, <1>3, Sizes
<1>6. QED
  BY <1>1, <1>2, <1>3, <1>4, <1>5

\* A line crosses no page boundary.
LEMMA PutPaged ==
    ASSUME NEW out, Paged(out), NEW l \in Seq(Byte)
    PROVE  Paged(Put(out, l))
<1>0. PICK k \in Nat \ {0} : \E w, x : Whole(w, k) /\ GoodTail(x) /\ out = w \o x
  BY DEF Paged
<1>1. PICK w, x : Whole(w, k) /\ GoodTail(x) /\ out = w \o x
  BY <1>0
<1>2. PICK line : line = Append(Code(l), CR)
  OBVIOUS
<1>3. /\ line \in Seq(Visible) /\ Len(line) \in Nat \ {0} /\ line # <<>>
      /\ line[Len(line)] = CR
  <2>1. Code(l) \in Seq(Visible) /\ CR \in Visible
    BY CodeType DEF CR, Visible
  <2>2. QED
    BY <1>2, <2>1
<1>4. w \in Seq(Byte) /\ x \in Seq(Byte) /\ line \in Seq(Byte)
  BY <1>1, <1>3, VisibleBytes DEF Whole, GoodTail
<1>5. PICK m \in Nat : m = Len(x) /\ m = Len(out) % Page /\ m <= PerPage
  <2>1. Len(x) \in 0 .. Page - 1 /\ Len(out) = k * Page + Len(x)
    BY <1>1, PagedLength
  <2>2. Len(out) % Page = Len(x)
    <3>1. PICK r \in 0 .. Page - 1 : r = Len(x)
      BY <2>1
    <3>2. (k * Page + r) % Page = r
      <4>1. k \in Int /\ Page \in Nat \ {0}
        BY Sizes
      <4>2. QED
        BY <4>1, DivisionUnique
    <3>3. QED
      BY <2>1, <3>1, <3>2
  <2>3. QED
    BY <2>1, <2>2, Sizes
<1>6. Put(out, l) = (out \o Padding(out, line)) \o Split(line)
  BY <1>2 DEF Put
<1>7. CASE m + Len(line) <= PerPage
  <2>1. Padding(out, line) = <<>> /\ Split(line) = line
    BY <1>3, <1>5, <1>7, Sizes DEF Padding, Split
  <2>2. GoodTail(x \o line)
    <3>1. x \in Seq(Visible)
      BY <1>1 DEF GoodTail
    <3>2. /\ x \o line \in Seq(Visible) /\ Len(x \o line) = m + Len(line)
          /\ (x \o line)[m + Len(line)] = CR
      <4>1. PICK n \in Nat \ {0} : n = Len(line)
        BY <1>3
      <4>2. PICK y : y = x \o line
        OBVIOUS
      <4>3. y \in Seq(Visible) /\ Len(y) = m + n /\ \A i \in 1 .. n : y[m + i] = line[i]
        <5>1. x \in Seq(Visible) /\ line \in Seq(Visible) /\ m = Len(x) /\ n = Len(line)
          BY <1>3, <1>5, <3>1, <4>1
        <5>2. QED
          BY <4>2, <5>1
      <4>4. n \in 1 .. n
        OBVIOUS
      <4>5. QED
        BY <1>3, <4>1, <4>2, <4>3, <4>4
    <3>3. QED
      BY <1>7, <3>2 DEF GoodTail
  <2>3. Put(out, l) = w \o (x \o line)
    <3>1. out \o <<>> = out
      BY <1>1, <1>4
    <3>2. QED
      BY <1>1, <1>4, <1>6, <2>1, <3>1, ConcatAssociative
  <2>4. QED
    BY <1>1, <2>2, <2>3 DEF Paged
<1>8. CASE ~ (m + Len(line) <= PerPage)
  <2>1. PICK z : z = Times(Page - m, NUL)
    OBVIOUS
  <2>2. Padding(out, line) = z
    BY <1>3, <1>5, <1>8, <2>1, Sizes DEF Padding
  <2>3. GoodPage(x \o z)
    BY <1>1, <1>5, <2>1, GoodPadded
  <2>4. Whole(w \o (x \o z), k + 1)
    BY <1>1, <2>3, WholeGrows
  <2>5. z \in Seq(Byte)
    <3>1. NUL \in Byte /\ Page - m \in Nat
      BY <1>5, Sizes DEF NUL, Byte
    <3>2. QED
      BY <2>1, <3>1, TimesIs
  <2>6. out \o z = w \o (x \o z)
    BY <1>1, <1>4, <2>5, ConcatAssociative
  <2>7. k + 1 \in Nat \ {0}
    OBVIOUS
  <2>8. Paged((w \o (x \o z)) \o Split(line))
    BY <1>3, <2>4, <2>7, SplitPaged
  <2>9. QED
    BY <1>6, <2>2, <2>6, <2>8
<1>9. QED
  BY <1>7, <1>8

LEMMA OutPaged ==
    ASSUME NEW t \in Seq(Byte)
    PROVE  Paged(Out(t))
<1> DEFINE P == {u \in Seq(Byte) : Paged(Out(u))}
<1>1. <<>> \in P
  <2>1. GoodTail(<<>>)
    BY Sizes DEF GoodTail
  <2>2. Header \o <<>> = Header
    BY HeaderWhole DEF Whole
  <2>3. Paged(Header)
    <3>1. Whole(Header, 1) /\ GoodTail(<<>>) /\ Header = Header \o <<>> /\ 1 \in Nat \ {0}
      BY <2>1, <2>2, HeaderWhole
    <3>2. QED
      BY <3>1, Zenon DEF Paged
  <2>4. <<>> \in Seq(Byte)
    OBVIOUS
  <2>5. QED
    BY <2>3, <2>4, OutSteps
<1>2. \A u \in Seq(Byte), c \in Byte : u \in P => Append(u, c) \in P
  <2> SUFFICES ASSUME NEW u \in Seq(Byte), NEW c \in Byte, Paged(Out(u))
               PROVE  Append(u, c) \in P
    OBVIOUS
  <2>1. Append(u, c) \in Seq(Byte)
    OBVIOUS
  <2>2. Paged(Out(Append(u, c)))
    BY OutSteps, LastType, PutPaged
  <2>3. QED
    BY <2>1, <2>2
<1> HIDE DEF P
<1>3. t \in P
  BY <1>1, <1>2, SequenceInduction
<1>4. QED
  BY <1>3 DEF P

\* A text makes whole pages: its lines, and NULs that fill the last page.
LEMMA EncodeWhole ==
    ASSUME NEW t \in Seq(Byte)
    PROVE  /\ \E k \in Nat \ {0} : Whole(Encode(t), k)
           /\ \E n \in 0 .. Page - 1 : Encode(t) = Out(Closed(t)) \o Times(n, NUL)
<1>1. PICK out : out = Out(Closed(t)) /\ Paged(out)
  BY ClosedIs, OutPaged
<1>1a. PICK k \in Nat \ {0} : \E w, x : Whole(w, k) /\ GoodTail(x) /\ out = w \o x
  BY <1>1 DEF Paged
<1>2. PICK w, x : Whole(w, k) /\ GoodTail(x) /\ out = w \o x
  BY <1>1a
<1>3. w \in Seq(Byte) /\ x \in Seq(Byte)
  BY <1>2, VisibleBytes DEF Whole, GoodTail
<1>4. PICK m \in Nat : m = Len(x) /\ m \in 0 .. Page - 1 /\ Len(out) = k * Page + m
  BY <1>2, <1>3, PagedLength
<1>5. PICK n : n = (-Len(out)) % Page
  OBVIOUS
<1>6. n = IF m = 0 THEN 0 ELSE Page - m
  <2>1. PICK a \in Nat : a = k * Page
    BY Sizes, Multiples
  <2>2. -Len(out) = -(a + m) /\ -(a + m) \in Int
    BY <1>4, <2>1
  <2>3. CASE m = 0
    <3>1. -(a + m) = (-k) * Page + 0 /\ -k \in Int /\ 0 \in 0 .. Page - 1
      BY <2>1, <2>3, Sizes
    <3>2. ((-k) * Page + 0) % Page = 0
      BY <3>1, Sizes, DivisionUnique
    <3>3. QED
      BY <1>5, <2>2, <2>3, <3>1, <3>2
  <2>4. CASE m # 0
    <3>1. /\ -(a + m) = (-(k + 1)) * Page + (Page - m) /\ -(k + 1) \in Int
          /\ Page - m \in 0 .. Page - 1
      BY <1>4, <2>1, <2>4, Sizes
    <3>2. PICK q \in Int, r \in 0 .. Page - 1 : q = -(k + 1) /\ r = Page - m
      BY <3>1
    <3>3. (q * Page + r) % Page = r
      BY Sizes, DivisionUnique
    <3>4. QED
      BY <1>5, <2>2, <2>4, <3>1, <3>2, <3>3
  <2>5. QED
    BY <2>3, <2>4
<1>7. Encode(t) = out \o Times(n, NUL)
  BY <1>1, <1>5, EncodeIs
<1>8. n \in 0 .. Page - 1
  BY <1>4, <1>6, Sizes
<1>9. CASE m = 0
  <2>1. Times(n, NUL) = <<>> /\ x = <<>>
    <3>1. n = 0 /\ Len(x) = 0
      BY <1>4, <1>6, <1>9
    <3>2. Times(0, NUL) = <<>>
      BY TimesAppend
    <3>3. QED
      BY <1>3, <3>1, <3>2
  <2>2. (w \o <<>>) \o <<>> = w
    BY <1>3
  <2>3. Whole(Encode(t), k)
    BY <1>2, <1>7, <2>1, <2>2
  <2>4. QED
    BY <1>1, <1>7, <1>8, <2>3
<1>10. CASE m # 0
  <2>1. PICK z : z = Times(Page - m, NUL)
    OBVIOUS
  <2>2. GoodPage(x \o z)
    BY <1>2, <1>4, <2>1, GoodPadded
  <2>3. z \in Seq(Byte)
    <3>1. NUL \in Byte /\ Page - m \in Nat
      BY <1>4, Sizes DEF NUL, Byte
    <3>2. QED
      BY <2>1, <3>1, TimesIs
  <2>4. (w \o x) \o z = w \o (x \o z)
    BY <1>3, <2>3, ConcatAssociative
  <2>5. Whole(Encode(t), k + 1)
    BY <1>2, <1>6, <1>7, <1>10, <2>1, <2>2, <2>4, WholeGrows
  <2>6. k + 1 \in Nat \ {0}
    OBVIOUS
  <2>7. QED
    BY <1>1, <1>7, <1>8, <2>5, <2>6
<1>11. QED
  BY <1>9, <1>10

-----------------------------------------------------------------------------
(* The decoder, character by character.                                    *)

Decoded(s, bytes) == FoldLeft(DecodeCharacter, s, bytes)

LEMMA DecodedSteps ==
    ASSUME NEW s
    PROVE  /\ Decoded(s, <<>>) = s
           /\ \A t \in Seq(Byte), c \in Byte :
                 Decoded(s, Append(t, c)) = DecodeCharacter(Decoded(s, t), c)
BY DecodeFoldEmpty, DecodeFoldAppend DEF Decoded, Byte

LEMMA DecodedConcat ==
    ASSUME NEW s, NEW t \in Seq(Byte), NEW u \in Seq(Byte)
    PROVE  Decoded(s, t \o u) = Decoded(Decoded(s, t), u)
<1> DEFINE P == {v \in Seq(Byte) : Decoded(s, t \o v) = Decoded(Decoded(s, t), v)}
<1>1. <<>> \in P
  <2>1. t \o <<>> = t /\ <<>> \in Seq(Byte)
    OBVIOUS
  <2>2. QED
    BY <2>1, DecodedSteps
<1>2. \A v \in Seq(Byte), c \in Byte : v \in P => Append(v, c) \in P
  <2> SUFFICES ASSUME NEW v \in Seq(Byte), NEW c \in Byte, v \in P
               PROVE  Append(v, c) \in P
    OBVIOUS
  <2>1. t \o Append(v, c) = Append(t \o v, c) /\ t \o v \in Seq(Byte)
    OBVIOUS
  <2>2. Decoded(s, Append(t \o v, c)) = DecodeCharacter(Decoded(s, t \o v), c)
    BY <2>1, DecodedSteps
  <2>3. Decoded(Decoded(s, t), Append(v, c))
          = DecodeCharacter(Decoded(Decoded(s, t), v), c)
    BY DecodedSteps
  <2>4. Append(v, c) \in Seq(Byte)
    OBVIOUS
  <2>5. QED
    BY <2>1, <2>2, <2>3, <2>4
<1>3. u \in P
  <2> HIDE DEF P
  <2>1. QED
    BY <1>1, <1>2, SequenceInduction
<1>4. QED
  BY <1>3 DEF P

\* The decoder in front of the first mark of a line, behind it, and in a code.
Before(out, n) == [out |-> out, column |-> n, nonWhite |-> FALSE, dle |-> FALSE]
Behind(out, n) == [out |-> out, column |-> n, nonWhite |-> TRUE, dle |-> FALSE]
InCode(out, n) == [out |-> out, column |-> n, nonWhite |-> FALSE, dle |-> TRUE]

LEMMA ByteConcat ==
    ASSUME NEW x \in Seq(Byte), NEW y \in Seq(Byte), NEW z \in Seq(Byte)
    PROVE  x \o y \in Seq(Byte) /\ (x \o y) \o z = x \o (y \o z)
BY ConcatAssociative

LEMMA ByteConcat4 ==
    \A x, y, z, u \in Seq(Byte) : ((x \o y) \o z) \o u = x \o ((y \o z) \o u)
<1> SUFFICES ASSUME NEW x \in Seq(Byte), NEW y \in Seq(Byte),
                    NEW z \in Seq(Byte), NEW u \in Seq(Byte)
             PROVE  ((x \o y) \o z) \o u = x \o ((y \o z) \o u)
  OBVIOUS
<1>1. PICK v \in Seq(Byte) : v = y \o z
  <2>1. y \o z \in Seq(Byte)
    BY ByteConcat
  <2>2. QED
    BY <2>1
<1>2. (x \o y) \o z = x \o v
  BY <1>1, ByteConcat
<1>3. (x \o v) \o u = x \o (v \o u)
  BY ByteConcat
<1>4. QED
  BY <1>1, <1>2, <1>3

LEMMA DecodeCodes ==
    ASSUME NEW out, NEW n
    PROVE  /\ DecodeCharacter(Before(out, n), NUL) = Before(out, n)
           /\ DecodeCharacter(Before(out, n), CR) = Before(Append(out, LF), 0)
           /\ DecodeCharacter(Behind(out, n), CR) = Before(Append(out, LF), 0)
           /\ DecodeCharacter(Before(out, n), DLE) = InCode(out, n)
           /\ \A c \in Byte : c >= 32 =>
                 DecodeCharacter(InCode(out, n), c) = Before(out, n + (c - 32))
<1>1. NUL # CR /\ NUL # LF /\ NUL # DLE /\ CR # DLE /\ LF # DLE
  BY DEF NUL, CR, LF, DLE
<1>2. ASSUME NEW s, ~s.dle, NEW c PROVE DecodeCharacter(s, c) = Coded(s, c)
  BY <1>2 DEF DecodeCharacter
<1>3. ~Before(out, n).dle /\ ~Behind(out, n).dle
  BY DEF Before, Behind
<1>4. DecodeCharacter(Before(out, n), NUL) = Before(out, n)
  <2>1. DecodeCharacter(Before(out, n), NUL) = Coded(Before(out, n), NUL)
    BY <1>2, <1>3
  <2>2. QED
    BY <1>1, <2>1 DEF Coded
<1>5. DecodeCharacter(Before(out, n), CR) = Before(Append(out, LF), 0)
  <2>1. DecodeCharacter(Before(out, n), CR) = Coded(Before(out, n), CR)
    BY <1>2, <1>3
  <2>2. Coded(Before(out, n), CR) =
          [Before(out, n) EXCEPT !.out = Append(@, LF), !.column = 0, !.nonWhite = FALSE]
    BY <1>1 DEF Coded
  <2>3. QED
    BY <2>1, <2>2 DEF Before
<1>6. DecodeCharacter(Behind(out, n), CR) = Before(Append(out, LF), 0)
  <2>1. DecodeCharacter(Behind(out, n), CR) = Coded(Behind(out, n), CR)
    BY <1>2, <1>3
  <2>2. Coded(Behind(out, n), CR) =
          [Behind(out, n) EXCEPT !.out = Append(@, LF), !.column = 0, !.nonWhite = FALSE]
    BY <1>1 DEF Coded
  <2>3. QED
    BY <2>1, <2>2 DEF Before, Behind
<1>7. DecodeCharacter(Before(out, n), DLE) = InCode(out, n)
  <2>1. DecodeCharacter(Before(out, n), DLE) = Coded(Before(out, n), DLE)
    BY <1>2, <1>3
  <2>2. Coded(Before(out, n), DLE) = [Before(out, n) EXCEPT !.dle = TRUE]
    BY <1>1 DEF Coded
  <2>3. QED
    BY <2>1, <2>2 DEF Before, InCode
<1>8. ASSUME NEW c \in Byte, c >= 32
      PROVE  DecodeCharacter(InCode(out, n), c) = Before(out, n + (c - 32))
  <2>1. ~(c < 32)
    BY <1>8 DEF Byte
  <2>2. InCode(out, n).dle /\ ~InCode(out, n).nonWhite
    BY DEF InCode
  <2>3. DecodeCharacter(InCode(out, n), c) =
          [[InCode(out, n) EXCEPT !.dle = FALSE] EXCEPT
              !.out = @, !.column = @ + (c - 32)]
    BY <2>1, <2>2 DEF DecodeCharacter
  <2>4. QED
    BY <2>3 DEF InCode, Before
<1>9. QED
  BY <1>4, <1>5, <1>6, <1>7, <1>8

LEMMA DecodeMark ==
    ASSUME NEW out, NEW n, NEW c \in Mark
    PROVE  /\ DecodeCharacter(Before(out, n), c) = Behind((out \o Tabs(n)) \o <<c>>, n + 1)
           /\ DecodeCharacter(Behind(out, n), c) = Behind(out \o <<c>>, n + 1)
<1>1. c # NUL /\ c # CR /\ c # LF /\ c # DLE
  BY DEF Mark, NUL, CR, LF, DLE
<1>2. ASSUME NEW s, ~s.dle PROVE DecodeCharacter(s, c) = Plain(s, c)
  <2>1. DecodeCharacter(s, c) = Coded(s, c)
    BY <1>2 DEF DecodeCharacter
  <2>2. QED
    BY <1>1, <2>1 DEF Coded
<1>3. ~Before(out, n).dle /\ ~Behind(out, n).dle
  BY DEF Before, Behind
<1>4. DecodeCharacter(Before(out, n), c) = Plain(Before(out, n), c)
  BY <1>2, <1>3
<1>5. DecodeCharacter(Behind(out, n), c) = Plain(Behind(out, n), c)
  BY <1>2, <1>3
<1>6. Plain(Before(out, n), c) = Behind((out \o Tabs(n)) \o <<c>>, n + 1)
  <2>1. ~Before(out, n).nonWhite /\ Before(out, n).column = n
    BY DEF Before
  <2>2. Plain(Before(out, n), c) =
          [Before(out, n) EXCEPT !.out = (@ \o Tabs(n)) \o <<c>>,
                                 !.nonWhite = TRUE, !.column = @ + 1]
    BY <2>1 DEF Plain
  <2>3. QED
    BY <2>2 DEF Before, Behind
<1>7. Plain(Behind(out, n), c) = Behind(out \o <<c>>, n + 1)
  <2>1. Behind(out, n).nonWhite
    BY DEF Behind
  <2>2. Plain(Behind(out, n), c) =
          [Behind(out, n) EXCEPT !.out = @ \o <<c>>, !.nonWhite = TRUE, !.column = @ + 1]
    BY <2>1 DEF Plain
  <2>3. QED
    BY <2>2 DEF Behind
<1>8. QED
  BY <1>4, <1>5, <1>6, <1>7

LEMMA MarkBytes ==
    ASSUME NEW v \in Seq(Mark)
    PROVE  v \in Seq(Byte)
<1>1. Mark \subseteq Byte
  BY DEF Mark, Byte
<1>2. QED
  BY <1>1, SeqMonotonic

LEMMA DecodeNuls ==
    ASSUME NEW out, NEW n, NEW j \in Nat
    PROVE  Decoded(Before(out, n), Times(j, NUL)) = Before(out, n)
<1> DEFINE N == {i \in Nat : Decoded(Before(out, n), Times(i, NUL)) = Before(out, n)}
<1>1. 0 \in N
  <2>1. Times(0, NUL) = <<>>
    BY TimesAppend
  <2>2. Decoded(Before(out, n), Times(0, NUL)) = Before(out, n)
    BY <2>1, DecodedSteps
  <2>3. QED
    BY <2>2
<1>2. \A i \in 0 .. j - 1 : i \in N => i + 1 \in N
  <2> SUFFICES ASSUME NEW i \in 0 .. j - 1,
                      Decoded(Before(out, n), Times(i, NUL)) = Before(out, n)
               PROVE  Decoded(Before(out, n), Times(i + 1, NUL)) = Before(out, n)
    OBVIOUS
  <2>1. NUL \in Byte /\ i \in Nat
    BY DEF NUL, Byte
  <2>2. Times(i, NUL) \in Seq(Byte) /\ Times(i + 1, NUL) = Append(Times(i, NUL), NUL)
    BY <2>1, TimesIs, TimesAppend
  <2>3. Decoded(Before(out, n), Append(Times(i, NUL), NUL))
          = DecodeCharacter(Decoded(Before(out, n), Times(i, NUL)), NUL)
    BY <2>1, <2>2, DecodedSteps
  <2>4. QED
    BY <2>2, <2>3, DecodeCodes
<1>3. j \in 0 .. j
  OBVIOUS
<1> HIDE DEF N
<1>4. j \in N
  BY <1>1, <1>2, <1>3, InductionUpTo
<1>5. QED
  BY <1>4 DEF N

LEMMA DecodeBehind ==
    ASSUME NEW out \in Seq(Byte), NEW n \in Nat, NEW v \in Seq(Mark)
    PROVE  Decoded(Behind(out, n), v) = Behind(out \o v, n + Len(v))
<1> DEFINE P == {w \in Seq(Mark) : Decoded(Behind(out, n), w) = Behind(out \o w, n + Len(w))}
<1>1. <<>> \in P
  <2>1. out \o <<>> = out /\ n + Len(<<>>) = n /\ <<>> \in Seq(Mark)
    OBVIOUS
  <2>2. Decoded(Behind(out, n), <<>>) = Behind(out \o <<>>, n + Len(<<>>))
    BY <2>1, DecodedSteps
  <2>3. QED
    BY <2>1, <2>2
<1>2. \A w \in Seq(Mark), c \in Mark : w \in P => Append(w, c) \in P
  <2> SUFFICES ASSUME NEW w \in Seq(Mark), NEW c \in Mark,
                      Decoded(Behind(out, n), w) = Behind(out \o w, n + Len(w))
               PROVE  Append(w, c) \in P
    OBVIOUS
  <2>1. w \in Seq(Byte) /\ c \in Byte
    BY MarkBytes DEF Mark, Byte
  <2>2. Decoded(Behind(out, n), Append(w, c))
          = DecodeCharacter(Behind(out \o w, n + Len(w)), c)
    <3>1. Decoded(Behind(out, n), Append(w, c))
            = DecodeCharacter(Decoded(Behind(out, n), w), c)
      BY <2>1, DecodedSteps
    <3>2. QED
      BY <3>1
  <2>3. DecodeCharacter(Behind(out \o w, n + Len(w)), c)
          = Behind((out \o w) \o <<c>>, (n + Len(w)) + 1)
    BY DecodeMark
  <2>4. /\ (out \o w) \o <<c>> = out \o Append(w, c) /\ (n + Len(w)) + 1 = n + Len(Append(w, c))
        /\ Append(w, c) \in Seq(Mark)
    <3>1. Append(w, c) \in Seq(Mark) /\ Append(w, c) = w \o <<c>>
      OBVIOUS
    <3>2. (out \o w) \o <<c>> = out \o (w \o <<c>>)
      <4>1. <<c>> \in Seq(Byte)
        BY <2>1
      <4>2. QED
        BY <2>1, <4>1, ByteConcat
    <3>3. (n + Len(w)) + 1 = n + Len(Append(w, c))
      OBVIOUS
    <3>4. QED
      BY <3>1, <3>2, <3>3
  <2>5. QED
    BY <2>2, <2>3, <2>4
<1> HIDE DEF P
<1>3. v \in P
  BY <1>1, <1>2, SequenceInduction
<1>4. QED
  BY <1>3 DEF P

LEMMA TabsType ==
    ASSUME NEW n \in Nat
    PROVE  Tabs(n) \in Seq(Byte)
<1>1. n \div Tab \in Nat /\ n % Tab \in Nat
  <2>1. n \div Tab \in Nat /\ n % Tab \in 0 .. Tab - 1
    BY Sizes, Division
  <2>2. QED
    BY <2>1, Sizes
<1>2. TAB \in Byte /\ Blank \in Byte
  BY DEF TAB, Blank, Byte
<1>3. Times(n \div Tab, TAB) \in Seq(Byte) /\ Times(n % Tab, Blank) \in Seq(Byte)
  BY <1>1, <1>2, TimesIs
<1>4. QED
  BY <1>3 DEF Tabs

\* The first mark of a line is put behind the tabs and blanks for its column.
LEMMA DecodeBefore ==
    ASSUME NEW out \in Seq(Byte), NEW n \in Nat, NEW v \in Seq(Mark), v # <<>>
    PROVE  \E m \in Nat : Decoded(Before(out, n), v) = Behind((out \o Tabs(n)) \o v, m)
<1>1. PICK c \in Mark, w \in Seq(Mark) : v = <<c>> \o w
  <2>1. v = <<Head(v)>> \o Tail(v) /\ Head(v) \in Mark /\ Tail(v) \in Seq(Mark)
    OBVIOUS
  <2>2. QED
    BY <2>1
<1>2. w \in Seq(Byte) /\ c \in Byte /\ <<c>> \in Seq(Byte)
  <2>1. c \in Byte
    BY DEF Mark, Byte
  <2>2. QED
    BY <2>1, MarkBytes
<1>3. Decoded(Before(out, n), <<c>>) = Behind((out \o Tabs(n)) \o <<c>>, n + 1)
  <2>1. <<c>> = Append(<<>>, c) /\ <<>> \in Seq(Byte)
    OBVIOUS
  <2>2. Decoded(Before(out, n), Append(<<>>, c))
          = DecodeCharacter(Decoded(Before(out, n), <<>>), c)
    BY <1>2, <2>1, DecodedSteps
  <2>3. QED
    BY <2>1, <2>2, DecodedSteps, DecodeMark
<1>4. PICK x \in Seq(Byte) : x = out \o Tabs(n)
  <2>1. Tabs(n) \in Seq(Byte)
    BY TabsType
  <2>2. out \o Tabs(n) \in Seq(Byte)
    BY <2>1
  <2>3. QED
    BY <2>2
<1>5. Decoded(Before(out, n), v) = Decoded(Behind(x \o <<c>>, n + 1), w)
  <2>1. Decoded(Before(out, n), <<c>> \o w) = Decoded(Decoded(Before(out, n), <<c>>), w)
    BY <1>2, DecodedConcat
  <2>2. QED
    BY <1>1, <1>3, <1>4, <2>1
<1>6. x \o <<c>> \in Seq(Byte) /\ n + 1 \in Nat
  BY <1>2
<1>7. Decoded(Behind(x \o <<c>>, n + 1), w) = Behind((x \o <<c>>) \o w, (n + 1) + Len(w))
  BY <1>6, DecodeBehind
<1>8. (x \o <<c>>) \o w = x \o v
  BY <1>1, <1>2, ConcatAssociative
<1>9. (n + 1) + Len(w) \in Nat
  OBVIOUS
<1>10. QED
  BY <1>4, <1>5, <1>7, <1>8, <1>9

-----------------------------------------------------------------------------
(* The decoder, line by line.                                              *)

LEMMA DecodePair ==
    ASSUME NEW out, NEW n, NEW k \in 0 .. MaxBlanks
    PROVE  Decoded(Before(out, n), <<DLE, 32 + k>>) = Before(out, n + k)
<1>1. DLE \in Byte /\ 32 + k \in Byte /\ 32 + k >= 32 /\ (32 + k) - 32 = k
  BY Sizes DEF DLE, Byte
<1>2. /\ <<DLE, 32 + k>> = Append(<<DLE>>, 32 + k) /\ <<DLE>> = Append(<<>>, DLE)
      /\ <<DLE>> \in Seq(Byte) /\ <<>> \in Seq(Byte)
  BY <1>1
<1>3. Decoded(Before(out, n), <<DLE>>) = InCode(out, n)
  <2>1. Decoded(Before(out, n), Append(<<>>, DLE))
          = DecodeCharacter(Decoded(Before(out, n), <<>>), DLE)
    BY <1>1, <1>2, DecodedSteps
  <2>2. QED
    BY <1>2, <2>1, DecodedSteps, DecodeCodes
<1>4. Decoded(Before(out, n), Append(<<DLE>>, 32 + k))
        = DecodeCharacter(InCode(out, n), 32 + k)
  <2>1. Decoded(Before(out, n), Append(<<DLE>>, 32 + k))
          = DecodeCharacter(Decoded(Before(out, n), <<DLE>>), 32 + k)
    BY <1>1, <1>2, DecodedSteps
  <2>2. QED
    BY <1>3, <2>1
<1>5. DecodeCharacter(InCode(out, n), 32 + k) = Before(out, n + ((32 + k) - 32))
  BY <1>1, DecodeCodes
<1>6. QED
  BY <1>1, <1>2, <1>4, <1>5

LEMMA DecodePairs ==
    ASSUME NEW out, NEW q \in Nat
    PROVE  Decoded(Before(out, 0), Pairs(q)) = Before(out, q * MaxBlanks)
<1> DEFINE N == {j \in Nat : Decoded(Before(out, 0), Pairs(j)) = Before(out, j * MaxBlanks)}
<1>1. 0 \in N
  <2>1. 0 * MaxBlanks = 0
    BY Sizes
  <2>2. Decoded(Before(out, 0), Pairs(0)) = Before(out, 0 * MaxBlanks)
    BY <2>1, PairsGrow, DecodedSteps
  <2>3. QED
    BY <2>2
<1>2. \A j \in 0 .. q - 1 : j \in N => j + 1 \in N
  <2> SUFFICES ASSUME NEW j \in 0 .. q - 1,
                      Decoded(Before(out, 0), Pairs(j)) = Before(out, j * MaxBlanks)
               PROVE  Decoded(Before(out, 0), Pairs(j + 1)) = Before(out, (j + 1) * MaxBlanks)
    OBVIOUS
  <2>1. MaxBlanks \in 0 .. MaxBlanks /\ j \in Nat
    BY Sizes
  <2>2. Pairs(j + 1) = Pairs(j) \o <<DLE, 32 + MaxBlanks>> /\ Pairs(j) \in Seq(Byte)
    BY <2>1, PairsGrow, VisibleBytes
  <2>3. <<DLE, 32 + MaxBlanks>> \in Seq(Byte)
    BY <2>1, CodePair, VisibleBytes
  <2>4. Decoded(Before(out, 0), Pairs(j) \o <<DLE, 32 + MaxBlanks>>)
          = Decoded(Before(out, j * MaxBlanks), <<DLE, 32 + MaxBlanks>>)
    <3>1. Decoded(Before(out, 0), Pairs(j) \o <<DLE, 32 + MaxBlanks>>)
            = Decoded(Decoded(Before(out, 0), Pairs(j)), <<DLE, 32 + MaxBlanks>>)
      BY <2>2, <2>3, DecodedConcat
    <3>2. QED
      BY <3>1
  <2>5. Decoded(Before(out, j * MaxBlanks), <<DLE, 32 + MaxBlanks>>)
          = Before(out, j * MaxBlanks + MaxBlanks)
    BY <2>1, DecodePair
  <2>6. j * MaxBlanks + MaxBlanks = (j + 1) * MaxBlanks
    BY <2>1, Sizes
  <2>7. QED
    BY <2>2, <2>4, <2>5, <2>6
<1>3. q \in 0 .. q
  OBVIOUS
<1> HIDE DEF N
<1>4. q \in N
  BY <1>1, <1>2, <1>3, InductionUpTo
<1>5. QED
  BY <1>4 DEF N

LEMMA TimesConcat ==
    ASSUME NEW i \in Nat, NEW j \in Nat, NEW c \in Byte
    PROVE  Times(i + j, c) = Times(i, c) \o Times(j, c)
<1>1. PICK x \in Seq(Byte) : x = Times(i, c) /\ Len(x) = i /\ \A k \in 1 .. i : x[k] = c
  BY TimesIs
<1>2. PICK y \in Seq(Byte) : y = Times(j, c) /\ Len(y) = j /\ \A k \in 1 .. j : y[k] = c
  BY TimesIs
<1>3. PICK z : z = x \o y
  OBVIOUS
<1>4. z \in Seq(Byte) /\ Len(z) = i + j /\ \A k \in 1 .. i + j : z[k] = c
  <2> Len(x) = i /\ Len(y) = j
    BY <1>1, <1>2
  <2>1. z \in Seq(Byte) /\ Len(z) = i + j
    BY <1>3
  <2>2. \A k \in 1 .. i : z[k] = x[k]
    BY <1>3
  <2>3. \A k \in i + 1 .. i + j : z[k] = y[k - i]
    BY <1>3
  <2>4. ASSUME NEW k \in 1 .. i + j PROVE z[k] = c
    <3>1. CASE k <= i
      <4>1. k \in 1 .. i
        BY <3>1
      <4>2. QED
        BY <1>1, <2>2, <4>1
    <3>2. CASE ~ (k <= i)
      <4>1. k \in i + 1 .. i + j /\ k - i \in 1 .. j
        BY <3>2
      <4>2. QED
        BY <1>2, <2>3, <4>1
    <3>3. QED
      BY <3>1, <3>2
  <2>5. QED
    BY <2>1, <2>4
<1>5. z = [k \in 1 .. i + j |-> c]
  BY <1>4
<1>6. QED
  BY <1>1, <1>2, <1>3, <1>5 DEF Times

LEMMA KeptTabs ==
    ASSUME NEW l \in Seq(Byte), Marked(l), NEW n \in Nat, n = Column(l)[Leading(l)]
    PROVE  Kept(l) = (Tabs(n - Loose(n)) \o Times(Loose(n), Blank)) \o Body(l)
<1>1. PICK a \in Nat, m \in Nat, q \in Nat, r \in Nat :
         a = Loose(n) /\ m = n - a /\ q = m \div Tab /\ r = m % Tab
  <2>1. PICK a \in Nat, m \in Nat : a = Loose(n) /\ m = n - a
    BY LooseIs
  <2>2. m \div Tab \in Nat /\ m % Tab \in Nat
    BY <2>1, LooseIs
  <2>3. QED
    BY <2>1, <2>2
<1>2. Kept(l) = (Times(q, TAB) \o Times(r + a, Blank)) \o Body(l)
  BY <1>1, KeptIs
<1>3. Blank \in Byte /\ TAB \in Byte
  BY DEF Blank, TAB, Byte
<1>4. Times(r + a, Blank) = Times(r, Blank) \o Times(a, Blank)
  BY <1>3, TimesConcat
<1>5. PICK x \in Seq(Byte), y \in Seq(Byte), z \in Seq(Byte) :
         x = Times(q, TAB) /\ y = Times(r, Blank) /\ z = Times(a, Blank)
  BY <1>3, TimesIs
<1>6. x \o (y \o z) = (x \o y) \o z
  BY ByteConcat
<1>7. Tabs(m) = x \o y
  BY <1>1, <1>5 DEF Tabs
<1>8. QED
  BY <1>1, <1>2, <1>4, <1>5, <1>6, <1>7

\* What the decoder makes of the indent of a line and of its body.
LEMMA DecodeMarked ==
    ASSUME NEW out \in Seq(Byte), NEW l \in Seq(Byte), Marked(l)
    PROVE  \E m \in Nat : Decoded(Before(out, 0), Code(l)) = Behind(out \o Kept(l), m)
<1>1. PICK n \in Nat : n = Column(l)[Leading(l)]
  BY LineNumbers
<1>2. PICK b \in Seq(Mark) : b = Body(l) /\ b # <<>>
  BY BodyType, BodyMarked
<1>3. PICK q \in Nat, r \in 0 .. MaxBlanks - 1 :
         /\ q = n \div MaxBlanks /\ r = n % MaxBlanks /\ n = q * MaxBlanks + r
  BY IndentIs
<1>4. PICK m \in Nat : m = q * MaxBlanks /\ n = m + r
  <2>1. q * MaxBlanks \in Nat
    BY Sizes
  <2>2. QED
    BY <1>3, <2>1
<1>5. PICK p \in Seq(Byte), e \in Seq(Byte) :
         p = Pairs(q) /\ e = Rest(r) /\ Code(l) = (p \o e) \o b
  <2>1. Pairs(q) \in Seq(Byte)
    BY PairsGrow, VisibleBytes
  <2>2. Rest(r) \in Seq(Byte)
    BY <1>3, IndentIs, VisibleBytes
  <2>3. Code(l) = (Pairs(q) \o Rest(r)) \o b
    BY <1>1, <1>2, <1>3, IndentIs DEF Code
  <2>4. QED
    BY <2>1, <2>2, <2>3
<1>6. b \in Seq(Byte)
  BY MarkBytes
<1>7. Decoded(Before(out, 0), p) = Before(out, m)
  BY <1>4, <1>5, DecodePairs
<1>8. Decoded(Before(out, 0), Code(l)) = Decoded(Decoded(Before(out, m), e), b)
  <2>1. Decoded(Before(out, 0), p \o e) = Decoded(Before(out, m), e)
    BY <1>7, DecodedConcat
  <2>2. Decoded(Before(out, 0), (p \o e) \o b) = Decoded(Decoded(Before(out, 0), p \o e), b)
    <3>1. p \o e \in Seq(Byte)
      OBVIOUS
    <3>2. QED
      BY <1>6, <3>1, DecodedConcat
  <2>3. QED
    BY <1>5, <2>1, <2>2
<1>9. Kept(l) = (Tabs(n - Loose(n)) \o Times(Loose(n), Blank)) \o b
  BY <1>1, <1>2, KeptTabs
<1>10. r \in Nat
  BY Sizes
<1>11. \A y, u, v \in Seq(Byte) : ((out \o y) \o u) \o v = out \o ((y \o u) \o v)
  BY ByteConcat4
<1>12. CASE r = 0 \/ r > 2
  <2>1. Decoded(Before(out, m), e) = Before(out, n)
    <3>1. CASE r = 0
      <4>1. e = <<>>
        BY <1>5, <3>1, TimesAppend DEF Rest
      <4>2. n = m
        BY <1>4, <3>1
      <4>3. QED
        BY <4>1, <4>2, DecodedSteps
    <3>2. CASE r > 2
      <4>1. e = <<DLE, 32 + r>> /\ r \in 0 .. MaxBlanks
        BY <1>5, <3>2, Sizes DEF Rest
      <4>2. QED
        BY <1>4, <4>1, DecodePair
    <3>3. QED
      BY <1>12, <3>1, <3>2
  <2>2. Loose(n) = 0 /\ n - 0 = n
    BY <1>3, <1>12 DEF Loose
  <2>3. Kept(l) = Tabs(n) \o b
    <3>1. Tabs(n) \o <<>> = Tabs(n)
      BY TabsType
    <3>2. Times(0, Blank) = <<>>
      BY TimesAppend
    <3>3. QED
      BY <1>9, <2>2, <3>1, <3>2
  <2>4. PICK k \in Nat : Decoded(Before(out, n), b) = Behind((out \o Tabs(n)) \o b, k)
    BY <1>2, DecodeBefore
  <2>5. (out \o Tabs(n)) \o b = out \o (Tabs(n) \o b)
    <3>1. PICK y \in Seq(Byte) : y = Tabs(n)
      BY TabsType
    <3>2. PICK u \in Seq(Byte) : u = b
      BY <1>6
    <3>3. (out \o y) \o u = out \o (y \o u)
      BY ByteConcat
    <3>4. QED
      BY <3>1, <3>2, <3>3
  <2>6. QED
    BY <1>8, <2>1, <2>3, <2>4, <2>5
<1>13. CASE r # 0 /\ r <= 2
  <2>1. PICK z \in Seq(Mark) : z = Times(r, Blank) /\ Len(z) = r /\ z # <<>>
    <3>1. Blank \in Mark
      BY DEF Blank, Mark
    <3>2. Times(r, Blank) \in Seq(Mark) /\ Len(Times(r, Blank)) = r
      BY <1>10, <3>1, TimesIs
    <3>3. Times(r, Blank) # <<>>
      BY <1>13, <3>2
    <3>4. QED
      BY <3>2, <3>3
  <2>2. e = z
    BY <1>5, <1>13, <2>1 DEF Rest
  <2>3. PICK k \in Nat : Decoded(Before(out, m), z) = Behind((out \o Tabs(m)) \o z, k)
    BY <2>1, DecodeBefore
  <2>4. PICK x \in Seq(Byte) : x = (out \o Tabs(m)) \o z
    <3>1. z \in Seq(Byte)
      BY MarkBytes
    <3>2. (out \o Tabs(m)) \o z \in Seq(Byte)
      BY <3>1, TabsType
    <3>3. QED
      BY <3>2
  <2>5. Decoded(Behind(x, k), b) = Behind(x \o b, k + Len(b)) /\ k + Len(b) \in Nat
    <3>1. Decoded(Behind(x, k), b) = Behind(x \o b, k + Len(b))
      BY DecodeBehind
    <3>2. k + Len(b) \in Nat
      OBVIOUS
    <3>3. QED
      BY <3>1, <3>2
  <2>6. Loose(n) = r /\ n - Loose(n) = m
    <3>1. Loose(n) = r
      BY <1>3, <1>13 DEF Loose
    <3>2. n - r = m
      BY <1>4, <1>10
    <3>3. QED
      BY <3>1, <3>2
  <2>7. Kept(l) = (Tabs(m) \o z) \o b
    BY <1>9, <2>1, <2>6
  <2>8. x \o b = out \o Kept(l)
    <3>1. PICK y \in Seq(Byte) : y = Tabs(m)
      BY <1>4, TabsType
    <3>2. PICK u \in Seq(Byte) : u = z
      BY MarkBytes
    <3>3. PICK v \in Seq(Byte) : v = b
      BY <1>6
    <3>4. ((out \o y) \o u) \o v = out \o ((y \o u) \o v)
      <4>1. y \in Seq(Byte) /\ u \in Seq(Byte) /\ v \in Seq(Byte)
        OBVIOUS
      <4>2. \A d, f \in Seq(Byte) : ((out \o y) \o d) \o f = out \o ((y \o d) \o f)
        BY <1>11, <4>1
      <4>3. \A f \in Seq(Byte) : ((out \o y) \o u) \o f = out \o ((y \o u) \o f)
        BY <4>2, <4>1
      <4>4. QED
        BY <4>3, <4>1
    <3>5. QED
      BY <2>4, <2>7, <3>1, <3>2, <3>3, <3>4
  <2>9. QED
    BY <1>8, <2>2, <2>3, <2>4, <2>5, <2>8
<1>14. QED
  BY <1>10, <1>12, <1>13

\* A line and its end.
LEMMA DecodeLine ==
    ASSUME NEW out \in Seq(Byte), NEW l \in Seq(Byte)
    PROVE  Decoded(Before(out, 0), Append(Code(l), CR)) = Before(out \o Append(Kept(l), LF), 0)
<1>1. CR \in Byte /\ LF \in Byte
  BY DEF CR, LF, Byte
<1>2. PICK x \in Seq(Byte) : x = Code(l)
  BY CodeType, VisibleBytes
<1>3. PICK y \in Seq(Byte) : y = Kept(l)
  BY KeptCode
<1>4. Decoded(Before(out, 0), Append(x, CR)) = DecodeCharacter(Decoded(Before(out, 0), x), CR)
  BY <1>1, DecodedSteps
<1>5. out \o Append(y, LF) = Append(out \o y, LF)
  BY <1>1, <1>3
<1>6. CASE Marked(l)
  <2>1. PICK m \in Nat : Decoded(Before(out, 0), x) = Behind(out \o y, m)
    BY <1>2, <1>3, <1>6, DecodeMarked
  <2>2. QED
    BY <1>2, <1>3, <1>4, <1>5, <2>1, DecodeCodes
<1>7. CASE ~Marked(l)
  <2>1. x = <<>> /\ y = <<>> /\ out \o <<>> = out
    BY <1>2, <1>3, <1>7, KeptIs DEF Code
  <2>2. Decoded(Before(out, 0), x) = Before(out, 0)
    BY <2>1, DecodedSteps
  <2>3. QED
    BY <1>2, <1>3, <1>4, <1>5, <2>1, <2>2, DecodeCodes
<1>8. QED
  BY <1>6, <1>7

-----------------------------------------------------------------------------
(* A file whose lines fit in their pages is read back.                     *)

LEMMA OutType ==
    ASSUME NEW t \in Seq(Byte)
    PROVE  Out(t) \in Seq(Byte)
<1>0. PICK k \in Nat \ {0} : \E w, x : Whole(w, k) /\ GoodTail(x) /\ Out(t) = w \o x
  BY OutPaged DEF Paged
<1>1. PICK w, x : Whole(w, k) /\ GoodTail(x) /\ Out(t) = w \o x
  BY <1>0
<1>2. w \in Seq(Byte) /\ x \in Seq(Byte)
  BY <1>1, PagedLength
<1>3. w \o x \in Seq(Byte)
  BY <1>2
<1>4. QED
  BY <1>1, <1>3

LEMMA FitsIs ==
    ASSUME NEW l \in Seq(Byte), Fits(l)
    PROVE  Split(Append(Code(l), CR)) = Append(Code(l), CR)
<1>1. Len(Code(l)) + 1 <= PerPage
  <2>1. CASE Marked(l)
    <3>1. Column(l)[Leading(l)] \in Nat
      BY LineNumbers
    <3>2. PICK i : i = Indent(Column(l)[Leading(l)]) /\ i \in Seq(Visible)
      BY <3>1, IndentIs
    <3>3. PICK b : b = Body(l) /\ b \in Seq(Visible) /\ b # <<>>
      BY <2>1, CodeType, BodyMarked
    <3>4. Len(i) + Len(b) + 1 <= Page - 1
      BY <3>2, <3>3 DEF Fits
    <3>5. Code(l) = i \o b
      BY <2>1, <3>2, <3>3 DEF Code
    <3>6. Len(i \o b) = Len(i) + Len(b)
      BY <3>2, <3>3
    <3>7. QED
      BY <3>4, <3>5, <3>6, Sizes
  <2>2. CASE ~Marked(l)
    <3>1. Code(l) = <<>>
      BY <2>2 DEF Code
    <3>2. QED
      BY <3>1, Sizes
  <2>3. QED
    BY <2>1, <2>2
<1>2. PICK x : x = Code(l) /\ x \in Seq(Visible)
  BY CodeType
<1>3. Len(Append(x, CR)) = Len(x) + 1
  BY <1>2
<1>4. QED
  BY <1>1, <1>2, <1>3 DEF Split

\* So is a line that has been put behind what was there.
LEMMA PutDecoded ==
    ASSUME NEW o \in Seq(Byte), NEW d \in Seq(Byte), NEW l \in Seq(Byte), Fits(l),
           NEW s, Decoded(s, o) = Before(d, 0)
    PROVE  Decoded(s, Put(o, l)) = Before(d \o Append(Kept(l), LF), 0)
<1>1. PICK line \in Seq(Byte) : line = Append(Code(l), CR) /\ Split(line) = line
  <2>1. Code(l) \in Seq(Byte) /\ CR \in Byte
    BY CodeType, VisibleBytes DEF CR, Byte
  <2>2. Append(Code(l), CR) \in Seq(Byte)
    BY <2>1
  <2>3. QED
    BY <2>2, FitsIs
<1>2. PICK z \in Seq(Byte) : /\ z = Padding(o, line)
                             /\ Decoded(Before(d, 0), z) = Before(d, 0)
  <2>1. CASE (Len(o) % Page) + Len(line) > PerPage
    <3>1. PICK j \in Nat : j = Page - (Len(o) % Page)
      <4>1. Len(o) \in Nat /\ Page \in Nat \ {0}
        BY Sizes
      <4>2. Len(o) % Page \in 0 .. Page - 1
        BY <4>1, Division
      <4>3. Page - (Len(o) % Page) \in Nat
        BY <4>1, <4>2
      <4>4. QED
        BY <4>3
    <3>2. Padding(o, line) = Times(j, NUL)
      BY <2>1, <3>1 DEF Padding
    <3>3. Times(j, NUL) \in Seq(Byte)
      <4>1. NUL \in Byte
        BY DEF NUL, Byte
      <4>2. QED
        BY <4>1, TimesIs
    <3>4. QED
      BY <3>2, <3>3, DecodeNuls
  <2>2. CASE ~ ((Len(o) % Page) + Len(line) > PerPage)
    <3>1. Padding(o, line) = <<>> /\ <<>> \in Seq(Byte)
      BY <2>2 DEF Padding
    <3>2. QED
      BY <3>1, DecodedSteps
  <2>3. QED
    BY <2>1, <2>2
<1>3. Put(o, l) = (o \o z) \o line
  BY <1>1, <1>2 DEF Put
<1>4. Decoded(s, o \o z) = Before(d, 0)
  BY <1>2, DecodedConcat
<1>5. PICK x \in Seq(Byte) : x = o \o z
  <2>1. o \o z \in Seq(Byte)
    OBVIOUS
  <2>2. QED
    BY <2>1
<1>6. Decoded(s, (o \o z) \o line) = Decoded(Before(d, 0), line)
  <2>1. Decoded(s, x \o line) = Decoded(Decoded(s, x), line)
    BY DecodedConcat
  <2>2. QED
    BY <1>4, <1>5, <2>1
<1>7. Decoded(Before(d, 0), line) = Before(d \o Append(Kept(l), LF), 0)
  BY <1>1, DecodeLine
<1>8. QED
  BY <1>3, <1>6, <1>7

\* So are all lines that have ended, if each fits in a page.
LEMMA OutDecoded ==
    ASSUME NEW t \in Seq(Byte), FitsDone(t)
    PROVE  Decoded(Before(<<>>, 0), Out(t)) = Before(Done(t), 0)
<1> DEFINE Good(u) == FitsDone(u) => Decoded(Before(<<>>, 0), Out(u)) = Before(Done(u), 0)
           P == {u \in Seq(Byte) : Good(u)}
<1>1. <<>> \in P
  <2>1. Decoded(Before(<<>>, 0), Header) = Before(<<>>, 0)
    BY Sizes, DecodeNuls DEF Header
  <2>2. Out(<<>>) = Header /\ Done(<<>>) = <<>>
    BY OutSteps, DoneEmpty
  <2>3. <<>> \in Seq(Byte)
    OBVIOUS
  <2>4. QED
    BY <2>1, <2>2, <2>3
<1>2. \A u \in Seq(Byte), c \in Byte : u \in P => Append(u, c) \in P
  <2> SUFFICES ASSUME NEW u \in Seq(Byte), NEW c \in Byte, Good(u), FitsDone(Append(u, c))
               PROVE  /\ Append(u, c) \in Seq(Byte)
                      /\ Decoded(Before(<<>>, 0), Out(Append(u, c)))
                            = Before(Done(Append(u, c)), 0)
    OBVIOUS
  <2>1. FitsDone(u) /\ (c \in LineEnds => Fits(LastLine(u)))
    BY DoneAppend
  <2>2. Decoded(Before(<<>>, 0), Out(u)) = Before(Done(u), 0)
    BY <2>1
  <2>3. Append(u, c) \in Seq(Byte)
    OBVIOUS
  <2>4. CASE c \in LineEnds
    <3>1. PICK o \in Seq(Byte), d \in Seq(Byte), l \in Seq(Byte) :
             o = Out(u) /\ d = Done(u) /\ l = LastLine(u)
      BY OutType, DoneType, LastType
    <3>2. Decoded(Before(<<>>, 0), Put(o, l)) = Before(d \o Append(Kept(l), LF), 0)
      BY <2>1, <2>2, <2>4, <3>1, PutDecoded
    <3>3. Out(Append(u, c)) = Put(Out(u), LastLine(u))
      BY <2>4, OutSteps
    <3>4. Done(Append(u, c)) = Done(u) \o Append(Kept(LastLine(u)), LF)
      BY <2>4, DoneAppend
    <3>5. QED
      BY <2>3, <3>1, <3>2, <3>3, <3>4
  <2>5. CASE c \notin LineEnds
    <3>1. Out(Append(u, c)) = Out(u) /\ Done(Append(u, c)) = Done(u)
      BY <2>5, OutSteps, DoneAppend
    <3>2. QED
      BY <2>2, <2>3, <3>1
  <2>6. QED
    BY <2>4, <2>5
<1> HIDE DEF P
<1>3. t \in P
  BY <1>1, <1>2, SequenceInduction
<1>4. QED
  BY <1>3 DEF P

Start == Before(<<>>, 0)

\* The header is NULs, whether the reader takes it off or not.
LEMMA DecodeSkips ==
    ASSUME NEW w, NEW k \in Nat \ {0}, Whole(w, k)
    PROVE  Decode(w) = Decoded(Start, w).out
<1>1. w \in Seq(Byte) /\ Len(w) = k * Page /\ \A i \in 1 .. Page : w[i] = NUL
  BY DEF Whole
<1>2. Decode(w) = IF IsTextBuffer(w) THEN Decoded(Start, w).out
                  ELSE Decoded(Start, SubSeq(w, Page + 1, Len(w))).out
  BY Zenon DEF Decode, Decoded, Start, Before
<1>3. PICK n \in Nat : n = Len(w) /\ Page <= n
  <2>1. 1 * Page <= k * Page /\ 1 * Page = Page
    BY Sizes, Multiples
  <2>2. QED
    BY <1>1, <2>1
<1>4. PICK x : x = SubSeq(w, Page + 1, n)
  OBVIOUS
<1>5. x \in Seq(Byte) /\ Len(x) = n - Page /\ \A i \in 1 .. n - Page : x[i] = w[Page + i]
  BY <1>1, <1>3, <1>4, Sizes
<1>6. PICK h \in Seq(Byte) : h = Header /\ Len(h) = Page /\ \A i \in 1 .. Page : h[i] = NUL
  <2>1. NUL \in Byte /\ Page \in Nat
    BY Sizes DEF NUL, Byte
  <2>2. Header \in Seq(Byte) /\ Len(Header) = Page /\ \A i \in 1 .. Page : Header[i] = NUL
    BY <2>1, TimesIs DEF Header
  <2>3. QED
    BY <2>2
<1>7. w = h \o x
  <2>1. PICK y : y = h \o x
    OBVIOUS
  <2>2. /\ y \in Seq(Byte) /\ Len(y) = n
        /\ \A i \in 1 .. Page : y[i] = h[i]
        /\ \A i \in Page + 1 .. n : y[i] = x[i - Page]
    BY <1>3, <1>5, <1>6, <2>1, Sizes
  <2>3. \A i \in 1 .. n : y[i] = w[i]
    <3> SUFFICES ASSUME NEW i \in 1 .. n PROVE y[i] = w[i]
      OBVIOUS
    <3>1. CASE i <= Page
      <4>1. i \in 1 .. Page
        BY <3>1
      <4>2. QED
        BY <1>1, <1>6, <2>2, <4>1
    <3>2. CASE ~ (i <= Page)
      <4>1. i \in Page + 1 .. n /\ i - Page \in 1 .. n - Page /\ Page + (i - Page) = i
        BY <3>2, Sizes
      <4>2. QED
        BY <1>5, <2>2, <4>1
    <3>3. QED
      BY <3>1, <3>2
  <2>4. y = w
    BY <1>1, <1>3, <2>2, <2>3, SeqEqual
  <2>5. QED
    BY <2>1, <2>4
<1>8. Decoded(Start, h) = Start
  BY <1>6, Sizes, DecodeNuls DEF Header, Start
<1>9. Decoded(Start, w) = Decoded(Start, x)
  BY <1>5, <1>7, <1>8, DecodedConcat
<1>10. QED
  BY <1>2, <1>3, <1>4, <1>9

\* A text whose lines fit is read back as what is kept of it.
LEMMA RoundTrip ==
    ASSUME NEW t \in Seq(Byte), LinesFit(t)
    PROVE  Decode(Encode(t)) = Canonical(t)
<1>1. PICK u \in Seq(Byte) : u = Closed(t) /\ Canonical(t) = Done(u) /\ FitsDone(u)
  BY ClosedIs
<1>2. PICK k \in Nat \ {0} : Whole(Encode(t), k)
  BY EncodeWhole
<1>3. PICK n \in 0 .. Page - 1 : Encode(t) = Out(u) \o Times(n, NUL)
  BY <1>1, EncodeWhole
<1>4. n \in Nat /\ NUL \in Byte
  BY Sizes DEF NUL, Byte
<1>5. Times(n, NUL) \in Seq(Byte)
  BY <1>4, TimesIs
<1>6. PICK o \in Seq(Byte), z \in Seq(Byte) : o = Out(u) /\ z = Times(n, NUL)
  BY <1>5, OutType
<1>7. Decoded(Start, o) = Before(Done(u), 0)
  BY <1>1, <1>6, OutDecoded DEF Start
<1>8. Decoded(Start, o \o z) = Before(Done(u), 0)
  BY <1>4, <1>6, <1>7, DecodedConcat, DecodeNuls
<1>9. Decode(Encode(t)) = Decoded(Start, o \o z).out
  BY <1>2, <1>3, <1>6, DecodeSkips
<1>10. QED
  BY <1>1, <1>8, <1>9 DEF Before

-----------------------------------------------------------------------------
(* What the decoder makes is bytes.                                        *)

Decoder == [out : Seq(Byte), column : Nat, nonWhite : BOOLEAN, dle : BOOLEAN]

LEMMA PlainType ==
    ASSUME NEW s \in Decoder, NEW c \in Byte
    PROVE  Plain(s, c) \in Decoder
<1>1. PICK o \in Seq(Byte), n \in Nat : o = s.out /\ n = s.column
  BY DEF Decoder
<1>2. o \o Tabs(n) \in Seq(Byte)
  BY TabsType
<1>3. PICK p \in Seq(Byte) : p = IF s.nonWhite THEN o ELSE o \o Tabs(n)
  BY <1>2
<1>4. p \o <<c>> \in Seq(Byte) /\ n + 1 \in Nat
  OBVIOUS
<1>5. Plain(s, c) = [s EXCEPT !.out = p \o <<c>>, !.nonWhite = TRUE, !.column = n + 1]
  BY <1>1, <1>3 DEF Plain
<1>6. QED
  BY <1>4, <1>5 DEF Decoder

LEMMA CodedType ==
    ASSUME NEW s \in Decoder, NEW c \in Byte
    PROVE  Coded(s, c) \in Decoder
<1>1. CASE c = NUL
  BY <1>1 DEF Coded, NUL, CR, LF, DLE
<1>2. CASE c \in {CR, LF}
  <2>1. c # NUL
    BY <1>2 DEF NUL, CR, LF
  <2>2. Coded(s, c) = [s EXCEPT !.out = Append(@, LF), !.column = 0, !.nonWhite = FALSE]
    BY <1>2, <2>1 DEF Coded, NUL, CR, LF, DLE
  <2>3. LF \in Byte
    BY DEF LF, Byte
  <2>4. PICK p \in Seq(Byte) : p = Append(s.out, LF)
    <3>1. s.out \in Seq(Byte)
      BY DEF Decoder
    <3>2. Append(s.out, LF) \in Seq(Byte)
      BY <2>3, <3>1
    <3>3. QED
      BY <3>2
  <2>5. Coded(s, c) =
          [out |-> p, column |-> 0, nonWhite |-> FALSE, dle |-> s.dle]
    BY <2>2, <2>4 DEF Decoder
  <2>6. QED
    BY <2>5 DEF Decoder
<1>3. CASE c = DLE
  <2>1. Coded(s, c) = [s EXCEPT !.dle = TRUE]
    BY <1>3 DEF Coded, NUL, CR, LF, DLE
  <2>2. QED
    BY <2>1 DEF Decoder
<1>4. CASE c # NUL /\ c \notin {CR, LF} /\ c # DLE
  <2>1. Coded(s, c) = Plain(s, c)
    BY <1>4 DEF Coded
  <2>2. QED
    BY <2>1, PlainType
<1>5. QED
  BY <1>1, <1>2, <1>3, <1>4

LEMMA DecodeCharacterType ==
    ASSUME NEW s \in Decoder, NEW c \in Byte
    PROVE  DecodeCharacter(s, c) \in Decoder
<1>1. PICK after \in Decoder : after = [s EXCEPT !.dle = FALSE]
  BY DEF Decoder
<1>2. CASE ~s.dle
  BY <1>2, CodedType DEF DecodeCharacter
<1>3. CASE s.dle /\ c < 32
  <2>1. DLE \in Byte
    BY DEF DLE, Byte
  <2>2. Plain(after, DLE) \in Decoder
    BY <2>1, PlainType
  <2>3. Coded(Plain(after, DLE), c) \in Decoder
    BY <2>2, CodedType
  <2>4. QED
    BY <1>1, <1>3, <2>3 DEF DecodeCharacter
<1>4. CASE s.dle /\ ~ (c < 32)
  <2>1. PICK n \in Nat : n = c - 32
    BY <1>4 DEF Byte
  <2>2. Blank \in Byte
    BY DEF Blank, Byte
  <2>3. PICK b \in Seq(Byte) : b = Times(n, Blank)
    BY <2>2, TimesIs
  <2>4. PICK o \in Seq(Byte), m \in Nat :
           /\ o = IF s.nonWhite THEN s.out \o b ELSE s.out
           /\ m = s.column + n
    <3>1. s.out \in Seq(Byte) /\ s.column \in Nat
      BY DEF Decoder
    <3>2. s.out \o b \in Seq(Byte) /\ s.column + n \in Nat
      BY <3>1
    <3>3. QED
      BY <3>1, <3>2
  <2>5. DecodeCharacter(s, c) = [after EXCEPT !.out = o, !.column = m]
    <3>1. after.out = s.out /\ after.column = s.column
      BY <1>1 DEF Decoder
    <3>2. DecodeCharacter(s, c) =
             [after EXCEPT !.out = IF s.nonWhite THEN after.out \o Times(c - 32, Blank)
                                   ELSE after.out,
                           !.column = after.column + (c - 32)]
      BY <1>1, <1>4 DEF DecodeCharacter
    <3>3. QED
      BY <2>1, <2>3, <2>4, <3>1, <3>2
  <2>6. QED
    BY <2>5 DEF Decoder
<1>5. QED
  BY <1>2, <1>3, <1>4

LEMMA DecodedType ==
    ASSUME NEW t \in Seq(Byte)
    PROVE  Decoded(Start, t) \in Decoder
<1> DEFINE P == {u \in Seq(Byte) : Decoded(Start, u) \in Decoder}
<1>1. <<>> \in P
  <2>1. <<>> \in Seq(Byte)
    OBVIOUS
  <2>2. Start \in Decoder
    BY <2>1 DEF Start, Before, Decoder
  <2>3. QED
    BY <2>1, <2>2, DecodedSteps
<1>2. \A u \in Seq(Byte), c \in Byte : u \in P => Append(u, c) \in P
  <2> SUFFICES ASSUME NEW u \in Seq(Byte), NEW c \in Byte, u \in P
               PROVE  Append(u, c) \in P
    OBVIOUS
  <2>1. Append(u, c) \in Seq(Byte)
    OBVIOUS
  <2>2. Decoded(Start, Append(u, c)) = DecodeCharacter(Decoded(Start, u), c)
    BY DecodedSteps
  <2>3. DecodeCharacter(Decoded(Start, u), c) \in Decoder
    BY DecodeCharacterType
  <2>4. QED
    BY <2>1, <2>2, <2>3
<1> HIDE DEF P
<1>3. t \in P
  BY <1>1, <1>2, SequenceInduction
<1>4. QED
  BY <1>3 DEF P

LEMMA DecodeType ==
    ASSUME NEW w \in Seq(Byte)
    PROVE  Decode(w) \in Seq(Byte)
<1>1. Decode(w) = IF IsTextBuffer(w) THEN Decoded(Start, w).out
                  ELSE Decoded(Start, SubSeq(w, Page + 1, Len(w))).out
  BY Zenon DEF Decode, Decoded, Start, Before
<1>2. SubSeq(w, Page + 1, Len(w)) \in Seq(Byte)
  BY Sizes
<1>3. QED
  BY <1>1, <1>2, DecodedType DEF Decoder

LEMMA EncodeType ==
    ASSUME NEW t \in Seq(Byte)
    PROVE  Encode(t) \in Seq(Byte)
BY EncodeWhole DEF Whole

-----------------------------------------------------------------------------
(* The states of a file that is rewritten.                                 *)

\* The file holds the pages of a text.
FileEncoded == \E x \in Seq(Byte) : file = Encode(x)

\* The file holds the pages of a text whose lines fit, and no other text is in
\* memory than that one or what is read back of it.
Holds(x) ==
    /\ x \in Seq(Byte) /\ LinesFit(x) /\ file = Encode(x)
    /\ pc \in {"idle", "plain"} => cache \in {Null, x, Decode(file)}
OwnText == \E x : Holds(x)

\* What holds of a file between two calls: it is empty when it is to be filled,
\* and otherwise what its status says.
FileInv ==
    /\ TypeOK
    /\ pc = "refill" => file = <<>> /\ status = "lost"
    /\ status \in {"own", "split"} => FileEncoded
    /\ status = "own" => OwnText

LEMMA TextType ==
    ASSUME TypeOK
    PROVE  Text \in Seq(Byte) /\ file \in Seq(Byte) /\ (cache = Null \/ cache \in Seq(Byte))
<1>1. file \in Seq(Byte) /\ (cache = Null \/ cache \in Seq(Byte))
  BY DEF TypeOK, Byte
<1>2. Text \in Seq(Byte)
  BY <1>1, DecodeType DEF Text
<1>3. QED
  BY <1>1, <1>2

LEMMA OverwrittenType ==
    ASSUME NEW t \in Seq(Byte), NEW offset \in Nat, NEW c \in Byte,
           NEW u \in Overwritten(t, offset, c)
    PROVE  u \in Seq(Byte)
<1>1. NUL \in Byte /\ Characters \subseteq Byte
  BY CharactersAssumption DEF NUL, Byte
<1>2. PICK m \in Nat : m = IF offset < Len(t) THEN Len(t) ELSE offset + 1
  OBVIOUS
<1>3. PICK hole \in Byte :
         u = [i \in 1 .. m |->
                IF i = offset + 1 THEN c ELSE IF i <= Len(t) THEN t[i] ELSE hole]
  BY <1>1, <1>2 DEF Overwritten
<1>4. \A i \in 1 .. m :
         (IF i = offset + 1 THEN c ELSE IF i <= Len(t) THEN t[i] ELSE hole) \in Byte
  OBVIOUS
<1>5. QED
  BY <1>3, <1>4

LEMMA SetSizeType ==
    ASSUME NEW t \in Seq(Byte), NEW size \in Nat
    PROVE  SetSize(t, size) \in Seq(Byte)
<1>1. LF \in Byte
  BY DEF LF, Byte
<1>2. Times(size, LF) \in Seq(Byte)
  BY <1>1, TimesIs
<1>3. t \o Times(size, LF) \in Seq(Byte)
  BY <1>2
<1>4. size <= Len(t) => SubSeq(t, 1, size) \in Seq(Byte)
  OBVIOUS
<1>5. QED
  BY <1>3, <1>4 DEF SetSize

LEMMA FilledIs ==
    ASSUME NEW t \in Seq(Byte), cache = t, file = <<>>
    PROVE  Filled = Encode(t)
<1>1. PICK w \in Seq(Byte) : w = Encode(t)
  BY EncodeType
<1>2. Filled = w \o SubSeq(<<>>, Len(w) + 1, Len(<<>>))
  BY <1>1 DEF Filled
<1>3. SubSeq(<<>>, Len(w) + 1, Len(<<>>)) = <<>>
  <2>1. Len(<<>>) = 0 /\ Len(w) \in Nat
    OBVIOUS
  <2>2. QED
    BY <2>1, SubSeqEmpty
<1>4. w \o <<>> = w
  OBVIOUS
<1>5. QED
  BY <1>1, <1>2, <1>3, <1>4

\* A step that leaves the file alone, and its status or makes it less, and leaves
\* no text in memory that was not there or in the file.
LEMMA FileKept ==
    ASSUME FileInv, TypeOK', UNCHANGED file,
           pc' = "refill" => file = <<>> /\ status' = "lost",
           status' \in {"own", "split"} => status' = status,
           status' = "own" /\ pc' \in {"idle", "plain"} =>
              cache' = Null \/ (pc = "idle" /\ cache' \in {cache, Text})
    PROVE  FileInv'
<1>1. status' \in {"own", "split"} => FileEncoded'
  <2>1. FileEncoded' <=> FileEncoded
    BY DEF FileEncoded
  <2>2. QED
    BY <2>1 DEF FileInv
<1>2. ASSUME status' = "own" PROVE OwnText'
  <2>1. status = "own"
    BY <1>2
  <2>2. PICK x : Holds(x)
    BY <2>1 DEF FileInv, OwnText
  <2>3. x \in Seq(Byte) /\ LinesFit(x) /\ file' = Encode(x) /\ Decode(file') = Decode(file)
    BY <2>2 DEF Holds
  <2>4. ASSUME pc' \in {"idle", "plain"} PROVE cache' \in {Null, x, Decode(file)}
    <3>1. CASE cache' = Null
      BY <3>1
    <3>2. CASE pc = "idle" /\ cache' \in {cache, Text}
      <4>1. cache \in {Null, x, Decode(file)}
        BY <2>2, <3>2 DEF Holds
      <4>2. Text = IF cache = Null THEN Decode(file) ELSE cache
        BY DEF Text
      <4>3. QED
        BY <3>2, <4>1, <4>2
    <3>3. QED
      BY <1>2, <2>4, <3>1, <3>2
  <2>5. Holds(x)'
    BY <2>3, <2>4 DEF Holds
  <2>6. QED
    BY <2>5 DEF OwnText
<1>3. QED
  BY <1>1, <1>2 DEF FileInv

LEMMA FileInit == Init => FileInv
<1> SUFFICES ASSUME Init PROVE FileInv
  OBVIOUS
<1>1. <<>> \in Seq(0 .. 255)
  OBVIOUS
<1>2. TypeOK
  BY <1>1 DEF Init, TypeOK
<1>3. QED
  BY <1>2 DEF Init, FileInv

LEMMA FileNext == FileInv /\ [Next]_vars => FileInv'
<1> SUFFICES ASSUME FileInv, [Next]_vars PROVE FileInv'
  OBVIOUS
<1>1. TypeOK /\ Text \in Seq(Byte) /\ file \in Seq(Byte) /\ (cache = Null \/ cache \in Seq(Byte))
  BY TextType DEF FileInv
<1>2. <<>> \in Seq(0 .. 255) /\ Byte = 0 .. 255
  BY DEF Byte
<1>3. CASE Look
  <2>1. TypeOK'
    BY <1>1, <1>2, <1>3 DEF TypeOK, Look
  <2>2. QED
    BY <1>3, <2>1, FileKept DEF Look
<1>4. CASE Release
  <2>1. TypeOK'
    BY <1>1, <1>4 DEF TypeOK, Release, Forgotten
  <2>2. QED
    BY <1>4, <2>1, FileKept DEF Release, Forgotten
<1>5. CASE Recreate
  <2>1. TypeOK'
    BY <1>1, <1>2, <1>5 DEF TypeOK, Recreate
  <2>2. QED
    BY <1>5, <2>1 DEF Recreate, FileInv
<1>6. ASSUME NEW offset \in 0 .. MaxText - 1, NEW c \in Characters, Write(offset, c)
      PROVE  FileInv'
  <2>1. offset \in Nat /\ c \in Byte
    BY CharactersAssumption DEF Byte
  <2>2. cache' \in Seq(Byte)
    BY <1>1, <1>6, <2>1, OverwrittenType DEF Write
  <2>3. cache' # Null
    BY <1>2, <2>2, NullAssumption
  <2>4. TypeOK'
    BY <1>1, <1>2, <1>6, <2>2, <2>3 DEF TypeOK, Write
  <2>5. QED
    BY <1>6, <2>4, FileKept DEF Write
<1>7. ASSUME NEW size \in 0 .. MaxText, Truncate(size)
      PROVE  FileInv'
  <2>1. size \in Nat
    BY CharactersAssumption
  <2>2. cache' \in Seq(Byte)
    BY <1>1, <1>7, <2>1, SetSizeType DEF Truncate
  <2>3. cache' # Null
    BY <1>2, <2>2, NullAssumption
  <2>4. TypeOK'
    BY <1>1, <1>2, <1>7, <2>2, <2>3 DEF TypeOK, Truncate
  <2>5. QED
    BY <1>7, <2>4, FileKept DEF Truncate
<1>8. ASSUME NEW size \in 0 .. MaxText, TruncateOverruns(size)
      PROVE  FileInv'
  <2>1. TypeOK'
    BY <1>1, <1>8 DEF TypeOK, TruncateOverruns
  <2>2. QED
    BY <1>8, <2>1, FileKept DEF TruncateOverruns
<1>9. CASE ReadFails
  <2>1. TypeOK'
    BY <1>1, <1>9 DEF TypeOK, ReadFails
  <2>2. QED
    BY <1>9, <2>1, FileKept DEF ReadFails
<1>10. CASE Shrink
  <2>1. TypeOK'
    BY <1>1, <1>2, <1>10 DEF TypeOK, Shrink
  <2>2. QED
    BY <1>10, <2>1 DEF Shrink, FileInv
<1>11. CASE ShrinkFails
  <2>1. TypeOK'
    BY <1>1, <1>2, <1>11 DEF TypeOK, ShrinkFails
  <2>2. QED
    BY <1>11, <2>1 DEF ShrinkFails, FileInv
<1>12. CASE Refill
  <2>1. PICK x \in Seq(Byte) : x = cache
    BY <1>1, <1>12 DEF Refill, TypeOK
  <2>2. file' = Encode(x)
    BY <1>12, <2>1, FilledIs DEF Refill, FileInv
  <2>3. TypeOK'
    <3>1. file' \in Seq(0 .. 255)
      BY <1>2, <2>2, EncodeType
    <3>2. status' \in {"own", "split"}
      BY <1>12 DEF Refill
    <3>3. QED
      BY <1>1, <1>12, <3>1, <3>2 DEF TypeOK, Refill
  <2>4. FileEncoded'
    BY <2>2 DEF FileEncoded
  <2>5. status' = "own" => OwnText'
    <3>1. status' = "own" => LinesFit(x)
      BY <1>12, <2>1 DEF Refill
    <3>2. cache' = x
      BY <1>12, <2>1 DEF Refill
    <3>3. LinesFit(x) => Holds(x)'
      BY <2>2, <3>2 DEF Holds
    <3>4. QED
      BY <3>1, <3>3 DEF OwnText
  <2>6. pc' # "refill"
    BY <1>12 DEF Refill
  <2>7. QED
    BY <2>3, <2>4, <2>5, <2>6 DEF FileInv
<1>13. CASE RefillFails
  <2>1. TypeOK'
    BY <1>1, <1>13 DEF TypeOK, RefillFails
  <2>2. status' = "lost" /\ UNCHANGED file /\ pc' = "idle"
    BY <1>13 DEF RefillFails, FileInv
  <2>3. QED
    BY <2>1, <2>2 DEF FileInv
<1>14. CASE RefillUnsynced
  <2>1. PICK x \in Seq(Byte) : x = cache
    BY <1>1, <1>14 DEF RefillUnsynced, TypeOK
  <2>2. file' = Encode(x)
    BY <1>14, <2>1, FilledIs DEF RefillUnsynced, FileInv
  <2>3. TypeOK'
    <3>1. file' \in Seq(0 .. 255)
      BY <1>2, <2>2, EncodeType
    <3>2. QED
      BY <1>1, <1>14, <3>1 DEF TypeOK, RefillUnsynced
  <2>4. status' = "lost" /\ pc' # "refill"
    BY <1>14 DEF RefillUnsynced, FileInv
  <2>5. QED
    BY <2>3, <2>4 DEF FileInv
<1>15. CASE Restart
  <2>1. TypeOK'
    BY <1>1, <1>15 DEF TypeOK, Restart, Forgotten
  <2>2. QED
    BY <1>15, <2>1, FileKept DEF Restart, Forgotten
<1>16. CASE UNCHANGED vars
  <2>1. FileInv' <=> FileInv
    BY <1>16 DEF FileInv, TypeOK, FileEncoded, OwnText, Holds, vars
  <2>2. QED
    BY <2>1
<1>17. QED
  BY <1>3, <1>4, <1>5, <1>6, <1>7, <1>8, <1>9, <1>10, <1>11, <1>12, <1>13, <1>14,
     <1>15, <1>16 DEF Next

\* The invariant holds throughout: every handler of text.cc keeps it.
THEOREM FileStays == Spec => []FileInv
BY FileInit, FileNext, PTL DEF Spec

\* Every variable has its type, and a handler that rewrites a file has a text in
\* memory (text.cc:143-148).
THEOREM TypeCorrect == Spec => []TypeOK
<1>1. FileInv => TypeOK
  BY DEF FileInv
<1>2. QED
  BY <1>1, FileStays, PTL

\* A file that was rewritten is read back as the text that is in memory, but for
\* blanks that text files have no room for, after any writes, truncates, failures
\* and releases (text.cc:79-100, 181-238).
THEOREM TextIsKept == Spec => []TextKept
<1>1. FileInv => TextKept
  <2> SUFFICES ASSUME FileInv, Written, status = "own", cache # Null
               PROVE  Decode(file) = Canonical(cache)
    BY DEF TextKept
  <2>1. PICK x : Holds(x)
    BY DEF FileInv, OwnText
  <2>2. cache = x \/ cache = Decode(file)
    BY <2>1 DEF Holds, Written
  <2>3. Decode(file) = Canonical(x) /\ Canonical(Canonical(x)) = Canonical(x)
    BY <2>1, RoundTrip, CanonicalAgain DEF Holds
  <2>4. QED
    BY <2>2, <2>3
<1>2. QED
  BY <1>1, FileStays, PTL

\* A file that is opened and written back as it is keeps every byte, unless one of
\* its lines had to be split (text_encode.cc:99-131, text_decode.cc:140-170).
THEOREM RewritesAreStable == Spec => []RewriteIsStable
<1>1. FileInv => RewriteIsStable
  <2> SUFFICES ASSUME FileInv, status = "own"
               PROVE  Encode(Decode(file)) = file
    BY DEF RewriteIsStable
  <2>1. PICK x : Holds(x)
    BY DEF FileInv, OwnText
  <2>2. Decode(file) = Canonical(x) /\ Encode(Canonical(x)) = Encode(x)
    BY <2>1, RoundTrip, CanonicalAgain DEF Holds
  <2>3. QED
    BY <2>1, <2>2 DEF Holds
<1>2. QED
  BY <1>1, FileStays, PTL

\* The pages of a file that was rewritten are whole: an empty header, then lines
\* that cross no page boundary and NULs at the end of every page
\* (text_encode.cc:173-238).
THEOREM PagesAreWhole == Spec => []PagesWhole
<1>1. FileInv => PagesWhole
  <2> SUFFICES ASSUME FileInv, Written PROVE PagesWhole
    BY DEF PagesWhole
  <2>1. PICK x \in Seq(Byte) : file = Encode(x)
    BY DEF FileInv, FileEncoded, Written
  <2>2. PICK k \in Nat \ {0} : Whole(file, k)
    BY <2>1, EncodeWhole
  <2>3. Len(file) % Page = 0 /\ Len(file) \div Page = k
    <3>1. k \in Int /\ Page \in Nat \ {0} /\ 0 \in 0 .. Page - 1
      BY Sizes
    <3>2. (k * Page + 0) \div Page = k /\ (k * Page + 0) % Page = 0
      BY <3>1, DivisionUnique
    <3>3. Len(file) = k * Page
      BY <2>2 DEF Whole
    <3>4. k * Page + 0 = k * Page
      BY Sizes
    <3>5. QED
      BY <3>2, <3>3, <3>4
  <2>4. \A i \in 1 .. Page : file[i] = NUL
    BY <2>2 DEF Whole
  <2>5. \A p \in 1 .. k - 1 : GoodPage(SubSeq(file, p * Page + 1, (p + 1) * Page))
    BY <2>2 DEF Whole
  <2>6. \A p \in 1 .. Len(file) \div Page - 1 :
           LET page == SubSeq(file, p * Page + 1, (p + 1) * Page)
           IN \E n \in 0 .. Page - 1 :
                 /\ \A i \in 1 .. Page : page[i] = NUL <=> i > n
                 /\ n > 0 => page[n] = CR
    BY <2>3, <2>5, Zenon DEF GoodPage
  <2>7. QED
    BY <2>3, <2>4, <2>6, Zenon DEF PagesWhole
<1>2. QED
  BY <1>1, FileStays, PTL

=============================================================================
