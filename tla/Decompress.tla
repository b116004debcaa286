----------------------------- MODULE Decompress -----------------------------
(***************************************************************************)
(* get_byte of td0.cc: the decompressor of a Teledisk image, LZSS over an  *)
(* adaptive Huffman code.                                                  *)
(*                                                                         *)
(* The file may hold any bits: every string of bits is the code of some    *)
(* text, so get_char_raw chooses.  Bits stand in sequences, the first bit  *)
(* first: Bitbuff is "left-aligned", and a byte of the file has W bits,    *)
(* not 8.  One action is one turn of a loop.                               *)
(***************************************************************************)
EXTENDS Integers, Sequences

CONSTANTS
    W,              \* bits of a byte of the file
    P,              \* bits of a position that are not coded
    d_code, d_len,  \* the code of the other bits of a position
    Bytes,          \* 256: characters below this one are literal
    Blank,          \* what the ring buffer holds at first
    THRESHOLD, LASIZE, SBSIZE, MAX_FREQ,
    MaxText         \* bound: the bytes of the text

Bit == {0, 1}
Char == [1 .. W -> Bit]

N_CHAR == Bytes - THRESHOLD + LASIZE
TSIZE == N_CHAR * 2 - 1
ROOT == TSIZE - 1
Sentinel == 2 * MAX_FREQ - 1

\* 1 << n
Pow2[n \in 0 .. P] == IF n = 0 THEN 1 ELSE 2 * Pow2[n - 1]

ASSUME SizesAssumption ==
    /\ {W, P, Bytes, THRESHOLD, LASIZE, SBSIZE, MAX_FREQ} \subseteq Nat \ {0}
    /\ THRESHOLD < LASIZE /\ LASIZE < SBSIZE /\ P <= W
ASSUME FreqAssumption == MAX_FREQ > N_CHAR
\* Every position that can be coded is in the ring buffer.
ASSUME CodeAssumption ==
    /\ d_len \in [Char -> 1 .. W + P]
    /\ d_code \in [Char -> Nat]
    /\ \A r \in Char : (d_code[r] + 1) * Pow2[P] <= SBSIZE

VARIABLES
    freq, son, parent,              \* the tree
    loop,                           \* where the loops of update are
    Bitbuff, Bits,                  \* bits read and not used
    raw,                            \* history: the last byte read
    ring_buff, GBr,                 \* the last bytes of the text
    GBstate, GBi, GBj, GBk,         \* the string that is being copied
    pc, c, node, i,                 \* where get_byte is, and its locals
    text                            \* history: what it has returned

tree == <<freq, son, parent, loop>>
input == <<Bitbuff, Bits, raw>>
ring == <<ring_buff, GBr>>
string == <<GBstate, GBi, GBj, GBk>>
vars == <<tree, input, ring, string, pc, c, node, i, text>>

Node == 0 .. ROOT
Character == 0 .. N_CHAR - 1
Leaf(n) == son[n] >= TSIZE

-----------------------------------------------------------------------------
(* The bits of the file.                                                   *)

Zeros(n) == [b \in 1 .. n |-> 0]
Or(a, b) == [n \in 1 .. 2 * W |-> IF a[n] = 1 \/ b[n] = 1 THEN 1 ELSE 0]
\* r << (W - n), as a buffer
Below(n, r) == Zeros(n) \o r \o Zeros(W - n)
Shifted(buf, n) == SubSeq(buf, n + 1, 2 * W) \o Zeros(n)

Take(buf, n) == Bitbuff' = Shifted(buf, n)

\* get_bit returns b.
get_bit(b) ==
    \/ /\ Bits > 0
       /\ b = Bitbuff[1]
       /\ Take(Bitbuff, 1)
       /\ Bits' = Bits - 1
       /\ UNCHANGED raw
    \/ /\ Bits = 0
       /\ \E r \in Char :
            /\ raw' = r
            /\ LET buf == Or(Bitbuff, Below(0, r))
               IN b = buf[1] /\ Take(buf, 1)
       /\ Bits' = W - 1

\* Fault: the new byte is put below W bits, however many there are.
UnalignedPlaceFixed(n) == W

\* Where get_unaligned_byte puts a new byte: below the n bits it has.
UnalignedPlace(n) == n

\* get_unaligned_byte returns b.  There are never W bits in the buffer.
get_unaligned_byte(b) ==
    /\ Bits < W
    /\ \E r \in Char :
         /\ raw' = r
         /\ LET buf == Or(Bitbuff, Below(UnalignedPlace(Bits), r))
            IN b = SubSeq(buf, 1, W) /\ Take(buf, W)
    /\ UNCHANGED Bits

\* The number that some bits are.
Value(bits) ==
    LET v[n \in 0 .. Len(bits)] == IF n = 0 THEN 0 ELSE 2 * v[n - 1] + bits[n]
    IN v[Len(bits)]

-----------------------------------------------------------------------------
(* The tree.  A node has its children next to each other, at son[n] and    *)
(* son[n] + 1; the son of a leaf is TSIZE and its character.               *)

InitFreq[n \in Node] ==
    IF n < N_CHAR THEN 1
    ELSE InitFreq[2 * (n - N_CHAR)] + InitFreq[2 * (n - N_CHAR) + 1]

InitSon == [n \in Node |-> IF n < N_CHAR THEN n + TSIZE ELSE 2 * (n - N_CHAR)]

\* The parents that make up a tree with these sons; the root has parent 0.
Parents(s) ==
    [n \in 0 .. TSIZE + N_CHAR - 1 |->
        IF n = ROOT THEN 0
        ELSE CHOOSE p \in Node : s[p] = n \/ (s[p] = n - 1 /\ n <= ROOT)]

Full == freq[ROOT] = MAX_FREQ

\* The tree is full, and is made anew of its leaves.
Rebuild ==
    /\ pc = "update" /\ Full
    /\ pc' = "halve"
    /\ loop' = [i |-> 0, j |-> 0]
    /\ UNCHANGED <<freq, son, parent, input, ring, string, c, node, i, text>>

\* The leaves move to the front in their order, with half their frequencies.
HalveLeaf ==
    /\ pc = "halve" /\ loop.i < TSIZE
    /\ IF Leaf(loop.i)
       THEN /\ freq' = [freq EXCEPT ![loop.j] = (freq[loop.i] + 1) \div 2]
            /\ son' = [son EXCEPT ![loop.j] = son[loop.i]]
            /\ loop' = [i |-> loop.i + 1, j |-> loop.j + 1]
       ELSE /\ loop' = [i |-> loop.i + 1, j |-> loop.j]
            /\ UNCHANGED <<freq, son>>
    /\ UNCHANGED <<parent, input, ring, string, pc, c, node, i, text>>

LeavesHalved ==
    /\ pc = "halve" /\ loop.i = TSIZE
    /\ pc' = "join"
    /\ loop' = [i |-> 0, j |-> N_CHAR]
    /\ UNCHANGED <<freq, son, parent, input, ring, string, c, node, i, text>>

\* A function on the nodes with e put in at k, in front of those up to j - 1.
InsertNode(nodes, k, j, e) ==
    [n \in DOMAIN nodes |->
        IF n = k THEN e ELSE IF k < n /\ n <= j THEN nodes[n - 1] ELSE nodes[n]]

\* A new node goes after the last that is no more frequent.
JoinPlace(f, j) ==
    CHOOSE k \in 0 .. j : /\ k = 0 \/ freq[k - 1] <= f
                          /\ \A m \in k .. j - 1 : f < freq[m]

\* "make a tree": nodes 0 and 1 get a parent, then 2 and 3, ...
JoinNodes ==
    /\ pc = "join" /\ loop.j < TSIZE
    /\ LET f == freq[loop.i] + freq[loop.i + 1]
           k == JoinPlace(f, loop.j)
       IN /\ freq' = InsertNode(freq, k, loop.j, f)
          /\ son' = InsertNode(son, k, loop.j, loop.i)
    /\ loop' = [i |-> loop.i + 2, j |-> loop.j + 1]
    /\ UNCHANGED <<parent, input, ring, string, pc, c, node, i, text>>

\* "Connect parent nodes"; then the character is counted.
ConnectParents ==
    /\ pc = "join" /\ loop.j = TSIZE
    /\ parent' = Parents(son)
    /\ loop' = [i |-> 0, j |-> 0]
    /\ pc' = "climb"
    /\ node' = parent'[c + TSIZE]
    /\ UNCHANGED <<freq, son, input, ring, string, c, i, text>>

KeepTree ==
    /\ pc = "update" /\ ~Full
    /\ pc' = "climb"
    /\ node' = parent[c + TSIZE]
    /\ UNCHANGED <<tree, input, ring, string, c, i, text>>

\* The last of the nodes after n that are less frequent than k.
LastBelow(n, k) ==
    CHOOSE l \in n + 1 .. TSIZE :
        freq[l + 1] >= k /\ \A m \in n + 1 .. l : freq[m] < k

\* Fault: the second child of a node that moves keeps its parent.
AdoptedFirst(p, s, l) == [p EXCEPT ![s] = l]

\* The parent of what node l has become the parent of.
Adopted(p, s, l) ==
    [n \in DOMAIN p |-> IF n = s \/ (s < TSIZE /\ n = s + 1) THEN l ELSE p[n]]

\* update counts a node, which changes places with a node that it overtakes, and
\* goes on to the parent of the place it is in now.
Climb ==
    /\ pc = "climb"
    /\ LET k == freq[node] + 1
       IN IF freq[node + 1] >= k
          THEN /\ freq' = [freq EXCEPT ![node] = k]
               /\ UNCHANGED <<son, parent>>
               /\ node' = parent[node]
          ELSE LET l == LastBelow(node, k)
               IN /\ freq' = [freq EXCEPT ![node] = freq[l], ![l] = k]
                  /\ son' = [son EXCEPT ![node] = son[l], ![l] = son[node]]
                  /\ parent' = Adopted(Adopted(parent, son[node], l), son[l], node)
                  /\ node' = parent'[l]
    /\ pc' = IF node' = 0 THEN "decoded" ELSE "climb"
    /\ UNCHANGED <<loop, input, ring, string, c, i, text>>

-----------------------------------------------------------------------------
(* get_byte.                                                               *)

\* decode_char starts at the root.
DecodeChar ==
    /\ pc = "idle" /\ ~GBstate
    /\ Len(text) < MaxText
    /\ pc' = "walk"
    /\ c' = son[ROOT]
    /\ UNCHANGED <<tree, input, ring, string, node, i, text>>

\* decode_char goes down one level, or has reached a leaf.
Walk ==
    /\ pc = "walk" /\ c < TSIZE
    /\ \E b \in Bit : get_bit(b) /\ c' = son[c + b]
    /\ UNCHANGED <<tree, ring, string, node, pc, i, text>>

Found ==
    /\ pc = "walk" /\ c >= TSIZE
    /\ pc' = "update"
    /\ c' = c - TSIZE
    /\ UNCHANGED <<tree, input, ring, string, node, i, text>>

Put(b) ==
    /\ ring_buff' = [ring_buff EXCEPT ![GBr] = b]
    /\ GBr' = (GBr + 1) % SBSIZE
    /\ text' = Append(text, b)

Literal ==
    /\ pc = "decoded" /\ c < Bytes
    /\ Put(c)
    /\ pc' = "idle" /\ c' = 0 /\ i' = <<>>
    /\ UNCHANGED <<tree, input, string, node>>

\* decode_position: the coded bits of the position ...
PositionHigh ==
    /\ pc = "decoded" /\ c >= Bytes
    /\ \E b \in Char : get_unaligned_byte(b) /\ i' = b
    /\ pc' = "position"
    /\ UNCHANGED <<tree, ring, string, node, c, text>>

\* ... those of the others that were not among them ...
PositionLow ==
    /\ pc = "position" /\ Len(i) < W + d_len[SubSeq(i, 1, W)] - 1
    /\ \E b \in Bit : get_bit(b) /\ i' = Append(i, b)
    /\ UNCHANGED <<tree, ring, string, node, pc, c, text>>

Position ==
    d_code[SubSeq(i, 1, W)] * Pow2[P] + Value(SubSeq(i, Len(i) - P + 1, Len(i)))

\* Fault: the bytes of a string are taken from where it starts.
StringPlaceStart == GBi

\* Where the next byte of the string is.
StringPlace == (GBk + GBi) % SBSIZE

\* ... and the string can be copied.
BeginString ==
    /\ pc = "position" /\ Len(i) = W + d_len[SubSeq(i, 1, W)] - 1
    /\ GBstate' = TRUE
    /\ GBi' = (GBr - Position - 1) % SBSIZE
    /\ GBj' = c - (Bytes - 1) + THRESHOLD
    /\ GBk' = 0
    /\ pc' = "idle" /\ c' = 0 /\ i' = <<>>
    /\ UNCHANGED <<tree, input, ring, text, node>>

\* One byte of a string.
CopyByte ==
    /\ pc = "idle" /\ GBstate /\ GBk < GBj
    /\ Len(text) < MaxText
    /\ Put(ring_buff[StringPlace])
    /\ GBk' = GBk + 1
    /\ UNCHANGED <<tree, input, GBstate, GBi, GBj, pc, c, node, i>>

EndString ==
    /\ pc = "idle" /\ GBstate /\ GBk = GBj
    /\ GBstate' = FALSE
    /\ UNCHANGED <<tree, input, ring, GBi, GBj, GBk, pc, c, node, i, text>>

\* init_decompress.
Init ==
    /\ freq = [n \in 0 .. TSIZE |-> IF n = TSIZE THEN Sentinel ELSE InitFreq[n]]
    /\ son = InitSon
    /\ parent = Parents(InitSon)
    /\ loop = [i |-> 0, j |-> 0]
    /\ Bitbuff = Zeros(2 * W) /\ Bits = 0 /\ raw = Zeros(W)
    /\ ring_buff = [n \in 0 .. SBSIZE - 1 |-> Blank]
    /\ GBr = SBSIZE - LASIZE
    /\ GBstate = FALSE /\ GBi = 0 /\ GBj = 0 /\ GBk = 0
    /\ pc = "idle" /\ c = 0 /\ node = 0 /\ i = <<>>
    /\ text = <<>>

Next ==
    \/ DecodeChar \/ Walk \/ Found \/ KeepTree \/ Climb
    \/ Rebuild \/ HalveLeaf \/ LeavesHalved \/ JoinNodes \/ ConnectParents
    \/ Literal \/ PositionHigh \/ PositionLow \/ BeginString
    \/ CopyByte \/ EndString

Spec == Init /\ [][Next]_vars

-----------------------------------------------------------------------------

\* The positions that can be coded.
Positions == UNION {d_code[r] * Pow2[P] .. d_code[r] * Pow2[P] + Pow2[P] - 1 : r \in Char}

\* The text that has been put into the ring buffer, and the string that is left.
Text == INSTANCE Lzss WITH
    Byte <- 0 .. Bytes - 1,
    Distances <- {p + 1 : p \in Positions},
    Lengths <- THRESHOLD + 1 .. LASIZE,
    left <- IF GBstate THEN GBj - GBk ELSE 0,
    distance <- IF GBstate /\ GBk < GBj THEN ((GBr - GBi - GBk - 1) % SBSIZE) + 1 ELSE 0

\* get_byte returns an LZSS text: a literal byte, or the bytes a distance back in
\* what it has returned already, also when the ring buffer wraps and when a string
\* overlaps itself (get_byte, decode_position, init_decompress).
ImplementsLzss == Text!Spec

\* The bits of the file are used once each and in their order: what is in the buffer
\* is what remains of the last byte that was read (get_bit, get_unaligned_byte).
UnreadBits ==
    /\ Bits \in 0 .. W - 1
    /\ Bitbuff = SubSeq(raw, W - Bits + 1, W) \o Zeros(2 * W - Bits)

\* The nodes are in the order of their frequencies, and the sentinel is above all.
Sorted == \A n \in Node : 0 < freq[n] /\ freq[n] <= freq[n + 1]

\* A node is as frequent as its children, but for the node that update is to count.
Sums ==
    \A n \in Node : ~Leaf(n) =>
        freq[son[n]] + freq[son[n] + 1] =
            freq[n] + (IF pc = "climb" /\ n = node THEN 1 ELSE 0)

\* Parents and children agree, and children come before their parent: the leaf of
\* every character can be reached, and every walk down ends.
Linked ==
    /\ parent[ROOT] = 0
    /\ \A n \in Node :
        IF Leaf(n) THEN parent[son[n]] = n
        ELSE son[n] + 1 < n /\ parent[son[n]] = n /\ parent[son[n] + 1] = n
    /\ \A k \in Node \ {ROOT} : son[parent[k]] \in {k - 1, k}
    /\ \A ch \in Character : son[parent[ch + TSIZE]] = ch + TSIZE

\* The tree remains a Huffman tree with one code for every character while update
\* counts and swaps, and is one again when it has been taken apart and rebuilt: the
\* encoder, that changes its tree in the same way, and the decoder never lose each
\* other (init_decompress, update).
TreeInv == pc \notin {"halve", "join"} => Sorted /\ Sums /\ Linked

=============================================================================
