-------------------------------- MODULE Lzss --------------------------------
(***************************************************************************)
(* What the decompressor of a Teledisk image promises to the reader of the *)
(* image: a text that grows by one byte at a time, where a byte is given   *)
(* literally or is a copy of the byte a distance back, the text being      *)
(* preceded by blanks without end.  A copy may overlap what it produces.   *)
(***************************************************************************)
EXTENDS Integers, Sequences

CONSTANTS
    Byte,           \* what can be given literally
    Blank,          \* what precedes the text
    Distances,      \* how far back a copy may start
    Lengths         \* how many bytes a copy may have

VARIABLES
    text,       \* the bytes so far
    distance,   \* of the copy under way
    left        \* bytes it still has

vars == <<text, distance, left>>

Init == text = <<>> /\ distance = 0 /\ left = 0

Back(d) == IF d <= Len(text) THEN text[Len(text) + 1 - d] ELSE Blank

Literal(c) ==
    /\ left = 0
    /\ text' = Append(text, c)
    /\ UNCHANGED <<distance, left>>

Begin(d, n) ==
    /\ left = 0
    /\ distance' = d
    /\ left' = n
    /\ UNCHANGED text

Copy ==
    /\ left > 0
    /\ text' = Append(text, Back(distance))
    /\ left' = left - 1
    /\ distance' = IF left = 1 THEN 0 ELSE distance

Next ==
    \/ \E c \in Byte : Literal(c)
    \/ \E d \in Distances, n \in Lengths : Begin(d, n)
    \/ Copy

Spec == Init /\ [][Next]_vars

=============================================================================
