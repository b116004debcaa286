---------------------------- MODULE MCDecompress ----------------------------
(***************************************************************************)
(* Two bits to a byte, two literal bytes, strings of two or three bytes in *)
(* a ring of eight: a character counted to five makes the tree be rebuilt, *)
(* and the text goes past the end of the ring.  Positions have two coded   *)
(* bits, 0, 10 and 11, and one that is not coded, as 6 and 6 in td0.cc.    *)
(***************************************************************************)
EXTENDS Decompress

Prefix(r) == IF r[1] = 0 THEN 1 ELSE 2

MC_d_code == [r \in Char |-> IF r[1] = 0 THEN 0 ELSE 1 + r[2]]
MC_d_len == [r \in Char |-> Prefix(r)]

=============================================================================
