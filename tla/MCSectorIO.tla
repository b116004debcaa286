----------------------------- MODULE MCSectorIO -----------------------------
(***************************************************************************)
(* Five sectors of three bytes, in an order that keeps neither neighbours  *)
(* nor directions.  The code moves bytes and never looks at them, so bytes *)
(* that all differ stand for any contents.                                 *)
(***************************************************************************)
EXTENDS SectorIO, TLC

MCMap == 0 :> 3 @@ 1 :> 0 @@ 2 :> 4 @@ 3 :> 1 @@ 4 :> 2

MCZero == 99
MCByte == 0 .. 199
MCPayloads == {[i \in 0 .. Size - 1 |-> 100 + i]}
MCMedium == {[s \in Sector |-> [i \in Index |-> s * SectorSize + i]]}

=============================================================================
