----------------------------- MODULE MCMetaRead -----------------------------
(***************************************************************************)
(* Three slots; any extents in and around a volume of two blocks (2 and 3) *)
(* under a good label, and sound files under a damaged label.              *)
(***************************************************************************)
EXTENDS MetaRead

None == [name |-> 0, first |-> 0, last |-> 0, lastbyte |-> 0]

File(n, f, l) ==
    [name |-> n, first |-> f, last |-> l, lastbyte |-> IF f = l THEN BlockSize ELSE 1]

Damaged ==
    {[label |-> [eov |-> ActualEnd, num |-> num, clean |-> TRUE],
      slots |-> [i \in 1 .. Slots |-> s[i]]] :
        num \in {Slots - 1, Slots},
        s \in {t \in [1 .. Slots -> {None} \cup
                        {File(n, f, l) : n \in 1 .. Slots, f \in 0 .. 5, l \in 1 .. 5}] :
               \A i \in 1 .. Slots : t[i] = None \/ t[i].name = i}}

\* Two files of a block each and an empty one at the end of the volume.
GoodFiles == <<File(1, 2, 3), File(2, 3, 4), File(3, 4, 4)>>

BadLabels ==
    {[label |-> [eov |-> eov, num |-> num, clean |-> clean], slots |-> GoodFiles] :
        eov \in {ActualEnd - 1, ActualEnd, ActualEnd + 1},
        num \in 0 .. Slots + 1, clean \in BOOLEAN}

MCImages == Damaged \cup BadLabels

=============================================================================
