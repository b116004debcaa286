----------------------------- MODULE FileStore ------------------------------
(***************************************************************************)
(* What a mounted volume promises to the programs that use it: named files *)
(* that are sequences of bytes, each changed by nothing but an operation   *)
(* on that file.  There are no blocks, no directory and no relocations; a  *)
(* call that fails, a mount and an orderly remount change nothing.         *)
(***************************************************************************)
EXTENDS Integers, FiniteSets

CONSTANTS
    Names, Byte, Zero,
    BlockSize,          \* a hole inside the last block is treated apart
    MaxFiles,           \* files a directory can name
    Sizes, Offsets, Lengths

VARIABLE store      \* the bytes of every existing file, by name

Bytes(n) == [0 .. n - 1 -> Byte]

\* The number of bytes of a file.
Size(f) == Cardinality(DOMAIN f)

BlocksOf(f) == (Size(f) + BlockSize - 1) \div BlockSize

Init == store = [n \in {} |-> {}]

\* The file n gets the contents f.
Update(n, f) ==
    store' = [m \in DOMAIN store \cup {n} |-> IF m = n THEN f ELSE store[m]]

Create(n) ==
    /\ n \notin DOMAIN store
    /\ Cardinality(DOMAIN store) < MaxFiles
    /\ Update(n, [o \in {} |-> Zero])

Remove(n) ==
    /\ n \in DOMAIN store
    /\ store' = [m \in DOMAIN store \ {n} |-> store[m]]

\* An existing file of that name is replaced.
Rename(n, m) ==
    /\ n \in DOMAIN store /\ n # m
    /\ store' = [k \in (DOMAIN store \ {n}) \cup {m} |->
                    IF k = m THEN store[n] ELSE store[k]]

Resize(n, size) ==
    /\ n \in DOMAIN store
    /\ Update(n, [o \in 0 .. size - 1 |->
                    IF o < Size(store[n]) THEN store[n][o] ELSE Zero])

\* The file after nbytes bytes v were put at an offset; a hole is zero.
WrittenAt(f, offset, nbytes, v) ==
    LET size == IF offset + nbytes > Size(f) THEN offset + nbytes ELSE Size(f)
    IN [o \in 0 .. size - 1 |->
            IF o \in offset .. offset + nbytes - 1 THEN v
            ELSE IF o < Size(f) THEN f[o] ELSE Zero]

InLastBlock(f, offset, nbytes) ==
    offset > Size(f) /\ offset + nbytes <= BlocksOf(f) * BlockSize

Put(n, offset, nbytes, v) ==
    /\ n \in DOMAIN store
    /\ ~InLastBlock(store[n], offset, nbytes)
    /\ Update(n, WrittenAt(store[n], offset, nbytes, v))

\* A write in the last block past the end of the file keeps the old bytes and
\* sets the size; nothing is promised of the bytes in between and of the new
\* ones (VolumeClaims shows what becomes of them).
PutInHole(n, offset, nbytes) ==
    /\ n \in DOMAIN store
    /\ InLastBlock(store[n], offset, nbytes)
    /\ \E f \in Bytes(offset + nbytes) :
          /\ \A o \in DOMAIN store[n] : f[o] = store[n][o]
          /\ Update(n, f)

Next ==
    /\ \/ \E n \in Names : Create(n) \/ Remove(n)
       \/ \E n, m \in Names : Rename(n, m)
       \/ \E n \in Names, size \in Sizes : size >= 0 /\ Resize(n, size)
       \/ \E n \in Names, offset \in Offsets, nbytes \in Lengths :
             /\ offset >= 0 /\ nbytes > 0
             /\ \/ \E v \in Byte \ {Zero} : Put(n, offset, nbytes, v)
                \/ PutInHole(n, offset, nbytes)

Spec == Init /\ [][Next]_store
=============================================================================
