------------------------------ MODULE SectorIO ------------------------------
(***************************************************************************)
(* sector_io::read, write, write_zero and relocate_bytes: ranges of bytes, *)
(* aligned to nothing, over a medium that is read and written a sector at  *)
(* a time, in the order of an interleave map.                              *)
(*                                                                         *)
(* One action is one read_sector or write_sector.  Each may fail, and a    *)
(* write_sector that fails may have written its sector.                    *)
(***************************************************************************)
EXTENDS Integers

CONSTANTS
    SectorSize,     \* bytes_per_sector()
    Sectors,        \* size_in_sectors()
    Map,            \* where the medium holds each sector
    Byte, Zero,
    Payloads,       \* what callers write
    Medium,         \* what the sectors may hold at first
    MaxCalls        \* bound: the calls of a behaviour

Sector == 0 .. Sectors - 1
Index == 0 .. SectorSize - 1
Size == Sectors * SectorSize

ASSUME SizeAssumption == {SectorSize, Sectors} \subseteq Nat \ {0}
ASSUME MapAssumption ==
    /\ Map \in [Sector -> Sector]
    /\ \A s, t \in Sector : Map[s] = Map[t] => s = t
ASSUME ContentsAssumption ==
    /\ Zero \in Byte
    /\ Medium \subseteq [Sector -> [Index -> Byte]]
    /\ Payloads \subseteq [0 .. Size - 1 -> Byte]

VARIABLES
    disk,       \* the sectors, in the order of the medium
    call,       \* the call under way
    was,        \* history: the bytes when it was made
    ret,        \* "busy", or what the last call returned
    out,        \* the caller's buffer of a read
    secnum,     \* the next sector
    remainder,  \* where in it the range starts
    nbytes,     \* bytes still to be dealt with
    partial,    \* the sector that was read, or Empty
    calls       \* calls made

vars == <<disk, call, was, ret, out, secnum, remainder, nbytes, partial, calls>>

\* The medium as its callers see it.
Seen(d) == [a \in 0 .. Size - 1 |-> d[Map[a \div SectorSize]][a % SectorSize]]

View == Seen(disk)

Device == INSTANCE ByteDevice WITH
    Grain <- SectorSize, store <- View,
    out <- IF ret = "ok" THEN out ELSE [a \in {} |-> Zero],
    Contents <- {Seen(d) : d \in Medium}

Empty == [i \in {} |-> Zero]

-----------------------------------------------------------------------------

\* Fault: sectors are always copied in ascending order.
UpwardsAscending == FALSE

\* relocate starts at the end of the range when it moves it to a higher place,
\* so that no sector is overwritten before it is read.
Upwards == call.kind = "relocate" /\ call.at > call.from

\* A call is made; relocate to the same place does nothing.
Begin(c) ==
    /\ ret # "busy" /\ calls < MaxCalls
    /\ call' = c
    /\ was' = View
    /\ ret' = "busy"
    /\ out' = Empty
    /\ secnum' = c.at \div SectorSize
    /\ remainder' = c.at % SectorSize
    /\ nbytes' = IF c.kind = "relocate" /\ c.at = c.from THEN 0 ELSE c.n
    /\ partial' = Empty
    /\ calls' = calls + 1
    /\ UNCHANGED disk

Finished == nbytes = 0 /\ remainder = 0
Busy == ret = "busy" /\ ~Finished

\* The bytes of the next sector that are in the range.
Psize == IF nbytes < SectorSize - remainder THEN nbytes ELSE SectorSize - remainder

\* The sector the loop reads, and the one it writes: the last of what is left,
\* when a range is moved upwards.
Source ==
    IF call.kind # "relocate" THEN secnum
    ELSE call.from \div SectorSize +
            IF Upwards THEN nbytes \div SectorSize - 1 ELSE (call.n - nbytes) \div SectorSize

Target ==
    IF Upwards THEN call.at \div SectorSize + nbytes \div SectorSize - 1 ELSE secnum

\* A sector that is written whole need not be read.
Whole == call.kind # "relocate" /\ remainder = 0 /\ nbytes >= SectorSize

\* The loop goes on to the next sector.
Advance ==
    /\ secnum' = secnum + 1
    /\ remainder' = 0
    /\ nbytes' = nbytes - Psize
    /\ partial' = Empty

\* read: the part of the sector that is in the range goes to the caller.
ReadSector ==
    /\ Busy /\ call.kind = "read"
    /\ LET done == call.n - nbytes
       IN out' = [i \in 0 .. done + Psize - 1 |->
                    IF i < done THEN out[i]
                    ELSE disk[Map[secnum]][remainder + i - done]]
    /\ Advance
    /\ UNCHANGED <<disk, call, was, ret, calls>>

\* write, write_zero and relocate read a sector they do not replace whole.
FetchSector ==
    /\ Busy /\ call.kind # "read" /\ ~Whole /\ partial = Empty
    /\ partial' = disk[Map[Source]]
    /\ UNCHANGED <<disk, call, was, ret, out, secnum, remainder, nbytes, calls>>

\* The sector with its part of the range replaced.
Patched ==
    [i \in Index |-> IF i \in remainder .. remainder + Psize - 1
                     THEN (IF call.kind = "zero" THEN Zero
                           ELSE call.data[call.n - nbytes + i - remainder])
                     ELSE partial[i]]

Written ==
    [disk EXCEPT ![Map[Target]] = IF call.kind = "relocate" THEN partial ELSE Patched]

WriteSector ==
    /\ Busy /\ call.kind # "read"
    /\ Whole \/ partial # Empty
    /\ disk' = Written
    /\ Advance
    /\ UNCHANGED <<call, was, ret, out, calls>>

Return ==
    /\ ret = "busy" /\ Finished
    /\ ret' = "ok"
    /\ UNCHANGED <<disk, call, was, out, secnum, remainder, nbytes, partial, calls>>

Fail ==
    /\ Busy
    /\ disk' \in {disk} \cup
          IF call.kind # "read" /\ (Whole \/ partial # Empty) THEN {Written} ELSE {}
    /\ ret' = "EIO"
    /\ UNCHANGED <<call, was, out, secnum, remainder, nbytes, partial, calls>>

Init ==
    /\ disk \in Medium
    /\ call = Device!NoCall
    /\ was = View
    /\ ret = "ok"
    /\ out = Empty
    /\ secnum = 0
    /\ remainder = 0
    /\ nbytes = 0
    /\ partial = Empty
    /\ calls = 0

Next ==
    \/ \E c \in Device!Calls : Begin(c)
    \/ ReadSector \/ FetchSector \/ WriteSector \/ Return \/ Fail

Spec == Init /\ [][Next]_vars

\* read, write, write_zero and relocate_bytes do, through any interleave, what
\* their callers expect of an array of bytes: unaligned heads and tails, whole
\* sectors and overlapping moves included, and a call that fails has dealt with
\* one end of its range only (read.cc, write.cc, write_zero.cc, relocate.cc).
ImplementsByteDevice == Device!Spec

=============================================================================
