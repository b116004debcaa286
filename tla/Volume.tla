------------------------------- MODULE Volume -------------------------------
(***************************************************************************)
(* A mounted UCSD p-System volume: the directory held in memory, the       *)
(* blocks of the disk image and the directory copies kept on it.           *)
(*                                                                         *)
(* The actor is the single thread that runs the FUSE call-backs (or the    *)
(* ucsdpsys_disk main program).  One action is one sector-I/O call of a    *)
(* handler, with the memory updates that follow it up to the next I/O      *)
(* call; between two actions the process may be killed, and every I/O call *)
(* may fail when MayFail holds.                                            *)
(*                                                                         *)
(* Abstractions.  A name stands for a class of names directory::find does  *)
(* not tell apart (no case, 15 characters).  Dates, the file kind and the  *)
(* status bit of an entry are left out.  The bytes of one write are equal. *)
(* BlockSize stands for 512; blocks below LabelEnd hold the boot blocks    *)
(* and the directory, which is kept as a value (image, and backup for the  *)
(* second copy of a "twin" volume).                                        *)
(***************************************************************************)
EXTENDS Integers, Sequences, FiniteSets

CONSTANTS
    Names,          \* classes of file names
    Byte, Zero,     \* byte values, and the byte 0
    BlockSize,      \* bytes in a block (512 in the code); even
    LabelEnd,       \* dlastblock of the volume label (6, or 10 when twin)
    EndOfVolume,    \* deovblk
    MaxEntries,     \* maximum_directory_entries()
    Twin,           \* the label spans ten blocks: two directory copies
    Sizes,          \* sizes asked of truncate
    Offsets,        \* offsets asked of write
    Lengths,        \* byte counts asked of write
    Torn,           \* a directory copy only part of which was written
    MayFail,        \* I/O calls may fail
    MayDie          \* the process may be killed in the middle of a handler

ASSUME ByteAssumption == Zero \in Byte
ASSUME BlockSizeAssumption == BlockSize \in Nat \ {0} /\ BlockSize % 2 = 0
ASSUME GeometryAssumption ==
    /\ LabelEnd \in Nat
    /\ EndOfVolume \in Nat
    /\ LabelEnd <= EndOfVolume
    /\ MaxEntries \in Nat
ASSUME InputAssumption ==
    /\ Sizes \subseteq Int
    /\ Offsets \subseteq Int
    /\ Lengths \subseteq Nat
ASSUME FlagAssumption == {Twin, MayFail, MayDie} \subseteq BOOLEAN

VARIABLES
    files,      \* directory::files, the entries in memory
    disk,       \* the data blocks of the image
    image,      \* the directory at byte 0x400 of the image
    backup,     \* the second directory of a twin volume
    ro,         \* deeper->is_read_only()
    pc,         \* the I/O call the running handler makes next
    op,         \* the arguments of the running handler
    loop,       \* the locals of directory::move_gap_after
    ret,        \* what the last finished handler returned
    fault       \* history: an error or a kill since the last full meta_sync

vars == <<files, disk, image, backup, ro, pc, op, loop, ret, fault>>

Block == LabelEnd .. EndOfVolume - 1
Index == 0 .. BlockSize - 1

Entry == [name : Names, first : Nat, last : Nat, lastbyte : 1 .. BlockSize]

ASSUME TornAssumption == Torn \notin Seq(Entry)

-----------------------------------------------------------------------------
(* Sizes and extents.                                                      *)

Blocks(e) == e.last - e.first

CurrentSize(e) ==
    IF e.first >= e.last THEN 0 ELSE (Blocks(e) - 1) * BlockSize + e.lastbyte

ExtentSize(e) == IF e.first >= e.last THEN 0 ELSE Blocks(e) * BlockSize

\* The blocks that n bytes need.
RoundUp(n) == (n + BlockSize - 1) \div BlockSize

\* Fault: a full last block is not told from an empty one.
LastByteUnadjusted(n) == n % BlockSize

LastByte(n) == IF n % BlockSize = 0 THEN BlockSize ELSE n % BlockSize

\* The entry once its file holds n bytes.
Resized(e, n) ==
    [name |-> e.name, first |-> e.first,
     last |-> e.first + RoundUp(n), lastbyte |-> LastByte(n)]

\* The entry once its extent starts at block b.
MovedTo(e, b) ==
    [name |-> e.name, first |-> b, last |-> b + Blocks(e), lastbyte |-> e.lastbyte]

\* The list of entries: the lookup of a name, and erase, which shuffles down.

\* Fault: the last entry of the list is not looked at.
NamedButLast(fs, n) == \E i \in 1 .. Len(fs) - 1 : fs[i].name = n

Named(fs, n) == \E i \in 1 .. Len(fs) : fs[i].name = n

IndexOf(fs, n) == CHOOSE i \in 1 .. Len(fs) : fs[i].name = n

\* Fault: the shuffle starts one entry too late.
EraseNext(fs, i) ==
    [k \in 1 .. Len(fs) - 1 |-> IF k <= i THEN fs[k] ELSE fs[k + 1]]

Erase(fs, i) ==
    [k \in 1 .. Len(fs) - 1 |-> IF k < i THEN fs[k] ELSE fs[k + 1]]

\* Fault: the gap is taken to end where the next file ends.
SizeofGapAfterNext(fs, i) ==
    (IF i = Len(fs) THEN EndOfVolume ELSE fs[i + 1].last) - fs[i].last

SizeofGapAfter(fs, i) ==
    (IF i = Len(fs) THEN EndOfVolume ELSE fs[i + 1].first) - fs[i].last

\* n bytes fit in entry i and the gap blocks that follow it.

\* Fault: a block that is needed only in part is not counted.
FitsRoundedDown(e, gap, n) == n \div BlockSize <= Blocks(e) + gap

Fits(e, gap, n) == n <= (Blocks(e) + gap) * BlockSize

-----------------------------------------------------------------------------
(* What I/O calls do to the blocks.                                        *)

\* Bytes lo .. hi - 1, counted from the start of block b0, become v.
Fill(d, b0, lo, hi, v) ==
    [b \in Block |-> [i \in Index |->
        IF (b - b0) * BlockSize + i \in lo .. hi - 1 THEN v ELSE d[b][i]]]

\* Blocks lo .. hi - 1 of an extent at block "from" are copied to "to".
Copied(d, from, to, lo, hi) ==
    [b \in Block |-> IF b - to \in lo .. hi - 1 THEN d[b - to + from] ELSE d[b]]

\* relocate_sectors copies upwards when it moves a file down and downwards
\* when it moves it up; m of the n blocks were copied when it stopped.
PartlyCopied(d, from, to, n, m) ==
    IF to < from THEN Copied(d, from, to, 0, m) ELSE Copied(d, from, to, n - m, n)

-----------------------------------------------------------------------------
(* Handlers: how they start and how they return.                           *)

NoOp == [kind |-> "none", idx |-> 0, touched |-> {},
         offset |-> 0, end |-> 0, value |-> Zero]
NoLoop == [j |-> 0, low |-> 0, high |-> 0, changed |-> FALSE]

\* A handler for the entries named "touched" makes its first I/O call.
Start(kind, i, touched, offset, end, value, next) ==
    /\ op' = [kind |-> kind, idx |-> i, touched |-> touched,
              offset |-> offset, end |-> end, value |-> value]
    /\ pc' = next
    /\ ret' = "none"

Return(r) ==
    /\ pc' = "idle"
    /\ op' = NoOp
    /\ loop' = NoLoop
    /\ ret' = r

\* A handler that finds its argument or the volume unfit returns at once.
Refuse(r) == Return(r) /\ UNCHANGED <<files, disk, image, backup, ro, fault>>

\* A failed I/O call ends the handler with its error code.
Fail == MayFail /\ Return("EIO") /\ fault' = TRUE

\* move_gap_after starts: the space from the label to the end of the volume
\* is free to be filled from both ends.

\* Fault: the last block of the volume is taken for the end of the space.
StartMoveGapShort ==
    loop' = [j |-> 1, low |-> LabelEnd, high |-> EndOfVolume - 1, changed |-> FALSE]

StartMoveGap ==
    loop' = [j |-> 1, low |-> LabelEnd, high |-> EndOfVolume, changed |-> FALSE]

(***************************************************************************)
(* The handlers that change the directory only.                            *)
(***************************************************************************)

\* mknod: the new file is empty and sits at the very end of the volume.
Mknod(n) ==
    /\ pc = "idle"
    /\ \/ Named(files, n) /\ Refuse("EEXIST")
       \/ ~Named(files, n) /\ ro /\ Refuse("EROFS")
       \/ ~Named(files, n) /\ ~ro /\ Len(files) >= MaxEntries /\ Refuse("ENOSPC")
       \/ /\ ~Named(files, n) /\ ~ro /\ Len(files) < MaxEntries
          /\ files' = Append(files, [name |-> n, first |-> EndOfVolume,
                                     last |-> EndOfVolume, lastbyte |-> BlockSize])
          /\ Start("mknod", 0, {n}, 0, 0, Zero, "sync")
          /\ UNCHANGED <<disk, image, backup, ro, loop, fault>>

\* Fault: unlink does not ask whether the volume is read-only.
UnlinkUnchecked(n) ==
    /\ pc = "idle" /\ Named(files, n)
    /\ files' = Erase(files, IndexOf(files, n))
    /\ Start("unlink", 0, {n}, 0, 0, Zero, "sync")
    /\ UNCHANGED <<disk, image, backup, ro, loop, fault>>

Unlink(n) ==
    /\ pc = "idle" /\ Named(files, n)
    /\ \/ ro /\ Refuse("EROFS")
       \/ /\ ~ro
          /\ files' = Erase(files, IndexOf(files, n))
          /\ Start("unlink", 0, {n}, 0, 0, Zero, "sync")
          /\ UNCHANGED <<disk, image, backup, ro, loop, fault>>

\* rename: a file that has the new name is deleted first.
Rename(n, m) ==
    /\ pc = "idle" /\ Named(files, n)
    /\ \/ ro /\ Refuse("EROFS")
       \/ ~ro /\ m = n /\ Refuse("EINVAL")
       \/ /\ ~ro /\ m # n
          /\ LET renamed == [files EXCEPT ![IndexOf(files, n)] = [@ EXCEPT !.name = m]]
             IN files' = IF Named(files, m)
                         THEN Erase(renamed, IndexOf(files, m)) ELSE renamed
          /\ Start("rename", 0, {n, m}, 0, 0, Zero, "sync")
          /\ UNCHANGED <<disk, image, backup, ro, loop, fault>>

(***************************************************************************)
(* truncate and write: how they start.                                     *)
(***************************************************************************)

\* What follows once the space is there: zeros up to the old end of the hole
\* if there is one, else the data.
PadOrData(i, kind, offset, end) ==
    LET hole == IF kind = "truncate" THEN end ELSE offset
    IN IF CurrentSize(files[i]) < hole THEN "pad" ELSE "data"

\* Use the gap after the file when it is large enough, else make one.
StartGrowing(kind, n, offset, end, value) ==
    LET i == IndexOf(files, n)
    IN \/ /\ Fits(files[i], SizeofGapAfter(files, i), end)
          /\ Start(kind, i, {n}, offset, end, value, PadOrData(i, kind, offset, end))
          /\ UNCHANGED <<files, disk, image, backup, ro, loop, fault>>
       \/ /\ ~Fits(files[i], SizeofGapAfter(files, i), end)
          /\ Start(kind, i, {n}, offset, end, value, "down")
          /\ StartMoveGap
          /\ UNCHANGED <<files, disk, image, backup, ro, fault>>

Truncate(n, size) ==
    /\ pc = "idle" /\ Named(files, n)
    /\ \/ size < 0 /\ Refuse("EINVAL")
       \/ size >= 0 /\ ro /\ Refuse("EROFS")
       \/ /\ size >= 0 /\ ~ro
          /\ size > CurrentSize(files[IndexOf(files, n)])
          /\ StartGrowing("truncate", n, 0, size, Zero)
       \/ \* the file shrinks: no data is written
          /\ size >= 0 /\ ~ro
          /\ size <= CurrentSize(files[IndexOf(files, n)])
          /\ LET i == IndexOf(files, n)
             IN /\ files' = [files EXCEPT ![i] = Resized(@, size)]
                /\ Start("truncate", i, {n}, 0, size, Zero, "sync")
          /\ UNCHANGED <<disk, image, backup, ro, loop, fault>>

\* write: inside the file or its last block ("write"), in a hole of the last
\* block ("hole"), or past the extent ("extend").
Write(n, offset, nbytes, v) ==
    /\ pc = "idle" /\ Named(files, n)
    /\ LET i == IndexOf(files, n)
           e == files[i]
           end == offset + nbytes
       IN \/ ro /\ Refuse("EROFS")
          \/ ~ro /\ offset < 0 /\ Refuse("EINVAL")
          \/ ~ro /\ offset >= 0 /\ nbytes = 0 /\ Refuse("ok")
          \/ /\ ~ro /\ offset >= 0 /\ nbytes > 0
             /\ end <= ExtentSize(e)
             /\ Start("write", i, {n}, offset, end, v,
                      IF end <= CurrentSize(e) \/ offset <= CurrentSize(e)
                      THEN "data" ELSE "hole")
             /\ UNCHANGED <<files, disk, image, backup, ro, loop, fault>>
          \/ /\ ~ro /\ offset >= 0 /\ nbytes > 0
             /\ end > ExtentSize(e)
             /\ StartGrowing("extend", n, offset, end, v)

\* ucsdpsys_disk --crunch
Crunch ==
    /\ pc = "idle" /\ ~ro
    /\ \/ files = <<>> /\ Refuse("ok")
       \/ /\ files # <<>>
          /\ Start("crunch", Len(files), {}, 0, 0, Zero, "down")
          /\ StartMoveGap
          /\ UNCHANGED <<files, disk, image, backup, ro, fault>>

-----------------------------------------------------------------------------
(* move_gap_after: files up to the one that grows are packed downwards,    *)
(* the others are packed against the end of the volume, one relocate each. *)

\* Fault: a file packed upwards starts where it should end.
TargetAtEnd == IF pc = "down" THEN loop.low ELSE loop.high

\* Where relocate puts entry loop.j.
Target ==
    IF pc = "down" THEN loop.low ELSE loop.high - Blocks(files[loop.j])

Relocating ==
    pc = "down" \/ (pc = "up" /\ loop.j > op.idx)

Relocated ==
    LET e == files[loop.j]
    IN /\ disk' = Copied(disk, e.first, Target, 0, Blocks(e))
       /\ files' = [files EXCEPT ![loop.j] = MovedTo(e, Target)]

MoveDown ==
    /\ pc = "down"
    /\ Relocated
    /\ loop' = [j |-> IF loop.j = op.idx THEN Len(files) ELSE loop.j + 1,
                low |-> loop.low + Blocks(files[loop.j]),
                high |-> loop.high,
                changed |-> loop.changed \/ files[loop.j].first # Target]
    /\ pc' = IF loop.j = op.idx THEN "up" ELSE "down"
    /\ UNCHANGED <<image, backup, ro, op, ret, fault>>

MoveUp ==
    /\ pc = "up" /\ loop.j > op.idx
    /\ Relocated
    /\ loop' = [j |-> loop.j - 1,
                low |-> loop.low,
                high |-> Target,
                changed |-> loop.changed \/ files[loop.j].first # Target]
    /\ UNCHANGED <<image, backup, ro, pc, op, ret, fault>>

\* relocate stops after some blocks: the entry stays as it was, and so does
\* the directory on the image even when earlier files have already moved.
MoveStops ==
    /\ Relocating
    /\ files[loop.j].first # Target
    /\ LET e == files[loop.j]
       IN \E m \in 0 .. Blocks(e) - 1 :
             disk' = PartlyCopied(disk, e.first, Target, Blocks(e), m)

\* Fault: what the passes moved is not written to the directory.
GapMadeUnwritten ==
    /\ pc = "up" /\ loop.j = op.idx
    /\ pc' = "grow"
    /\ UNCHANGED <<files, disk, image, backup, ro, op, loop, ret, fault>>

\* Both passes are done; the directory is written if anything moved.
GapMade ==
    /\ pc = "up" /\ loop.j = op.idx
    /\ pc' = IF loop.changed THEN "gapSync" ELSE "grow"
    /\ UNCHANGED <<files, disk, image, backup, ro, op, loop, ret, fault>>

\* Fault: the gap is made again until the data fits.
GrowRetries ==
    /\ pc = "grow"
    /\ pc' = IF Fits(files[op.idx], loop.high - loop.low, op.end)
             THEN PadOrData(op.idx, op.kind, op.offset, op.end) ELSE "up"
    /\ UNCHANGED <<files, disk, image, backup, ro, op, loop, ret, fault>>

\* Back in the caller: the size of the gap is checked again.
Grow ==
    /\ pc = "grow"
    /\ LET gap == loop.high - loop.low
       IN \/ op.kind = "crunch" /\ Refuse("ok")
          \/ /\ op.kind # "crunch" /\ ~Fits(files[op.idx], gap, op.end)
             /\ Refuse("ENOSPC")
          \/ /\ op.kind # "crunch" /\ Fits(files[op.idx], gap, op.end)
             /\ pc' = PadOrData(op.idx, op.kind, op.offset, op.end)
             /\ UNCHANGED <<files, disk, image, backup, ro, op, loop, ret, fault>>

-----------------------------------------------------------------------------
(* The data.                                                               *)

SetSize == files' = [files EXCEPT ![op.idx] = Resized(@, op.end)]

PadEnd == IF op.kind = "truncate" THEN op.end ELSE op.offset

\* write_zero from the old end of the file.
Pad ==
    /\ pc = "pad"
    /\ LET e == files[op.idx]
       IN disk' = Fill(disk, e.first, CurrentSize(e), PadEnd, Zero)
    /\ IF op.kind = "truncate" THEN SetSize /\ pc' = "sync"
                               ELSE UNCHANGED files /\ pc' = "data"
    /\ UNCHANGED <<image, backup, ro, op, loop, ret, fault>>

PutData ==
    /\ pc = "data"
    /\ LET e == files[op.idx]
       IN /\ disk' = Fill(disk, e.first, op.offset, op.end, op.value)
          /\ IF op.end > CurrentSize(e) THEN SetSize ELSE UNCHANGED files
    /\ pc' = "sync"
    /\ UNCHANGED <<image, backup, ro, op, loop, ret, fault>>

\* pad or data stop: some prefix of the bytes was written.
DataStops ==
    /\ pc \in {"pad", "data"}
    /\ LET e == files[op.idx]
           lo == IF pc = "pad" THEN CurrentSize(e) ELSE op.offset
           hi == IF pc = "pad" THEN PadEnd ELSE op.end
           v == IF pc = "pad" THEN Zero ELSE op.value
       IN \E m \in lo .. hi - 1 : disk' = Fill(disk, e.first, lo, m, v)

\* A write in the last block, past the end of the file.  BlockSize bytes are
\* read from "offset & -511", which clears bits 1 to 8 of the offset and keeps
\* bit 0; the data is put at "offset & 511" of that buffer.
HoleBase == (op.offset - (op.offset % BlockSize)) + (op.offset % 2)

\* Fault: the data is put at the start of the block.
HoleStartAtBase == op.offset - (op.offset % BlockSize)

HoleStart == HoleBase + (op.offset % BlockSize)
HoleReadable ==
    HoleBase + BlockSize <= (EndOfVolume - files[op.idx].first) * BlockSize

\* assert(nbytes < 512 - (offset & 511))
HoleAssertion == op.end - op.offset < BlockSize - (op.offset % BlockSize)

HoleFilled ==
    Fill(disk, files[op.idx].first, HoleStart,
         HoleStart + (op.end - op.offset), op.value)

PutHole ==
    /\ pc = "hole" /\ HoleReadable /\ HoleAssertion
    /\ disk' = HoleFilled
    /\ SetSize
    /\ pc' = "sync"
    /\ UNCHANGED <<image, backup, ro, op, loop, ret, fault>>

HoleUnreadable ==
    /\ pc = "hole" /\ ~HoleReadable
    /\ Refuse("EIO")

\* A buffer at an odd place takes two sectors: the first may be written, with
\* all of the data, and the second fail.
HoleStops ==
    /\ pc = "hole" /\ HoleReadable
    /\ \/ UNCHANGED disk
       \/ HoleAssertion /\ op.offset % 2 = 1 /\ disk' = HoleFilled

\* The assertion fails and the process aborts.
HoleAborts ==
    /\ pc = "hole" /\ HoleReadable /\ ~HoleAssertion
    /\ pc' = "aborted"
    /\ UNCHANGED <<files, disk, image, backup, ro, op, loop, ret, fault>>

\* A call that moves or writes data fails; its handler returns the error before
\* it changes an entry.
DataFails ==
    /\ MoveStops \/ DataStops \/ HoleStops
    /\ Fail
    /\ UNCHANGED <<files, image, backup, ro>>

-----------------------------------------------------------------------------
(* meta_sync: the directory, its second copy, then the medium is flushed.  *)

\* meta_sync returns to move_gap_after or to the handler.
Synced ==
    /\ fault' = FALSE
    /\ IF pc \in {"gapSync", "gapTwin"}
       THEN pc' = "grow" /\ loop' = [loop EXCEPT !.changed = FALSE]
            /\ UNCHANGED <<op, ret>>
       ELSE Return("ok")

\* Fault: the second copy is not written.
WriteOneDirectory ==
    /\ pc \in {"gapSync", "sync"}
    /\ image' = files
    /\ Synced
    /\ UNCHANGED <<files, disk, backup, ro>>

WriteDirectory ==
    /\ pc \in {"gapSync", "sync"}
    /\ image' = files
    /\ IF Twin
       THEN /\ pc' = IF pc = "sync" THEN "twin" ELSE "gapTwin"
            /\ UNCHANGED <<op, loop, ret, fault>>
       ELSE Synced
    /\ UNCHANGED <<files, disk, backup, ro>>

WriteSecondDirectory ==
    /\ pc \in {"gapTwin", "twin"}
    /\ backup' = files
    /\ Synced
    /\ UNCHANGED <<files, disk, image, ro>>

\* A directory write may fail before, in the middle of or, when the flush is
\* what fails, after the copy it writes.  write returns "-err" when meta_sync
\* fails after it extended a file: a positive number, which the call-back
\* takes for success.
SyncFails ==
    /\ pc \in {"gapSync", "sync", "gapTwin", "twin"}
    /\ IF pc \in {"gapSync", "sync"}
       THEN image' \in {image, Torn, files} /\ UNCHANGED backup
       ELSE backup' \in {backup, Torn, files} /\ UNCHANGED image
    /\ MayFail
    /\ Return(IF op.kind = "extend" /\ pc \in {"sync", "twin"} THEN "ok" ELSE "EIO")
    /\ fault' = TRUE
    /\ UNCHANGED <<files, disk, ro>>

-----------------------------------------------------------------------------
(* wipe_unused, and the end of the process.                                *)

InFile(fs, b) == \E i \in 1 .. Len(fs) : fs[i].first <= b /\ b < fs[i].last

\* The bytes of block b that hold data of a file.
Used(fs, b, i) ==
    \E k \in 1 .. Len(fs) :
        (b - fs[k].first) * BlockSize + i \in 0 .. CurrentSize(fs[k]) - 1

\* Fault: the tail of the last block of a file is not wiped.
WipeFreeBlocks ==
    /\ pc = "idle" /\ ~ro
    /\ disk' = [b \in Block |-> [i \in Index |->
                    IF InFile(files, b) THEN disk[b][i] ELSE Zero]]
    /\ ret' = "wiped"
    /\ UNCHANGED <<files, image, backup, ro, pc, op, loop, fault>>

\* ucsdpsys_disk --wipe-unused writes zeros over every free block and over the
\* tail of each last block; it looks at no error the writes return.
WipeUnused ==
    /\ pc = "idle" /\ ~ro
    /\ \E failed \in IF MayFail THEN SUBSET Block ELSE {{}} :
          disk' = [b \in Block |-> [i \in Index |->
                    IF b \in failed \/ Used(files, b, i) THEN disk[b][i] ELSE Zero]]
    /\ ret' = "wiped"
    /\ UNCHANGED <<files, image, backup, ro, pc, op, loop, fault>>

\* The directory on the image is read again.
Remount ==
    /\ image # Torn
    /\ files' = image
    /\ ro' \in BOOLEAN
    /\ Return("mounted")

\* The process ends, or is killed between two I/O calls.
Restart ==
    /\ MayDie \/ pc \in {"idle", "aborted"}
    /\ Remount
    /\ fault' = (fault \/ pc \notin {"idle", "aborted"})
    /\ UNCHANGED <<disk, image, backup>>

\* It is killed in the middle of a call that moves or writes data.
KilledInData ==
    /\ MayDie
    /\ MoveStops \/ DataStops \/ HoleStops
    /\ Remount
    /\ fault' = TRUE
    /\ UNCHANGED <<image, backup>>

\* The directory is written sector by sector: a kill in the middle of it leaves
\* a copy of which only a part is new.
KilledInDirectory ==
    /\ MayDie /\ pc \in {"gapSync", "sync"}
    /\ image' = Torn
    /\ pc' = "lost"
    /\ UNCHANGED <<files, disk, backup, ro, op, loop, ret, fault>>

KilledInSecondDirectory ==
    /\ MayDie /\ pc \in {"gapTwin", "twin"}
    /\ backup' = Torn
    /\ Remount
    /\ fault' = TRUE
    /\ UNCHANGED <<disk, image>>

\* What a mount makes of a torn directory is not modelled.
Lost ==
    /\ image = Torn
    /\ pc' = "lost"
    /\ UNCHANGED <<files, disk, image, backup, ro, op, loop, ret, fault>>

Init ==
    /\ files = <<>>
    /\ disk = [b \in Block |-> [i \in Index |-> Zero]]
    /\ image = <<>>
    /\ backup = <<>>
    /\ ro = FALSE
    /\ pc = "idle"
    /\ op = NoOp
    /\ loop = NoLoop
    /\ ret = "mounted"
    /\ fault = FALSE

Request ==
    \/ \E n \in Names : Mknod(n) \/ Unlink(n)
    \/ \E n, m \in Names : Rename(n, m)
    \/ \E n \in Names, size \in Sizes : Truncate(n, size)
    \/ \E n \in Names, offset \in Offsets, nbytes \in Lengths, v \in Byte \ {Zero} :
          Write(n, offset, nbytes, v)
    \/ Crunch
    \/ WipeUnused

\* What the running handler does next.
Step ==
    \/ MoveDown \/ MoveUp \/ GapMade \/ Grow
    \/ Pad \/ PutData \/ PutHole \/ HoleUnreadable \/ HoleAborts
    \/ WriteDirectory \/ WriteSecondDirectory

Failure == DataFails \/ SyncFails

End == Restart \/ KilledInData \/ KilledInDirectory \/ KilledInSecondDirectory \/ Lost

Next == Request \/ Step \/ Failure \/ End

Spec == Init /\ [][Next]_vars

\* The handler is straight-line code of one thread: nothing it waits for.
FairSpec == Spec /\ WF_vars(Step)

-----------------------------------------------------------------------------
(* Properties.                                                             *)

\* Every variable has its type; the entry and loop indices of a running
\* handler are those of entries.
TypeOK ==
    /\ files \in Seq(Entry)
    /\ disk \in [Block -> [Index -> Byte]]
    /\ image \in Seq(Entry) \cup {Torn}
    /\ backup \in Seq(Entry) \cup {Torn}
    /\ ro \in BOOLEAN
    /\ pc \in {"idle", "down", "up", "grow", "pad", "data", "hole", "gapSync",
               "gapTwin", "sync", "twin", "aborted", "lost"}
    /\ op \in [kind : {"none", "mknod", "unlink", "rename", "truncate", "write",
                       "extend", "crunch"},
               idx : Nat, touched : SUBSET Names, offset : Nat, end : Nat,
               value : Byte]
    /\ loop \in [j : Nat, low : Nat, high : Nat, changed : BOOLEAN]
    /\ ret \in {"none", "ok", "mounted", "wiped", "EEXIST", "EROFS", "EINVAL",
                "ENOSPC", "EIO"}
    /\ fault \in BOOLEAN

\* The extents lie between the label and the end of the volume, in the order
\* of the entries, and no two of them overlap.
Layout(fs) ==
    /\ \A i \in 1 .. Len(fs) :
          /\ LabelEnd <= fs[i].first
          /\ fs[i].first <= fs[i].last
          /\ fs[i].last <= EndOfVolume
    /\ \A i, k \in 1 .. Len(fs) : i < k => fs[i].last <= fs[k].first

\* No block belongs to two files, in memory and in the directory a mount would
\* read, at every I/O call of every handler, also when relocations or directory
\* writes fail half way (directory.cc:395-454, checked by directory.cc:116-182).
ExtentsDisjoint == Layout(files) /\ (image # Torn => Layout(image))

UniqueNames(fs) ==
    \A i, k \in 1 .. Len(fs) : fs[i].name = fs[k].name => i = k

\* Create and rename never leave two entries that find cannot tell apart, in
\* memory or on the image (main.cc:90, file.cc:258-264).
NamesUnique == UniqueNames(files) /\ (image # Torn => UniqueNames(image))

\* The bytes a read of the whole file returns (file.cc:384-397).
Content(e) ==
    [o \in 0 .. CurrentSize(e) - 1 |-> disk[e.first + o \div BlockSize][o % BlockSize]]

\* When no handler runs and no I/O call has failed, the directory on the image
\* is the one in memory, and so is the second copy of a twin volume: every
\* handler that changes an entry writes the directory before it returns
\* (directory.cc:261-325).
DirectoryWritten ==
    pc = "idle" /\ ~fault =>
        /\ image = files
        /\ Twin => backup = files

\* File n is there before and after the step with the same bytes, or not at all.
Kept(n) ==
    /\ Named(files, n) <=> Named(files', n)
    /\ Named(files, n) =>
          Content(files[IndexOf(files, n)]) = Content(files[IndexOf(files, n)])'

\* Files have moved, or the running I/O call moves one, that are not where the
\* directory on the image says.
FilesAstray ==
    \/ pc \in {"down", "up", "gapSync"} /\ loop.changed
    \/ Relocating /\ files[loop.j].first # Target

\* A kill at or in any I/O call of a handler costs at most the files the handler
\* works on, unless move_gap_after is moving files: a mount finds all the others
\* with their bytes (file.cc:347-368, 531-563, directory.cc:302-319).
KillKeepsOtherFiles ==
    [][pc # "idle" /\ ret' = "mounted" /\ ~fault /\ ~FilesAstray =>
          \A n \in Names \ op.touched : Kept(n)]_vars

\* A directory copy has, of every file the handler does not work on, the entry
\* that the directory in memory has.
Agrees(fs) ==
    /\ fs # Torn
    /\ \A n \in Names \ op.touched :
          /\ Named(fs, n) <=> Named(files, n)
          /\ Named(files, n) => fs[IndexOf(fs, n)] = files[IndexOf(files, n)]

\* A kill in the middle of the directory of a twin volume leaves its second copy
\* whole, with the entries of every file the handler does not work on, unless
\* files were being moved (directory.cc:308-319).
BackupSurvivesKill ==
    Twin /\ pc = "lost" /\ ~fault /\ ~loop.changed => Agrees(backup)

\* Blocks in use (directory::calc_used_blocks): the label and the directory,
\* then one file after the other.
Sums(fs) ==
    LET sum[i \in 0 .. Len(fs)] ==
            IF i = 0 THEN LabelEnd ELSE sum[i - 1] + Blocks(fs[i])
    IN sum

UsedBlocks == Sums(files)[Len(files)]

\* The free space statfs reports is the number of blocks in no extent: never
\* negative, and no block lost (directory.cc:508-510).
FreeSpaceExact ==
    EndOfVolume - UsedBlocks =
        Cardinality({b \in Block : ~InFile(files, b)})

\* A write or truncate reports "no space" only if the free space statfs reports
\* is too small for it: after move_gap_after all of it lies behind the file.
NoSpaceIsReal ==
    [][pc = "grow" /\ ret' = "ENOSPC" =>
          RoundUp(op.end) - Blocks(files[op.idx]) > EndOfVolume - UsedBlocks]_vars

\* A read-only mount changes nothing: no handler reaches the assertions of
\* meta_sync, move_gap_after, sizeof_gap_after or relocate (directory.cc:265).
ReadOnlyChangesNothing ==
    [][ro /\ ro' => UNCHANGED <<files, disk, image, backup>> /\ pc' # "sync"]_vars

\* No single I/O call, not even one that fails half way, changes the bytes or
\* the length of more than one file.
Changes(n) ==
    /\ Named(files, n) /\ Named(files', n)
    /\ Content(files[IndexOf(files, n)]) # Content(files[IndexOf(files, n)])'

OneFileAtATime ==
    [][ret' # "mounted" =>
          \A n, m \in Names : Changes(n) /\ Changes(m) => n = m]_<<files, disk>>

\* A write past the end of a file, into its last block, changes no byte that
\* belongs to a file, also when it fails half way or does not fit the buffer
\* (file.cc:457-474).
HoleKeepsBytes ==
    [][pc = "hole" =>
          \A b \in Block, i \in Index : Used(files, b, i) => disk'[b][i] = disk[b][i]]_vars

\* After a wipe every byte outside the data of the files is zero, if no write
\* failed (directory.cc:531-584; ucsdpsys_disk/main.cc:503-507).
WipeErases ==
    ret = "wiped" =>
        \A b \in Block, i \in Index : disk[b][i] # Zero => Used(files, b, i)

\* Every handler returns, or aborts: the two passes of move_gap_after end.
HandlersReturn ==
    pc \notin {"idle", "aborted", "lost"} ~> pc \in {"idle", "aborted", "lost"}

-----------------------------------------------------------------------------
(* The inductive invariant behind ExtentsDisjoint, NamesUnique and         *)
(* DirectoryWritten.                                                       *)

\* The entry the handler works on, and how far move_gap_after has come: the
\* files below loop.j end at or below loop.low, those above it (second pass)
\* start at or above loop.high.
LoopInv ==
    /\ pc \in {"down", "up", "grow", "pad", "data", "hole", "gapSync", "gapTwin"} =>
          op.idx \in 1 .. Len(files)
    /\ pc = "down" =>
          /\ loop.j \in 1 .. op.idx
          /\ loop.high = EndOfVolume
          /\ LabelEnd <= loop.low
          /\ loop.low <= files[loop.j].first
          /\ \A i \in 1 .. Len(files) : i < loop.j => files[i].last <= loop.low
    /\ pc = "up" =>
          /\ loop.j \in op.idx .. Len(files)
          /\ files[loop.j].last <= loop.high
          /\ \A k \in 1 .. Len(files) : loop.j < k => loop.high <= files[k].first
    /\ pc \in {"gapSync", "gapTwin", "grow"} =>
          /\ loop.low <= loop.high
          /\ \A k \in 1 .. Len(files) : op.idx < k => loop.high <= files[k].first
    /\ pc \in {"up", "gapSync", "gapTwin", "grow"} =>
          /\ loop.low = files[op.idx].last
          /\ loop.high <= EndOfVolume

\* Once data is written, the blocks it needs are those of the file and of the
\* gap behind it.
RoomInv ==
    pc \in {"pad", "data", "hole"} =>
        LET top == files[op.idx].first + RoundUp(op.end)
        IN /\ top <= EndOfVolume
           /\ \A k \in 1 .. Len(files) : op.idx < k => top <= files[k].first

\* The entries that wait for meta_sync are those of the running handler.
WrittenInv ==
    /\ pc \in {"gapTwin", "twin"} => image = files
    /\ ~fault /\ \/ pc \in {"idle", "aborted", "grow", "pad", "data", "hole"}
                 \/ pc \in {"down", "up"} /\ ~loop.changed
          => image = files /\ (Twin => backup = files)

VolumeInv ==
    /\ TypeOK
    /\ ExtentsDisjoint
    /\ NamesUnique
    /\ LoopInv
    /\ RoomInv
    /\ WrittenInv

\* Why NoSpaceIsReal holds: no block is lost between the files move_gap_after
\* has packed, so that the gap it makes is all the free space there is
\* (directory.cc:395-454).
SpaceInv ==
    /\ pc \notin {"idle", "lost"} => ret = "none"
    /\ pc = "down" => loop.low = Sums(files)[loop.j - 1]
    /\ pc \in {"up", "gapSync", "gapTwin", "grow"} => loop.low = Sums(files)[op.idx]
    /\ pc = "up" => EndOfVolume - loop.high = UsedBlocks - Sums(files)[loop.j]
    /\ pc \in {"gapSync", "gapTwin", "grow"} =>
          EndOfVolume - loop.high = UsedBlocks - Sums(files)[op.idx]

\* Why no handler harms a file that is not its own: what it knows of its file
\* and of its arguments, and which entries of the directory copies still wait
\* for meta_sync (file.cc:304-565, directory.cc:261-325).
HandlerInv ==
    /\ pc \in {"down", "up", "gapSync", "gapTwin", "grow"} =>
          op.kind \in {"truncate", "extend", "crunch"}
    /\ pc \in {"pad", "data", "hole"} => op.kind \in {"truncate", "write", "extend"}
    /\ pc \in {"down", "up", "gapSync", "gapTwin", "grow", "pad", "data", "hole"} =>
          \/ op.kind = "crunch"
          \/ files[op.idx].name \in op.touched /\ op.offset <= op.end
    /\ pc = "hole" => CurrentSize(files[op.idx]) < op.offset /\ op.offset < op.end
    /\ pc = "gapSync" => loop.changed
    /\ pc = "lost" => image = Torn
    /\ image = Torn => fault \/ pc = "lost"
    /\ pc = "sync" /\ ~fault => Agrees(image) /\ (Twin => Agrees(backup))

=============================================================================
