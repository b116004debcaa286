---------------------------- MODULE VolumeProofs ----------------------------
(***************************************************************************)
(* The safety of Volume for every geometry, every block size, every number *)
(* of files and every request, with failing I/O calls and kills: where the *)
(* files are, that no step of a handler, whole or cut off in the middle,   *)
(* reaches the bytes of a file it does not work on, and that the volume    *)
(* implements the store of named byte sequences as long as no I/O call     *)
(* fails and no handler is killed, whatever the names, sizes and offsets.  *)
(***************************************************************************)
EXTENDS VolumeRefinement, SequenceTheorems, FiniteSetTheorems, WellFoundedInduction, TLAPS

-----------------------------------------------------------------------------
(* Lists of entries.                                                       *)

\* Replacing one entry of a list of entries.
LEMMA ReplaceEntry ==
    ASSUME NEW fs \in Seq(Entry), NEW i \in 1 .. Len(fs), NEW e \in Entry
    PROVE  /\ [fs EXCEPT ![i] = e] \in Seq(Entry)
           /\ Len([fs EXCEPT ![i] = e]) = Len(fs)
           /\ \A k \in 1 .. Len(fs) :
                 [fs EXCEPT ![i] = e][k] = IF k = i THEN e ELSE fs[k]
<1>1. /\ fs \in [1 .. Len(fs) -> Entry]
      /\ Len(fs) \in Nat
  BY LenProperties
<1>2. [fs EXCEPT ![i] = e] \in Seq(Entry) /\ Len([fs EXCEPT ![i] = e]) = Len(fs)
  BY ExceptSeq
<1>3. QED
  BY <1>1, <1>2

\* Removing one entry keeps the others in order (entry/list.cc:133-155).
LEMMA EraseEntry ==
    ASSUME NEW fs \in Seq(Entry), NEW i \in 1 .. Len(fs)
    PROVE  /\ Erase(fs, i) \in Seq(Entry)
           /\ Len(Erase(fs, i)) = Len(fs) - 1
           /\ \A k \in 1 .. Len(fs) - 1 :
                 Erase(fs, i)[k] = IF k < i THEN fs[k] ELSE fs[k + 1]
<1>1. /\ fs \in [1 .. Len(fs) -> Entry]
      /\ Len(fs) \in Nat
  BY LenProperties
<1>2. Len(fs) - 1 \in Nat
  BY <1>1
<1>3. \A k \in 1 .. Len(fs) - 1 : (IF k < i THEN fs[k] ELSE fs[k + 1]) \in Entry
  BY <1>1
<1>4. Erase(fs, i) \in [1 .. Len(fs) - 1 -> Entry]
  BY <1>3 DEF Erase
<1>5. Erase(fs, i) \in Seq(Entry)
  BY <1>2, <1>3, IsASeq DEF Erase
<1>6. Len(Erase(fs, i)) = Len(fs) - 1
  BY <1>2, <1>4, <1>5, LenProperties
<1>7. QED
  BY <1>5, <1>6 DEF Erase

\* Adding an entry at the end.
LEMMA AppendEntry ==
    ASSUME NEW fs \in Seq(Entry), NEW e \in Entry
    PROVE  /\ Append(fs, e) \in Seq(Entry)
           /\ Len(Append(fs, e)) = Len(fs) + 1
           /\ \A k \in 1 .. Len(fs) : Append(fs, e)[k] = fs[k]
           /\ Append(fs, e)[Len(fs) + 1] = e
BY AppendProperties

\* The index of a name that is in the list.
LEMMA IndexOfNamed ==
    ASSUME NEW fs \in Seq(Entry), NEW n, Named(fs, n)
    PROVE  /\ IndexOf(fs, n) \in 1 .. Len(fs)
           /\ fs[IndexOf(fs, n)].name = n
BY DEF Named, IndexOf

-----------------------------------------------------------------------------
(* Blocks and bytes.                                                       *)

\* Bytes that fit in g blocks need at most g blocks.
LEMMA RoundUpBound ==
    ASSUME NEW n \in Nat, NEW g \in Int, n <= g * BlockSize
    PROVE  RoundUp(n) \in Nat /\ RoundUp(n) <= g
<1> DEFINE q == (n + BlockSize - 1) \div BlockSize
<1>1. BlockSize \in Nat /\ BlockSize > 0
  BY BlockSizeAssumption
<1>2. q \in Int /\ q * BlockSize <= n + BlockSize - 1 /\ q >= 0
  BY <1>1
<1>3. q <= g
  <2> SUFFICES ASSUME q >= g + 1 PROVE FALSE
    BY <1>2
  <2>1. q * BlockSize >= (g + 1) * BlockSize
    BY <1>1, <1>2
  <2>2. (g + 1) * BlockSize = g * BlockSize + BlockSize
    BY <1>1
  <2> HIDE DEF q
  <2>3. QED
    BY <1>1, <1>2, <2>1, <2>2
<1>4. QED
  BY <1>2, <1>3 DEF RoundUp

LEMMA RoundUpType ==
    ASSUME NEW n \in Nat
    PROVE  RoundUp(n) \in Nat
BY BlockSizeAssumption DEF RoundUp

LEMMA LastByteType ==
    ASSUME NEW n \in Nat
    PROVE  LastByte(n) \in 1 .. BlockSize
BY BlockSizeAssumption DEF LastByte

LEMMA ResizedType ==
    ASSUME NEW e \in Entry, NEW n \in Nat
    PROVE  /\ Resized(e, n) \in Entry
           /\ Resized(e, n).name = e.name
           /\ Resized(e, n).first = e.first
           /\ Resized(e, n).last = e.first + RoundUp(n)
<1>1. RoundUp(n) \in Nat /\ LastByte(n) \in 1 .. BlockSize
  BY RoundUpType, LastByteType
<1>2. e.first + RoundUp(n) \in Nat
  BY <1>1 DEF Entry
<1>3. QED
  BY <1>1, <1>2 DEF Resized, Entry

LEMMA FillType ==
    ASSUME NEW d \in [Block -> [Index -> Byte]], NEW b0, NEW lo, NEW hi, NEW v \in Byte
    PROVE  Fill(d, b0, lo, hi, v) \in [Block -> [Index -> Byte]]
BY DEF Fill

\* An extent copied to another place: no byte comes from outside the volume.
LEMMA CopiedType ==
    ASSUME NEW d \in [Block -> [Index -> Byte]],
           NEW from \in Nat, NEW n \in Nat, NEW to \in Nat, NEW lo \in Nat, NEW hi \in Nat,
           LabelEnd <= from, from + n <= EndOfVolume, hi <= n
    PROVE  Copied(d, from, to, lo, hi) \in [Block -> [Index -> Byte]]
<1>1. ASSUME NEW b \in Block, b - to \in lo .. hi - 1
      PROVE  b - to + from \in Block
  BY <1>1, GeometryAssumption DEF Block
<1> DEFINE moved(b) == IF b - to \in lo .. hi - 1 THEN d[b - to + from] ELSE d[b]
<1>2. \A b \in Block : moved(b) \in [Index -> Byte]
  BY <1>1
<1>3. Copied(d, from, to, lo, hi) = [b \in Block |-> moved(b)]
  BY DEF Copied
<1> HIDE DEF moved
<1>4. QED
  BY <1>2, <1>3

-----------------------------------------------------------------------------
(* The layout under the three ways a directory changes.                    *)

LEMMA LayoutReplace ==
    ASSUME NEW fs \in Seq(Entry), Layout(fs),
           NEW i \in 1 .. Len(fs), NEW e \in Entry,
           LabelEnd <= e.first, e.first <= e.last, e.last <= EndOfVolume,
           \A k \in 1 .. Len(fs) : k < i => fs[k].last <= e.first,
           \A k \in 1 .. Len(fs) : i < k => e.last <= fs[k].first
    PROVE  Layout([fs EXCEPT ![i] = e])
BY ReplaceEntry DEF Layout

LEMMA LayoutErase ==
    ASSUME NEW fs \in Seq(Entry), Layout(fs), NEW i \in 1 .. Len(fs)
    PROVE  Layout(Erase(fs, i))
<1> DEFINE gs == Erase(fs, i)
           old(k) == IF k < i THEN k ELSE k + 1
<1>1. /\ Len(fs) \in Nat
      /\ Len(gs) = Len(fs) - 1
      /\ \A k \in 1 .. Len(fs) - 1 : gs[k] = IF k < i THEN fs[k] ELSE fs[k + 1]
  BY LenProperties, EraseEntry
<1> HIDE DEF gs
<1>2. \A k \in 1 .. Len(gs) : old(k) \in 1 .. Len(fs) /\ gs[k] = fs[old(k)]
  BY <1>1
<1>3. \A k, l \in 1 .. Len(gs) : k < l => old(k) < old(l)
  BY <1>1
<1> HIDE DEF old
<1>4. ASSUME NEW k \in 1 .. Len(gs)
      PROVE  LabelEnd <= gs[k].first /\ gs[k].first <= gs[k].last /\ gs[k].last <= EndOfVolume
  BY <1>2 DEF Layout
<1>5. ASSUME NEW k \in 1 .. Len(gs), NEW l \in 1 .. Len(gs), k < l
      PROVE  gs[k].last <= gs[l].first
  <2>1. fs[old(k)].last <= fs[old(l)].first
    BY <1>2, <1>3, <1>5 DEF Layout
  <2>2. QED
    BY <1>2, <2>1
<1>6. Layout(gs)
  BY <1>4, <1>5 DEF Layout
<1>7. QED
  BY <1>6 DEF gs

\* A file created at the end of the volume comes after all others.
LEMMA LayoutAppend ==
    ASSUME NEW fs \in Seq(Entry), Layout(fs), NEW e \in Entry,
           e.first = EndOfVolume, e.last = EndOfVolume
    PROVE  Layout(Append(fs, e))
<1>1. Len(fs) \in Nat
  BY LenProperties
<1>2. QED
  BY <1>1, AppendEntry, GeometryAssumption DEF Layout

-----------------------------------------------------------------------------
(* The names under the ways a directory changes.                           *)

LEMMA UniqueReplace ==
    ASSUME NEW fs \in Seq(Entry), UniqueNames(fs),
           NEW i \in 1 .. Len(fs), NEW e \in Entry, e.name = fs[i].name
    PROVE  UniqueNames([fs EXCEPT ![i] = e])
BY ReplaceEntry DEF UniqueNames

LEMMA UniqueErase ==
    ASSUME NEW fs \in Seq(Entry), NEW i \in 1 .. Len(fs),
           \A k, l \in 1 .. Len(fs) :
              k # i /\ l # i /\ fs[k].name = fs[l].name => k = l
    PROVE  UniqueNames(Erase(fs, i))
<1> DEFINE gs == Erase(fs, i)
           old(k) == IF k < i THEN k ELSE k + 1
<1>1. /\ Len(fs) \in Nat
      /\ Len(gs) = Len(fs) - 1
      /\ \A k \in 1 .. Len(fs) - 1 : gs[k] = IF k < i THEN fs[k] ELSE fs[k + 1]
  BY LenProperties, EraseEntry
<1> HIDE DEF gs
<1>2. \A k \in 1 .. Len(gs) :
         old(k) \in 1 .. Len(fs) /\ old(k) # i /\ gs[k] = fs[old(k)]
  BY <1>1
<1>3. \A k, l \in 1 .. Len(gs) : old(k) = old(l) => k = l
  BY <1>1
<1> HIDE DEF old
<1>4. ASSUME NEW k \in 1 .. Len(gs), NEW l \in 1 .. Len(gs), gs[k].name = gs[l].name
      PROVE  k = l
  BY <1>2, <1>3, <1>4
<1>5. UniqueNames(gs)
  BY <1>4 DEF UniqueNames
<1>6. QED
  BY <1>5 DEF gs

LEMMA UniqueAppend ==
    ASSUME NEW fs \in Seq(Entry), UniqueNames(fs), NEW e \in Entry, ~Named(fs, e.name)
    PROVE  UniqueNames(Append(fs, e))
<1> DEFINE gs == Append(fs, e)
<1>1. /\ Len(fs) \in Nat
      /\ Len(gs) = Len(fs) + 1
      /\ \A k \in 1 .. Len(fs) : gs[k] = fs[k]
      /\ gs[Len(fs) + 1] = e
  BY LenProperties, AppendEntry
<1> HIDE DEF gs
<1>2. \A k \in 1 .. Len(fs) : fs[k].name # e.name
  BY DEF Named
<1>3. ASSUME NEW k \in 1 .. Len(gs), NEW l \in 1 .. Len(gs), gs[k].name = gs[l].name
      PROVE  k = l
  <2>1. CASE k <= Len(fs) /\ l <= Len(fs)
    BY <1>1, <1>3, <2>1 DEF UniqueNames
  <2>2. CASE k = Len(fs) + 1 \/ l = Len(fs) + 1
    BY <1>1, <1>2, <1>3, <2>2
  <2>3. QED
    BY <1>1, <2>1, <2>2
<1>4. UniqueNames(gs)
  BY <1>3 DEF UniqueNames
<1>5. QED
  BY <1>4 DEF gs

-----------------------------------------------------------------------------
(* The sizes of a file and its blocks.                                     *)

LEMMA SizeBounds ==
    ASSUME NEW e \in Entry, e.first <= e.last
    PROVE  /\ Blocks(e) \in Nat
           /\ CurrentSize(e) \in Nat
           /\ CurrentSize(e) <= Blocks(e) * BlockSize
           /\ ExtentSize(e) \in Nat
           /\ ExtentSize(e) <= Blocks(e) * BlockSize
<1>1. /\ BlockSize \in Nat /\ BlockSize > 0
      /\ e.first \in Nat /\ e.last \in Nat /\ e.lastbyte \in 1 .. BlockSize
  BY BlockSizeAssumption DEF Entry
<1>2. Blocks(e) \in Nat /\ Blocks(e) = e.last - e.first
  BY <1>1 DEF Blocks
<1> DEFINE n == Blocks(e)
<1> HIDE DEF n
<1>3. n \in Nat /\ n = Blocks(e)
  BY <1>2 DEF n
<1>4. n * BlockSize \in Nat
  BY <1>1, <1>3
<1>5. CASE e.first >= e.last
  BY <1>1, <1>2, <1>3, <1>4, <1>5 DEF CurrentSize, ExtentSize
<1>6. CASE e.first < e.last
  <2>1. (n - 1) * BlockSize = n * BlockSize - BlockSize
    BY <1>1, <1>3
  <2>2. n - 1 \in Nat
    BY <1>1, <1>2, <1>3, <1>6
  <2>3. (n - 1) * BlockSize \in Nat
    BY <1>1, <2>2
  <2>4. CurrentSize(e) = (n - 1) * BlockSize + e.lastbyte /\ ExtentSize(e) = n * BlockSize
    BY <1>1, <1>3, <1>6 DEF CurrentSize, ExtentSize
  <2>5. QED
    BY <1>1, <1>3, <1>4, <2>1, <2>3, <2>4
<1>7. QED
  BY <1>1, <1>5, <1>6

\* What fits in the file and the gap behind it leaves the next file alone.
LEMMA FitsLeavesRoom ==
    ASSUME NEW e \in Entry, NEW gap \in Int, NEW n \in Nat, Fits(e, gap, n)
    PROVE  e.first + RoundUp(n) <= e.last + gap
<1>1. e.first \in Nat /\ e.last \in Nat /\ Blocks(e) + gap \in Int
  BY DEF Entry, Blocks
<1>2. n <= (Blocks(e) + gap) * BlockSize
  BY DEF Fits
<1>3. RoundUp(n) \in Nat /\ RoundUp(n) <= Blocks(e) + gap
  BY <1>1, <1>2, RoundUpBound
<1>4. QED
  BY <1>1, <1>3 DEF Blocks

\* The gap ends where the next file starts, and so before all later files.
LEMMA GapAfter ==
    ASSUME NEW fs \in Seq(Entry), Layout(fs), NEW i \in 1 .. Len(fs)
    PROVE  /\ SizeofGapAfter(fs, i) \in Int
           /\ fs[i].last + SizeofGapAfter(fs, i) <= EndOfVolume
           /\ \A k \in 1 .. Len(fs) :
                 i < k => fs[i].last + SizeofGapAfter(fs, i) <= fs[k].first
<1>1. Len(fs) \in Nat /\ (\A k \in 1 .. Len(fs) : fs[k] \in Entry)
  BY LenProperties
<1>2. \A k \in 1 .. Len(fs) : fs[k].first \in Nat /\ fs[k].last \in Nat
  BY <1>1 DEF Entry
<1>3. CASE i = Len(fs)
  BY <1>1, <1>2, <1>3, GeometryAssumption DEF SizeofGapAfter
<1>4. CASE i # Len(fs)
  <2>1. i + 1 \in 1 .. Len(fs)
    BY <1>1, <1>4
  <2>2. fs[i].last + SizeofGapAfter(fs, i) = fs[i + 1].first /\ SizeofGapAfter(fs, i) \in Int
    BY <1>2, <1>4, <2>1 DEF SizeofGapAfter
  <2>3. fs[i + 1].first <= fs[i + 1].last /\ fs[i + 1].last <= EndOfVolume
    BY <2>1 DEF Layout
  <2>4. ASSUME NEW k \in 1 .. Len(fs), i < k
        PROVE  fs[i + 1].first <= fs[k].first
    <3>1. CASE k = i + 1
      BY <1>2, <2>1, <3>1
    <3>2. CASE i + 1 < k
      BY <1>2, <2>1, <2>3, <3>2 DEF Layout
    <3>3. QED
      BY <1>1, <2>4, <3>1, <3>2
  <2>5. QED
    BY <1>2, <2>1, <2>2, <2>3, <2>4, GeometryAssumption
<1>5. QED
  BY <1>3, <1>4

-----------------------------------------------------------------------------
(* What all steps of one kind need for the invariant.                      *)

Results == {"none", "ok", "mounted", "wiped", "EEXIST", "EROFS", "EINVAL",
            "ENOSPC", "EIO"}

\* The directories and the blocks are well formed.
Stable ==
    /\ files \in Seq(Entry) /\ Layout(files) /\ UniqueNames(files)
    /\ image \in Seq(Entry) \cup {Torn}
    /\ image # Torn => Layout(image) /\ UniqueNames(image)
    /\ backup \in Seq(Entry) \cup {Torn}
    /\ disk \in [Block -> [Index -> Byte]]
    /\ ro \in BOOLEAN /\ fault \in BOOLEAN

LEMMA InvStable == VolumeInv => Stable
BY DEF VolumeInv, Stable, TypeOK, ExtentsDisjoint, NamesUnique

\* A handler has returned: all there is to show is that the directory on the
\* image is the one in memory, unless something failed.
LEMMA Returned ==
    ASSUME Stable', NEW r \in Results, Return(r),
           ~fault' => image' = files' /\ (Twin => backup' = files')
    PROVE  VolumeInv'
<1>1. TypeOK'
  BY ByteAssumption DEF TypeOK, Stable, Return, NoOp, NoLoop, Results
<1>2. LoopInv' /\ RoomInv' /\ WrittenInv'
  BY DEF LoopInv, RoomInv, WrittenInv, Return
<1>3. QED
  BY <1>1, <1>2 DEF VolumeInv, Stable, ExtentsDisjoint, NamesUnique

\* A handler that returns before its first I/O call.
LEMMA Refused ==
    ASSUME VolumeInv, NEW r \in Results, Refuse(r),
           ~fault => image = files /\ (Twin => backup = files)
    PROVE  VolumeInv'
<1>1. Stable'
  BY InvStable DEF Refuse, Stable
<1>2. QED
  BY <1>1, Returned DEF Refuse

\* Any failure with which the handler returns.
LEMMA Failed ==
    ASSUME Stable', Fail
    PROVE  VolumeInv'
BY Returned DEF Fail, Results

\* The memory is changed, and meta_sync comes next.
LEMMA ReadyToSync ==
    ASSUME Stable', TypeOK', pc' = "sync"
    PROVE  VolumeInv'
BY DEF VolumeInv, Stable, ExtentsDisjoint, NamesUnique, LoopInv, RoomInv, WrittenInv

\* A handler starts, with arguments of the right types.
LEMMA Started ==
    ASSUME TypeOK, Stable',
           NEW kind \in {"mknod", "unlink", "rename", "truncate", "write",
                         "extend", "crunch"},
           NEW i \in Nat, NEW names \in SUBSET Names, NEW offset \in Nat,
           NEW end \in Nat, NEW v \in Byte,
           NEW next \in {"down", "pad", "data", "hole", "sync"},
           Start(kind, i, names, offset, end, v, next),
           loop' = loop \/ StartMoveGap
    PROVE  TypeOK'
<1>1. loop' \in [j : Nat, low : Nat, high : Nat, changed : BOOLEAN]
  <2>1. CASE loop' = loop
    BY <2>1 DEF TypeOK
  <2>2. CASE StartMoveGap
    BY <2>2, GeometryAssumption DEF StartMoveGap
  <2>3. QED
    BY <2>1, <2>2
<1>2. QED
  BY <1>1 DEF TypeOK, Stable, Start

-----------------------------------------------------------------------------
(* The handlers that change the directory only.                            *)

LEMMA MknodStep ==
    ASSUME VolumeInv, NEW n \in Names, Mknod(n)
    PROVE  VolumeInv'
<1>1. pc = "idle" /\ Stable /\ TypeOK
      /\ (~fault => image = files /\ (Twin => backup = files))
  BY InvStable DEF Mknod, VolumeInv, WrittenInv
<1>2. CASE \E r \in {"EEXIST", "EROFS", "ENOSPC"} : Refuse(r)
  BY <1>1, <1>2, Refused DEF Results
<1> DEFINE e == [name |-> n, first |-> EndOfVolume, last |-> EndOfVolume,
                 lastbyte |-> BlockSize]
<1>3. CASE /\ ~Named(files, n)
           /\ files' = Append(files, e)
           /\ Start("mknod", 0, {n}, 0, 0, Zero, "sync")
           /\ UNCHANGED <<disk, image, backup, ro, loop, fault>>
  <2>1. e \in Entry /\ e.name = n /\ e.first = EndOfVolume /\ e.last = EndOfVolume
    BY GeometryAssumption, BlockSizeAssumption DEF Entry
  <2> HIDE DEF e
  <2>2. files' \in Seq(Entry)
    BY <1>1, <1>3, <2>1, AppendEntry DEF Stable
  <2>3. Layout(files')
    BY <1>1, <1>3, <2>1, LayoutAppend DEF Stable
  <2>4. UniqueNames(files')
    BY <1>1, <1>3, <2>1, UniqueAppend DEF Stable
  <2>5. Stable'
    BY <1>1, <1>3, <2>2, <2>3, <2>4 DEF Stable
  <2>6. TypeOK'
    BY <1>1, <1>3, <2>5, Started, ByteAssumption
  <2>7. QED
    BY <1>3, <2>5, <2>6, ReadyToSync DEF Start
<1>4. QED
  BY <1>2, <1>3 DEF Mknod

LEMMA UnlinkStep ==
    ASSUME VolumeInv, NEW n \in Names, Unlink(n)
    PROVE  VolumeInv'
<1>1. pc = "idle" /\ Stable /\ TypeOK /\ Named(files, n)
      /\ (~fault => image = files /\ (Twin => backup = files))
  BY InvStable DEF Unlink, VolumeInv, WrittenInv
<1>2. CASE Refuse("EROFS")
  BY <1>1, <1>2, Refused DEF Results
<1>3. CASE /\ files' = Erase(files, IndexOf(files, n))
           /\ Start("unlink", 0, {n}, 0, 0, Zero, "sync")
           /\ UNCHANGED <<disk, image, backup, ro, loop, fault>>
  <2> DEFINE i == IndexOf(files, n)
  <2>1. i \in 1 .. Len(files) /\ files \in Seq(Entry)
    BY <1>1, IndexOfNamed DEF Stable
  <2> HIDE DEF i
  <2>2. files' = Erase(files, i)
    BY <1>3 DEF i
  <2>3. files' \in Seq(Entry) /\ Layout(files')
    BY <1>1, <2>1, <2>2, EraseEntry, LayoutErase DEF Stable
  <2>4. UniqueNames(files')
    BY <1>1, <2>1, <2>2, UniqueErase DEF Stable, UniqueNames
  <2>5. Stable'
    BY <1>1, <1>3, <2>3, <2>4 DEF Stable
  <2>6. TypeOK'
    BY <1>1, <1>3, <2>5, Started, ByteAssumption
  <2>7. QED
    BY <1>3, <2>5, <2>6, ReadyToSync DEF Start
<1>4. QED
  BY <1>2, <1>3 DEF Unlink

LEMMA RenameStep ==
    ASSUME VolumeInv, NEW n \in Names, NEW m \in Names, Rename(n, m)
    PROVE  VolumeInv'
<1>1. pc = "idle" /\ Stable /\ TypeOK /\ Named(files, n)
      /\ (~fault => image = files /\ (Twin => backup = files))
  BY InvStable DEF Rename, VolumeInv, WrittenInv
<1>2. CASE Refuse("EROFS") \/ Refuse("EINVAL")
  BY <1>1, <1>2, Refused DEF Results
<1> DEFINE i == IndexOf(files, n)
           e == [files[i] EXCEPT !.name = m]
           renamed == [files EXCEPT ![i] = e]
<1>3. CASE /\ m # n
           /\ files' = IF Named(files, m)
                       THEN Erase(renamed, IndexOf(files, m)) ELSE renamed
           /\ Start("rename", 0, {n, m}, 0, 0, Zero, "sync")
           /\ UNCHANGED <<disk, image, backup, ro, loop, fault>>
  <2>1. i \in 1 .. Len(files) /\ files[i].name = n /\ files \in Seq(Entry)
    BY <1>1, IndexOfNamed DEF Stable
  <2> HIDE DEF i
  <2>2. /\ files[i] \in Entry /\ Len(files) \in Nat
    BY <2>1, LenProperties
  <2>3. /\ e \in Entry /\ e.name = m
        /\ e.first = files[i].first /\ e.last = files[i].last
    BY <2>2 DEF Entry
  <2> HIDE DEF e
  <2>4. /\ renamed \in Seq(Entry)
        /\ Len(renamed) = Len(files)
        /\ \A k \in 1 .. Len(files) : renamed[k] = IF k = i THEN e ELSE files[k]
    BY <2>1, <2>3, ReplaceEntry
  <2> HIDE DEF renamed
  <2>5. Layout(renamed)
    <3>1. \A k \in 1 .. Len(renamed) : renamed[k].first = files[k].first
                                       /\ renamed[k].last = files[k].last
      BY <2>3, <2>4
    <3>2. QED
      BY <1>1, <2>4, <3>1 DEF Layout, Stable
  <2>6. ASSUME Named(files, m)
        PROVE  files' \in Seq(Entry) /\ Layout(files') /\ UniqueNames(files')
    <3> DEFINE d == IndexOf(files, m)
    <3>1. d \in 1 .. Len(renamed) /\ files[d].name = m
      BY <2>1, <2>4, <2>6, IndexOfNamed
    <3> HIDE DEF d
    <3>2. files' = Erase(renamed, d)
      BY <1>3, <2>6 DEF d
    <3>3. ASSUME NEW k \in 1 .. Len(renamed), NEW l \in 1 .. Len(renamed),
                 k # d, l # d, renamed[k].name = renamed[l].name
          PROVE  k = l
      <4>1. \A q \in 1 .. Len(files) : q # d => files[q].name # m
        BY <1>1, <2>4, <3>1 DEF Stable, UniqueNames
      <4>2. CASE k = i \/ l = i
        BY <2>3, <2>4, <3>3, <4>1, <4>2
      <4>3. CASE k # i /\ l # i
        BY <1>1, <2>4, <3>3, <4>3 DEF Stable, UniqueNames
      <4>4. QED
        BY <4>2, <4>3
    <3>4. UniqueNames(files')
      BY <2>4, <3>1, <3>2, <3>3, UniqueErase
    <3>5. QED
      BY <2>4, <2>5, <3>1, <3>2, <3>4, EraseEntry, LayoutErase
  <2>7. ASSUME ~Named(files, m)
        PROVE  files' \in Seq(Entry) /\ Layout(files') /\ UniqueNames(files')
    <3>1. files' = renamed
      BY <1>3, <2>7
    <3>2. \A q \in 1 .. Len(files) : files[q].name # m
      BY <2>7 DEF Named
    <3>3. ASSUME NEW k \in 1 .. Len(renamed), NEW l \in 1 .. Len(renamed),
                 renamed[k].name = renamed[l].name
          PROVE  k = l
      <4>1. CASE k = i \/ l = i
        BY <2>3, <2>4, <3>2, <3>3, <4>1
      <4>2. CASE k # i /\ l # i
        BY <1>1, <2>4, <3>3, <4>2 DEF Stable, UniqueNames
      <4>3. QED
        BY <4>1, <4>2
    <3>4. QED
      BY <2>4, <2>5, <3>1, <3>3 DEF UniqueNames
  <2>8. files' \in Seq(Entry) /\ Layout(files') /\ UniqueNames(files')
    BY <2>6, <2>7
  <2>9. Stable'
    BY <1>1, <1>3, <2>8 DEF Stable
  <2>10. TypeOK'
    BY <1>1, <1>3, <2>9, Started, ByteAssumption
  <2>11. QED
    BY <1>3, <2>9, <2>10, ReadyToSync DEF Start
<1>4. QED
  BY <1>2, <1>3 DEF Rename

-----------------------------------------------------------------------------
(* truncate and write: how they start.                                     *)

\* The five parts that are not plain consequences of one another.
LEMMA Parts ==
    ASSUME Stable', TypeOK', LoopInv', RoomInv', WrittenInv'
    PROVE  VolumeInv'
BY DEF VolumeInv, Stable, ExtentsDisjoint, NamesUnique

\* The entries of a list, one by one.
LEMMA EntryAt ==
    ASSUME NEW fs \in Seq(Entry), Layout(fs), NEW i \in 1 .. Len(fs)
    PROVE  /\ fs[i] \in Entry
           /\ fs[i].first \in Nat /\ fs[i].last \in Nat
           /\ LabelEnd <= fs[i].first
           /\ fs[i].first <= fs[i].last
           /\ fs[i].last <= EndOfVolume
           /\ Blocks(fs[i]) \in Nat
           /\ fs[i].first + Blocks(fs[i]) = fs[i].last
           /\ CurrentSize(fs[i]) \in Nat
<1>1. fs[i] \in Entry
  BY LenProperties
<1>2. /\ LabelEnd <= fs[i].first
      /\ fs[i].first <= fs[i].last
      /\ fs[i].last <= EndOfVolume
  BY DEF Layout
<1>3. fs[i].first \in Nat /\ fs[i].last \in Nat
  BY <1>1 DEF Entry
<1>4. CurrentSize(fs[i]) \in Nat /\ Blocks(fs[i]) \in Nat
  BY <1>1, <1>2, SizeBounds
<1>5. fs[i].first + Blocks(fs[i]) = fs[i].last
  BY <1>3 DEF Blocks
<1>6. QED
  BY <1>1, <1>2, <1>3, <1>4, <1>5

\* What fits in a gap that ends before all later files does too.
LEMMA RoomFor ==
    ASSUME NEW fs \in Seq(Entry), Layout(fs), NEW i \in 1 .. Len(fs),
           NEW gap \in Int, NEW n \in Nat, Fits(fs[i], gap, n),
           fs[i].last + gap <= EndOfVolume,
           \A k \in 1 .. Len(fs) : i < k => fs[i].last + gap <= fs[k].first
    PROVE  /\ fs[i].first + RoundUp(n) <= EndOfVolume
           /\ \A k \in 1 .. Len(fs) : i < k => fs[i].first + RoundUp(n) <= fs[k].first
<1>1. /\ fs[i] \in Entry
      /\ fs[i].first \in Nat /\ fs[i].last \in Nat /\ RoundUp(n) \in Nat
  BY EntryAt, RoundUpType
<1>2. \A k \in 1 .. Len(fs) : fs[k].first \in Nat
  BY EntryAt
<1> DEFINE top == fs[i].first + RoundUp(n)
           room == fs[i].last + gap
<1>3. top <= room
  BY <1>1, FitsLeavesRoom
<1>4. top \in Int /\ room \in Int
  BY <1>1
<1> HIDE DEF top, room
<1>5. room <= EndOfVolume /\ \A k \in 1 .. Len(fs) : i < k => room <= fs[k].first
  BY DEF room
<1>6. top <= EndOfVolume
  BY <1>3, <1>4, <1>5, GeometryAssumption
<1>7. ASSUME NEW k \in 1 .. Len(fs), i < k PROVE top <= fs[k].first
  <2>1. room <= fs[k].first /\ fs[k].first \in Nat
    BY <1>2, <1>5, <1>7
  <2>2. QED
    BY <1>3, <1>4, <2>1
<1>8. QED
  BY <1>6, <1>7 DEF top

LEMMA StartGrowingStep ==
    ASSUME VolumeInv, pc = "idle", NEW n \in Names, Named(files, n),
           NEW kind \in {"truncate", "extend"}, NEW offset \in Nat,
           NEW end \in Nat, NEW v \in Byte,
           StartGrowing(kind, n, offset, end, v)
    PROVE  VolumeInv'
<1> DEFINE i == IndexOf(files, n)
           next == PadOrData(i, kind, offset, end)
<1>1. Stable /\ TypeOK /\ (~fault => image = files /\ (Twin => backup = files))
  BY InvStable DEF VolumeInv, WrittenInv
<1>2. i \in 1 .. Len(files) /\ i \in Nat /\ files \in Seq(Entry) /\ Layout(files)
  BY <1>1, IndexOfNamed DEF Stable
<1>3. next \in {"pad", "data"}
  BY DEF PadOrData
<1> HIDE DEF i, next
<1>4. CASE /\ Fits(files[i], SizeofGapAfter(files, i), end)
           /\ Start(kind, i, {n}, offset, end, v, next)
           /\ UNCHANGED <<files, disk, image, backup, ro, loop, fault>>
  <2>1. Stable'
    BY <1>1, <1>4 DEF Stable
  <2>2. TypeOK'
    BY <1>1, <1>2, <1>3, <1>4, <2>1, Started
  <2>3. /\ op'.idx = i /\ op'.end = end /\ pc' = next /\ files' = files
        /\ fault' = fault /\ image' = image /\ backup' = backup
    BY <1>4 DEF Start
  <2>4. LoopInv'
    BY <1>2, <1>3, <2>3 DEF LoopInv
  <2>5. /\ files[i].first + RoundUp(end) <= EndOfVolume
        /\ \A k \in 1 .. Len(files) :
              i < k => files[i].first + RoundUp(end) <= files[k].first
    BY <1>2, <1>4, GapAfter, RoomFor
  <2>6. RoomInv'
    BY <2>3, <2>5 DEF RoomInv
  <2>7. WrittenInv'
    BY <1>1, <1>3, <2>3 DEF WrittenInv
  <2>8. QED
    BY <2>1, <2>2, <2>4, <2>6, <2>7, Parts
<1>5. CASE /\ Start(kind, i, {n}, offset, end, v, "down")
           /\ StartMoveGap
           /\ UNCHANGED <<files, disk, image, backup, ro, fault>>
  <2>1. Stable'
    BY <1>1, <1>5 DEF Stable
  <2>2. TypeOK'
    BY <1>1, <1>2, <1>5, <2>1, Started
  <2>3. /\ op'.idx = i /\ pc' = "down" /\ files' = files
        /\ fault' = fault /\ image' = image /\ backup' = backup
        /\ loop'.j = 1 /\ loop'.low = LabelEnd /\ loop'.high = EndOfVolume
    BY <1>5 DEF Start, StartMoveGap
  <2>4. LoopInv'
    <3>1. LabelEnd <= files[1].first /\ 1 \in 1 .. Len(files)
      BY <1>2, LenProperties DEF Layout
    <3>2. QED
      BY <1>2, <2>3, <3>1, GeometryAssumption DEF LoopInv
  <2>5. RoomInv' /\ WrittenInv'
    BY <1>1, <2>3 DEF RoomInv, WrittenInv
  <2>6. QED
    BY <2>1, <2>2, <2>4, <2>5, Parts
<1>6. QED
  BY <1>4, <1>5 DEF StartGrowing, i, next

\* The entry of a file whose size changes keeps its place and its name, and the
\* layout holds if the blocks it needs are its own or those of the gap.
LEMMA ResizeStable ==
    ASSUME NEW fs \in Seq(Entry), Layout(fs), UniqueNames(fs),
           NEW i \in 1 .. Len(fs), NEW n \in Nat,
           fs[i].first + RoundUp(n) <= EndOfVolume,
           \A k \in 1 .. Len(fs) : i < k => fs[i].first + RoundUp(n) <= fs[k].first
    PROVE  /\ [fs EXCEPT ![i] = Resized(fs[i], n)] \in Seq(Entry)
           /\ Layout([fs EXCEPT ![i] = Resized(fs[i], n)])
           /\ UniqueNames([fs EXCEPT ![i] = Resized(fs[i], n)])
<1> DEFINE e == Resized(fs[i], n)
<1>1. fs[i] \in Entry /\ fs[i].first \in Nat /\ LabelEnd <= fs[i].first
      /\ RoundUp(n) \in Nat
  BY EntryAt, RoundUpType
<1>2. /\ e \in Entry /\ e.name = fs[i].name /\ e.first = fs[i].first
      /\ e.last = fs[i].first + RoundUp(n)
  BY <1>1, ResizedType
<1> HIDE DEF e
<1>3. [fs EXCEPT ![i] = e] \in Seq(Entry)
  BY <1>2, ReplaceEntry
<1>4. UniqueNames([fs EXCEPT ![i] = e])
  BY <1>2, UniqueReplace
<1>5. \A k \in 1 .. Len(fs) : k < i => fs[k].last <= e.first
  BY <1>2 DEF Layout
<1>6. e.first <= e.last
  BY <1>1, <1>2
<1>7. Layout([fs EXCEPT ![i] = e])
  BY <1>1, <1>2, <1>5, <1>6, LayoutReplace
<1>8. QED
  BY <1>3, <1>4, <1>7 DEF e

LEMMA TruncateStep ==
    ASSUME VolumeInv, NEW n \in Names, NEW size \in Sizes, Truncate(n, size)
    PROVE  VolumeInv'
<1> DEFINE i == IndexOf(files, n)
<1>1. pc = "idle" /\ Stable /\ TypeOK /\ Named(files, n) /\ size \in Int
      /\ (~fault => image = files /\ (Twin => backup = files))
  BY InvStable, InputAssumption DEF Truncate, VolumeInv, WrittenInv
<1>2. i \in 1 .. Len(files) /\ i \in Nat /\ files \in Seq(Entry)
      /\ Layout(files) /\ UniqueNames(files)
  BY <1>1, IndexOfNamed DEF Stable
<1> HIDE DEF i
<1>3. CASE Refuse("EINVAL") \/ Refuse("EROFS")
  BY <1>1, <1>3, Refused DEF Results
<1>4. CASE size >= 0 /\ StartGrowing("truncate", n, 0, size, Zero)
  <2>1. size \in Nat
    BY <1>1, <1>4
  <2>2. QED
    BY <1>1, <1>4, <2>1, StartGrowingStep, ByteAssumption
<1>5. CASE /\ size >= 0 /\ size <= CurrentSize(files[i])
           /\ files' = [files EXCEPT ![i] = Resized(files[i], size)]
           /\ Start("truncate", i, {n}, 0, size, Zero, "sync")
           /\ UNCHANGED <<disk, image, backup, ro, loop, fault>>
  <2>1. size \in Nat
    BY <1>1, <1>5
  <2> DEFINE e == files[i]
  <2>2. /\ e \in Entry /\ Blocks(e) \in Nat /\ CurrentSize(e) \in Nat
        /\ CurrentSize(e) <= Blocks(e) * BlockSize
    BY <1>2, EntryAt, SizeBounds
  <2> HIDE DEF e
  <2>3. size <= (Blocks(e) + 0) * BlockSize
    <3>1. Blocks(e) * BlockSize \in Int
      BY <2>2, BlockSizeAssumption
    <3>2. (Blocks(e) + 0) * BlockSize = Blocks(e) * BlockSize
      BY <2>2
    <3>3. size <= CurrentSize(e)
      BY <1>5 DEF e
    <3>4. QED
      BY <2>1, <2>2, <3>1, <3>2, <3>3
  <2>4. Fits(files[i], 0, size)
    BY <2>3 DEF Fits, e
  <2>5. files[i].last + 0 <= EndOfVolume
    BY <1>2, EntryAt
  <2>6. \A k \in 1 .. Len(files) : i < k => files[i].last + 0 <= files[k].first
    <3>1. files[i].last \in Nat
      BY <1>2, EntryAt
    <3>2. QED
      BY <1>2, <3>1 DEF Layout
  <2>7. /\ files[i].first + RoundUp(size) <= EndOfVolume
        /\ \A k \in 1 .. Len(files) : i < k => files[i].first + RoundUp(size) <= files[k].first
    BY <1>2, <2>1, <2>4, <2>5, <2>6, RoomFor
  <2>8. files' \in Seq(Entry) /\ Layout(files') /\ UniqueNames(files')
    BY <1>2, <1>5, <2>1, <2>7, ResizeStable
  <2>9. Stable'
    BY <1>1, <1>5, <2>8 DEF Stable
  <2>10. TypeOK'
    BY <1>1, <1>2, <1>5, <2>1, <2>9, Started, ByteAssumption
  <2>11. QED
    BY <1>5, <2>9, <2>10, ReadyToSync DEF Start
<1>6. QED
  BY <1>3, <1>4, <1>5 DEF Truncate, i

LEMMA WriteStep ==
    ASSUME VolumeInv, NEW n \in Names, NEW offset \in Offsets, NEW nbytes \in Lengths,
           NEW v \in Byte, Write(n, offset, nbytes, v)
    PROVE  VolumeInv'
<1> DEFINE i == IndexOf(files, n)
           e == files[i]
           end == offset + nbytes
           next == IF end <= CurrentSize(e) \/ offset <= CurrentSize(e)
                   THEN "data" ELSE "hole"
<1>1. pc = "idle" /\ Stable /\ TypeOK /\ Named(files, n)
      /\ offset \in Int /\ nbytes \in Nat
      /\ (~fault => image = files /\ (Twin => backup = files))
  BY InvStable, InputAssumption DEF Write, VolumeInv, WrittenInv
<1>2. i \in 1 .. Len(files) /\ i \in Nat /\ files \in Seq(Entry)
      /\ Layout(files) /\ UniqueNames(files)
  BY <1>1, IndexOfNamed DEF Stable
<1>3. next \in {"data", "hole"}
  OBVIOUS
<1>4. offset >= 0 => offset \in Nat /\ end \in Nat
  BY <1>1
<1>5. CASE Refuse("EROFS") \/ Refuse("EINVAL") \/ Refuse("ok")
  BY <1>1, <1>5, Refused DEF Results
<1>6. CASE offset >= 0 /\ StartGrowing("extend", n, offset, end, v)
  BY <1>1, <1>4, <1>6, StartGrowingStep
<1>7. CASE /\ offset >= 0 /\ end <= ExtentSize(e)
           /\ Start("write", i, {n}, offset, end, v, next)
           /\ UNCHANGED <<files, disk, image, backup, ro, loop, fault>>
  <2> HIDE DEF i, e, end, next
  <2>1. Stable'
    BY <1>1, <1>7 DEF Stable
  <2>2. TypeOK'
    BY <1>1, <1>2, <1>3, <1>4, <1>7, <2>1, Started
  <2>3. /\ op'.idx = i /\ op'.end = end /\ pc' = next /\ files' = files
        /\ fault' = fault /\ image' = image /\ backup' = backup
    BY <1>7 DEF Start
  <2>4. LoopInv'
    BY <1>2, <1>3, <2>3 DEF LoopInv
  <2>5. /\ Blocks(e) \in Nat /\ ExtentSize(e) \in Nat
        /\ ExtentSize(e) <= Blocks(e) * BlockSize
    BY <1>2, EntryAt, SizeBounds DEF e
  <2>6. Fits(files[i], 0, end)
    <3>1. Blocks(e) * BlockSize \in Int /\ (Blocks(e) + 0) * BlockSize = Blocks(e) * BlockSize
      BY <2>5, BlockSizeAssumption
    <3>2. end <= (Blocks(e) + 0) * BlockSize
      BY <1>4, <1>7, <2>5, <3>1
    <3>3. QED
      BY <3>2 DEF Fits, e
  <2>7. files[i].last + 0 <= EndOfVolume
    BY <1>2, EntryAt
  <2>8. \A k \in 1 .. Len(files) : i < k => files[i].last + 0 <= files[k].first
    <3>1. files[i].last \in Nat
      BY <1>2, EntryAt
    <3>2. QED
      BY <1>2, <3>1 DEF Layout
  <2>9. /\ files[i].first + RoundUp(end) <= EndOfVolume
        /\ \A k \in 1 .. Len(files) : i < k => files[i].first + RoundUp(end) <= files[k].first
    BY <1>2, <1>4, <1>7, <2>6, <2>7, <2>8, RoomFor
  <2>10. RoomInv'
    BY <2>3, <2>9 DEF RoomInv
  <2>11. WrittenInv'
    BY <1>1, <1>3, <2>3 DEF WrittenInv
  <2>12. QED
    BY <2>1, <2>2, <2>4, <2>10, <2>11, Parts
<1>8. QED
  BY <1>5, <1>6, <1>7 DEF Write

LEMMA CrunchStep ==
    ASSUME VolumeInv, Crunch
    PROVE  VolumeInv'
<1>1. pc = "idle" /\ Stable /\ TypeOK /\ files \in Seq(Entry) /\ Layout(files)
      /\ (~fault => image = files /\ (Twin => backup = files))
  BY InvStable DEF Crunch, VolumeInv, WrittenInv, Stable
<1>2. CASE Refuse("ok")
  BY <1>1, <1>2, Refused DEF Results
<1>3. CASE /\ files # <<>>
           /\ Start("crunch", Len(files), {}, 0, 0, Zero, "down")
           /\ StartMoveGap
           /\ UNCHANGED <<files, disk, image, backup, ro, fault>>
  <2>1. Len(files) \in Nat /\ Len(files) # 0
    BY <1>1, <1>3, EmptySeq, LenProperties
  <2>2. Stable'
    BY <1>1, <1>3 DEF Stable
  <2>3. TypeOK'
    BY <1>1, <1>3, <2>1, <2>2, Started, ByteAssumption
  <2>4. /\ op'.idx = Len(files) /\ pc' = "down" /\ files' = files
        /\ fault' = fault /\ image' = image /\ backup' = backup
        /\ loop'.j = 1 /\ loop'.low = LabelEnd /\ loop'.high = EndOfVolume
    BY <1>3 DEF Start, StartMoveGap
  <2>5. LoopInv'
    <3>1. LabelEnd <= files[1].first /\ 1 \in 1 .. Len(files)
      BY <1>1, <2>1 DEF Layout
    <3>2. QED
      BY <2>1, <2>4, <3>1, GeometryAssumption DEF LoopInv
  <2>6. RoomInv' /\ WrittenInv'
    BY <1>1, <2>4 DEF RoomInv, WrittenInv
  <2>7. QED
    BY <2>2, <2>3, <2>5, <2>6, Parts
<1>4. QED
  BY <1>2, <1>3 DEF Crunch

LEMMA WipeUnusedStep ==
    ASSUME VolumeInv, WipeUnused
    PROVE  VolumeInv'
<1>1. pc = "idle" /\ Stable /\ TypeOK
      /\ (~fault => image = files /\ (Twin => backup = files))
  BY InvStable DEF WipeUnused, VolumeInv, WrittenInv
<1>2. disk' \in [Block -> [Index -> Byte]]
  BY <1>1, ByteAssumption DEF WipeUnused, Stable
<1>3. /\ UNCHANGED <<files, image, backup, ro, pc, op, loop, fault>>
      /\ ret' = "wiped"
  BY DEF WipeUnused
<1>4. Stable'
  BY <1>1, <1>2, <1>3 DEF Stable
<1>5. TypeOK'
  BY <1>1, <1>2, <1>3 DEF TypeOK
<1>6. LoopInv' /\ RoomInv' /\ WrittenInv'
  BY <1>1, <1>3 DEF LoopInv, RoomInv, WrittenInv
<1>7. QED
  BY <1>4, <1>5, <1>6, Parts

-----------------------------------------------------------------------------
(* move_gap_after.                                                         *)

\* One entry moves to block b, between its neighbours: the directory stays well
\* formed, and so do the blocks.
LEMMA MoveStable ==
    ASSUME NEW fs \in Seq(Entry), Layout(fs), UniqueNames(fs),
           NEW j \in 1 .. Len(fs), NEW b \in Nat,
           LabelEnd <= b, b + Blocks(fs[j]) <= EndOfVolume,
           \A k \in 1 .. Len(fs) : k < j => fs[k].last <= b,
           \A k \in 1 .. Len(fs) : j < k => b + Blocks(fs[j]) <= fs[k].first
    PROVE  /\ [fs EXCEPT ![j] = MovedTo(fs[j], b)] \in Seq(Entry)
           /\ Layout([fs EXCEPT ![j] = MovedTo(fs[j], b)])
           /\ UniqueNames([fs EXCEPT ![j] = MovedTo(fs[j], b)])
           /\ Len([fs EXCEPT ![j] = MovedTo(fs[j], b)]) = Len(fs)
           /\ \A k \in 1 .. Len(fs) :
                 [fs EXCEPT ![j] = MovedTo(fs[j], b)][k] =
                     IF k = j THEN MovedTo(fs[j], b) ELSE fs[k]
<1> DEFINE e == MovedTo(fs[j], b)
<1>1. fs[j] \in Entry /\ Blocks(fs[j]) \in Nat
  BY EntryAt
<1>2. b + Blocks(fs[j]) \in Nat /\ b <= b + Blocks(fs[j])
  BY <1>1
<1>3. /\ e \in Entry /\ e.name = fs[j].name /\ e.first = b
      /\ e.last = b + Blocks(fs[j])
  BY <1>1, <1>2 DEF MovedTo, Entry
<1> HIDE DEF e
<1>4. /\ [fs EXCEPT ![j] = e] \in Seq(Entry)
      /\ Len([fs EXCEPT ![j] = e]) = Len(fs)
      /\ \A k \in 1 .. Len(fs) : [fs EXCEPT ![j] = e][k] = IF k = j THEN e ELSE fs[k]
  BY <1>3, ReplaceEntry
<1>5. UniqueNames([fs EXCEPT ![j] = e])
  BY <1>3, UniqueReplace
<1>6. Layout([fs EXCEPT ![j] = e])
  BY <1>2, <1>3, LayoutReplace
<1>7. QED
  BY <1>4, <1>5, <1>6 DEF e

\* relocate to the place where a file already is changes no entry.
LEMMA MoveNowhere ==
    ASSUME NEW fs \in Seq(Entry), Layout(fs), NEW j \in 1 .. Len(fs)
    PROVE  [fs EXCEPT ![j] = MovedTo(fs[j], fs[j].first)] = fs
<1> DEFINE e == fs[j]
<1>1. e \in Entry /\ e.first + Blocks(e) = e.last
  BY EntryAt
<1> HIDE DEF e
<1>2. MovedTo(e, e.first) = e
  BY <1>1 DEF MovedTo, Entry
<1>3. [fs EXCEPT ![j] = e] = fs
  BY DEF e
<1>4. QED
  BY <1>2, <1>3 DEF e

LEMMA MoveDownStep ==
    ASSUME VolumeInv, MoveDown
    PROVE  VolumeInv'
<1> DEFINE j == loop.j
           low == loop.low
           e == files[j]
           n == Blocks(e)
<1>1. /\ Stable /\ TypeOK /\ pc = "down"
      /\ files \in Seq(Entry) /\ Layout(files) /\ UniqueNames(files)
      /\ disk \in [Block -> [Index -> Byte]]
  BY InvStable DEF MoveDown, VolumeInv, Stable
<1>2. /\ op.idx \in 1 .. Len(files) /\ j \in 1 .. op.idx
      /\ loop.high = EndOfVolume
      /\ LabelEnd <= low /\ low <= files[j].first
      /\ \A i \in 1 .. Len(files) : i < j => files[i].last <= low
  BY <1>1 DEF VolumeInv, LoopInv
<1>3. /\ low \in Nat /\ loop.high \in Nat /\ loop.changed \in BOOLEAN
      /\ Len(files) \in Nat
  BY <1>1, LenProperties DEF TypeOK
<1>4. /\ j \in 1 .. Len(files) /\ j \in Nat
  BY <1>2, <1>3
<1>5. /\ e \in Entry /\ e.first \in Nat /\ e.last \in Nat /\ n \in Nat
      /\ e.first + n = e.last /\ LabelEnd <= e.first /\ e.last <= EndOfVolume
  BY <1>1, <1>4, EntryAt
<1>6. /\ Target = low
      /\ disk' = Copied(disk, e.first, low, 0, n)
      /\ files' = [files EXCEPT ![j] = MovedTo(e, low)]
      /\ loop'.j = (IF j = op.idx THEN Len(files) ELSE j + 1)
      /\ loop'.low = low + n
      /\ loop'.high = loop.high
      /\ loop'.changed = (loop.changed \/ e.first # low)
      /\ pc' = (IF j = op.idx THEN "up" ELSE "down")
      /\ UNCHANGED <<image, backup, ro, op, ret, fault>>
  BY <1>1 DEF MoveDown, Relocated, Target
<1>7. loop' \in [j : Nat, low : Nat, high : Nat, changed : BOOLEAN]
  <2>1. (IF j = op.idx THEN Len(files) ELSE j + 1) \in Nat /\ low + n \in Nat
    BY <1>3, <1>4, <1>5
  <2>2. QED
    BY <1>3, <2>1 DEF MoveDown, Target
<1> HIDE DEF n, e, j, low
<1>8. low + n <= e.last /\ low + n <= EndOfVolume
  BY <1>2, <1>3, <1>5, GeometryAssumption DEF e
<1>9. \A k \in 1 .. Len(files) : j < k => low + n <= files[k].first
  <2>1. \A k \in 1 .. Len(files) : files[k].first \in Nat
    BY <1>1, EntryAt
  <2>2. \A k \in 1 .. Len(files) : j < k => e.last <= files[k].first
    BY <1>1, <1>4 DEF Layout, e
  <2>3. QED
    BY <1>3, <1>5, <1>8, <2>1, <2>2
<1>10. /\ files' \in Seq(Entry) /\ Layout(files') /\ UniqueNames(files')
       /\ Len(files') = Len(files)
       /\ \A k \in 1 .. Len(files) :
             files'[k] = IF k = j THEN MovedTo(e, low) ELSE files[k]
  <2>1. /\ low + Blocks(files[j]) <= EndOfVolume
        /\ \A k \in 1 .. Len(files) : j < k => low + Blocks(files[j]) <= files[k].first
    BY <1>8, <1>9 DEF e, n
  <2>2. files' = [files EXCEPT ![j] = MovedTo(files[j], low)]
    BY <1>6 DEF e
  <2>3. /\ [files EXCEPT ![j] = MovedTo(files[j], low)] \in Seq(Entry)
        /\ Layout([files EXCEPT ![j] = MovedTo(files[j], low)])
        /\ UniqueNames([files EXCEPT ![j] = MovedTo(files[j], low)])
        /\ Len([files EXCEPT ![j] = MovedTo(files[j], low)]) = Len(files)
        /\ \A k \in 1 .. Len(files) :
              [files EXCEPT ![j] = MovedTo(files[j], low)][k] =
                  IF k = j THEN MovedTo(files[j], low) ELSE files[k]
    BY <1>1, <1>2, <1>3, <1>4, <2>1, MoveStable
  <2>4. QED
    BY <2>2, <2>3 DEF e
<1>11. disk' \in [Block -> [Index -> Byte]]
  <2>1. e.first + n <= EndOfVolume /\ n <= n /\ 0 \in Nat
    BY <1>5
  <2>2. Copied(disk, e.first, low, 0, n) \in [Block -> [Index -> Byte]]
    BY <1>1, <1>3, <1>5, <2>1, CopiedType
  <2>3. QED
    BY <1>6, <2>2
<1>12. Stable'
  BY <1>1, <1>6, <1>10, <1>11 DEF Stable
<1>13. TypeOK'
  BY <1>1, <1>6, <1>7, <1>10, <1>11 DEF TypeOK
<1>14. /\ files'[j].first = low /\ files'[j].last = low + n
       /\ \A k \in 1 .. Len(files) : k # j => files'[k] = files[k]
  BY <1>4, <1>10 DEF MovedTo, n
<1>15. LoopInv'
  <2>1. CASE j = op.idx
    <3>1. Len(files) \in op.idx .. Len(files)
      BY <1>2, <1>3
    <3>2. files'[Len(files)].last <= EndOfVolume
      BY <1>2, <1>3, <1>10 DEF Layout
    <3>3. QED
      BY <1>2, <1>3, <1>6, <1>10, <1>14, <2>1, <3>1, <3>2, GeometryAssumption DEF LoopInv
  <2>2. CASE j # op.idx
    <3>1. j + 1 \in 1 .. op.idx /\ j + 1 \in 1 .. Len(files) /\ op.idx \in 1 .. Len(files')
      BY <1>2, <1>3, <1>4, <1>10, <2>2
    <3>2. low + n <= files'[j + 1].first
      BY <1>4, <1>9, <1>14, <3>1
    <3>3. ASSUME NEW i \in 1 .. Len(files'), i < j + 1
          PROVE  files'[i].last <= low + n
      <4>1. CASE i = j
        BY <1>3, <1>5, <1>14, <4>1
      <4>2. CASE i < j
        <5>1. i \in 1 .. Len(files) /\ i # j /\ files'[i] = files[i]
          BY <1>4, <1>10, <1>14, <4>2
        <5>2. files'[i].last <= low /\ files'[i].last \in Nat
          BY <1>1, <1>2, <4>2, <5>1, EntryAt
        <5>3. QED
          BY <1>3, <1>5, <5>2
      <4>3. QED
        BY <1>4, <3>3, <4>1, <4>2
    <3>4. LabelEnd <= low + n
      BY <1>2, <1>3, <1>5, GeometryAssumption
    <3>5. QED
      BY <1>2, <1>6, <2>2, <3>1, <3>2, <3>3, <3>4 DEF LoopInv
  <2>3. QED
    BY <2>1, <2>2
<1>16. RoomInv'
  BY <1>6 DEF RoomInv
<1>17. WrittenInv'
  <2>1. ~fault' /\ ~loop'.changed =>
            files' = files /\ image = files /\ (Twin => backup = files)
    <3>1. ~fault /\ ~loop.changed => image = files /\ (Twin => backup = files)
      BY <1>1 DEF VolumeInv, WrittenInv
    <3>2. e.first = low => files' = files
      BY <1>1, <1>4, <1>6, MoveNowhere DEF e
    <3>3. QED
      BY <1>6, <3>1, <3>2
  <2>2. QED
    BY <1>6, <2>1 DEF WrittenInv
<1>18. QED
  BY <1>12, <1>13, <1>15, <1>16, <1>17, Parts

LEMMA MoveUpStep ==
    ASSUME VolumeInv, MoveUp
    PROVE  VolumeInv'
<1> DEFINE j == loop.j
           e == files[j]
           n == Blocks(e)
           b == loop.high - n
<1>1. /\ Stable /\ TypeOK /\ pc = "up" /\ j > op.idx
      /\ files \in Seq(Entry) /\ Layout(files) /\ UniqueNames(files)
      /\ disk \in [Block -> [Index -> Byte]]
  BY InvStable DEF MoveUp, VolumeInv, Stable
<1>2. /\ op.idx \in 1 .. Len(files) /\ j \in op.idx .. Len(files)
      /\ e.last <= loop.high /\ loop.high <= EndOfVolume
      /\ \A k \in 1 .. Len(files) : j < k => loop.high <= files[k].first
      /\ loop.low = files[op.idx].last
  BY <1>1 DEF VolumeInv, LoopInv
<1>3. /\ loop.low \in Nat /\ loop.high \in Nat /\ loop.changed \in BOOLEAN
      /\ Len(files) \in Nat
  BY <1>1, LenProperties DEF TypeOK
<1>4. /\ j \in 1 .. Len(files) /\ j \in Nat /\ j - 1 \in 1 .. Len(files)
      /\ j - 1 \in op.idx .. Len(files) /\ op.idx # j
  BY <1>1, <1>2, <1>3
<1>5. /\ e \in Entry /\ e.first \in Nat /\ e.last \in Nat /\ n \in Nat
      /\ e.first + n = e.last /\ LabelEnd <= e.first /\ e.last <= EndOfVolume
  BY <1>1, <1>4, EntryAt
<1>6. /\ Target = b
      /\ disk' = Copied(disk, e.first, b, 0, n)
      /\ files' = [files EXCEPT ![j] = MovedTo(files[j], b)]
      /\ loop'.j = j - 1
      /\ loop'.low = loop.low
      /\ loop'.high = b
      /\ loop'.changed = (loop.changed \/ e.first # b)
      /\ UNCHANGED <<image, backup, ro, pc, op, ret, fault>>
  BY <1>1 DEF MoveUp, Relocated, Target
<1> HIDE DEF n, e, j
<1>7. b \in Nat /\ e.first <= b /\ b + n = loop.high /\ b <= loop.high
  <2> DEFINE high == loop.high
  <2>1. high \in Nat /\ e.last <= high
    BY <1>2, <1>3
  <2> HIDE DEF high
  <2>2. high - n \in Nat /\ e.first <= high - n /\ high - n + n = high /\ high - n <= high
    BY <1>5, <2>1
  <2>3. QED
    BY <2>2 DEF high
<1>8. loop' \in [j : Nat, low : Nat, high : Nat, changed : BOOLEAN]
  <2>1. j - 1 \in Nat
    BY <1>4
  <2>2. loop' = [j |-> j - 1, low |-> loop.low, high |-> b,
                 changed |-> loop.changed \/ e.first # b]
    BY <1>6 DEF MoveUp, e, j
  <2>3. QED
    BY <1>3, <1>7, <2>1, <2>2
<1> HIDE DEF b
<1>9. /\ files' \in Seq(Entry) /\ Layout(files') /\ UniqueNames(files')
      /\ Len(files') = Len(files)
      /\ \A k \in 1 .. Len(files) :
            files'[k] = IF k = j THEN MovedTo(e, b) ELSE files[k]
  <2>1. LabelEnd <= b /\ b + Blocks(files[j]) <= EndOfVolume
    BY <1>2, <1>3, <1>5, <1>7, GeometryAssumption DEF e, n
  <2>2. \A k \in 1 .. Len(files) : j < k => b + Blocks(files[j]) <= files[k].first
    BY <1>2, <1>7 DEF e, n
  <2>3. ASSUME NEW k \in 1 .. Len(files), k < j PROVE files[k].last <= b
    <3>1. files[k].last <= e.first /\ files[k].last \in Nat
      BY <1>1, <1>4, <2>3, EntryAt DEF Layout, e
    <3>2. QED
      BY <1>5, <1>7, <3>1
  <2>4. /\ [files EXCEPT ![j] = MovedTo(files[j], b)] \in Seq(Entry)
        /\ Layout([files EXCEPT ![j] = MovedTo(files[j], b)])
        /\ UniqueNames([files EXCEPT ![j] = MovedTo(files[j], b)])
        /\ Len([files EXCEPT ![j] = MovedTo(files[j], b)]) = Len(files)
        /\ \A k \in 1 .. Len(files) :
              [files EXCEPT ![j] = MovedTo(files[j], b)][k] =
                  IF k = j THEN MovedTo(files[j], b) ELSE files[k]
    BY <1>1, <1>4, <1>7, <2>1, <2>2, <2>3, MoveStable
  <2>5. QED
    BY <1>6, <2>4 DEF e
<1>10. disk' \in [Block -> [Index -> Byte]]
  <2>1. e.first + n <= EndOfVolume /\ n <= n /\ 0 \in Nat
    BY <1>5
  <2>2. Copied(disk, e.first, b, 0, n) \in [Block -> [Index -> Byte]]
    BY <1>1, <1>5, <1>7, <2>1, CopiedType
  <2>3. QED
    BY <1>6, <2>2
<1>11. Stable'
  BY <1>1, <1>6, <1>9, <1>10 DEF Stable
<1>12. TypeOK'
  BY <1>1, <1>6, <1>8, <1>9, <1>10 DEF TypeOK
<1>13. /\ files'[j].first = b
       /\ \A k \in 1 .. Len(files) : k # j => files'[k] = files[k]
  BY <1>4, <1>9 DEF MovedTo
<1>14. LoopInv'
  <2>1. files'[j - 1].last <= b
    <3>1. files[j - 1].last <= e.first /\ files[j - 1].last \in Nat
      BY <1>1, <1>4, EntryAt DEF Layout, e
    <3>2. files'[j - 1] = files[j - 1]
      BY <1>4, <1>13
    <3>3. QED
      BY <1>5, <1>7, <3>1, <3>2
  <2>2. ASSUME NEW k \in 1 .. Len(files'), j - 1 < k PROVE b <= files'[k].first
    <3>1. CASE k = j
      BY <1>7, <1>13, <3>1
    <3>2. CASE j < k
      <4>1. k \in 1 .. Len(files) /\ k # j
        BY <1>4, <1>9, <3>2
      <4>2. files'[k] = files[k] /\ files[k].first \in Nat
        BY <1>1, <1>13, <4>1, EntryAt
      <4>3. loop.high <= files[k].first
        BY <1>2, <3>2, <4>1
      <4>4. QED
        BY <1>3, <1>7, <4>2, <4>3
    <3>3. QED
      BY <1>4, <2>2, <3>1, <3>2
  <2>3. loop.low = files'[op.idx].last
    BY <1>2, <1>4, <1>13
  <2>4. b <= EndOfVolume
    BY <1>2, <1>3, <1>7, GeometryAssumption
  <2>5. QED
    BY <1>1, <1>2, <1>4, <1>6, <1>9, <2>1, <2>2, <2>3, <2>4 DEF LoopInv
<1>15. RoomInv'
  BY <1>1, <1>6 DEF RoomInv
<1>16. WrittenInv'
  <2>1. ~fault' /\ ~loop'.changed =>
            files' = files /\ image = files /\ (Twin => backup = files)
    <3>1. ~fault /\ ~loop.changed => image = files /\ (Twin => backup = files)
      BY <1>1 DEF VolumeInv, WrittenInv
    <3>2. e.first = b => files' = files
      BY <1>1, <1>4, <1>6, MoveNowhere DEF e
    <3>3. QED
      BY <1>6, <3>1, <3>2
  <2>2. QED
    BY <1>1, <1>6, <2>1 DEF WrittenInv
<1>17. QED
  BY <1>11, <1>12, <1>14, <1>15, <1>16, Parts

\* Whatever part of a relocation was done, no byte comes from outside.
LEMMA MoveStopsType ==
    ASSUME VolumeInv, MoveStops
    PROVE  disk' \in [Block -> [Index -> Byte]]
<1> DEFINE j == loop.j
           e == files[j]
           n == Blocks(e)
<1>1. /\ Stable /\ TypeOK
      /\ files \in Seq(Entry) /\ Layout(files)
      /\ disk \in [Block -> [Index -> Byte]]
      /\ pc = "down" \/ (pc = "up" /\ j > op.idx)
  BY InvStable DEF MoveStops, VolumeInv, Stable, Relocating
<1>2. Len(files) \in Nat /\ loop.low \in Nat /\ loop.high \in Nat
  BY <1>1, LenProperties DEF TypeOK
<1>3. j \in 1 .. Len(files)
  BY <1>1, <1>2 DEF VolumeInv, LoopInv
<1>4. /\ e.first \in Nat /\ e.last \in Nat /\ n \in Nat
      /\ e.first + n = e.last /\ LabelEnd <= e.first /\ e.last <= EndOfVolume
  BY <1>1, <1>3, EntryAt
<1>5. Target \in Nat
  <2>1. CASE pc = "down"
    BY <1>2, <2>1 DEF Target
  <2>2. CASE pc = "up"
    <3>1. e.last <= loop.high
      BY <2>2 DEF VolumeInv, LoopInv
    <3>2. loop.high - n \in Nat
      BY <1>2, <1>4, <3>1
    <3>3. QED
      BY <2>2, <3>2 DEF Target
  <2>3. QED
    BY <1>1, <2>1, <2>2
<1>6. PICK m \in 0 .. n - 1 : disk' = PartlyCopied(disk, e.first, Target, n, m)
  BY DEF MoveStops
<1> HIDE DEF n, e, j
<1>7. /\ m \in Nat /\ n - m \in Nat /\ m <= n /\ n <= n /\ 0 \in Nat
      /\ e.first + n <= EndOfVolume
  BY <1>4
<1>8. disk' \in [Block -> [Index -> Byte]]
  <2>1. Copied(disk, e.first, Target, 0, m) \in [Block -> [Index -> Byte]]
    BY <1>1, <1>4, <1>5, <1>7, CopiedType
  <2>2. Copied(disk, e.first, Target, n - m, n) \in [Block -> [Index -> Byte]]
    BY <1>1, <1>4, <1>5, <1>7, CopiedType
  <2>3. QED
    BY <1>6, <2>1, <2>2 DEF PartlyCopied
<1>9. QED
  BY <1>8

LEMMA GapMadeStep ==
    ASSUME VolumeInv, GapMade
    PROVE  VolumeInv'
<1>1. /\ Stable /\ TypeOK /\ pc = "up" /\ loop.j = op.idx
      /\ files \in Seq(Entry) /\ Layout(files)
  BY InvStable DEF GapMade, VolumeInv, Stable
<1>2. /\ pc' = (IF loop.changed THEN "gapSync" ELSE "grow")
      /\ UNCHANGED <<files, disk, image, backup, ro, op, loop, ret, fault>>
  BY DEF GapMade
<1>3. Stable' /\ TypeOK'
  BY <1>1, <1>2 DEF Stable, TypeOK
<1>4. LoopInv' /\ RoomInv'
  BY <1>1, <1>2 DEF VolumeInv, LoopInv, RoomInv
<1>5. WrittenInv'
  BY <1>1, <1>2 DEF VolumeInv, WrittenInv
<1>6. QED
  BY <1>3, <1>4, <1>5, Parts

LEMMA GrowStep ==
    ASSUME VolumeInv, Grow
    PROVE  VolumeInv'
<1> DEFINE i == op.idx
           gap == loop.high - loop.low
<1>1. /\ Stable /\ TypeOK /\ pc = "grow"
      /\ files \in Seq(Entry) /\ Layout(files)
      /\ (~fault => image = files /\ (Twin => backup = files))
  BY InvStable DEF Grow, VolumeInv, Stable, WrittenInv
<1>2. CASE Refuse("ok") \/ Refuse("ENOSPC")
  BY <1>1, <1>2, Refused DEF Results
<1>3. CASE /\ Fits(files[i], gap, op.end)
           /\ pc' = PadOrData(i, op.kind, op.offset, op.end)
           /\ UNCHANGED <<files, disk, image, backup, ro, op, loop, ret, fault>>
  <2>1. pc' \in {"pad", "data"}
    BY <1>3 DEF PadOrData
  <2>2. Stable' /\ TypeOK'
    BY <1>1, <1>3, <2>1 DEF Stable, TypeOK
  <2>3. /\ i \in 1 .. Len(files) /\ loop.low = files[i].last /\ loop.high <= EndOfVolume
        /\ \A k \in 1 .. Len(files) : i < k => loop.high <= files[k].first
    BY <1>1 DEF VolumeInv, LoopInv
  <2>4. /\ op.end \in Nat /\ gap \in Int /\ files[i].last + gap = loop.high
    BY <1>1, <2>3 DEF TypeOK
  <2>5. /\ files[i].first + RoundUp(op.end) <= EndOfVolume
        /\ \A k \in 1 .. Len(files) : i < k => files[i].first + RoundUp(op.end) <= files[k].first
    BY <1>1, <1>3, <2>3, <2>4, RoomFor
  <2>6. RoomInv'
    BY <1>3, <2>5 DEF RoomInv
  <2>7. LoopInv'
    BY <1>3, <2>1, <2>3 DEF LoopInv
  <2>8. WrittenInv'
    BY <1>1, <1>3, <2>1 DEF WrittenInv
  <2>9. QED
    BY <2>2, <2>6, <2>7, <2>8, Parts
<1>4. QED
  BY <1>2, <1>3 DEF Grow

-----------------------------------------------------------------------------
(* The data.                                                               *)

\* The file a handler writes to may grow to the end of what it writes.
LEMMA SetSizeStable ==
    ASSUME VolumeInv, pc \in {"pad", "data", "hole"}, SetSize,
           disk' \in [Block -> [Index -> Byte]],
           UNCHANGED <<image, backup, ro, fault>>
    PROVE  Stable'
<1>1. Stable /\ files \in Seq(Entry) /\ Layout(files) /\ UniqueNames(files)
  BY InvStable DEF Stable
<1>2. op.idx \in 1 .. Len(files) /\ op.end \in Nat
  BY DEF VolumeInv, LoopInv, TypeOK
<1>3. /\ files[op.idx].first + RoundUp(op.end) <= EndOfVolume
      /\ \A k \in 1 .. Len(files) :
            op.idx < k => files[op.idx].first + RoundUp(op.end) <= files[k].first
  BY DEF VolumeInv, RoomInv
<1>4. files' = [files EXCEPT ![op.idx] = Resized(files[op.idx], op.end)]
  BY DEF SetSize
<1>5. files' \in Seq(Entry) /\ Layout(files') /\ UniqueNames(files')
  BY <1>1, <1>2, <1>3, <1>4, ResizeStable
<1>6. QED
  BY <1>1, <1>5 DEF Stable

LEMMA PadStep ==
    ASSUME VolumeInv, Pad
    PROVE  VolumeInv'
<1>1. /\ Stable /\ TypeOK /\ pc = "pad"
      /\ UNCHANGED <<image, backup, ro, op, loop, ret, fault>>
  BY InvStable DEF Pad, VolumeInv
<1>2. disk' \in [Block -> [Index -> Byte]]
  BY <1>1, FillType, ByteAssumption DEF Pad, Stable
<1>3. CASE SetSize /\ pc' = "sync"
  <2>1. Stable'
    BY <1>1, <1>2, <1>3, SetSizeStable
  <2>2. TypeOK'
    BY <1>1, <1>3, <2>1 DEF TypeOK, Stable
  <2>3. QED
    BY <1>3, <2>1, <2>2, ReadyToSync
<1>4. CASE files' = files /\ pc' = "data"
  <2>1. Stable' /\ TypeOK'
    BY <1>1, <1>2, <1>4 DEF Stable, TypeOK
  <2>2. LoopInv' /\ RoomInv' /\ WrittenInv'
    BY <1>1, <1>4 DEF VolumeInv, LoopInv, RoomInv, WrittenInv
  <2>3. QED
    BY <2>1, <2>2, Parts
<1>5. QED
  BY <1>3, <1>4 DEF Pad

LEMMA PutDataStep ==
    ASSUME VolumeInv, PutData
    PROVE  VolumeInv'
<1>1. /\ Stable /\ TypeOK /\ pc = "data" /\ pc' = "sync" /\ op.value \in Byte
      /\ UNCHANGED <<image, backup, ro, op, loop, ret, fault>>
  BY InvStable DEF PutData, VolumeInv, TypeOK
<1>2. disk' \in [Block -> [Index -> Byte]]
  BY <1>1, FillType DEF PutData, Stable
<1>3. Stable'
  <2>1. CASE SetSize
    BY <1>1, <1>2, <2>1, SetSizeStable
  <2>2. CASE files' = files
    BY <1>1, <1>2, <2>2 DEF Stable
  <2>3. QED
    BY <2>1, <2>2 DEF PutData
<1>4. TypeOK'
  BY <1>1, <1>3 DEF TypeOK, Stable
<1>5. QED
  BY <1>1, <1>3, <1>4, ReadyToSync

LEMMA PutHoleStep ==
    ASSUME VolumeInv, PutHole
    PROVE  VolumeInv'
<1>1. /\ Stable /\ TypeOK /\ pc = "hole" /\ pc' = "sync" /\ op.value \in Byte
      /\ UNCHANGED <<image, backup, ro, op, loop, ret, fault>>
  BY InvStable DEF PutHole, VolumeInv, TypeOK
<1>2. disk' \in [Block -> [Index -> Byte]]
  BY <1>1, FillType DEF PutHole, HoleFilled, Stable
<1>3. Stable'
  BY <1>1, <1>2, SetSizeStable DEF PutHole
<1>4. TypeOK'
  BY <1>1, <1>3 DEF TypeOK, Stable
<1>5. QED
  BY <1>1, <1>3, <1>4, ReadyToSync

\* Nor does one from a data write that stopped.
LEMMA StopsType ==
    ASSUME VolumeInv, MoveStops \/ DataStops \/ HoleStops
    PROVE  disk' \in [Block -> [Index -> Byte]]
<1>1. disk \in [Block -> [Index -> Byte]] /\ op.value \in Byte
  BY DEF VolumeInv, TypeOK
<1>2. CASE DataStops
  BY <1>1, <1>2, FillType, ByteAssumption DEF DataStops
<1>3. CASE HoleStops
  BY <1>1, <1>3, FillType DEF HoleStops, HoleFilled
<1>4. QED
  BY <1>2, <1>3, MoveStopsType

LEMMA DataFailsStep ==
    ASSUME VolumeInv, DataFails
    PROVE  VolumeInv'
<1>1. Stable /\ disk' \in [Block -> [Index -> Byte]]
  BY InvStable, StopsType DEF DataFails
<1>2. Fail /\ UNCHANGED <<files, image, backup, ro>>
  BY DEF DataFails
<1>3. Stable'
  BY <1>1, <1>2 DEF Stable, Fail
<1>4. QED
  BY <1>2, <1>3, Failed

LEMMA HoleEnds ==
    ASSUME VolumeInv, HoleUnreadable \/ HoleAborts
    PROVE  VolumeInv'
<1>1. Stable /\ TypeOK
  BY InvStable DEF VolumeInv
<1>2. CASE HoleUnreadable
  <2>1. ~fault => image = files /\ (Twin => backup = files)
    BY <1>2 DEF HoleUnreadable, VolumeInv, WrittenInv
  <2>2. QED
    BY <1>2, <2>1, Refused DEF HoleUnreadable, Results
<1>3. CASE HoleAborts
  <2>1. /\ pc = "hole" /\ pc' = "aborted"
        /\ UNCHANGED <<files, disk, image, backup, ro, op, loop, ret, fault>>
    BY <1>3 DEF HoleAborts
  <2>2. Stable' /\ TypeOK'
    BY <1>1, <2>1 DEF Stable, TypeOK
  <2>3. LoopInv' /\ RoomInv' /\ WrittenInv'
    BY <2>1 DEF VolumeInv, LoopInv, RoomInv, WrittenInv
  <2>4. QED
    BY <2>2, <2>3, Parts
<1>4. QED
  BY <1>2, <1>3

-----------------------------------------------------------------------------
(* meta_sync.                                                              *)

\* meta_sync is done: in the middle of a handler, or at its end.
LEMMA SyncedStep ==
    ASSUME VolumeInv, Synced, pc \in {"gapSync", "gapTwin", "sync", "twin"},
           image' = files, files' = files, disk' = disk, ro' = ro,
           backup' \in {backup, files}, Twin => backup' = files
    PROVE  VolumeInv'
<1>1. Stable /\ TypeOK
  BY InvStable DEF VolumeInv
<1>2. fault' = FALSE
  BY DEF Synced
<1>3. Stable'
  BY <1>1, <1>2 DEF Stable
<1>4. CASE pc \in {"gapSync", "gapTwin"}
  <2>1. /\ pc' = "grow" /\ loop' = [loop EXCEPT !.changed = FALSE]
        /\ op' = op /\ ret' = ret
    BY <1>4 DEF Synced
  <2>2. TypeOK'
    BY <1>1, <1>3, <2>1 DEF TypeOK, Stable
  <2>3. loop'.low = loop.low /\ loop'.high = loop.high
    BY <1>1, <2>1 DEF TypeOK
  <2>4. LoopInv' /\ RoomInv' /\ WrittenInv'
    BY <1>4, <2>1, <2>3 DEF VolumeInv, LoopInv, RoomInv, WrittenInv
  <2>5. QED
    BY <1>3, <2>2, <2>4, Parts
<1>5. CASE pc \notin {"gapSync", "gapTwin"}
  BY <1>3, <1>5, Returned DEF Synced, Results
<1>6. QED
  BY <1>4, <1>5

LEMMA WriteDirectoryStep ==
    ASSUME VolumeInv, WriteDirectory
    PROVE  VolumeInv'
<1>1. /\ Stable /\ TypeOK /\ pc \in {"gapSync", "sync"} /\ image' = files
      /\ UNCHANGED <<files, disk, backup, ro>>
  BY InvStable DEF WriteDirectory, VolumeInv
<1>2. CASE /\ Twin
           /\ pc' = IF pc = "sync" THEN "twin" ELSE "gapTwin"
           /\ UNCHANGED <<op, loop, ret, fault>>
  <2>1. Stable'
    BY <1>1, <1>2 DEF Stable
  <2>2. TypeOK'
    BY <1>1, <1>2, <2>1 DEF TypeOK, Stable
  <2>3. LoopInv' /\ RoomInv' /\ WrittenInv'
    BY <1>1, <1>2 DEF VolumeInv, LoopInv, RoomInv, WrittenInv
  <2>4. QED
    BY <2>1, <2>2, <2>3, Parts
<1>3. CASE ~Twin /\ Synced
  BY <1>1, <1>3, SyncedStep
<1>4. QED
  BY <1>2, <1>3 DEF WriteDirectory

LEMMA WriteSecondDirectoryStep ==
    ASSUME VolumeInv, WriteSecondDirectory
    PROVE  VolumeInv'
<1>1. pc \in {"gapTwin", "twin"} /\ image = files
  BY DEF WriteSecondDirectory, VolumeInv, WrittenInv
<1>2. QED
  BY <1>1, SyncedStep DEF WriteSecondDirectory

LEMMA SyncFailsStep ==
    ASSUME VolumeInv, SyncFails
    PROVE  VolumeInv'
<1>1. Stable
  BY InvStable
<1>2. /\ image' \in {image, Torn, files} /\ backup' \in {backup, Torn, files}
      /\ fault' = TRUE
      /\ UNCHANGED <<files, disk, ro>>
  BY DEF SyncFails
<1>3. Stable'
  BY <1>1, <1>2 DEF Stable
<1>4. \E r \in {"ok", "EIO"} : Return(r)
  BY DEF SyncFails
<1>5. QED
  BY <1>2, <1>3, <1>4, Returned DEF Results

-----------------------------------------------------------------------------
(* The end of the process.                                                 *)

LEMMA EndStep ==
    ASSUME VolumeInv, End
    PROVE  VolumeInv'
<1>1. Stable /\ TypeOK
  BY InvStable DEF VolumeInv
<1>2. CASE Restart
  <2>1. /\ image # Torn /\ files' = image /\ ro' \in BOOLEAN /\ Return("mounted")
        /\ fault' = (fault \/ pc \notin {"idle", "aborted"})
        /\ UNCHANGED <<disk, image, backup>>
    BY <1>2 DEF Restart, Remount
  <2>2. Stable'
    BY <1>1, <2>1 DEF Stable
  <2>3. ~fault' => image' = files' /\ (Twin => backup' = files')
    BY <2>1 DEF VolumeInv, WrittenInv
  <2>4. QED
    BY <2>1, <2>2, <2>3, Returned DEF Results
<1>3. CASE KilledInSecondDirectory
  <2>1. /\ pc \in {"gapTwin", "twin"} /\ files' = image /\ ro' \in BOOLEAN
        /\ backup' = Torn /\ Return("mounted") /\ fault' = TRUE
        /\ UNCHANGED <<disk, image>>
    BY <1>3 DEF KilledInSecondDirectory, Remount
  <2>2. image = files
    BY <2>1 DEF VolumeInv, WrittenInv
  <2>3. Stable'
    BY <1>1, <2>1, <2>2 DEF Stable
  <2>4. QED
    BY <2>1, <2>3, Returned DEF Results
<1>4. CASE KilledInData
  <2>1. /\ image # Torn /\ files' = image /\ ro' \in BOOLEAN /\ Return("mounted")
        /\ fault' = TRUE /\ UNCHANGED <<image, backup>>
    BY <1>4 DEF KilledInData, Remount
  <2>2. disk' \in [Block -> [Index -> Byte]]
    BY <1>4, StopsType DEF KilledInData
  <2>3. Stable'
    BY <1>1, <2>1, <2>2 DEF Stable
  <2>4. QED
    BY <2>1, <2>3, Returned DEF Results
<1>5. CASE KilledInDirectory \/ Lost
  <2>1. /\ pc' = "lost" /\ image' \in {image, Torn}
        /\ UNCHANGED <<files, disk, backup, ro, op, loop, ret, fault>>
    BY <1>5 DEF KilledInDirectory, Lost
  <2>2. Stable'
    BY <1>1, <2>1 DEF Stable
  <2>3. TypeOK'
    BY <1>1, <2>1, <2>2 DEF TypeOK, Stable
  <2>4. LoopInv' /\ RoomInv' /\ WrittenInv'
    BY <2>1 DEF LoopInv, RoomInv, WrittenInv
  <2>5. QED
    BY <2>2, <2>3, <2>4, Parts
<1>6. QED
  BY <1>2, <1>3, <1>4, <1>5 DEF End

-----------------------------------------------------------------------------
(* The invariant, and what follows from it.                                *)

LEMMA InitInv == Init => VolumeInv
<1> SUFFICES ASSUME Init PROVE VolumeInv
  OBVIOUS
<1>1. <<>> \in Seq(Entry) /\ Len(<<>>) = 0
  BY EmptySeq
<1>2. Layout(<<>>) /\ UniqueNames(<<>>)
  BY <1>1 DEF Layout, UniqueNames
<1>3. disk \in [Block -> [Index -> Byte]]
  BY ByteAssumption DEF Init
<1>4. TypeOK
  BY <1>1, <1>3, ByteAssumption DEF Init, TypeOK, NoOp, NoLoop
<1>5. ExtentsDisjoint /\ NamesUnique
  BY <1>2 DEF Init, ExtentsDisjoint, NamesUnique
<1>6. LoopInv /\ RoomInv /\ WrittenInv
  BY DEF Init, LoopInv, RoomInv, WrittenInv
<1>7. QED
  BY <1>4, <1>5, <1>6 DEF VolumeInv

LEMMA NextInv == VolumeInv /\ [Next]_vars => VolumeInv'
<1> SUFFICES ASSUME VolumeInv, [Next]_vars PROVE VolumeInv'
  OBVIOUS
<1>1. CASE Request
  <2>1. ASSUME NEW n \in Names, Mknod(n) \/ Unlink(n) PROVE VolumeInv'
    BY <2>1, MknodStep, UnlinkStep
  <2>2. ASSUME NEW n \in Names, NEW m \in Names, Rename(n, m) PROVE VolumeInv'
    BY <2>2, RenameStep
  <2>3. ASSUME NEW n \in Names, NEW size \in Sizes, Truncate(n, size) PROVE VolumeInv'
    BY <2>3, TruncateStep
  <2>4. ASSUME NEW n \in Names, NEW offset \in Offsets, NEW nbytes \in Lengths,
               NEW v \in Byte \ {Zero}, Write(n, offset, nbytes, v)
        PROVE  VolumeInv'
    BY <2>4, WriteStep
  <2>5. QED
    BY <1>1, <2>1, <2>2, <2>3, <2>4, CrunchStep, WipeUnusedStep DEF Request
<1>2. CASE Step
  BY <1>2, MoveDownStep, MoveUpStep, GapMadeStep, GrowStep, PadStep, PutDataStep,
     PutHoleStep, HoleEnds, WriteDirectoryStep, WriteSecondDirectoryStep DEF Step
<1>3. CASE Failure
  BY <1>3, DataFailsStep, SyncFailsStep DEF Failure
<1>4. CASE End
  BY <1>4, EndStep
<1>5. CASE UNCHANGED vars
  BY <1>5 DEF vars, VolumeInv, TypeOK, ExtentsDisjoint, NamesUnique, LoopInv, RoomInv,
     WrittenInv
<1>6. QED
  BY <1>1, <1>2, <1>3, <1>4, <1>5 DEF Next

\* The inductive invariant holds in every reachable state, whatever fails and
\* wherever the process is killed (directory.cc:261-454, file.cc:304-565).
THEOREM Invariance == Spec => []VolumeInv
<1>1. QED
  BY InitInv, NextInv, PTL DEF Spec

\* No two files ever share a block, in memory or in the directory on the image
\* (directory.cc:395-454).
THEOREM Disjointness == Spec => []ExtentsDisjoint
<1>1. VolumeInv => ExtentsDisjoint
  BY DEF VolumeInv
<1>2. QED
  BY <1>1, Invariance, PTL

\* No two entries ever have names the directory takes for the same
\* (mount main.cc:90, file.cc:258-264).
THEOREM Uniqueness == Spec => []NamesUnique
<1>1. VolumeInv => NamesUnique
  BY DEF VolumeInv
<1>2. QED
  BY <1>1, Invariance, PTL

\* Between handlers the directory on the image, and its second copy, are the one
\* in memory unless an I/O call failed (directory.cc:261-325).
THEOREM Durability == Spec => []DirectoryWritten
<1>1. VolumeInv => DirectoryWritten
  BY DEF VolumeInv, WrittenInv, DirectoryWritten
<1>2. QED
  BY <1>1, Invariance, PTL

-----------------------------------------------------------------------------
(* Read-only mounts.                                                       *)

\* While the volume is read-only no handler is past its first checks, and the
\* entries are those of the image.
ReadOnlyInv == ro => pc \in {"idle", "lost"} /\ image = files

Unchanged == UNCHANGED <<files, disk, image, backup>> /\ pc' # "sync"

LEMMA ReadOnlyNext ==
    ReadOnlyInv /\ [Next]_vars => ReadOnlyInv' /\ (ro /\ ro' => Unchanged)
<1> DEFINE Goal == ReadOnlyInv' /\ (ro /\ ro' => Unchanged)
<1> SUFFICES ASSUME ReadOnlyInv, [Next]_vars PROVE Goal
  OBVIOUS
<1>1. ASSUME NEW n \in Names, Mknod(n) \/ Unlink(n) PROVE Goal
  BY <1>1 DEF ReadOnlyInv, Unchanged, Mknod, Unlink, Refuse, Return, Start
<1>2. ASSUME NEW n \in Names, NEW m \in Names, Rename(n, m) PROVE Goal
  BY <1>2 DEF ReadOnlyInv, Unchanged, Rename, Refuse, Return
<1>3. ASSUME NEW n \in Names, NEW size \in Sizes, Truncate(n, size) PROVE Goal
  BY <1>3 DEF ReadOnlyInv, Unchanged, Truncate, StartGrowing, Refuse, Return
<1>4. ASSUME NEW n \in Names, NEW offset \in Offsets, NEW nbytes \in Lengths,
             NEW v \in Byte \ {Zero}, Write(n, offset, nbytes, v)
      PROVE  Goal
  BY <1>4 DEF ReadOnlyInv, Unchanged, Write, StartGrowing, Refuse, Return
<1>5. CASE Crunch \/ WipeUnused
  BY <1>5 DEF ReadOnlyInv, Unchanged, Crunch, WipeUnused, Refuse, Return
<1>6. CASE Step
  BY <1>6 DEF ReadOnlyInv, Unchanged, Step, MoveDown, MoveUp, GapMade, Grow, Pad, PutData,
     PutHole, HoleUnreadable, HoleAborts, WriteDirectory, WriteSecondDirectory, Refuse, Return
<1>7. CASE Failure
  BY <1>7 DEF ReadOnlyInv, Unchanged, Failure, DataFails, MoveStops, Relocating, DataStops,
     HoleStops, SyncFails, Fail, Return
<1>8. CASE End
  BY <1>8 DEF ReadOnlyInv, Unchanged, End, Restart, Remount, KilledInData, MoveStops,
     Relocating, DataStops, HoleStops, KilledInDirectory,
     KilledInSecondDirectory, Lost, Return
<1>9. CASE UNCHANGED vars
  BY <1>9 DEF ReadOnlyInv, Unchanged, vars
<1>10. QED
  BY <1>1, <1>2, <1>3, <1>4, <1>5, <1>6, <1>7, <1>8, <1>9 DEF Next, Request

\* A read-only mount changes no entry and no byte of the image, whatever is asked
\* of it (directory.cc:265, file.cc:240, 251, 310, 407).
THEOREM ReadOnly == Spec => ReadOnlyChangesNothing
<1>1. Init => ReadOnlyInv
  BY DEF Init, ReadOnlyInv
<1>2. ReadOnlyInv /\ [Next]_vars
         => [ro /\ ro' => UNCHANGED <<files, disk, image, backup>> /\ pc' # "sync"]_vars
  BY ReadOnlyNext DEF Unchanged
<1>3. ReadOnlyInv /\ [Next]_vars => ReadOnlyInv'
  BY ReadOnlyNext
<1>4. QED
  BY <1>1, <1>2, <1>3, PTL DEF Spec, ReadOnlyChangesNothing

-----------------------------------------------------------------------------
(* The space of a volume: what calc_used_blocks adds up is the number of   *)
(* blocks in files, and move_gap_after leaves all the others in one gap.   *)

-----------------------------------------------------------------------------
(* Induction over the natural numbers, as a fact about sets of them.       *)

\* Every set of numbers that is not empty has a least one.
LEMMA LeastNumber ==
    ASSUME NEW S, S \subseteq Nat, S # {}
    PROVE  \E m \in S : \A k \in S : m <= k
<1> DEFINE R == OpToRel(<, Nat)
<1>1. IsWellFoundedOn(R, Nat)
  BY NatLessThanWellFounded
<1>2. \A m, k \in Nat : k < m => <<k, m>> \in R
  BY DEF OpToRel
<1> HIDE DEF R
<1>3. PICK m \in S : \A k \in S : ~ (<<k, m>> \in R)
  BY <1>1, WFMin
<1>4. \A k \in S : ~ (k < m) /\ k \in Nat /\ m \in Nat
  BY <1>2, <1>3
<1>5. QED
  BY <1>4

\* A set that holds 0, and n + 1 with n, holds every number.
LEMMA NaturalInduction ==
    ASSUME NEW S, S \subseteq Nat, 0 \in S, \A n \in S : n + 1 \in S
    PROVE  S = Nat
<1> SUFFICES ASSUME S # Nat PROVE FALSE
  OBVIOUS
<1>1. PICK m \in Nat \ S : \A k \in Nat \ S : m <= k
  BY LeastNumber
<1>2. m # 0 /\ m - 1 \in Nat /\ m - 1 \in S
  BY <1>1
<1>3. QED
  BY <1>1, <1>2

-----------------------------------------------------------------------------
(* The sums that calc_used_blocks goes through.                            *)

\* The equation of the recursive function: a function that satisfies it exists
\* for every length, by induction, and so for the length of the list.
LEMMA SumsDef ==
    ASSUME NEW fs \in Seq(Entry)
    PROVE  Sums(fs) = [i \in 0 .. Len(fs) |->
                          IF i = 0 THEN LabelEnd ELSE Sums(fs)[i - 1] + Blocks(fs[i])]
<1> DEFINE Is(f, n) == f = [i \in 0 .. n |->
                               IF i = 0 THEN LabelEnd ELSE f[i - 1] + Blocks(fs[i])]
           S == {n \in Nat : \E f : Is(f, n)}
<1>1. 0 \in S
  <2>1. Is([i \in 0 .. 0 |-> LabelEnd], 0)
    OBVIOUS
  <2> HIDE DEF Is
  <2>2. QED
    BY <2>1
<1>2. ASSUME NEW n \in S PROVE n + 1 \in S
  <2>1. PICK f : Is(f, n)
    OBVIOUS
  <2> DEFINE g == [i \in 0 .. n + 1 |-> IF i = n + 1 THEN f[n] + Blocks(fs[n + 1]) ELSE f[i]]
  <2>2. \A i \in 0 .. n : f[i] = IF i = 0 THEN LabelEnd ELSE f[i - 1] + Blocks(fs[i])
    BY <2>1
  <2>3. ASSUME NEW i \in 0 .. n + 1
        PROVE  g[i] = IF i = 0 THEN LabelEnd ELSE g[i - 1] + Blocks(fs[i])
    <3>1. CASE i = n + 1
      <4>1. i # 0 /\ i - 1 = n /\ n \in 0 .. n + 1 /\ n # n + 1
        BY <3>1
      <4>2. g[n] = f[n] /\ g[i] = f[n] + Blocks(fs[n + 1])
        BY <3>1, <4>1
      <4>3. QED
        BY <3>1, <4>1, <4>2
    <3>2. CASE i = 0
      BY <2>2, <3>2
    <3>3. CASE i # 0 /\ i # n + 1
      <4>1. i \in 0 .. n /\ i - 1 \in 0 .. n + 1 /\ i - 1 # n + 1
        BY <3>3
      <4>2. g[i] = f[i] /\ g[i - 1] = f[i - 1]
        BY <3>3, <4>1
      <4>3. QED
        BY <2>2, <3>3, <4>1, <4>2
    <3>4. QED
      BY <3>1, <3>2, <3>3
  <2>4. g = [i \in 0 .. n + 1 |-> IF i = 0 THEN LabelEnd ELSE g[i - 1] + Blocks(fs[i])]
    <3>1. g = [i \in 0 .. n + 1 |-> g[i]]
      OBVIOUS
    <3> HIDE DEF g
    <3>2. QED
      BY <2>3, <3>1
  <2> HIDE DEF g
  <2>5. Is(g, n + 1)
    BY <2>4
  <2> HIDE DEF Is
  <2>6. QED
    BY <2>5
<1>3. Len(fs) \in S
  <2>1. S = Nat
    <3> HIDE DEF S
    <3>1. S \subseteq Nat
      BY DEF S
    <3>2. QED
      BY <1>1, <1>2, <3>1, NaturalInduction
  <2>2. QED
    BY <2>1, LenProperties
<1>4. PICK g : Is(g, Len(fs))
  BY <1>3
<1>5. Sums(fs) = CHOOSE s : Is(s, Len(fs))
  BY DEF Sums
<1> HIDE DEF Is
<1>6. Is(Sums(fs), Len(fs))
  BY <1>4, <1>5
<1>7. QED
  BY <1>6 DEF Is

\* The equation at one index.
LEMMA SumsAt ==
    ASSUME NEW fs \in Seq(Entry)
    PROVE  /\ Sums(fs)[0] = LabelEnd
           /\ \A i \in 1 .. Len(fs) : Sums(fs)[i] = Sums(fs)[i - 1] + Blocks(fs[i])
<1>1. Len(fs) \in Nat
  BY LenProperties
<1> DEFINE sum == Sums(fs)
<1>2. sum = [i \in 0 .. Len(fs) |-> IF i = 0 THEN LabelEnd ELSE sum[i - 1] + Blocks(fs[i])]
  BY SumsDef
<1> HIDE DEF sum
<1>3. sum[0] = LabelEnd
  BY <1>1, <1>2
<1>4. ASSUME NEW i \in 1 .. Len(fs) PROVE sum[i] = sum[i - 1] + Blocks(fs[i])
  <2>1. i \in 0 .. Len(fs) /\ i # 0
    BY <1>1
  <2>2. QED
    BY <1>2, <2>1
<1>5. QED
  BY <1>3, <1>4 DEF sum

\* The sums are numbers of blocks.
LEMMA SumsType ==
    ASSUME NEW fs \in Seq(Entry), Layout(fs)
    PROVE  \A i \in 0 .. Len(fs) : Sums(fs)[i] \in Nat
<1> DEFINE S == {n \in Nat : n <= Len(fs) => Sums(fs)[n] \in Nat}
<1>1. Len(fs) \in Nat
  BY LenProperties
<1>2. 0 \in S
  BY SumsAt, GeometryAssumption
<1>3. ASSUME NEW n \in S PROVE n + 1 \in S
  <2> SUFFICES ASSUME n + 1 <= Len(fs) PROVE Sums(fs)[n + 1] \in Nat
    OBVIOUS
  <2>1. n + 1 \in 1 .. Len(fs) /\ n + 1 - 1 = n /\ Sums(fs)[n] \in Nat
    BY <1>1
  <2>2. Blocks(fs[n + 1]) \in Nat
    BY <2>1, EntryAt
  <2>3. Sums(fs)[n + 1] = Sums(fs)[n] + Blocks(fs[n + 1])
    BY <2>1, SumsAt
  <2>4. QED
    BY <2>1, <2>2, <2>3
<1>4. S = Nat
  <2>1. S \subseteq Nat
    OBVIOUS
  <2> HIDE DEF S
  <2>2. QED
    BY <1>2, <1>3, <2>1, NaturalInduction
<1>5. QED
  BY <1>1, <1>4

\* Lists of files of the same lengths have the same sums.
LEMMA SameSums ==
    ASSUME NEW fs \in Seq(Entry), NEW gs \in Seq(Entry), Len(gs) = Len(fs),
           \A k \in 1 .. Len(fs) : Blocks(gs[k]) = Blocks(fs[k])
    PROVE  \A i \in 0 .. Len(fs) : Sums(gs)[i] = Sums(fs)[i]
<1> DEFINE S == {n \in Nat : n <= Len(fs) => Sums(gs)[n] = Sums(fs)[n]}
<1>1. Len(fs) \in Nat
  BY LenProperties
<1>2. 0 \in S
  BY SumsAt
<1>3. ASSUME NEW n \in S PROVE n + 1 \in S
  <2> SUFFICES ASSUME n + 1 <= Len(fs) PROVE Sums(gs)[n + 1] = Sums(fs)[n + 1]
    OBVIOUS
  <2>1. n + 1 \in 1 .. Len(fs) /\ n + 1 - 1 = n /\ Sums(gs)[n] = Sums(fs)[n]
    BY <1>1
  <2>2. Sums(fs)[n + 1] = Sums(fs)[n] + Blocks(fs[n + 1])
    BY <2>1, SumsAt
  <2>3. Sums(gs)[n + 1] = Sums(gs)[n] + Blocks(gs[n + 1])
    BY <2>1, SumsAt
  <2>4. QED
    BY <2>1, <2>2, <2>3
<1>4. S = Nat
  <2>1. S \subseteq Nat
    OBVIOUS
  <2> HIDE DEF S
  <2>2. QED
    BY <1>2, <1>3, <2>1, NaturalInduction
<1>5. QED
  BY <1>1, <1>4

\* The blocks from one to another.
LEMMA BlocksBetween ==
    ASSUME NEW a \in Nat, NEW b \in Nat, a <= b
    PROVE  IsFiniteSet(a .. b - 1) /\ Cardinality(a .. b - 1) = b - a
<1>1. b - 1 \in Int /\ a \in Int
  OBVIOUS
<1>2. /\ IsFiniteSet(a .. b - 1)
      /\ Cardinality(a .. b - 1) = IF a > b - 1 THEN 0 ELSE b - 1 - a + 1
  BY <1>1, FS_Interval
<1>3. QED
  BY <1>2

\* The blocks of the first i files.
Covered(fs, i) ==
    {b \in Block : \E k \in 1 .. i : fs[k].first <= b /\ b < fs[k].last}

\* Files that do not overlap cover as many blocks as their sizes add up to.
LEMMA CoveredSum ==
    ASSUME NEW fs \in Seq(Entry), Layout(fs)
    PROVE  \A i \in 0 .. Len(fs) :
              /\ IsFiniteSet(Covered(fs, i))
              /\ Cardinality(Covered(fs, i)) = Sums(fs)[i] - LabelEnd
<1> DEFINE Good(n) == /\ IsFiniteSet(Covered(fs, n))
                      /\ Cardinality(Covered(fs, n)) = Sums(fs)[n] - LabelEnd
           S == {n \in Nat : n <= Len(fs) => Good(n)}
<1>1. Len(fs) \in Nat
  BY LenProperties
<1>2. 0 \in S
  <2>1. Covered(fs, 0) = {}
    BY DEF Covered
  <2>2. Sums(fs)[0] = LabelEnd
    BY SumsAt
  <2>3. IsFiniteSet({}) /\ Cardinality({}) = LabelEnd - LabelEnd
    BY FS_EmptySet, GeometryAssumption
  <2>4. Good(0)
    BY <2>1, <2>2, <2>3
  <2>5. QED
    BY <2>4
<1>3. ASSUME NEW n \in S PROVE n + 1 \in S
  <2> SUFFICES ASSUME n + 1 <= Len(fs) PROVE Good(n + 1)
    OBVIOUS
  <2> DEFINE e == fs[n + 1]
             X == e.first .. e.last - 1
  <2>1. n \in Nat /\ n + 1 \in 1 .. Len(fs) /\ n + 1 - 1 = n /\ n \in 0 .. Len(fs) /\ Good(n)
    BY <1>1
  <2>2. /\ e.first \in Nat /\ e.last \in Nat /\ LabelEnd <= e.first
        /\ e.first <= e.last /\ e.last <= EndOfVolume
        /\ Blocks(e) \in Nat /\ e.first + Blocks(e) = e.last
    BY <2>1, EntryAt
  <2>3. Sums(fs)[n + 1] = Sums(fs)[n] + Blocks(e) /\ Sums(fs)[n] \in Nat
    BY <2>1, SumsAt, SumsType
  <2>4. IsFiniteSet(X) /\ Cardinality(X) = Blocks(e)
    <3>1. IsFiniteSet(X) /\ Cardinality(X) = e.last - e.first
      BY <2>2, BlocksBetween
    <3>2. QED
      BY <2>2, <3>1
  <2>5. Covered(fs, n + 1) = Covered(fs, n) \cup X
    <3>1. ASSUME NEW b \in X PROVE b \in Block
      BY <2>2, GeometryAssumption DEF Block
    <3>2. ASSUME NEW b, b \in X PROVE b \in Covered(fs, n + 1)
      <4>1. b \in Block /\ e.first <= b /\ b < e.last /\ n + 1 \in 1 .. n + 1
        BY <2>1, <2>2, <3>1, <3>2
      <4>2. QED
        BY <4>1 DEF Covered
    <3>3. Covered(fs, n) \subseteq Covered(fs, n + 1)
      <4>1. 1 .. n \subseteq 1 .. n + 1
        BY <2>1
      <4>2. QED
        BY <4>1 DEF Covered
    <3>4. ASSUME NEW b \in Covered(fs, n + 1) PROVE b \in Covered(fs, n) \cup X
      <4>1. PICK k \in 1 .. n + 1 : fs[k].first <= b /\ b < fs[k].last
        BY DEF Covered
      <4>2. b \in Block /\ b \in Int
        BY GeometryAssumption DEF Covered, Block
      <4>3. CASE k = n + 1
        BY <2>2, <4>1, <4>2, <4>3
      <4>4. CASE k # n + 1
        <5>1. k \in 1 .. n
          BY <2>1, <4>4
        <5>2. QED
          BY <4>1, <4>2, <5>1 DEF Covered
      <4>5. QED
        BY <4>3, <4>4
    <3>5. QED
      BY <3>2, <3>3, <3>4
  <2>6. Covered(fs, n) \cap X = {}
    <3> SUFFICES ASSUME NEW b \in X, b \in Covered(fs, n) PROVE FALSE
      OBVIOUS
    <3>1. PICK k \in 1 .. n : fs[k].first <= b /\ b < fs[k].last
      BY DEF Covered
    <3>2. k \in 1 .. Len(fs) /\ k < n + 1
      BY <1>1, <2>1
    <3>3. fs[k].last <= e.first /\ fs[k].last \in Nat
      BY <2>1, <3>2, EntryAt DEF Layout
    <3>4. QED
      BY <2>2, <3>1, <3>3
  <2>7. /\ IsFiniteSet(Covered(fs, n) \cup X)
        /\ Cardinality(Covered(fs, n) \cup X)
              = Cardinality(Covered(fs, n)) + Cardinality(X) - Cardinality(Covered(fs, n) \cap X)
    <3> HIDE DEF X
    <3>1. QED
      BY <2>1, <2>4, FS_Union
  <2>8. Cardinality(Covered(fs, n) \cap X) = 0
    BY <2>6, FS_EmptySet
  <2>9. /\ IsFiniteSet(Covered(fs, n + 1))
        /\ Cardinality(Covered(fs, n + 1)) = Sums(fs)[n] - LabelEnd + Blocks(e) - 0
    BY <2>1, <2>4, <2>5, <2>7, <2>8
  <2>10. QED
    BY <2>2, <2>3, <2>9, GeometryAssumption
<1>4. S = Nat
  <2>1. S \subseteq Nat
    OBVIOUS
  <2> HIDE DEF S
  <2>2. QED
    BY <1>2, <1>3, <2>1, NaturalInduction
<1>5. ASSUME NEW i \in 0 .. Len(fs) PROVE Good(i)
  <2>1. i \in Nat /\ i <= Len(fs)
    BY <1>1
  <2>2. i \in S
    BY <1>4, <2>1
  <2>3. QED
    BY <2>1, <2>2
<1>6. QED
  BY <1>5

\* Hence the blocks in no file are those that statfs counts.
LEMMA SpaceOfLayout ==
    ASSUME files \in Seq(Entry), Layout(files)
    PROVE  FreeSpaceExact
<1> DEFINE used == Covered(files, Len(files))
<1>1. Len(files) \in Nat /\ Len(files) \in 0 .. Len(files)
  BY LenProperties
<1>2. IsFiniteSet(used) /\ Cardinality(used) = UsedBlocks - LabelEnd /\ UsedBlocks \in Nat
  BY <1>1, CoveredSum, SumsType DEF UsedBlocks
<1>3. IsFiniteSet(Block) /\ Cardinality(Block) = EndOfVolume - LabelEnd
  BY BlocksBetween, GeometryAssumption DEF Block
<1>4. {b \in Block : ~InFile(files, b)} = Block \ used /\ Block \cap used = used
  BY DEF Covered, InFile
<1> HIDE DEF used
<1>5. Cardinality(Block \ used) = Cardinality(Block) - Cardinality(Block \cap used)
  BY <1>3, FS_Difference
<1>6. Cardinality({b \in Block : ~InFile(files, b)})
        = (EndOfVolume - LabelEnd) - (UsedBlocks - LabelEnd)
  BY <1>2, <1>3, <1>4, <1>5
<1>7. QED
  BY <1>2, <1>6, GeometryAssumption DEF FreeSpaceExact

\* The free space statfs reports is exactly the space that is in no file
\* (directory.cc:508-510).
THEOREM FreeSpace == Spec => []FreeSpaceExact
<1>1. VolumeInv => FreeSpaceExact
  BY SpaceOfLayout DEF VolumeInv, TypeOK, ExtentsDisjoint
<1>2. QED
  BY <1>1, Invariance, PTL

-----------------------------------------------------------------------------
(* The gap that move_gap_after makes.                                      *)

\* A step after which no pass of move_gap_after is under way.
LEMMA NoGap ==
    ASSUME pc' \notin {"down", "up", "gapSync", "gapTwin", "grow"},
           pc' \notin {"idle", "lost"} => ret' = "none"
    PROVE  SpaceInv'
BY DEF SpaceInv

\* A pass of move_gap_after starts.
LEMMA GapStarts ==
    ASSUME VolumeInv, files' = files, pc' = "down", ret' = "none", StartMoveGap
    PROVE  SpaceInv'
<1>1. files \in Seq(Entry) /\ loop'.j = 1 /\ loop'.low = LabelEnd
  BY DEF VolumeInv, TypeOK, StartMoveGap
<1>2. loop'.low = Sums(files')[loop'.j - 1]
  BY <1>1, SumsAt
<1>3. QED
  BY <1>2 DEF SpaceInv

\* relocate changes the place of one file, and the blocks of none.
LEMMA RelocatedSums ==
    ASSUME VolumeInv, Relocated, NEW j \in 1 .. Len(files), j = loop.j, Target \in Nat
    PROVE  /\ Len(files') = Len(files)
           /\ \A i \in 0 .. Len(files) : Sums(files')[i] = Sums(files)[i]
<1> DEFINE e == MovedTo(files[j], Target)
<1>1. files \in Seq(Entry) /\ Layout(files)
  BY DEF VolumeInv, TypeOK, ExtentsDisjoint
<1>2. files[j] \in Entry /\ Blocks(files[j]) \in Nat
  BY <1>1, EntryAt
<1>3. e \in Entry /\ e.first = Target /\ e.last = Target + Blocks(files[j])
  BY <1>2 DEF MovedTo, Entry
<1>4. files' = [files EXCEPT ![j] = e]
  BY DEF Relocated
<1> HIDE DEF e
<1>5. /\ files' \in Seq(Entry) /\ Len(files') = Len(files)
      /\ \A k \in 1 .. Len(files) : files'[k] = IF k = j THEN e ELSE files[k]
  BY <1>1, <1>3, <1>4, ReplaceEntry
<1>6. Blocks(e) = Blocks(files[j])
  <2>1. Blocks(e) = e.last - e.first
    BY DEF Blocks
  <2>2. QED
    BY <1>2, <1>3, <2>1
<1>7. \A k \in 1 .. Len(files) : Blocks(files'[k]) = Blocks(files[k])
  BY <1>5, <1>6
<1>8. QED
  BY <1>1, <1>5, <1>7, SameSums

\* The first pass packs the files below the gap one after the other.
LEMMA MoveDownSpace ==
    ASSUME VolumeInv, SpaceInv, MoveDown
    PROVE  SpaceInv'
<1> DEFINE j == loop.j
<1>1. /\ TypeOK /\ pc = "down" /\ files \in Seq(Entry) /\ Layout(files)
      /\ Len(files) \in Nat
      /\ op.idx \in 1 .. Len(files) /\ j \in 1 .. op.idx /\ j \in Nat
      /\ loop.high = EndOfVolume /\ loop.low \in Nat
  BY LenProperties DEF MoveDown, VolumeInv, TypeOK, ExtentsDisjoint, LoopInv
<1>2. /\ Relocated /\ Target = loop.low
      /\ loop'.j = (IF j = op.idx THEN Len(files) ELSE j + 1)
      /\ loop'.low = loop.low + Blocks(files[j]) /\ loop'.high = loop.high
      /\ pc' = (IF j = op.idx THEN "up" ELSE "down")
      /\ op' = op /\ ret' = ret
  BY <1>1 DEF MoveDown, Target
<1>3. files' \in Seq(Entry) /\ Layout(files')
  BY MoveDownStep DEF VolumeInv, TypeOK, ExtentsDisjoint
<1>4. j \in 1 .. Len(files) /\ Target \in Nat
  BY <1>1, <1>2
<1>5. /\ Len(files') = Len(files)
      /\ \A i \in 0 .. Len(files) : Sums(files')[i] = Sums(files)[i]
  BY <1>2, <1>4, RelocatedSums
<1>6. loop.low = Sums(files)[j - 1] /\ ret = "none"
  BY <1>1 DEF SpaceInv
<1> HIDE DEF j
<1>7. loop'.low = Sums(files')[j] /\ j \in 0 .. Len(files)
  <2>1. Sums(files)[j] = Sums(files)[j - 1] + Blocks(files[j])
    BY <1>1, <1>4, SumsAt
  <2>2. QED
    BY <1>1, <1>2, <1>4, <1>5, <1>6, <2>1
<1>8. CASE j = op.idx
  <2>1. EndOfVolume - loop'.high = UsedBlocks' - Sums(files')[loop'.j]
    <3>1. UsedBlocks' = Sums(files')[loop'.j]
      BY <1>2, <1>5, <1>8 DEF UsedBlocks
    <3>2. Sums(files')[Len(files)] \in Nat
      BY <1>1, <1>3, <1>5, SumsType
    <3>3. QED
      BY <1>1, <1>2, <1>5, <1>8, <3>1, <3>2, GeometryAssumption
  <2>2. QED
    BY <1>2, <1>6, <1>7, <1>8, <2>1 DEF SpaceInv
<1>9. CASE j # op.idx
  <2>1. loop'.j - 1 = j
    BY <1>1, <1>2, <1>4, <1>9
  <2>2. QED
    BY <1>2, <1>6, <1>7, <1>9, <2>1 DEF SpaceInv
<1>10. QED
  BY <1>8, <1>9

\* The second pass packs those above it against the end of the volume.
LEMMA MoveUpSpace ==
    ASSUME VolumeInv, SpaceInv, MoveUp
    PROVE  SpaceInv'
<1> DEFINE j == loop.j
<1>1. /\ TypeOK /\ pc = "up" /\ files \in Seq(Entry) /\ Layout(files)
      /\ Len(files) \in Nat /\ j > op.idx
      /\ op.idx \in 1 .. Len(files) /\ j \in op.idx .. Len(files) /\ j \in Nat
      /\ loop.high \in Nat
  BY LenProperties DEF MoveUp, VolumeInv, TypeOK, ExtentsDisjoint, LoopInv
<1>2. /\ Relocated /\ Target = loop.high - Blocks(files[j])
      /\ loop'.j = j - 1 /\ loop'.low = loop.low
      /\ loop'.high = loop.high - Blocks(files[j])
      /\ pc' = pc /\ op' = op /\ ret' = ret
  BY <1>1 DEF MoveUp, Target
<1>3. files[j].last <= loop.high
  BY <1>1 DEF VolumeInv, LoopInv
<1>4. j \in 1 .. Len(files) /\ j - 1 \in 0 .. Len(files) /\ j \in 0 .. Len(files)
      /\ Len(files) \in 0 .. Len(files) /\ op.idx \in 0 .. Len(files)
  BY <1>1
<1>5. Blocks(files[j]) \in Nat /\ Target \in Nat
  <2>1. /\ files[j].first \in Nat /\ Blocks(files[j]) \in Nat
        /\ files[j].first + Blocks(files[j]) = files[j].last
    BY <1>1, <1>4, EntryAt
  <2>2. loop.high - Blocks(files[j]) \in Nat
    BY <1>1, <1>3, <2>1
  <2>3. QED
    BY <1>2, <2>1, <2>2
<1>6. /\ Len(files') = Len(files)
      /\ \A i \in 0 .. Len(files) : Sums(files')[i] = Sums(files)[i]
  BY <1>2, <1>4, <1>5, RelocatedSums
<1>7. /\ loop.low = Sums(files)[op.idx] /\ ret = "none"
      /\ EndOfVolume - loop.high = Sums(files)[Len(files)] - Sums(files)[j]
  BY <1>1 DEF SpaceInv, UsedBlocks
<1>8. /\ Sums(files)[j] = Sums(files)[j - 1] + Blocks(files[j])
      /\ Sums(files)[j - 1] \in Nat /\ Sums(files)[j] \in Nat
      /\ Sums(files)[Len(files)] \in Nat
  BY <1>1, <1>4, SumsAt, SumsType
<1> HIDE DEF j
<1>9. EndOfVolume - loop'.high = Sums(files)[Len(files)] - Sums(files)[j - 1]
  <2> DEFINE n == Blocks(files[j])
             all == Sums(files)[Len(files)]
             upTo == Sums(files)[j]
             below == Sums(files)[j - 1]
  <2>1. /\ n \in Nat /\ all \in Nat /\ upTo \in Nat /\ below \in Nat
        /\ upTo = below + n /\ EndOfVolume - loop.high = all - upTo
        /\ loop'.high = loop.high - n /\ loop.high \in Nat
    BY <1>1, <1>2, <1>5, <1>7, <1>8
  <2> HIDE DEF n, all, upTo, below
  <2>2. EndOfVolume - loop'.high = all - below
    BY <2>1, GeometryAssumption
  <2>3. QED
    BY <2>2 DEF all, below
<1>10. UsedBlocks' = Sums(files)[Len(files)]
  BY <1>4, <1>6 DEF UsedBlocks
<1>11. Sums(files')[j - 1] = Sums(files)[j - 1] /\ Sums(files')[op.idx] = Sums(files)[op.idx]
  BY <1>4, <1>6
<1>12. QED
  BY <1>1, <1>2, <1>7, <1>9, <1>10, <1>11 DEF SpaceInv

\* meta_sync is over: the gap is the one that was made.
LEMMA SyncedSpace ==
    ASSUME VolumeInv, SpaceInv, Synced, files' = files,
           pc \in {"gapSync", "gapTwin", "sync", "twin"}
    PROVE  SpaceInv'
<1>1. CASE pc \in {"gapSync", "gapTwin"}
  <2>1. /\ pc' = "grow" /\ loop' = [loop EXCEPT !.changed = FALSE]
        /\ op' = op /\ ret' = ret
    BY <1>1 DEF Synced
  <2>2. loop'.low = loop.low /\ loop'.high = loop.high
    BY <2>1 DEF VolumeInv, TypeOK
  <2>3. QED
    BY <1>1, <2>1, <2>2 DEF SpaceInv, UsedBlocks
<1>2. CASE pc \notin {"gapSync", "gapTwin"}
  BY <1>2, NoGap DEF Synced, Return
<1>3. QED
  BY <1>1, <1>2

\* Every step keeps the account of the blocks.
LEMMA SpaceNext == VolumeInv /\ SpaceInv /\ [Next]_vars => SpaceInv'
<1> SUFFICES ASSUME VolumeInv, SpaceInv, [Next]_vars PROVE SpaceInv'
  OBVIOUS
<1>1. ASSUME NEW n \in Names, Mknod(n) \/ Unlink(n) PROVE SpaceInv'
  BY <1>1, NoGap DEF Mknod, Unlink, Refuse, Return, Start
<1>2. ASSUME NEW n \in Names, NEW m \in Names, Rename(n, m) PROVE SpaceInv'
  BY <1>2, NoGap DEF Rename, Refuse, Return, Start
<1>3. ASSUME NEW n \in Names, NEW kind, NEW offset, NEW end, NEW v,
             StartGrowing(kind, n, offset, end, v)
      PROVE  SpaceInv'
  <2> DEFINE i == IndexOf(files, n)
  <2>1. CASE /\ Start(kind, i, {n}, offset, end, v, "down") /\ StartMoveGap
             /\ UNCHANGED <<files, disk, image, backup, ro, fault>>
    BY <2>1, GapStarts DEF Start
  <2>2. CASE Start(kind, i, {n}, offset, end, v, PadOrData(i, kind, offset, end))
    BY <2>2, NoGap DEF Start, PadOrData
  <2>3. QED
    BY <1>3, <2>1, <2>2 DEF StartGrowing
<1>4. ASSUME NEW n \in Names, NEW size \in Sizes, Truncate(n, size) PROVE SpaceInv'
  BY <1>3, <1>4, NoGap DEF Truncate, Refuse, Return, Start
<1>5. ASSUME NEW n \in Names, NEW offset \in Offsets, NEW nbytes \in Lengths,
             NEW v \in Byte \ {Zero}, Write(n, offset, nbytes, v)
      PROVE  SpaceInv'
  BY <1>3, <1>5, NoGap DEF Write, Refuse, Return, Start
<1>6. CASE Crunch
  BY <1>6, GapStarts, NoGap DEF Crunch, Refuse, Return, Start
<1>7. CASE WipeUnused
  BY <1>7, NoGap DEF WipeUnused
<1>8. CASE GapMade
  BY <1>8 DEF GapMade, SpaceInv, UsedBlocks
<1>9. CASE Grow \/ Pad \/ PutData \/ PutHole \/ HoleUnreadable \/ HoleAborts
  <2>1. (ret' = ret /\ ret = "none") \/ pc' = "idle"
    BY <1>9 DEF Grow, Pad, PutData, PutHole, HoleUnreadable, HoleAborts, Refuse, Return,
       SpaceInv
  <2>2. pc' \notin {"down", "up", "gapSync", "gapTwin", "grow"}
    BY <1>9 DEF Grow, PadOrData, Pad, PutData, PutHole, HoleUnreadable, HoleAborts, Refuse,
       Return
  <2>3. QED
    BY <2>1, <2>2, NoGap
<1>10. CASE WriteDirectory
  <2>1. pc \in {"gapSync", "sync"} /\ files' = files
    BY <1>10 DEF WriteDirectory
  <2>2. CASE Synced
    BY <2>1, <2>2, SyncedSpace
  <2>3. CASE pc' = (IF pc = "sync" THEN "twin" ELSE "gapTwin")
             /\ UNCHANGED <<op, loop, ret, fault>>
    BY <2>1, <2>3 DEF SpaceInv, UsedBlocks
  <2>4. QED
    BY <1>10, <2>2, <2>3 DEF WriteDirectory
<1>11. CASE WriteSecondDirectory
  BY <1>11, SyncedSpace DEF WriteSecondDirectory
<1>12. CASE Failure
  BY <1>12, NoGap DEF Failure, DataFails, SyncFails, Fail, Return
<1>13. CASE End
  BY <1>13, NoGap DEF End, Restart, Remount, KilledInData, KilledInDirectory,
     KilledInSecondDirectory, Lost, Return
<1>14. CASE UNCHANGED vars
  BY <1>14 DEF vars, SpaceInv, UsedBlocks
<1>15. QED
  BY <1>1, <1>2, <1>4, <1>5, <1>6, <1>7, <1>8, <1>9, <1>10, <1>11, <1>12, <1>13, <1>14,
     MoveDownSpace, MoveUpSpace DEF Next, Request, Step

\* No block is lost between the files that move_gap_after has packed
\* (directory.cc:395-454).
THEOREM Packed == Spec => []SpaceInv
<1>1. Init => SpaceInv
  BY DEF Init, SpaceInv
<1>2. QED
  BY <1>1, SpaceNext, Invariance, PTL DEF Spec

\* Bytes that do not fit in g blocks need more than g blocks.
LEMMA RoundUpExceeds ==
    ASSUME NEW n \in Nat, NEW g \in Int, n > g * BlockSize
    PROVE  RoundUp(n) > g
<1> DEFINE q == (n + BlockSize - 1) \div BlockSize
<1>1. BlockSize \in Nat /\ BlockSize > 0
  BY BlockSizeAssumption
<1>2. q \in Int /\ n + BlockSize - 1 < (q + 1) * BlockSize
  BY <1>1
<1>3. q > g
  <2> SUFFICES ASSUME q <= g PROVE FALSE
    BY <1>2
  <2>1. q * BlockSize <= g * BlockSize
    BY <1>1, <1>2
  <2>2. (q + 1) * BlockSize = q * BlockSize + BlockSize /\ q * BlockSize \in Int
        /\ g * BlockSize \in Int
    BY <1>1, <1>2
  <2> HIDE DEF q
  <2>3. QED
    BY <1>1, <1>2, <2>1, <2>2
<1>4. QED
  BY <1>3 DEF RoundUp

\* When the data does not fit in the gap, it does not fit in the free space.
LEMMA SpaceRefused ==
    ASSUME VolumeInv, SpaceInv, [Next]_vars, pc = "grow", ret' = "ENOSPC"
    PROVE  RoundUp(op.end) - Blocks(files[op.idx]) > EndOfVolume - UsedBlocks
<1>1. ret = "none"
  BY DEF SpaceInv
<1>2. ~Fits(files[op.idx], loop.high - loop.low, op.end)
  <2>1. Grow
    BY <1>1 DEF Next, vars, Request, Mknod, Unlink, Rename, Truncate, Write, Crunch, WipeUnused,
       Step, MoveDown, MoveUp, GapMade, Pad, PutData, PutHole, HoleUnreadable, HoleAborts,
       WriteDirectory, WriteSecondDirectory, Failure, DataFails, MoveStops, Relocating,
       DataStops, HoleStops, SyncFails, Fail, End, Restart, Remount, KilledInData,
       KilledInDirectory, KilledInSecondDirectory, Lost, Return
  <2>2. QED
    BY <1>1, <2>1 DEF Grow, Refuse, Return
<1> DEFINE n == Blocks(files[op.idx])
           here == Sums(files)[op.idx]
           gap == loop.high - loop.low
<1>3. /\ files \in Seq(Entry) /\ Layout(files) /\ Len(files) \in Nat
      /\ op.idx \in 1 .. Len(files) /\ op.end \in Nat
      /\ loop.low \in Nat /\ loop.high \in Nat
  BY LenProperties DEF VolumeInv, TypeOK, ExtentsDisjoint, LoopInv
<1>4. op.idx \in 0 .. Len(files) /\ Len(files) \in 0 .. Len(files)
  BY <1>3
<1>5. n \in Nat /\ here \in Nat /\ UsedBlocks \in Nat
  BY <1>3, <1>4, EntryAt, SumsType DEF UsedBlocks
<1>6. loop.low = here /\ EndOfVolume - loop.high = UsedBlocks - here
  BY DEF SpaceInv
<1>7. op.end > (n + gap) * BlockSize
  <2>1. n + gap \in Int
    BY <1>3, <1>5
  <2>2. (n + gap) * BlockSize \in Int
    BY <2>1, BlockSizeAssumption
  <2>3. QED
    BY <1>2, <1>3, <2>2 DEF Fits
<1>8. RoundUp(op.end) > n + gap /\ RoundUp(op.end) \in Nat
  <2> DEFINE room == n + gap
  <2>1. room \in Int /\ op.end > room * BlockSize
    BY <1>3, <1>5, <1>7
  <2> HIDE DEF room
  <2>2. RoundUp(op.end) > room /\ RoundUp(op.end) \in Nat
    BY <1>3, <2>1, RoundUpExceeds, RoundUpType
  <2>3. QED
    BY <2>2 DEF room
<1> HIDE DEF n, here
<1>9. gap = EndOfVolume - UsedBlocks /\ gap \in Int
  BY <1>3, <1>5, <1>6, GeometryAssumption
<1> HIDE DEF gap
<1>10. RoundUp(op.end) - n > EndOfVolume - UsedBlocks
  BY <1>5, <1>8, <1>9
<1>11. QED
  BY <1>10 DEF n

\* A write or truncate is refused only when the whole volume lacks the blocks it
\* needs, however the files lay before (file.cc:524, 347; directory.cc:395-454).
THEOREM NoSpace == Spec => NoSpaceIsReal
<1>1. VolumeInv /\ SpaceInv /\ [Next]_vars =>
         [pc = "grow" /\ ret' = "ENOSPC" =>
             RoundUp(op.end) - Blocks(files[op.idx]) > EndOfVolume - UsedBlocks]_vars
  BY SpaceRefused
<1>2. QED
  BY <1>1, Invariance, Packed, PTL DEF Spec, NoSpaceIsReal

-----------------------------------------------------------------------------
(* Files by name.                                                          *)

\* Two directories have the same entry of name n, or both have none.
SameFile(fs, gs, n) ==
    /\ Named(fs, n) <=> Named(gs, n)
    /\ Named(fs, n) => gs[IndexOf(gs, n)] = fs[IndexOf(fs, n)]

\* A name that one entry has is found at that entry.
LEMMA FoundAt ==
    ASSUME NEW fs, NEW k \in 1 .. Len(fs), NEW n, fs[k].name = n,
           \A i, j \in 1 .. Len(fs) : fs[i].name = n /\ fs[j].name = n => i = j
    PROVE  Named(fs, n) /\ IndexOf(fs, n) = k
BY DEF Named, IndexOf

\* What has to be shown of two lists for a name to be of the same file in both.
LEMMA SameFileBy ==
    ASSUME NEW fs, NEW gs, NEW n,
           \A i, j \in 1 .. Len(gs) : gs[i].name = n /\ gs[j].name = n => i = j,
           \A k \in 1 .. Len(fs) : fs[k].name = n => \E l \in 1 .. Len(gs) : gs[l] = fs[k],
           \A l \in 1 .. Len(gs) : gs[l].name = n => Named(fs, n)
    PROVE  SameFile(fs, gs, n)
<1>1. CASE Named(fs, n)
  <2>1. IndexOf(fs, n) \in 1 .. Len(fs) /\ fs[IndexOf(fs, n)].name = n
    BY <1>1 DEF Named, IndexOf
  <2>2. PICK l \in 1 .. Len(gs) : gs[l] = fs[IndexOf(fs, n)]
    BY <2>1
  <2>3. Named(gs, n) /\ IndexOf(gs, n) = l
    BY <2>1, <2>2, FoundAt
  <2>4. QED
    BY <1>1, <2>2, <2>3 DEF SameFile
<1>2. CASE ~Named(fs, n)
  BY <1>2 DEF SameFile, Named
<1>3. QED
  BY <1>1, <1>2

LEMMA SameFileAppend ==
    ASSUME NEW fs \in Seq(Entry), UniqueNames(fs), NEW e \in Entry, ~Named(fs, e.name),
           NEW n, n # e.name
    PROVE  SameFile(fs, Append(fs, e), n)
<1> DEFINE gs == Append(fs, e)
<1>1. /\ Len(fs) \in Nat /\ Len(gs) = Len(fs) + 1
      /\ \A k \in 1 .. Len(fs) : gs[k] = fs[k]
      /\ gs[Len(fs) + 1] = e
  BY LenProperties, AppendEntry
<1> HIDE DEF gs
<1>2. \A l \in 1 .. Len(gs) : gs[l].name = n => l \in 1 .. Len(fs) /\ fs[l].name = n
  BY <1>1
<1>3. \A i, j \in 1 .. Len(gs) : gs[i].name = n /\ gs[j].name = n => i = j
  BY <1>2 DEF UniqueNames
<1>4. \A k \in 1 .. Len(fs) : fs[k].name = n => \E l \in 1 .. Len(gs) : gs[l] = fs[k]
  <2>1. \A k \in 1 .. Len(fs) : k \in 1 .. Len(gs)
    BY <1>1
  <2>2. QED
    BY <1>1, <2>1
<1>5. \A l \in 1 .. Len(gs) : gs[l].name = n => Named(fs, n)
  BY <1>2 DEF Named
<1>6. SameFile(fs, gs, n)
  BY <1>3, <1>4, <1>5, SameFileBy
<1>7. QED
  BY <1>6 DEF gs

LEMMA SameFileErase ==
    ASSUME NEW fs \in Seq(Entry), NEW i \in 1 .. Len(fs), UniqueNames(Erase(fs, i)),
           NEW n, n # fs[i].name
    PROVE  SameFile(fs, Erase(fs, i), n)
<1> DEFINE gs == Erase(fs, i)
           new(k) == IF k < i THEN k ELSE k - 1
           old(k) == IF k < i THEN k ELSE k + 1
<1>1. /\ Len(fs) \in Nat /\ Len(gs) = Len(fs) - 1
      /\ \A k \in 1 .. Len(fs) - 1 : gs[k] = IF k < i THEN fs[k] ELSE fs[k + 1]
  BY LenProperties, EraseEntry
<1>2. UniqueNames(gs)
  OBVIOUS
<1> HIDE DEF gs
<1>3. \A k \in 1 .. Len(fs) : k # i => new(k) \in 1 .. Len(gs) /\ gs[new(k)] = fs[k]
  BY <1>1
<1>4. \A l \in 1 .. Len(gs) : old(l) \in 1 .. Len(fs) /\ gs[l] = fs[old(l)]
  BY <1>1
<1> HIDE DEF new, old
<1>5. \A k \in 1 .. Len(fs) : fs[k].name = n => \E l \in 1 .. Len(gs) : gs[l] = fs[k]
  BY <1>3
<1>6. \A l \in 1 .. Len(gs) : gs[l].name = n => Named(fs, n)
  BY <1>4 DEF Named
<1>7. SameFile(fs, gs, n)
  BY <1>2, <1>5, <1>6, SameFileBy DEF UniqueNames
<1>8. QED
  BY <1>7 DEF gs

\* An entry replaced by one of another name, or of the same.
LEMMA SameFileReplace ==
    ASSUME NEW fs \in Seq(Entry), UniqueNames(fs), NEW i \in 1 .. Len(fs), NEW e \in Entry,
           NEW n, n # fs[i].name, n # e.name
    PROVE  SameFile(fs, [fs EXCEPT ![i] = e], n)
<1> DEFINE gs == [fs EXCEPT ![i] = e]
<1>1. /\ Len(gs) = Len(fs)
      /\ \A k \in 1 .. Len(fs) : gs[k] = IF k = i THEN e ELSE fs[k]
  BY ReplaceEntry
<1> HIDE DEF gs
<1>2. \A l \in 1 .. Len(gs) : gs[l].name = n => l # i /\ l \in 1 .. Len(fs) /\ fs[l].name = n
  BY <1>1
<1>3. \A k, j \in 1 .. Len(gs) : gs[k].name = n /\ gs[j].name = n => k = j
  BY <1>2 DEF UniqueNames
<1>4. \A k \in 1 .. Len(fs) : fs[k].name = n => \E l \in 1 .. Len(gs) : gs[l] = fs[k]
  BY <1>1
<1>5. \A l \in 1 .. Len(gs) : gs[l].name = n => Named(fs, n)
  BY <1>2 DEF Named
<1>6. SameFile(fs, gs, n)
  BY <1>3, <1>4, <1>5, SameFileBy
<1>7. QED
  BY <1>6 DEF gs

LEMMA SameFileTrans ==
    ASSUME NEW fs, NEW gs, NEW hs, NEW n, SameFile(fs, gs, n), SameFile(gs, hs, n)
    PROVE  SameFile(fs, hs, n)
BY DEF SameFile

-----------------------------------------------------------------------------
(* The bytes of a file.                                                    *)

\* The bytes of an entry on a disk.
ContentIn(d, e) ==
    [o \in 0 .. CurrentSize(e) - 1 |-> d[e.first + o \div BlockSize][o % BlockSize]]

LEMMA ContentIsContentIn == \A e : Content(e) = ContentIn(disk, e)
BY DEF Content, ContentIn

\* Byte o of g blocks is in one of them.
LEMMA ByteInBlock ==
    ASSUME NEW o \in Nat, NEW g \in Int, o < g * BlockSize
    PROVE  /\ o \div BlockSize \in Nat /\ o \div BlockSize < g
           /\ o % BlockSize \in Index
           /\ (o \div BlockSize) * BlockSize + (o % BlockSize) = o
<1> DEFINE q == o \div BlockSize
           r == o % BlockSize
<1>1. BlockSize \in Nat /\ BlockSize > 0
  BY BlockSizeAssumption
<1>2. q \in Nat /\ r \in 0 .. BlockSize - 1 /\ o = q * BlockSize + r
  <2>1. q \in Int /\ q * BlockSize <= o /\ o < (q + 1) * BlockSize
    BY <1>1
  <2>2. r \in 0 .. BlockSize - 1
    BY <1>1
  <2>3. o = q * BlockSize + r
    BY <1>1
  <2>4. q >= 0
    <3> SUFFICES ASSUME q <= -1 PROVE FALSE
      BY <2>1
    <3>1. (q + 1) * BlockSize <= 0 * BlockSize
      BY <1>1, <2>1
    <3>2. QED
      BY <1>1, <2>1, <3>1
  <2>5. QED
    BY <2>1, <2>2, <2>3, <2>4
<1>3. q < g
  <2> SUFFICES ASSUME q >= g PROVE FALSE
    BY <1>2
  <2> HIDE DEF q, r
  <2>1. q * BlockSize >= g * BlockSize /\ q * BlockSize \in Int /\ g * BlockSize \in Int
    BY <1>1, <1>2
  <2>2. QED
    BY <1>1, <1>2, <2>1
<1> HIDE DEF q, r
<1>4. r \in Index /\ q * BlockSize + r = o
  BY <1>1, <1>2 DEF Index
<1>5. QED
  BY <1>2, <1>3, <1>4 DEF q, r

\* The bytes of a file are in the blocks of its extent.
LEMMA ByteOfFile ==
    ASSUME NEW e \in Entry, e.first <= e.last, NEW o \in 0 .. CurrentSize(e) - 1
    PROVE  /\ o \in Nat
           /\ o \div BlockSize \in Nat /\ o % BlockSize \in Index
           /\ e.first + o \div BlockSize \in e.first .. e.last - 1
           /\ (e.first + o \div BlockSize - e.first) * BlockSize + (o % BlockSize) = o
<1>1. /\ Blocks(e) \in Nat /\ CurrentSize(e) \in Nat
      /\ CurrentSize(e) <= Blocks(e) * BlockSize
      /\ e.first \in Nat /\ e.last \in Nat /\ Blocks(e) = e.last - e.first
  BY SizeBounds DEF Entry, Blocks
<1>2. o \in Nat /\ o < Blocks(e) * BlockSize
  <2>1. Blocks(e) * BlockSize \in Int
    BY <1>1, BlockSizeAssumption
  <2>2. QED
    BY <1>1, <2>1
<1> DEFINE q == o \div BlockSize
<1>3. q \in Nat /\ q < Blocks(e) /\ o % BlockSize \in Index
      /\ q * BlockSize + (o % BlockSize) = o
  BY <1>1, <1>2, ByteInBlock
<1> HIDE DEF q
<1>4. e.first + q \in e.first .. e.last - 1 /\ e.first + q - e.first = q
  BY <1>1, <1>3
<1>5. QED
  BY <1>2, <1>3, <1>4 DEF q

\* A byte that a file uses is in a block of its extent.
LEMMA UsedInExtent ==
    ASSUME NEW e \in Entry, e.first <= e.last, NEW b \in Int, NEW i \in Index,
           (b - e.first) * BlockSize + i \in 0 .. CurrentSize(e) - 1
    PROVE  e.first <= b /\ b < e.last
<1> DEFINE k == b - e.first
<1>1. /\ Blocks(e) \in Nat /\ CurrentSize(e) \in Nat
      /\ CurrentSize(e) <= Blocks(e) * BlockSize
      /\ e.first \in Nat /\ e.last \in Nat /\ Blocks(e) = e.last - e.first
  BY SizeBounds DEF Entry, Blocks
<1>2. BlockSize \in Nat /\ BlockSize > 0 /\ i \in 0 .. BlockSize - 1 /\ k \in Int
  BY <1>1, BlockSizeAssumption DEF Index
<1>3. k * BlockSize + i >= 0 /\ k * BlockSize + i < Blocks(e) * BlockSize
      /\ k * BlockSize \in Int /\ Blocks(e) * BlockSize \in Int
  BY <1>1, <1>2
<1> HIDE DEF k
<1>4. k >= 0
  <2> SUFFICES ASSUME k <= -1 PROVE FALSE
    BY <1>2
  <2>1. k * BlockSize <= (-1) * BlockSize
    BY <1>2
  <2>2. QED
    BY <1>2, <1>3, <2>1
<1>5. k < Blocks(e)
  <2> SUFFICES ASSUME k >= Blocks(e) PROVE FALSE
    BY <1>1, <1>2
  <2>1. k * BlockSize >= Blocks(e) * BlockSize
    BY <1>1, <1>2
  <2>2. QED
    BY <1>2, <1>3, <2>1
<1>6. QED
  BY <1>1, <1>2, <1>4, <1>5 DEF k

\* A file whose blocks did not change has the bytes it had.
LEMMA ContentFrame ==
    ASSUME NEW e \in Entry, e.first <= e.last, NEW d, NEW f,
           \A b \in e.first .. e.last - 1 : f[b] = d[b]
    PROVE  ContentIn(f, e) = ContentIn(d, e)
<1>1. ASSUME NEW o \in 0 .. CurrentSize(e) - 1
      PROVE  f[e.first + o \div BlockSize][o % BlockSize]
               = d[e.first + o \div BlockSize][o % BlockSize]
  BY ByteOfFile
<1>2. QED
  BY <1>1 DEF ContentIn

\* Bytes put in g blocks from b0 on change no other block.
LEMMA FillFrame ==
    ASSUME NEW d \in [Block -> [Index -> Byte]], NEW b0 \in Int, NEW lo \in Nat,
           NEW hi \in Int, NEW g \in Nat, hi <= g * BlockSize, NEW v,
           NEW b \in Block, b < b0 \/ b >= b0 + g
    PROVE  Fill(d, b0, lo, hi, v)[b] = d[b]
<1> DEFINE k == b - b0
<1>1. /\ BlockSize \in Nat /\ BlockSize > 0
      /\ b \in Int /\ k \in Int /\ k * BlockSize \in Int /\ g * BlockSize \in Int
  BY BlockSizeAssumption, GeometryAssumption DEF Block
<1>2. k < 0 \/ k >= g
  BY <1>1
<1>3. (b - b0) * BlockSize = k * BlockSize
  OBVIOUS
<1> HIDE DEF k
<1>4. ASSUME NEW i \in Index PROVE k * BlockSize + i \notin lo .. hi - 1
  <2>1. i \in 0 .. BlockSize - 1
    BY DEF Index
  <2>2. CASE k < 0
    <3>1. k <= -1
      BY <1>1, <2>2
    <3>2. k * BlockSize <= (-1) * BlockSize
      BY <1>1, <3>1
    <3>3. QED
      BY <1>1, <2>1, <3>2
  <2>3. CASE k >= g
    <3>1. k * BlockSize >= g * BlockSize
      BY <1>1, <2>3
    <3>2. QED
      BY <1>1, <2>1, <3>1
  <2>4. QED
    BY <1>2, <2>2, <2>3
<1>5. Fill(d, b0, lo, hi, v)[b] = [i \in Index |->
          IF k * BlockSize + i \in lo .. hi - 1 THEN v ELSE d[b][i]]
  BY <1>3 DEF Fill
<1>6. d[b] = [i \in Index |-> d[b][i]]
  OBVIOUS
<1>7. QED
  BY <1>4, <1>5, <1>6

\* Blocks copied to a place change no block outside of it.
LEMMA CopiedFrame ==
    ASSUME NEW d, NEW from, NEW to \in Int, NEW lo \in Int, NEW hi \in Int,
           NEW b \in Block, b < to + lo \/ b >= to + hi
    PROVE  Copied(d, from, to, lo, hi)[b] = d[b]
<1>1. b \in Int
  BY GeometryAssumption DEF Block
<1>2. b - to \notin lo .. hi - 1
  BY <1>1
<1>3. QED
  BY <1>2 DEF Copied

\* A file that was moved whole has the bytes it had.
LEMMA MovedContent ==
    ASSUME NEW e \in Entry, e.first <= e.last, NEW to \in Nat, LabelEnd <= to,
           to + Blocks(e) <= EndOfVolume, NEW d
    PROVE  ContentIn(Copied(d, e.first, to, 0, Blocks(e)), MovedTo(e, to)) = ContentIn(d, e)
<1> DEFINE n == Blocks(e)
           m == MovedTo(e, to)
           c == Copied(d, e.first, to, 0, n)
<1>1. e.first \in Nat /\ e.last \in Nat /\ n \in Nat /\ n = e.last - e.first
  BY DEF Entry, Blocks
<1>2. m.first = to /\ m.last = to + n /\ m.lastbyte = e.lastbyte
  BY DEF MovedTo
<1>3. CurrentSize(m) = CurrentSize(e)
  <2>1. Blocks(m) = n
    BY <1>1, <1>2 DEF Blocks
  <2>2. m.first >= m.last <=> e.first >= e.last
    BY <1>1, <1>2
  <2>3. QED
    BY <1>2, <2>1, <2>2 DEF CurrentSize
<1> HIDE DEF m
<1>4. ASSUME NEW o \in 0 .. CurrentSize(e) - 1
      PROVE  c[to + o \div BlockSize] = d[e.first + o \div BlockSize]
  <2> DEFINE q == o \div BlockSize
  <2>1. q \in Nat /\ e.first + q \in e.first .. e.last - 1
    BY ByteOfFile
  <2> HIDE DEF q
  <2>2. q \in 0 .. n - 1 /\ to + q - to = q /\ to + q \in LabelEnd .. EndOfVolume - 1
        /\ q + e.first = e.first + q
    BY <1>1, <2>1, GeometryAssumption
  <2>3. c[to + q] = d[e.first + q]
    BY <2>2 DEF Copied, Block
  <2>4. QED
    BY <2>3 DEF q
<1>5. QED
  BY <1>2, <1>3, <1>4 DEF ContentIn, m

-----------------------------------------------------------------------------
(* Where the calls that move or write data put their bytes.                *)

\* The blocks that n bytes need hold them.
LEMMA RoundUpCovers ==
    ASSUME NEW n \in Nat
    PROVE  RoundUp(n) \in Nat /\ n <= RoundUp(n) * BlockSize
<1>1. RoundUp(n) \in Nat
  BY RoundUpType
<1>2. RoundUp(n) * BlockSize \in Int
  BY <1>1, BlockSizeAssumption
<1>3. n > RoundUp(n) * BlockSize => RoundUp(n) > RoundUp(n)
  BY <1>1, RoundUpExceeds
<1>4. QED
  BY <1>1, <1>2, <1>3

\* The data of a hole stays in the last block, one byte further on when the
\* offset is odd: the assertion of the code leaves room for it.
LEMMA HoleFits ==
    ASSUME op.offset \in Nat, op.end \in Nat, op.offset < op.end, HoleAssertion
    PROVE  /\ HoleStart \in Nat /\ op.offset <= HoleStart
           /\ HoleStart + (op.end - op.offset) \in Nat
           /\ HoleStart + (op.end - op.offset) <= RoundUp(op.end) * BlockSize
<1> DEFINE o == op.offset
           n == op.end
           q == o \div BlockSize
           r == o % BlockSize
           p == o % 2
<1>1. BlockSize \in Nat /\ BlockSize > 0 /\ o \in Nat /\ n \in Nat /\ o < n
  BY BlockSizeAssumption
<1>2. /\ q \in Nat /\ r \in 0 .. BlockSize - 1 /\ q * BlockSize + r = o
      /\ p \in {0, 1} /\ p <= o
  <2>1. o < (o + 1) * BlockSize
    <3>1. (o + 1) * 1 <= (o + 1) * BlockSize
      BY <1>1
    <3>2. QED
      BY <1>1, <3>1
  <2>2. q \in Nat /\ r \in Index /\ q * BlockSize + r = o
    <3> HIDE DEF o
    <3>1. o + 1 \in Int
      BY <1>1
    <3>2. QED
      BY <1>1, <2>1, <3>1, ByteInBlock
  <2>3. p \in {0, 1} /\ p <= o
    BY <1>1
  <2>4. QED
    BY <2>2, <2>3 DEF Index
<1>3. n - o < BlockSize - r
  BY DEF HoleAssertion
<1>4. HoleStart = (o - r) + p + r
  BY DEF HoleStart, HoleBase
<1> HIDE DEF o, n, q, r, p
<1>5. HoleStart = o + p /\ HoleStart \in Nat
  BY <1>1, <1>2, <1>4
<1> DEFINE base == q * BlockSize
<1>6. base \in Int /\ n + p <= base + BlockSize /\ n > base
  BY <1>1, <1>2, <1>3
<1>7. RoundUp(n) \in Nat /\ RoundUp(n) >= q + 1
  <2>1. RoundUp(n) > q
    BY <1>1, <1>2, <1>6, RoundUpExceeds
  <2>2. QED
    BY <1>1, <1>2, <2>1, RoundUpType
<1>8. (q + 1) * BlockSize = base + BlockSize /\ (q + 1) * BlockSize <= RoundUp(n) * BlockSize
  BY <1>1, <1>2, <1>7
<1>9. RoundUp(n) * BlockSize \in Int
  BY <1>1, <1>7
<1> HIDE DEF base
<1>10. /\ o <= HoleStart /\ HoleStart + (n - o) = n + p
       /\ n + p \in Nat /\ n + p <= RoundUp(n) * BlockSize
  BY <1>1, <1>2, <1>5, <1>6, <1>8, <1>9
<1>11. QED
  BY <1>5, <1>10 DEF o, n

\* The bytes a handler has written, or some of them, are those from lo to hi.
Filled(lo, hi, v) ==
    /\ hi <= RoundUp(op.end) * BlockSize
    /\ disk' = Fill(disk, files[op.idx].first, lo, hi, v)

\* Whole or not, a call that writes data stays in the blocks that the data needs.
LEMMA DataCalls ==
    ASSUME VolumeInv, HandlerInv, Pad \/ PutData \/ PutHole \/ DataStops \/ HoleStops
    PROVE  /\ pc \in {"pad", "data", "hole"}
           /\ \/ disk' = disk
              \/ \E lo \in Nat, hi \in Int, v \in Byte : Filled(lo, hi, v)
<1> DEFINE e == files[op.idx]
           Goal == \E lo \in Nat, hi \in Int, v \in Byte : Filled(lo, hi, v)
<1>1. pc \in {"pad", "data", "hole"}
  BY DEF Pad, PutData, PutHole, DataStops, HoleStops
<1>2. /\ op.offset \in Nat /\ op.end \in Nat /\ op.value \in Byte
      /\ CurrentSize(e) \in Nat
      /\ op.kind # "crunch" /\ op.offset <= op.end
  <2>1. files \in Seq(Entry) /\ Layout(files) /\ op.idx \in 1 .. Len(files)
    BY <1>1 DEF VolumeInv, TypeOK, ExtentsDisjoint, LoopInv
  <2>2. op.offset \in Nat /\ op.end \in Nat /\ op.value \in Byte
    BY DEF VolumeInv, TypeOK
  <2>3. op.kind # "crunch" /\ op.offset <= op.end
    BY <1>1 DEF HandlerInv
  <2>4. QED
    BY <2>1, <2>2, <2>3, EntryAt
<1>3. /\ RoundUp(op.end) \in Nat /\ op.end <= RoundUp(op.end) * BlockSize
      /\ RoundUp(op.end) * BlockSize \in Int
  BY <1>2, RoundUpCovers, BlockSizeAssumption
<1>4. PadEnd \in Nat /\ PadEnd <= op.end
  BY <1>2 DEF PadEnd
<1>5. ASSUME NEW lo \in Nat, NEW hi \in Nat, hi <= op.end, NEW v \in Byte,
             NEW m \in lo .. hi, disk' = Fill(disk, e.first, lo, m, v)
      PROVE  Goal
  <2>1. m \in Int /\ m <= RoundUp(op.end) * BlockSize
    BY <1>2, <1>3, <1>5
  <2>2. Filled(lo, m, v)
    BY <1>5, <2>1 DEF Filled
  <2>3. QED
    BY <2>1, <2>2
<1>6. CASE Pad
  <2>1. pc = "pad" /\ disk' = Fill(disk, e.first, CurrentSize(e), PadEnd, Zero)
    BY <1>6 DEF Pad
  <2>2. Filled(CurrentSize(e), PadEnd, Zero)
    BY <1>2, <1>3, <1>4, <2>1 DEF Filled
  <2>3. QED
    BY <1>1, <1>2, <1>4, <2>2, ByteAssumption
<1>7. CASE PutData
  <2>1. Filled(op.offset, op.end, op.value)
    BY <1>3, <1>7 DEF PutData, Filled
  <2>2. QED
    BY <1>1, <1>2, <2>1
<1>8. CASE DataStops
  <2>1. CASE pc = "pad"
    <3>1. PICK m \in CurrentSize(e) .. PadEnd - 1 :
             disk' = Fill(disk, e.first, CurrentSize(e), m, Zero)
      BY <1>8, <2>1 DEF DataStops
    <3>2. m \in CurrentSize(e) .. PadEnd
      BY <1>2, <1>4
    <3>3. QED
      BY <1>1, <1>2, <1>4, <1>5, <3>1, <3>2, ByteAssumption
  <2>2. CASE pc # "pad"
    <3>1. PICK m \in op.offset .. op.end - 1 :
             disk' = Fill(disk, e.first, op.offset, m, op.value)
      BY <1>8, <2>2 DEF DataStops
    <3>2. m \in op.offset .. op.end
      BY <1>2
    <3>3. QED
      BY <1>1, <1>2, <1>5, <3>1, <3>2
  <2>3. QED
    BY <2>1, <2>2
<1>9. CASE HoleAssertion /\ pc = "hole" /\ disk' = HoleFilled
  <2>1. op.offset < op.end
    BY <1>9 DEF HandlerInv
  <2>2. /\ HoleStart \in Nat /\ HoleStart + (op.end - op.offset) \in Nat
        /\ HoleStart + (op.end - op.offset) <= RoundUp(op.end) * BlockSize
    BY <1>2, <1>9, <2>1, HoleFits
  <2>3. Filled(HoleStart, HoleStart + (op.end - op.offset), op.value)
    BY <1>9, <2>2 DEF HoleFilled, Filled
  <2>4. QED
    BY <1>1, <1>2, <2>2, <2>3
<1>10. CASE PutHole
  BY <1>9, <1>10 DEF PutHole
<1>11. CASE HoleStops
  BY <1>1, <1>9, <1>11 DEF HoleStops
<1>12. QED
  BY <1>6, <1>7, <1>8, <1>10, <1>11

\* No block of another file is among them.
LEMMA DataFrame ==
    ASSUME VolumeInv, HandlerInv, Pad \/ PutData \/ PutHole \/ DataStops \/ HoleStops,
           NEW k \in 1 .. Len(files), k # op.idx
    PROVE  \A b \in files[k].first .. files[k].last - 1 : disk'[b] = disk[b]
<1>1. /\ pc \in {"pad", "data", "hole"}
      /\ \/ disk' = disk
         \/ \E lo \in Nat, hi \in Int, v \in Byte : Filled(lo, hi, v)
  BY DataCalls
<1>2. /\ files \in Seq(Entry) /\ Layout(files) /\ op.idx \in 1 .. Len(files)
      /\ disk \in [Block -> [Index -> Byte]] /\ op.end \in Nat
  BY <1>1 DEF VolumeInv, TypeOK, ExtentsDisjoint, LoopInv
<1> DEFINE e == files[op.idx]
           g == RoundUp(op.end)
<1>3. /\ files[k].first \in Nat /\ files[k].last \in Nat
      /\ LabelEnd <= files[k].first /\ files[k].last <= EndOfVolume
      /\ e.first \in Nat /\ e.first <= e.last /\ e.last \in Nat /\ g \in Nat
      /\ op.idx \in Int /\ k \in Int
  <2>1. op.idx \in Int /\ k \in Int
    BY <1>2, LenProperties
  <2>2. g \in Nat
    BY <1>2, RoundUpType
  <2>3. /\ files[k].first \in Nat /\ files[k].last \in Nat
        /\ LabelEnd <= files[k].first /\ files[k].last <= EndOfVolume
    BY <1>2, EntryAt
  <2>4. e.first \in Nat /\ e.first <= e.last /\ e.last \in Nat
    BY <1>2, EntryAt
  <2>5. QED
    BY <2>1, <2>2, <2>3, <2>4
<1>4. files[k].last <= e.first \/ e.first + g <= files[k].first
  <2>1. CASE k < op.idx
    BY <1>2, <2>1 DEF Layout
  <2>2. CASE op.idx < k
    BY <1>1, <2>2 DEF VolumeInv, RoomInv
  <2>3. QED
    BY <1>3, <2>1, <2>2
<1> HIDE DEF e, g
<1>5. ASSUME NEW b \in files[k].first .. files[k].last - 1
      PROVE  b \in Block /\ (b < e.first \/ b >= e.first + g)
  <2>1. b \in Int /\ files[k].first <= b /\ b < files[k].last
    BY <1>3, <1>5
  <2>2. b \in Block
    <3>1. LabelEnd \in Int /\ EndOfVolume \in Int
      BY GeometryAssumption
    <3>2. b \in LabelEnd .. EndOfVolume - 1
      BY <1>3, <2>1, <3>1
    <3>3. QED
      BY <3>2 DEF Block
  <2>3. CASE files[k].last <= e.first
    BY <1>3, <2>1, <2>2, <2>3
  <2>4. CASE e.first + g <= files[k].first
    BY <1>3, <2>1, <2>2, <2>4
  <2>5. QED
    BY <1>4, <2>3, <2>4
<1>6. ASSUME NEW lo \in Nat, NEW hi \in Int, NEW v \in Byte, Filled(lo, hi, v),
             NEW b \in files[k].first .. files[k].last - 1
      PROVE  disk'[b] = disk[b]
  <2>1. hi <= g * BlockSize /\ disk' = Fill(disk, e.first, lo, hi, v)
    BY <1>6 DEF Filled, e, g
  <2>2. b \in Block /\ (b < e.first \/ b >= e.first + g) /\ e.first \in Int
    BY <1>3, <1>5
  <2>3. /\ disk \in [Block -> [Index -> Byte]] /\ lo \in Nat /\ hi \in Int /\ g \in Nat
    BY <1>2, <1>3
  <2>4. Fill(disk, e.first, lo, hi, v)[b] = disk[b]
    BY <2>1, <2>2, <2>3, FillFrame
  <2>5. QED
    BY <2>1, <2>4
<1>7. QED
  BY <1>1, <1>6

\* The place a file moves to lies between its neighbours.
LEMMA TargetBetween ==
    ASSUME VolumeInv, Relocating
    PROVE  /\ loop.j \in 1 .. Len(files)
           /\ Target \in Nat /\ LabelEnd <= Target
           /\ Target + Blocks(files[loop.j]) <= EndOfVolume
           /\ \A k \in 1 .. Len(files) : k < loop.j => files[k].last <= Target
           /\ \A k \in 1 .. Len(files) :
                 loop.j < k => Target + Blocks(files[loop.j]) <= files[k].first
<1> DEFINE j == loop.j
           e == files[j]
           n == Blocks(e)
<1>1. /\ files \in Seq(Entry) /\ Layout(files) /\ Len(files) \in Nat
      /\ loop.low \in Nat /\ loop.high \in Nat /\ j \in Nat
  BY LenProperties DEF VolumeInv, TypeOK, ExtentsDisjoint
<1>2. op.idx \in 1 .. Len(files)
  BY DEF VolumeInv, LoopInv, Relocating
<1>3. ASSUME NEW k \in 1 .. Len(files)
      PROVE  /\ files[k].first \in Nat /\ files[k].last \in Nat
             /\ files[k].first <= files[k].last
  BY <1>1, EntryAt
<1>4. CASE pc = "down"
  <2>1. /\ j \in 1 .. op.idx /\ Target = loop.low
        /\ LabelEnd <= loop.low /\ loop.low <= e.first
        /\ \A i \in 1 .. Len(files) : i < j => files[i].last <= loop.low
    BY <1>4 DEF VolumeInv, LoopInv, Target
  <2>2. j \in 1 .. Len(files)
    BY <1>1, <1>2, <2>1
  <2>3. e.first \in Nat /\ n \in Nat /\ e.first + n = e.last /\ e.last <= EndOfVolume
    BY <1>1, <2>2, EntryAt
  <2>4. \A k \in 1 .. Len(files) : j < k => e.last <= files[k].first
    BY <1>1, <2>2 DEF Layout
  <2> HIDE DEF n, e, j
  <2>5. loop.low + n <= e.last /\ loop.low + n \in Nat /\ e.last \in Nat
    BY <1>1, <2>1, <2>3
  <2>6. \A k \in 1 .. Len(files) : j < k => loop.low + n <= files[k].first
    BY <1>3, <2>4, <2>5
  <2>7. loop.low + n <= EndOfVolume
    BY <2>3, <2>5, GeometryAssumption
  <2>8. QED
    BY <1>1, <2>1, <2>2, <2>6, <2>7 DEF n, e, j
<1>5. CASE pc = "up" /\ j > op.idx
  <2>1. /\ j \in op.idx .. Len(files) /\ Target = loop.high - n
        /\ e.last <= loop.high /\ loop.high <= EndOfVolume
        /\ \A k \in 1 .. Len(files) : j < k => loop.high <= files[k].first
    BY <1>5 DEF VolumeInv, LoopInv, Target
  <2>2. j \in 1 .. Len(files)
    BY <1>1, <1>2, <2>1
  <2>3. /\ e.first \in Nat /\ n \in Nat /\ e.first + n = e.last /\ LabelEnd <= e.first
        /\ e.last \in Nat
    BY <1>1, <2>2, EntryAt
  <2>4. \A k \in 1 .. Len(files) : k < j => files[k].last <= e.first
    BY <1>1, <2>2 DEF Layout
  <2> DEFINE t == loop.high - n
  <2> HIDE DEF n, e, j
  <2>5. t \in Nat /\ e.first <= t /\ t + n = loop.high
    BY <1>1, <2>1, <2>3
  <2> HIDE DEF t
  <2>6. \A k \in 1 .. Len(files) : k < j => files[k].last <= t
    BY <1>3, <2>3, <2>4, <2>5
  <2>7. LabelEnd <= t
    BY <2>3, <2>5, GeometryAssumption
  <2>8. Target = t
    BY <2>1 DEF t
  <2>9. QED
    BY <2>1, <2>2, <2>5, <2>6, <2>7, <2>8 DEF n, e, j
<1>6. QED
  BY <1>4, <1>5 DEF Relocating

\* Blocks copied to it, all or some, are in no other file.
LEMMA MoveFrame ==
    ASSUME VolumeInv, Relocating, NEW lo \in Nat, NEW hi \in Int,
           hi <= Blocks(files[loop.j]), NEW from,
           NEW k \in 1 .. Len(files), k # loop.j,
           NEW b \in files[k].first .. files[k].last - 1
    PROVE  Copied(disk, from, Target, lo, hi)[b] = disk[b]
<1> DEFINE n == Blocks(files[loop.j])
<1>1. files \in Seq(Entry) /\ Layout(files)
  BY DEF VolumeInv, TypeOK, ExtentsDisjoint
<1>2. /\ loop.j \in 1 .. Len(files) /\ Target \in Nat
      /\ k < loop.j => files[k].last <= Target
      /\ loop.j < k => Target + n <= files[k].first
  BY TargetBetween
<1>3. /\ files[k].first \in Nat /\ files[k].last \in Nat
      /\ LabelEnd <= files[k].first /\ files[k].last <= EndOfVolume /\ n \in Nat
  BY <1>1, <1>2, EntryAt
<1>4. k < loop.j \/ loop.j < k
  BY <1>2
<1> DEFINE t == Target
<1> HIDE DEF n, t
<1>5. /\ t \in Nat /\ (files[k].last <= t \/ t + n <= files[k].first) /\ hi <= n
  BY <1>2, <1>4 DEF t, n
<1>6. b \in Block /\ (b < t + lo \/ b >= t + hi)
  BY <1>3, <1>5, GeometryAssumption DEF Block
<1>7. Copied(disk, from, t, lo, hi)[b] = disk[b]
  BY <1>5, <1>6, CopiedFrame
<1>8. QED
  BY <1>7 DEF t

-----------------------------------------------------------------------------
(* What the handlers know of their files and arguments.                    *)

\* A handler has changed the directory in memory: on the image, all entries but
\* those it works on are still right.
LEMMA ReadyAgrees ==
    ASSUME VolumeInv, ~fault => image = files /\ (Twin => backup = files),
           UNCHANGED <<image, backup, fault>>, fault' \/ image' # Torn,
           pc' = "sync",
           \A n \in Names \ op'.touched : SameFile(files, files', n)
    PROVE  HandlerInv'
<1>1. files # Torn
  BY TornAssumption DEF VolumeInv, TypeOK
<1>2. ASSUME ~fault PROVE Agrees(image)' /\ (Twin => Agrees(backup)')
  BY <1>1, <1>2 DEF Agrees, SameFile
<1>3. image = Torn => fault
  BY <1>1
<1>4. QED
  BY <1>2, <1>3 DEF HandlerInv

\* A handler has returned, or the process has ended.
LEMMA ReturnedKnows ==
    ASSUME pc' = "idle", image' = Torn => fault'
    PROVE  HandlerInv'
BY DEF HandlerInv

LEMMA MknodKnows ==
    ASSUME VolumeInv, HandlerInv, NEW n \in Names, Mknod(n)
    PROVE  HandlerInv'
<1>1. /\ files \in Seq(Entry) /\ UniqueNames(files)
      /\ ~fault => image = files /\ (Twin => backup = files)
      /\ image = Torn => fault
  BY DEF VolumeInv, TypeOK, NamesUnique, WrittenInv, Mknod, HandlerInv
<1>2. CASE \E r \in Results : Refuse(r)
  BY <1>1, <1>2, ReturnedKnows DEF Refuse, Return
<1> DEFINE e == [name |-> n, first |-> EndOfVolume, last |-> EndOfVolume,
                 lastbyte |-> BlockSize]
<1>3. CASE /\ ~Named(files, n)
           /\ files' = Append(files, e)
           /\ Start("mknod", 0, {n}, 0, 0, Zero, "sync")
           /\ UNCHANGED <<disk, image, backup, ro, loop, fault>>
  <2>1. e \in Entry /\ e.name = n
    BY GeometryAssumption, BlockSizeAssumption DEF Entry
  <2> HIDE DEF e
  <2>2. pc' = "sync" /\ op'.touched = {n}
    BY <1>3 DEF Start
  <2>3. \A k \in Names \ {n} : SameFile(files, files', k)
    BY <1>1, <1>3, <2>1, SameFileAppend
  <2>4. QED
    BY <1>1, <1>3, <2>2, <2>3, ReadyAgrees
<1>4. QED
  BY <1>2, <1>3 DEF Mknod, Results

LEMMA UnlinkKnows ==
    ASSUME VolumeInv, HandlerInv, NEW n \in Names, Unlink(n)
    PROVE  HandlerInv'
<1>1. /\ files \in Seq(Entry) /\ Named(files, n)
      /\ ~fault => image = files /\ (Twin => backup = files)
      /\ image = Torn => fault
  BY DEF VolumeInv, TypeOK, WrittenInv, Unlink, HandlerInv
<1>2. CASE Refuse("EROFS")
  BY <1>1, <1>2, ReturnedKnows DEF Refuse, Return
<1> DEFINE i == IndexOf(files, n)
<1>3. CASE /\ files' = Erase(files, i)
           /\ Start("unlink", 0, {n}, 0, 0, Zero, "sync")
           /\ UNCHANGED <<disk, image, backup, ro, loop, fault>>
  <2>1. i \in 1 .. Len(files) /\ files[i].name = n
    BY <1>1, IndexOfNamed
  <2> HIDE DEF i
  <2>2. UniqueNames(Erase(files, i))
    BY <1>3, UnlinkStep DEF VolumeInv, NamesUnique
  <2>3. pc' = "sync" /\ op'.touched = {n}
    BY <1>3 DEF Start
  <2>4. \A k \in Names \ {n} : SameFile(files, files', k)
    BY <1>1, <1>3, <2>1, <2>2, SameFileErase
  <2>5. QED
    BY <1>1, <1>3, <2>3, <2>4, ReadyAgrees
<1>4. QED
  BY <1>2, <1>3 DEF Unlink

\* Every file but the one that is renamed and the one it replaces.
LEMMA RenameKeepsOthers ==
    ASSUME VolumeInv, NEW n \in Names, NEW m \in Names, Rename(n, m), pc' = "sync",
           NEW k \in Names, k # n, k # m
    PROVE  SameFile(files, files', k)
<1>1. files \in Seq(Entry) /\ UniqueNames(files) /\ Named(files, n)
  BY DEF VolumeInv, TypeOK, NamesUnique, Rename
<1> DEFINE i == IndexOf(files, n)
           e == [files[i] EXCEPT !.name = m]
           renamed == [files EXCEPT ![i] = e]
<1>2. files' = IF Named(files, m) THEN Erase(renamed, IndexOf(files, m)) ELSE renamed
  BY DEF Rename, Refuse, Return
<1>3. i \in 1 .. Len(files) /\ files[i].name = n
  BY <1>1, IndexOfNamed
<1> HIDE DEF i
<1>4. files[i] \in Entry
  BY <1>1, <1>3, LenProperties
<1>5. e \in Entry /\ e.name = m
  BY <1>4 DEF Entry
<1> HIDE DEF e
<1>6. /\ renamed \in Seq(Entry) /\ Len(renamed) = Len(files)
      /\ \A q \in 1 .. Len(files) : renamed[q] = IF q = i THEN e ELSE files[q]
  BY <1>1, <1>3, <1>5, ReplaceEntry
<1>7. SameFile(files, renamed, k)
  BY <1>1, <1>3, <1>5, SameFileReplace
<1> HIDE DEF renamed
<1>8. CASE ~Named(files, m)
  BY <1>2, <1>7, <1>8
<1>9. CASE Named(files, m)
  <2> DEFINE d == IndexOf(files, m)
  <2>1. d \in 1 .. Len(files) /\ files[d].name = m
    BY <1>9, IndexOfNamed, <1>1
  <2> HIDE DEF d
  <2>2. files' = Erase(renamed, d)
    BY <1>2, <1>9 DEF d
  <2>3. UniqueNames(Erase(renamed, d))
    <3>1. UniqueNames(files)'
      BY RenameStep DEF VolumeInv, NamesUnique
    <3>2. QED
      BY <2>2, <3>1
  <2>4. d \in 1 .. Len(renamed) /\ renamed[d].name = m
    BY <1>5, <1>6, <2>1
  <2>5. SameFile(renamed, Erase(renamed, d), k)
    BY <1>6, <2>3, <2>4, SameFileErase
  <2>6. QED
    BY <1>7, <2>2, <2>5, SameFileTrans
<1>10. QED
  BY <1>8, <1>9

LEMMA RenameKnows ==
    ASSUME VolumeInv, HandlerInv, NEW n \in Names, NEW m \in Names, Rename(n, m)
    PROVE  HandlerInv'
<1>1. /\ ~fault => image = files /\ (Twin => backup = files)
      /\ image = Torn => fault
  BY DEF VolumeInv, WrittenInv, Rename, HandlerInv
<1>2. CASE Refuse("EROFS") \/ Refuse("EINVAL")
  BY <1>1, <1>2, ReturnedKnows DEF Refuse, Return
<1>3. CASE /\ Start("rename", 0, {n, m}, 0, 0, Zero, "sync")
           /\ UNCHANGED <<disk, image, backup, ro, loop, fault>>
  <2>1. pc' = "sync" /\ op'.touched = {n, m}
    BY <1>3 DEF Start
  <2>2. \A k \in Names \ {n, m} : SameFile(files, files', k)
    BY <2>1, RenameKeepsOthers
  <2>3. QED
    BY <1>1, <1>3, <2>1, <2>2, ReadyAgrees
<1>4. QED
  BY <1>2, <1>3 DEF Rename

\* A file whose size is set keeps its name, so that all others are found as before.
LEMMA ResizeKeepsOthers ==
    ASSUME VolumeInv, NEW i \in 1 .. Len(files), NEW n \in Nat,
           files' = [files EXCEPT ![i] = Resized(files[i], n)],
           NEW k \in Names, k # files[i].name
    PROVE  SameFile(files, files', k)
<1>1. files \in Seq(Entry) /\ UniqueNames(files) /\ Layout(files)
  BY DEF VolumeInv, TypeOK, NamesUnique, ExtentsDisjoint
<1>2. files[i] \in Entry
  BY <1>1, EntryAt
<1>3. Resized(files[i], n) \in Entry /\ Resized(files[i], n).name = files[i].name
  BY <1>2, ResizedType
<1>4. QED
  BY <1>1, <1>3, SameFileReplace

LEMMA StartGrowingKnows ==
    ASSUME VolumeInv, HandlerInv, pc = "idle", NEW n \in Names, Named(files, n),
           NEW kind \in {"truncate", "extend"}, NEW offset \in Nat, NEW end \in Nat,
           offset <= end, NEW v, StartGrowing(kind, n, offset, end, v)
    PROVE  HandlerInv'
<1> DEFINE i == IndexOf(files, n)
<1>1. i \in 1 .. Len(files) /\ files[i].name = n
  BY IndexOfNamed DEF VolumeInv, TypeOK
<1> HIDE DEF i
<1>2. PICK next \in {"pad", "data", "down"} :
         /\ Start(kind, i, {n}, offset, end, v, next)
         /\ UNCHANGED <<files, image, backup, fault>>
  BY DEF StartGrowing, PadOrData, i
<1>3. /\ pc' = next /\ op'.kind = kind /\ op'.idx = i /\ op'.touched = {n}
      /\ op'.offset = offset /\ op'.end = end
  BY <1>2 DEF Start
<1>4. QED
  BY <1>1, <1>2, <1>3 DEF HandlerInv

LEMMA TruncateKnows ==
    ASSUME VolumeInv, HandlerInv, NEW n \in Names, NEW size \in Sizes, Truncate(n, size)
    PROVE  HandlerInv'
<1> DEFINE i == IndexOf(files, n)
<1>1. /\ pc = "idle" /\ Named(files, n) /\ size \in Int
      /\ ~fault => image = files /\ (Twin => backup = files)
      /\ image = Torn => fault
  BY InputAssumption DEF VolumeInv, WrittenInv, Truncate, HandlerInv
<1>2. i \in 1 .. Len(files) /\ files[i].name = n
  BY <1>1, IndexOfNamed DEF VolumeInv, TypeOK
<1> HIDE DEF i
<1>3. CASE Refuse("EINVAL") \/ Refuse("EROFS")
  BY <1>1, <1>3, ReturnedKnows DEF Refuse, Return
<1>4. CASE size >= 0 /\ StartGrowing("truncate", n, 0, size, Zero)
  <2>1. size \in Nat /\ 0 \in Nat /\ 0 <= size
    BY <1>1, <1>4
  <2>2. QED
    BY <1>1, <1>4, <2>1, StartGrowingKnows
<1>5. CASE /\ size >= 0
           /\ files' = [files EXCEPT ![i] = Resized(files[i], size)]
           /\ Start("truncate", i, {n}, 0, size, Zero, "sync")
           /\ UNCHANGED <<disk, image, backup, ro, loop, fault>>
  <2>1. size \in Nat
    BY <1>1, <1>5
  <2>2. pc' = "sync" /\ op'.touched = {n}
    BY <1>5 DEF Start
  <2>3. \A k \in Names \ {n} : SameFile(files, files', k)
    BY <1>2, <1>5, <2>1, ResizeKeepsOthers
  <2>4. QED
    BY <1>1, <1>5, <2>2, <2>3, ReadyAgrees
<1>6. QED
  BY <1>3, <1>4, <1>5 DEF Truncate, i

LEMMA WriteKnows ==
    ASSUME VolumeInv, HandlerInv, NEW n \in Names, NEW offset \in Offsets,
           NEW nbytes \in Lengths, NEW v, Write(n, offset, nbytes, v)
    PROVE  HandlerInv'
<1> DEFINE i == IndexOf(files, n)
           end == offset + nbytes
<1>1. /\ pc = "idle" /\ Named(files, n) /\ offset \in Int /\ nbytes \in Nat
      /\ image = Torn => fault
  BY InputAssumption DEF VolumeInv, Write, HandlerInv
<1>2. /\ i \in 1 .. Len(files) /\ files[i].name = n
      /\ CurrentSize(files[i]) \in Nat
  BY <1>1, IndexOfNamed, EntryAt DEF VolumeInv, TypeOK, ExtentsDisjoint
<1>3. CASE Refuse("EROFS") \/ Refuse("EINVAL") \/ Refuse("ok")
  BY <1>1, <1>3, ReturnedKnows DEF Refuse, Return
<1>4. CASE offset >= 0 /\ nbytes > 0 /\ StartGrowing("extend", n, offset, end, v)
  <2>1. offset \in Nat /\ end \in Nat /\ offset <= end
    BY <1>1, <1>4
  <2>2. QED
    BY <1>1, <1>4, <2>1, StartGrowingKnows
<1>5. CASE /\ offset >= 0 /\ nbytes > 0
           /\ Start("write", i, {n}, offset, end, v,
                    IF end <= CurrentSize(files[i]) \/ offset <= CurrentSize(files[i])
                    THEN "data" ELSE "hole")
           /\ UNCHANGED <<files, disk, image, backup, ro, loop, fault>>
  <2>1. offset \in Nat /\ end \in Nat /\ offset < end
    BY <1>1, <1>5
  <2> HIDE DEF i, end
  <2>2. /\ pc' \in {"data", "hole"} /\ op'.kind = "write" /\ op'.idx = i
        /\ op'.touched = {n} /\ op'.offset = offset /\ op'.end = end
        /\ pc' = "hole" => ~(offset <= CurrentSize(files[i]))
    BY <1>5 DEF Start
  <2>3. pc' = "hole" => CurrentSize(files[i]) < offset
    BY <1>2, <2>1, <2>2
  <2>4. op'.offset <= op'.end /\ (pc' = "hole" => op'.offset < op'.end)
    BY <2>1, <2>2
  <2>5. QED
    BY <1>1, <1>2, <1>5, <2>2, <2>3, <2>4 DEF HandlerInv
<1>6. QED
  BY <1>3, <1>4, <1>5 DEF Write

LEMMA CrunchKnows ==
    ASSUME VolumeInv, HandlerInv, Crunch
    PROVE  HandlerInv'
<1>1. pc = "idle" /\ (image = Torn => fault)
  BY DEF Crunch, HandlerInv
<1>2. CASE Refuse("ok")
  BY <1>1, <1>2, ReturnedKnows DEF Refuse, Return
<1>3. CASE /\ Start("crunch", Len(files), {}, 0, 0, Zero, "down")
           /\ UNCHANGED <<files, disk, image, backup, ro, fault>>
  <2>1. pc' = "down" /\ op'.kind = "crunch"
    BY <1>3 DEF Start
  <2>2. QED
    BY <1>1, <1>3, <2>1 DEF HandlerInv
<1>4. QED
  BY <1>2, <1>3 DEF Crunch

LEMMA MoveKnows ==
    ASSUME VolumeInv, HandlerInv, MoveDown \/ MoveUp
    PROVE  HandlerInv'
<1>1. /\ pc \in {"down", "up"} /\ pc' \in {"down", "up"} /\ Relocating /\ Relocated
      /\ UNCHANGED <<image, backup, op, fault>>
  BY DEF MoveDown, MoveUp, Relocating
<1>2. /\ files \in Seq(Entry) /\ Layout(files) /\ op.idx \in 1 .. Len(files)
      /\ loop.j \in 1 .. Len(files) /\ Target \in Nat
  BY <1>1, TargetBetween DEF VolumeInv, TypeOK, ExtentsDisjoint, LoopInv
<1> DEFINE e == MovedTo(files[loop.j], Target)
<1>3. e \in Entry /\ e.name = files[loop.j].name
  <2> DEFINE g == files[loop.j]
             n == Blocks(g)
             t == Target
  <2>1. g \in Entry /\ n \in Nat /\ t \in Nat
    BY <1>2, EntryAt
  <2>2. e = [name |-> g.name, first |-> t, last |-> t + n, lastbyte |-> g.lastbyte]
    BY DEF MovedTo
  <2> HIDE DEF e, g, n, t
  <2>3. g.name \in Names /\ g.lastbyte \in 1 .. BlockSize /\ t + n \in Nat
    BY <2>1 DEF Entry
  <2>4. e \in Entry /\ e.name = g.name
    BY <2>1, <2>2, <2>3 DEF Entry
  <2>5. QED
    BY <2>4 DEF g
<1>4. files' = [files EXCEPT ![loop.j] = e]
  BY <1>1 DEF Relocated
<1> HIDE DEF e
<1>5. files'[op.idx].name = files[op.idx].name
  BY <1>2, <1>3, <1>4, ReplaceEntry
<1>6. QED
  BY <1>1, <1>5 DEF HandlerInv

LEMMA DataKnows ==
    ASSUME VolumeInv, HandlerInv, Pad \/ PutData \/ PutHole
    PROVE  HandlerInv'
<1>1. /\ pc \in {"pad", "data", "hole"}
      /\ UNCHANGED <<image, backup, ro, op, loop, ret, fault>>
  BY DEF Pad, PutData, PutHole
<1>2. /\ files \in Seq(Entry) /\ op.idx \in 1 .. Len(files) /\ op.end \in Nat
      /\ ~fault => image = files /\ (Twin => backup = files)
      /\ op.kind \in {"truncate", "write", "extend"}
      /\ files[op.idx].name \in op.touched /\ op.offset <= op.end
      /\ image = Torn => fault
  BY <1>1 DEF VolumeInv, TypeOK, LoopInv, WrittenInv, HandlerInv
<1>3. CASE pc' = "data"
  <2>1. files' = files
    BY <1>1, <1>3 DEF Pad, PutData, PutHole
  <2>2. QED
    BY <1>1, <1>2, <1>3, <2>1 DEF HandlerInv
<1>4. CASE pc' = "sync"
  <2>1. SetSize \/ files' = files
    BY DEF Pad, PutData, PutHole
  <2>2. \A k \in Names \ op'.touched : SameFile(files, files', k)
    <3>1. CASE files' = files
      BY <3>1 DEF SameFile
    <3>2. CASE SetSize
      <4>1. files' = [files EXCEPT ![op.idx] = Resized(files[op.idx], op.end)]
        BY <3>2 DEF SetSize
      <4>2. QED
        BY <1>1, <1>2, <4>1, ResizeKeepsOthers
    <3>3. QED
      BY <2>1, <3>1, <3>2
  <2>3. QED
    BY <1>1, <1>2, <1>4, <2>2, ReadyAgrees
<1>5. QED
  BY <1>3, <1>4 DEF Pad, PutData, PutHole

LEMMA SyncKnows ==
    ASSUME VolumeInv, HandlerInv, WriteDirectory \/ WriteSecondDirectory
    PROVE  HandlerInv'
<1>1. /\ pc \in {"gapSync", "gapTwin", "sync", "twin"} /\ files' = files /\ image' = files
  BY DEF WriteDirectory, WriteSecondDirectory, VolumeInv, WrittenInv
<1>2. files # Torn
  BY TornAssumption DEF VolumeInv, TypeOK
<1>3. CASE Synced
  <2>1. CASE pc \in {"gapSync", "gapTwin"}
    <3>1. pc' = "grow" /\ op' = op
      BY <1>3, <2>1 DEF Synced
    <3>2. QED
      BY <1>1, <1>2, <2>1, <3>1 DEF HandlerInv
  <2>2. CASE pc \notin {"gapSync", "gapTwin"}
    BY <1>1, <1>2, <1>3, <2>2, ReturnedKnows DEF Synced, Return
  <2>3. QED
    BY <2>1, <2>2
<1>4. CASE /\ pc \in {"gapSync", "sync"}
           /\ pc' = IF pc = "sync" THEN "twin" ELSE "gapTwin"
           /\ UNCHANGED <<op, loop, ret, fault>>
  BY <1>1, <1>2, <1>4 DEF HandlerInv
<1>5. QED
  BY <1>3, <1>4 DEF WriteDirectory, WriteSecondDirectory

LEMMA HandlerNext == VolumeInv /\ HandlerInv /\ [Next]_vars => HandlerInv'
<1> SUFFICES ASSUME VolumeInv, HandlerInv, [Next]_vars PROVE HandlerInv'
  OBVIOUS
<1>1. CASE WipeUnused
  BY <1>1, ReturnedKnows DEF WipeUnused, HandlerInv
<1>2. CASE GapMade
  BY <1>2 DEF GapMade, HandlerInv
<1>3. CASE Grow
  <2>1. CASE \E r \in Results : Refuse(r)
    BY <1>3, <2>1, ReturnedKnows DEF Refuse, Return, Grow, HandlerInv
  <2>2. CASE op.kind # "crunch" /\ pc' \in {"pad", "data"}
             /\ UNCHANGED <<files, disk, image, backup, ro, op, loop, ret, fault>>
    BY <1>3, <2>2 DEF Grow, HandlerInv
  <2>3. QED
    BY <1>3, <2>1, <2>2 DEF Grow, PadOrData, Results
<1>4. CASE HoleUnreadable
  BY <1>4, ReturnedKnows DEF HoleUnreadable, Refuse, Return, HandlerInv
<1>5. CASE HoleAborts
  BY <1>5 DEF HoleAborts, HandlerInv
<1>6. CASE Failure
  BY <1>6, ReturnedKnows DEF Failure, DataFails, SyncFails, Fail, Return
<1>7. CASE Restart \/ KilledInData \/ KilledInSecondDirectory
  BY <1>7, ReturnedKnows DEF Restart, KilledInData, KilledInSecondDirectory, Remount, Return
<1>8. CASE KilledInDirectory \/ Lost
  BY <1>8 DEF KilledInDirectory, Lost, HandlerInv
<1>9. CASE UNCHANGED vars
  BY <1>9 DEF vars, HandlerInv, Agrees
<1>10. QED
  BY <1>1, <1>2, <1>3, <1>4, <1>5, <1>6, <1>7, <1>8, <1>9, MknodKnows, UnlinkKnows,
     RenameKnows, TruncateKnows, WriteKnows, CrunchKnows, MoveKnows, DataKnows, SyncKnows
     DEF Next, Request, Step, End

\* A handler never loses track of its file, and the directory on the image lacks
\* nothing but what that handler has changed (file.cc:304-565, directory.cc:261-325).
THEOREM Handlers == Spec => []HandlerInv
<1>1. Init => HandlerInv
  <2>1. <<>> \in Seq(Entry)
    BY EmptySeq
  <2>2. QED
    BY <2>1, TornAssumption DEF Init, HandlerInv
<1>2. QED
  BY <1>1, HandlerNext, Invariance, PTL DEF Spec

LEMMA BackupNext ==
    VolumeInv /\ HandlerInv /\ BackupSurvivesKill /\ [Next]_vars => BackupSurvivesKill'
<1> SUFFICES ASSUME VolumeInv, HandlerInv, BackupSurvivesKill, [Next]_vars,
                    Twin, pc' = "lost", ~fault', ~loop'.changed
             PROVE  Agrees(backup)'
  BY DEF BackupSurvivesKill
<1>1. KilledInDirectory \/ Lost \/ UNCHANGED vars
  BY DEF Next, Request, Mknod, Unlink, Rename, Truncate, StartGrowing, PadOrData, Write, Crunch,
     WipeUnused, Step, MoveDown, MoveUp, GapMade, Grow, Pad, PutData, PutHole, HoleUnreadable,
     HoleAborts, WriteDirectory, WriteSecondDirectory, Synced, Failure, DataFails, SyncFails,
     Fail, End, Restart, Remount, KilledInData, KilledInSecondDirectory, Refuse, Return, Start
<1>2. UNCHANGED <<files, backup, op, loop, fault>>
  BY <1>1 DEF KilledInDirectory, Lost, vars
<1>3. Agrees(backup)
  <2>1. CASE pc = "lost"
    BY <1>2, <2>1 DEF BackupSurvivesKill
  <2>2. CASE pc # "lost"
    <3>1. image = Torn => fault
      BY <2>2 DEF HandlerInv
    <3>2. pc \in {"gapSync", "sync"}
      BY <1>1, <1>2, <2>2, <3>1 DEF KilledInDirectory, Lost, vars
    <3>3. QED
      BY <1>2, <3>2 DEF HandlerInv
  <2>3. QED
    BY <2>1, <2>2
<1>4. QED
  BY <1>2, <1>3 DEF Agrees

\* A kill in the middle of the directory of a twin volume leaves a second copy
\* with every file that the handler does not work on (directory.cc:308-319).
THEOREM BackupSurvives == Spec => []BackupSurvivesKill
<1>1. Init => BackupSurvivesKill
  BY DEF Init, BackupSurvivesKill
<1>2. QED
  BY <1>1, BackupNext, Invariance, Handlers, PTL DEF Spec

-----------------------------------------------------------------------------
(* Which files a step keeps.                                               *)

\* A file whose entry and whose blocks are the same is kept.
LEMMA KeptSame ==
    ASSUME files \in Seq(Entry), Layout(files), NEW n, SameFile(files, files', n),
           \A k \in 1 .. Len(files) : files[k].name = n =>
               \A b \in files[k].first .. files[k].last - 1 : disk'[b] = disk[b]
    PROVE  Kept(n)
<1> DEFINE e == files[IndexOf(files, n)]
<1>1. ASSUME Named(files, n) PROVE ContentIn(disk', e) = ContentIn(disk, e)
  <2>1. IndexOf(files, n) \in 1 .. Len(files) /\ e.name = n
    BY <1>1 DEF Named, IndexOf
  <2>2. e \in Entry /\ e.first <= e.last
    BY <2>1, EntryAt
  <2>3. \A b \in e.first .. e.last - 1 : disk'[b] = disk[b]
    BY <2>1
  <2>4. QED
    BY <2>2, <2>3, ContentFrame
<1>2. ASSUME Named(files, n)
      PROVE  Content(e) = ContentIn(disk, e)
             /\ Content(e)' = ContentIn(disk', files'[IndexOf(files', n)])
  BY DEF Content, ContentIn
<1>3. QED
  BY <1>1, <1>2 DEF Kept, SameFile

LEMMA KeptUnchanged ==
    ASSUME UNCHANGED <<files, disk>>, NEW n
    PROVE  Kept(n)
BY DEF Kept, Content, CurrentSize, Blocks

LEMMA KeptIsNoChange ==
    ASSUME NEW n, Kept(n)
    PROVE  ~Changes(n)
BY DEF Kept, Changes

\* A file that move_gap_after moves, and all the others, keep their bytes.
LEMMA MoveKeeps ==
    ASSUME VolumeInv, MoveDown \/ MoveUp, NEW n
    PROVE  Kept(n)
<1> DEFINE j == loop.j
           e == files[j]
           t == Target
           m == MovedTo(e, t)
<1>1. Relocating /\ Relocated
  BY DEF MoveDown, MoveUp, Relocating
<1>2. /\ files \in Seq(Entry) /\ Layout(files) /\ UniqueNames(files)
  BY DEF VolumeInv, TypeOK, ExtentsDisjoint, NamesUnique
<1>3. /\ j \in 1 .. Len(files) /\ t \in Nat /\ LabelEnd <= t
      /\ t + Blocks(e) <= EndOfVolume
  BY <1>1, TargetBetween
<1>4. e \in Entry /\ e.first <= e.last /\ Blocks(e) \in Nat
  BY <1>2, <1>3, EntryAt
<1>5. files' = [files EXCEPT ![j] = m] /\ disk' = Copied(disk, e.first, t, 0, Blocks(e))
  BY <1>1 DEF Relocated
<1>6. m \in Entry /\ m.name = e.name
  <2>1. e.name \in Names /\ e.lastbyte \in 1 .. BlockSize /\ t + Blocks(e) \in Nat
    BY <1>3, <1>4 DEF Entry
  <2> HIDE DEF e, t
  <2>2. QED
    BY <1>3, <2>1 DEF MovedTo, Entry
<1>7. CASE n = e.name
  <2>1. /\ Len(files') = Len(files)
        /\ \A k \in 1 .. Len(files) : files'[k] = IF k = j THEN m ELSE files[k]
    <3> HIDE DEF m
    <3>1. QED
      BY <1>2, <1>3, <1>5, <1>6, ReplaceEntry
  <2>2. Named(files, n) /\ IndexOf(files, n) = j
    BY <1>2, <1>3, <1>7, FoundAt DEF UniqueNames
  <2>3. Named(files', n) /\ IndexOf(files', n) = j
    <3>1. j \in 1 .. Len(files') /\ files'[j].name = n
      BY <1>3, <1>6, <1>7, <2>1
    <3>2. \A i, k \in 1 .. Len(files') :
             files'[i].name = n /\ files'[k].name = n => i = k
      BY <1>2, <1>3, <1>6, <1>7, <2>1 DEF UniqueNames
    <3>3. QED
      BY <3>1, <3>2, FoundAt
  <2>4. ContentIn(disk', m) = ContentIn(disk, e)
    <3> HIDE DEF e, t
    <3>1. QED
      BY <1>3, <1>4, <1>5, MovedContent
  <2>5. Content(files[j]) = ContentIn(disk, e)
    BY ContentIsContentIn
  <2>6. Content(files[IndexOf(files, n)])' = ContentIn(disk', m)
    <3>1. files'[IndexOf(files', n)] = m
      BY <1>3, <2>1, <2>3
    <3> HIDE DEF m
    <3>2. QED
      BY <3>1 DEF Content, ContentIn
  <2>7. QED
    BY <2>2, <2>3, <2>4, <2>5, <2>6 DEF Kept
<1>8. CASE n # e.name
  <2>1. SameFile(files, files', n)
    <3> HIDE DEF m
    <3>1. QED
      BY <1>2, <1>3, <1>5, <1>6, <1>8, SameFileReplace
  <2>2. ASSUME NEW k \in 1 .. Len(files), files[k].name = n,
               NEW b \in files[k].first .. files[k].last - 1
        PROVE  disk'[b] = disk[b]
    <3>1. k # j /\ Blocks(e) \in Int
      BY <1>4, <1>8, <2>2
    <3>2. QED
      BY <1>1, <1>4, <1>5, <3>1, MoveFrame
  <2>3. QED
    BY <1>2, <2>1, <2>2, KeptSame
<1>9. QED
  BY <1>7, <1>8

\* A call that writes data keeps every other file whose entry it keeps.
LEMMA DataKeeps ==
    ASSUME VolumeInv, HandlerInv, Pad \/ PutData \/ PutHole \/ DataStops \/ HoleStops,
           NEW n, SameFile(files, files', n), n # files[op.idx].name
    PROVE  Kept(n)
<1>1. files \in Seq(Entry) /\ Layout(files)
  BY DEF VolumeInv, TypeOK, ExtentsDisjoint
<1>2. ASSUME NEW k \in 1 .. Len(files), files[k].name = n
      PROVE  \A b \in files[k].first .. files[k].last - 1 : disk'[b] = disk[b]
  <2>1. k # op.idx
    BY <1>2
  <2>2. QED
    BY <2>1, DataFrame
<1>3. QED
  BY <1>1, <1>2, KeptSame

-----------------------------------------------------------------------------
(* A kill.                                                                 *)

LEMMA KillStep ==
    ASSUME VolumeInv, HandlerInv, SpaceInv, Next,
           pc # "idle", ret' = "mounted", ~fault, ~FilesAstray,
           NEW n \in Names, n \notin op.touched
    PROVE  Kept(n)
<1>1. files \in Seq(Entry) /\ Layout(files)
  BY DEF VolumeInv, TypeOK, ExtentsDisjoint
<1>2. ASSUME SameFile(files, files', n), disk' = disk PROVE Kept(n)
  BY <1>1, <1>2, KeptSame
<1>3. CASE Restart
  <2>1. files' = image /\ disk' = disk /\ image # Torn /\ pc # "lost"
    BY <1>3 DEF Restart, Remount, HandlerInv
  <2>2. CASE pc = "sync"
    <3>1. SameFile(files, files', n)
      BY <2>1, <2>2 DEF HandlerInv, Agrees, SameFile
    <3>2. QED
      BY <1>2, <2>1, <3>1
  <2>3. CASE pc # "sync"
    <3>1. pc # "gapSync"
      BY DEF HandlerInv, FilesAstray
    <3>2. pc \in {"down", "up"} => ~loop.changed
      BY DEF FilesAstray
    <3>3. image = files
      BY <2>1, <2>3, <3>1, <3>2 DEF VolumeInv, TypeOK, WrittenInv
    <3>4. QED
      BY <2>1, <3>3, KeptUnchanged
  <2>4. QED
    BY <2>2, <2>3
<1>4. CASE KilledInData
  <2>1. files' = image /\ (DataStops \/ HoleStops)
    BY <1>4 DEF KilledInData, Remount, MoveStops, FilesAstray
  <2>2. pc \in {"pad", "data", "hole"}
    BY <2>1 DEF DataStops, HoleStops
  <2>3. files' = files
    BY <2>1, <2>2 DEF VolumeInv, WrittenInv
  <2>4. n # files[op.idx].name
    BY <2>2 DEF HandlerInv
  <2>5. SameFile(files, files', n)
    BY <2>3 DEF SameFile
  <2>6. QED
    BY <2>1, <2>4, <2>5, DataKeeps
<1>5. CASE KilledInSecondDirectory
  BY <1>5, KeptUnchanged DEF KilledInSecondDirectory, Remount, VolumeInv, WrittenInv
<1>6. CASE ~(Restart \/ KilledInData \/ KilledInSecondDirectory)
  <2>1. ret = "mounted" => pc = "lost"
    BY DEF SpaceInv
  <2>2. Step => ret' = ret \/ ret' = "ok" \/ ret' = "ENOSPC" \/ ret' = "EIO"
    BY DEF Step, MoveDown, MoveUp, GapMade, Grow, Pad, PutData, PutHole, HoleUnreadable,
       HoleAborts, WriteDirectory, WriteSecondDirectory, Synced, Refuse, Return
  <2>3. Step => pc # "lost"
    BY DEF Step, MoveDown, MoveUp, GapMade, Grow, Pad, PutData, PutHole, HoleUnreadable,
       HoleAborts, WriteDirectory, WriteSecondDirectory
  <2>4. ~Request
    BY DEF Request, Mknod, Unlink, Rename, Truncate, Write, Crunch, WipeUnused
  <2>5. ~Failure
    BY DEF Failure, DataFails, SyncFails, Fail, Return
  <2>6. KilledInDirectory \/ Lost
    BY <1>6, <2>1, <2>2, <2>3, <2>4, <2>5 DEF Next, End
  <2>7. QED
    BY <2>6, KeptUnchanged DEF KilledInDirectory, Lost
<1>7. QED
  BY <1>3, <1>4, <1>5, <1>6

\* A kill at any I/O call, or in it, costs no file but those its handler works on,
\* unless files are being moved (file.cc:347-368, 531-563, directory.cc:302-319).
THEOREM KillKeepsOthers == Spec => KillKeepsOtherFiles
<1>1. VolumeInv /\ HandlerInv /\ SpaceInv /\ [Next]_vars =>
          [pc # "idle" /\ ret' = "mounted" /\ ~fault /\ ~FilesAstray =>
              \A n \in Names \ op.touched : Kept(n)]_vars
  BY KillStep
<1>2. QED
  BY <1>1, Invariance, Handlers, Packed, PTL DEF Spec, KillKeepsOtherFiles

-----------------------------------------------------------------------------
(* One file at a time.                                                     *)

\* A name that is renamed is gone.
LEMMA RenameForgets ==
    ASSUME VolumeInv, NEW n \in Names, NEW m \in Names, Rename(n, m), pc' = "sync"
    PROVE  ~Named(files', n)
<1>1. files \in Seq(Entry) /\ UniqueNames(files) /\ Named(files, n) /\ m # n
  BY DEF VolumeInv, TypeOK, NamesUnique, Rename, Refuse, Return
<1> DEFINE i == IndexOf(files, n)
           e == [files[i] EXCEPT !.name = m]
           renamed == [files EXCEPT ![i] = e]
<1>2. files' = IF Named(files, m) THEN Erase(renamed, IndexOf(files, m)) ELSE renamed
  BY DEF Rename, Refuse, Return
<1>3. i \in 1 .. Len(files) /\ files[i].name = n
  BY <1>1, IndexOfNamed
<1>4. Named(files, m) => IndexOf(files, m) \in 1 .. Len(files)
  BY <1>1, IndexOfNamed
<1> HIDE DEF i
<1>5. files[i] \in Entry
  BY <1>1, <1>3, LenProperties
<1>6. e \in Entry /\ e.name = m
  BY <1>5 DEF Entry
<1> HIDE DEF e
<1>7. /\ renamed \in Seq(Entry) /\ Len(renamed) = Len(files)
      /\ \A k \in 1 .. Len(files) : renamed[k] = IF k = i THEN e ELSE files[k]
  BY <1>1, <1>3, <1>6, ReplaceEntry
<1> HIDE DEF renamed
<1>8. \A k \in 1 .. Len(renamed) : renamed[k].name # n
  BY <1>1, <1>3, <1>6, <1>7 DEF UniqueNames
<1>9. CASE ~Named(files, m)
  BY <1>2, <1>8, <1>9 DEF Named
<1>10. CASE Named(files, m)
  <2> DEFINE d == IndexOf(files, m)
  <2>1. d \in 1 .. Len(renamed) /\ files' = Erase(renamed, d)
    BY <1>2, <1>4, <1>7, <1>10
  <2> HIDE DEF d
  <2>2. /\ Len(renamed) \in Nat /\ Len(files') = Len(renamed) - 1
        /\ \A k \in 1 .. Len(renamed) - 1 :
              files'[k] = IF k < d THEN renamed[k] ELSE renamed[k + 1]
    BY <1>7, <2>1, EraseEntry, LenProperties
  <2>3. \A k \in 1 .. Len(files') : files'[k].name # n
    BY <1>8, <2>2
  <2>4. QED
    BY <2>3 DEF Named
<1>11. QED
  BY <1>9, <1>10

\* All files but one: t is the file a step may change.
OthersKept(t) == \A n \in Names : n # t => ~Changes(n)

LEMMA NothingChanges ==
    ASSUME UNCHANGED <<files, disk>>
    PROVE  \E t : OthersKept(t)
<1>1. OthersKept(Zero)
  BY KeptUnchanged, KeptIsNoChange DEF OthersKept
<1>2. QED
  BY <1>1

\* A handler that changes entries only.
LEMMA EntriesChange ==
    ASSUME VolumeInv, disk' = disk, NEW t,
           \A k \in Names : k # t => SameFile(files, files', k) \/ ~Named(files', k)
    PROVE  \E u : OthersKept(u)
<1>1. files \in Seq(Entry) /\ Layout(files)
  BY DEF VolumeInv, TypeOK, ExtentsDisjoint
<1>2. ASSUME NEW k \in Names, k # t PROVE ~Changes(k)
  <2>1. CASE SameFile(files, files', k)
    <3>1. Kept(k)
      BY <1>1, <2>1, KeptSame
    <3>2. QED
      BY <3>1, KeptIsNoChange
  <2>2. CASE ~Named(files', k)
    BY <2>2 DEF Changes
  <2>3. QED
    BY <1>2, <2>1, <2>2
<1>3. OthersKept(t)
  BY <1>2 DEF OthersKept
<1>4. QED
  BY <1>3

LEMMA RequestChanges ==
    ASSUME VolumeInv, Request
    PROVE  \E t : OthersKept(t)
<1>1. files \in Seq(Entry) /\ Layout(files) /\ UniqueNames(files)
  BY DEF VolumeInv, TypeOK, ExtentsDisjoint, NamesUnique
<1>2. CASE \E n \in Names : Mknod(n)
  <2>1. PICK n \in Names : Mknod(n)
    BY <1>2
  <2> DEFINE e == [name |-> n, first |-> EndOfVolume, last |-> EndOfVolume,
                   lastbyte |-> BlockSize]
  <2>2. disk' = disk /\ (files' = files \/ (~Named(files, n) /\ files' = Append(files, e)))
    BY <2>1 DEF Mknod, Refuse, Return
  <2>3. e \in Entry /\ e.name = n
    BY GeometryAssumption, BlockSizeAssumption DEF Entry
  <2> HIDE DEF e
  <2>4. CASE files' = files
    BY <2>2, <2>4, NothingChanges
  <2>5. CASE ~Named(files, n) /\ files' = Append(files, e)
    <3>1. \A k \in Names : k # n => SameFile(files, files', k)
      BY <1>1, <2>3, <2>5, SameFileAppend
    <3>2. QED
      BY <2>2, <3>1, EntriesChange
  <2>6. QED
    BY <2>2, <2>4, <2>5
<1>3. CASE \E n \in Names : Unlink(n)
  <2>1. PICK n \in Names : Unlink(n)
    BY <1>3
  <2> DEFINE i == IndexOf(files, n)
  <2>2. disk' = disk /\ (files' = files \/ files' = Erase(files, i))
    BY <2>1 DEF Unlink, Refuse, Return
  <2>3. i \in 1 .. Len(files) /\ files[i].name = n
    BY <1>1, <2>1, IndexOfNamed DEF Unlink
  <2> HIDE DEF i
  <2>4. CASE files' = files
    BY <2>2, <2>4, NothingChanges
  <2>5. CASE files' = Erase(files, i)
    <3>1. UniqueNames(Erase(files, i))
      BY <2>1, <2>5, UnlinkStep DEF VolumeInv, NamesUnique
    <3>2. \A k \in Names : k # n => SameFile(files, files', k)
      BY <1>1, <2>3, <2>5, <3>1, SameFileErase
    <3>3. QED
      BY <2>2, <3>2, EntriesChange
  <2>6. QED
    BY <2>2, <2>4, <2>5
<1>4. CASE \E n, m \in Names : Rename(n, m)
  <2>1. PICK n \in Names, m \in Names : Rename(n, m)
    BY <1>4
  <2>2. disk' = disk /\ (files' = files \/ pc' = "sync")
    BY <2>1 DEF Rename, Refuse, Return, Start
  <2>3. CASE files' = files
    BY <2>2, <2>3, NothingChanges
  <2>4. CASE pc' = "sync"
    <3>1. \A k \in Names : k # n /\ k # m => SameFile(files, files', k)
      BY <2>1, <2>4, RenameKeepsOthers
    <3>2. ~Named(files', n)
      BY <2>1, <2>4, RenameForgets
    <3>3. QED
      BY <2>2, <3>1, <3>2, EntriesChange
  <2>5. QED
    BY <2>2, <2>3, <2>4
<1>5. CASE \E n \in Names, size \in Sizes : Truncate(n, size)
  <2>1. PICK n \in Names, size \in Sizes : Truncate(n, size)
    BY <1>5
  <2> DEFINE i == IndexOf(files, n)
  <2>2. /\ disk' = disk
        /\ \/ files' = files
           \/ size >= 0 /\ files' = [files EXCEPT ![i] = Resized(files[i], size)]
    BY <2>1 DEF Truncate, StartGrowing, Refuse, Return
  <2>3. i \in 1 .. Len(files) /\ files[i].name = n
    BY <1>1, <2>1, IndexOfNamed DEF Truncate
  <2> HIDE DEF i
  <2>4. CASE files' = files
    BY <2>2, <2>4, NothingChanges
  <2>5. CASE size >= 0 /\ files' = [files EXCEPT ![i] = Resized(files[i], size)]
    <3>1. size \in Nat
      BY <2>5, InputAssumption
    <3>2. \A k \in Names : k # n => SameFile(files, files', k)
      BY <2>3, <2>5, <3>1, ResizeKeepsOthers
    <3>3. QED
      BY <2>2, <3>2, EntriesChange
  <2>6. QED
    BY <2>2, <2>4, <2>5
<1>6. CASE Crunch \/ \E n \in Names, offset \in Offsets, nbytes \in Lengths,
                        v \in Byte \ {Zero} : Write(n, offset, nbytes, v)
  <2>1. CASE Crunch
    BY <2>1, NothingChanges DEF Crunch, Refuse
  <2>2. CASE \E n \in Names, offset \in Offsets, nbytes \in Lengths,
               v \in Byte \ {Zero} : Write(n, offset, nbytes, v)
    <3>1. PICK n \in Names, offset \in Offsets, nbytes \in Lengths,
               v \in Byte \ {Zero} : Write(n, offset, nbytes, v)
      BY <2>2
    <3>2. UNCHANGED <<files, disk>>
      BY <3>1 DEF Write, StartGrowing, Refuse
    <3>3. QED
      BY <3>2, NothingChanges
  <2>3. QED
    BY <1>6, <2>1, <2>2
<1>7. CASE WipeUnused
  <2>1. files' = files
    BY <1>7 DEF WipeUnused
  <2>2. \A b \in Block, i \in Index : Used(files, b, i) => disk'[b][i] = disk[b][i]
    BY <1>7 DEF WipeUnused
  <2>3. ASSUME NEW k \in 1 .. Len(files)
        PROVE  ContentIn(disk', files[k]) = ContentIn(disk, files[k])
    <3> DEFINE e == files[k]
    <3>1. /\ e \in Entry /\ e.first \in Nat /\ e.last \in Nat
          /\ LabelEnd <= e.first /\ e.first <= e.last /\ e.last <= EndOfVolume
      BY <1>1, EntryAt
    <3>2. ASSUME NEW o \in 0 .. CurrentSize(e) - 1
          PROVE  disk'[e.first + o \div BlockSize][o % BlockSize]
                   = disk[e.first + o \div BlockSize][o % BlockSize]
      <4> DEFINE b == e.first + o \div BlockSize
                 i == o % BlockSize
      <4>1. /\ i \in Index /\ b \in e.first .. e.last - 1
            /\ (b - e.first) * BlockSize + i = o
        BY <3>1, ByteOfFile
      <4> HIDE DEF b, i
      <4>2. b \in Block
        BY <3>1, <4>1, GeometryAssumption DEF Block
      <4>3. Used(files, b, i)
        BY <4>1 DEF Used
      <4>4. disk'[b][i] = disk[b][i]
        BY <2>2, <4>1, <4>2, <4>3
      <4>5. QED
        BY <4>4 DEF b, i
    <3>3. QED
      BY <3>2 DEF ContentIn
  <2>4. \A n : Named(files, n) => IndexOf(files, n) \in 1 .. Len(files)
    BY DEF Named, IndexOf
  <2>5. \A n : ~Changes(n)
    BY <2>1, <2>3, <2>4 DEF Changes, Content, ContentIn, CurrentSize, Blocks
  <2>6. QED
    BY <2>5 DEF OthersKept
<1>8. QED
  BY <1>2, <1>3, <1>4, <1>5, <1>6, <1>7 DEF Request

\* A call that stops half way, at the first block or the last.
LEMMA StopChanges ==
    ASSUME VolumeInv, HandlerInv, DataFails
    PROVE  \E t : OthersKept(t)
<1>1. files \in Seq(Entry) /\ Layout(files) /\ files' = files
  BY DEF VolumeInv, TypeOK, ExtentsDisjoint, DataFails
<1>2. \A n : SameFile(files, files', n)
  BY <1>1 DEF SameFile
<1>3. CASE DataStops \/ HoleStops
  <2>1. OthersKept(files[op.idx].name)
    BY <1>2, <1>3, DataKeeps, KeptIsNoChange DEF OthersKept
  <2>2. QED
    BY <2>1
<1>4. CASE MoveStops
  <2> DEFINE e == files[loop.j]
             n == Blocks(e)
  <2>1. Relocating
    BY <1>4 DEF MoveStops
  <2>2. n \in Nat
    BY <1>1, <2>1, TargetBetween, EntryAt
  <2>3. PICK m \in 0 .. n - 1 : disk' = PartlyCopied(disk, e.first, Target, n, m)
    BY <1>4 DEF MoveStops
  <2>4. /\ 0 \in Nat /\ m \in Int /\ m <= n
        /\ n - m \in Nat /\ n \in Int /\ n <= n
    BY <2>2, <2>3
  <2>5. \/ disk' = Copied(disk, e.first, Target, 0, m)
        \/ disk' = Copied(disk, e.first, Target, n - m, n)
    BY <2>3 DEF PartlyCopied
  <2>6. ASSUME NEW k \in Names, k # e.name PROVE ~Changes(k)
    <3>1. ASSUME NEW l \in 1 .. Len(files), files[l].name = k,
                 NEW b \in files[l].first .. files[l].last - 1
          PROVE  disk'[b] = disk[b]
      <4>1. l # loop.j
        BY <2>6, <3>1
      <4>2. Copied(disk, e.first, Target, 0, m)[b] = disk[b]
        BY <2>1, <2>4, <4>1, MoveFrame
      <4>3. Copied(disk, e.first, Target, n - m, n)[b] = disk[b]
        BY <2>1, <2>4, <4>1, MoveFrame
      <4>4. QED
        BY <2>5, <4>2, <4>3
    <3>2. Kept(k)
      BY <1>1, <1>2, <3>1, KeptSame
    <3>3. QED
      BY <3>2, KeptIsNoChange
  <2>7. OthersKept(e.name)
    BY <2>6 DEF OthersKept
  <2>8. QED
    BY <2>7
<1>5. QED
  BY <1>3, <1>4 DEF DataFails

LEMMA OneChange ==
    ASSUME VolumeInv, HandlerInv, Next, ret' # "mounted"
    PROVE  \E t : OthersKept(t)
<1>1. CASE MoveDown \/ MoveUp
  <2>1. OthersKept(Zero)
    BY <1>1, MoveKeeps, KeptIsNoChange DEF OthersKept
  <2>2. QED
    BY <2>1
<1>2. CASE Pad \/ PutData \/ PutHole
  <2> DEFINE t == files[op.idx].name
  <2>1. /\ op.idx \in 1 .. Len(files) /\ op.end \in Nat
    BY <1>2 DEF VolumeInv, TypeOK, LoopInv, Pad, PutData, PutHole
  <2>2. files' = files \/ files' = [files EXCEPT ![op.idx] = Resized(files[op.idx], op.end)]
    BY <1>2 DEF Pad, PutData, PutHole, SetSize
  <2>3. ASSUME NEW k \in Names, k # t PROVE SameFile(files, files', k)
    <3>1. CASE files' = files
      BY <3>1 DEF SameFile
    <3>2. CASE files' = [files EXCEPT ![op.idx] = Resized(files[op.idx], op.end)]
      BY <2>1, <2>3, <3>2, ResizeKeepsOthers
    <3>3. QED
      BY <2>2, <3>1, <3>2
  <2>4. OthersKept(t)
    BY <1>2, <2>3, DataKeeps, KeptIsNoChange DEF OthersKept
  <2>5. QED
    BY <2>4
<1>3. CASE GapMade \/ Grow \/ HoleUnreadable \/ HoleAborts \/ WriteDirectory
              \/ WriteSecondDirectory \/ SyncFails \/ KilledInDirectory \/ Lost
  BY <1>3, NothingChanges DEF GapMade, Grow, HoleUnreadable, HoleAborts, Refuse,
     WriteDirectory, WriteSecondDirectory, SyncFails, KilledInDirectory, Lost
<1>4. ~(Restart \/ KilledInData \/ KilledInSecondDirectory)
  BY DEF Restart, KilledInData, KilledInSecondDirectory, Remount, Return
<1>5. QED
  BY <1>1, <1>2, <1>3, <1>4, RequestChanges, StopChanges DEF Next, Step, Failure, End

\* No I/O call, whole or cut off, changes the bytes of two files.
THEOREM OneFile == Spec => OneFileAtATime
<1>1. ASSUME VolumeInv, HandlerInv, [Next]_vars
      PROVE  [ret' # "mounted" =>
                 \A n, m \in Names : Changes(n) /\ Changes(m) => n = m]_<<files, disk>>
  <2>1. CASE UNCHANGED vars
    BY <2>1 DEF vars
  <2>2. CASE Next
    <3> SUFFICES ASSUME ret' # "mounted",
                        NEW n \in Names, NEW m \in Names, Changes(n), Changes(m)
                 PROVE  n = m
      OBVIOUS
    <3>1. PICK t : OthersKept(t)
      BY <1>1, <2>2, OneChange
    <3>2. n = t /\ m = t
      BY <3>1 DEF OthersKept
    <3>3. QED
      BY <3>2
  <2>3. QED
    BY <1>1, <2>1, <2>2
<1>2. QED
  BY <1>1, Invariance, Handlers, PTL DEF Spec, OneFileAtATime

-----------------------------------------------------------------------------
(* The hole of a last block, and the wipe.                                 *)

LEMMA HoleStep ==
    ASSUME VolumeInv, HandlerInv, Next, pc = "hole",
           NEW b \in Block, NEW i \in Index, Used(files, b, i)
    PROVE  disk'[b][i] = disk[b][i]
<1> DEFINE e == files[op.idx]
<1>1. /\ files \in Seq(Entry) /\ Layout(files) /\ op.idx \in 1 .. Len(files)
      /\ op.offset \in Nat /\ op.end \in Nat
  BY DEF VolumeInv, TypeOK, ExtentsDisjoint, LoopInv
<1>2. /\ CurrentSize(e) \in Nat /\ e.first \in Nat
      /\ CurrentSize(e) < op.offset /\ op.offset < op.end
  BY <1>1, EntryAt DEF HandlerInv
<1>3. \/ disk' = disk
      \/ (PutHole \/ HoleStops) /\ HoleAssertion /\ disk' = HoleFilled
  BY DEF Next, Request, Mknod, Unlink, Rename, Truncate, Write, Crunch, WipeUnused, Step,
     MoveDown, MoveUp, GapMade, Grow, Pad, PutData, PutHole, HoleUnreadable, HoleAborts, Refuse,
     WriteDirectory, WriteSecondDirectory, Failure, DataFails, SyncFails, End, Restart,
     KilledInData, KilledInDirectory, KilledInSecondDirectory, Lost, MoveStops, Relocating,
     DataStops, HoleStops
<1>4. PICK k \in 1 .. Len(files) :
         (b - files[k].first) * BlockSize + i \in 0 .. CurrentSize(files[k]) - 1
  BY DEF Used
<1>5. b \in Int
  BY GeometryAssumption DEF Block
<1>6. CASE (PutHole \/ HoleStops) /\ HoleAssertion /\ disk' = HoleFilled /\ k # op.idx
  <2>1. files[k] \in Entry /\ files[k].first <= files[k].last
        /\ files[k].first \in Nat /\ files[k].last \in Nat
    BY <1>1, EntryAt
  <2>2. files[k].first <= b /\ b < files[k].last
    BY <1>4, <1>5, <2>1, UsedInExtent
  <2>3. b \in files[k].first .. files[k].last - 1
    BY <1>5, <2>1, <2>2
  <2>4. disk'[b] = disk[b]
    BY <1>6, <2>3, DataFrame
  <2>5. QED
    BY <2>4
<1>7. CASE HoleAssertion /\ disk' = HoleFilled /\ k = op.idx
  <2> DEFINE x == (b - e.first) * BlockSize + i
             lo == HoleStart
             hi == HoleStart + (op.end - op.offset)
  <2>1. lo \in Nat /\ op.offset <= lo
    BY <1>1, <1>2, <1>7, HoleFits
  <2>2. x \in 0 .. CurrentSize(e) - 1
    BY <1>4, <1>7
  <2>3. disk'[b][i] = IF x \in lo .. hi - 1 THEN op.value ELSE disk[b][i]
    BY <1>7 DEF HoleFilled, Fill
  <2> HIDE DEF e, x, lo, hi
  <2>4. x \notin lo .. hi - 1
    BY <1>1, <1>2, <2>1, <2>2
  <2>5. QED
    BY <2>3, <2>4
<1>8. QED
  BY <1>3, <1>6, <1>7

\* A write into the hole of a last block changes no byte of a file, its own
\* included, whether it finishes or not (file.cc:457-474).
THEOREM HoleKeeps == Spec => HoleKeepsBytes
<1>1. VolumeInv /\ HandlerInv /\ [Next]_vars =>
          [pc = "hole" => \A b \in Block, i \in Index :
              Used(files, b, i) => disk'[b][i] = disk[b][i]]_vars
  BY HoleStep
<1>2. QED
  BY <1>1, Invariance, Handlers, PTL DEF Spec, HoleKeepsBytes

LEMMA WipeNext ==
    ASSUME ~MayFail, SpaceInv, WipeErases, [Next]_vars
    PROVE  WipeErases'
<1>1. CASE WipeUnused
  <2>1. files' = files
    BY <1>1 DEF WipeUnused
  <2>2. disk' = [b \in Block |-> [i \in Index |->
                    IF b \in {} \/ Used(files, b, i) THEN disk[b][i] ELSE Zero]]
    BY <1>1 DEF WipeUnused
  <2>3. QED
    BY <2>1, <2>2 DEF WipeErases, Used, CurrentSize, Blocks
<1>2. CASE UNCHANGED <<files, disk, ret>>
  BY <1>2 DEF WipeErases, Used, CurrentSize, Blocks
<1>3. CASE ret' # "wiped"
  BY <1>3 DEF WipeErases
<1>4. CASE ~WipeUnused /\ ret' = "wiped" /\ Next
  <2>1. ret' = ret
    BY <1>4 DEF Next, Request, Mknod, Unlink, Rename, Truncate, StartGrowing, Write, Crunch,
       Step, MoveDown, MoveUp, GapMade, Grow, Pad, PutData, PutHole, HoleUnreadable, HoleAborts,
       WriteDirectory, WriteSecondDirectory, Synced, Failure, DataFails, SyncFails, Fail, End,
       Restart, Remount, KilledInData, KilledInDirectory, KilledInSecondDirectory, Lost,
       Refuse, Return, Start
  <2>2. pc \in {"idle", "lost"}
    BY <1>4, <2>1 DEF SpaceInv
  <2>3. Lost
    BY <1>4, <2>1, <2>2 DEF Next, Request, Mknod, Unlink, Rename, Truncate, StartGrowing, Write,
       Crunch, Step, MoveDown, MoveUp, GapMade, Grow, Pad, PutData, PutHole, HoleUnreadable,
       HoleAborts, WriteDirectory, WriteSecondDirectory, Synced, Failure, DataFails, SyncFails,
       Fail, End, Restart, Remount, KilledInData, KilledInDirectory, KilledInSecondDirectory,
       Refuse, Return, Start
  <2>4. QED
    BY <1>2, <2>1, <2>3 DEF Lost
<1>5. QED
  BY <1>2, <1>3, <1>4, <1>1 DEF vars

\* Where no write fails, nothing of a deleted file is left after a wipe
\* (directory.cc:531-584).
THEOREM Wiped ==
    ASSUME ~MayFail
    PROVE  Spec => []WipeErases
<1>1. Init => WipeErases
  BY DEF Init, WipeErases
<1>2. SpaceInv /\ WipeErases /\ [Next]_vars => WipeErases'
  BY WipeNext
<1>3. QED
  BY <1>1, <1>2, Packed, PTL DEF Spec

-----------------------------------------------------------------------------
(* Sizes.                                                                  *)

LEMMA RoundUpZero == RoundUp(0) = 0
<1>1. 0 <= 0 * BlockSize
  BY BlockSizeAssumption
<1>2. QED
  BY <1>1, RoundUpBound

\* An entry that is given a size has it.
LEMMA ResizedSize ==
    ASSUME NEW e \in Entry, NEW n \in Nat
    PROVE  CurrentSize(Resized(e, n)) = n
<1> DEFINE m == Resized(e, n)
           k == RoundUp(n)
           q == n \div BlockSize
           r == n % BlockSize
<1>1. /\ BlockSize \in Nat /\ BlockSize > 0 /\ e.first \in Nat
      /\ m.first = e.first /\ m.last = e.first + k /\ m.lastbyte = LastByte(n)
  BY BlockSizeAssumption DEF Entry, Resized
<1>2. /\ q \in Nat /\ r \in 0 .. BlockSize - 1 /\ q * BlockSize + r = n
  <2>1. n < (n + 1) * BlockSize
    <3>1. (n + 1) * 1 <= (n + 1) * BlockSize
      BY <1>1
    <3>2. QED
      BY <1>1, <3>1
  <2>2. n + 1 \in Int
    OBVIOUS
  <2>3. QED
    BY <2>1, <2>2, ByteInBlock DEF Index
<1>3. k \in Nat
  BY RoundUpType
<1>4. LastByte(n) = IF r = 0 THEN BlockSize ELSE r
  BY DEF LastByte
<1> HIDE DEF m, k, q, r
<1>5. CASE n = 0
  <2>1. k = 0
    BY <1>5, RoundUpZero DEF k
  <2>2. m.first >= m.last
    BY <1>1, <2>1
  <2>3. QED
    BY <1>5, <2>2 DEF CurrentSize, m
<1>6. CASE n > 0
  <2>1. (q + 1) * BlockSize = q * BlockSize + BlockSize
        /\ (q - 1) * BlockSize = q * BlockSize - BlockSize /\ q * BlockSize \in Int
    BY <1>1, <1>2
  <2>2. CASE r = 0
    <3>1. n <= q * BlockSize /\ n > (q - 1) * BlockSize
      BY <1>1, <1>2, <2>1, <2>2
    <3>2. k <= q /\ k > q - 1
      BY <1>2, <3>1, RoundUpBound, RoundUpExceeds DEF k
    <3>3. k = q /\ (k - 1) * BlockSize + BlockSize = n
      BY <1>1, <1>2, <1>3, <2>1, <2>2, <3>2
    <3>4. k > 0
      BY <1>1, <1>2, <1>3, <1>6, <2>1, <2>2, <3>3
    <3>5. m.first < m.last /\ Blocks(m) = k
      BY <1>1, <1>3, <3>4 DEF Blocks
    <3>6. CurrentSize(m) = (k - 1) * BlockSize + BlockSize
      BY <1>1, <1>3, <1>4, <2>2, <3>5 DEF CurrentSize
    <3>7. QED
      BY <3>3, <3>6 DEF m
  <2>3. CASE r > 0
    <3>1. n <= (q + 1) * BlockSize /\ n > q * BlockSize
      BY <1>1, <1>2, <2>1, <2>3
    <3>2. k <= q + 1 /\ k > q
      BY <1>2, <3>1, RoundUpBound, RoundUpExceeds DEF k
    <3>3. k = q + 1 /\ k - 1 = q
      BY <1>2, <1>3, <3>2
    <3>4. m.first < m.last /\ Blocks(m) = k
      BY <1>1, <1>2, <1>3, <3>3 DEF Blocks
    <3>5. CurrentSize(m) = q * BlockSize + r
      BY <1>1, <1>2, <1>3, <1>4, <2>3, <3>3, <3>4 DEF CurrentSize
    <3>6. QED
      BY <1>2, <3>5 DEF m
  <2>4. QED
    BY <1>2, <2>2, <2>3
<1>7. QED
  BY <1>5, <1>6

\* The blocks a file needs for its size are those it has.
LEMMA ExtentOfSize ==
    ASSUME NEW e \in Entry, e.first <= e.last
    PROVE  RoundUp(CurrentSize(e)) * BlockSize = ExtentSize(e)
<1> DEFINE s == CurrentSize(e)
           k == Blocks(e)
<1>1. /\ BlockSize \in Nat /\ BlockSize > 0 /\ e.lastbyte \in 1 .. BlockSize
      /\ e.first \in Nat /\ e.last \in Nat /\ k = e.last - e.first /\ k \in Nat
      /\ s \in Nat /\ s <= k * BlockSize
  BY BlockSizeAssumption, SizeBounds DEF Entry, Blocks
<1>2. CASE e.first >= e.last
  <2>1. s = 0 /\ ExtentSize(e) = 0
    BY <1>2 DEF CurrentSize, ExtentSize
  <2>2. QED
    BY <1>1, <2>1, RoundUpZero
<1>3. CASE ~(e.first >= e.last)
  <2>1. s = (k - 1) * BlockSize + e.lastbyte /\ ExtentSize(e) = k * BlockSize
    BY <1>3 DEF CurrentSize, ExtentSize
  <2> HIDE DEF s, k
  <2>2. s > (k - 1) * BlockSize
    BY <1>1, <2>1
  <2>3. k >= 1
    BY <1>1, <1>3
  <2>4. k - 1 \in Nat
    BY <1>1, <2>3
  <2>5. RoundUp(s) > k - 1
    BY <1>1, <2>2, <2>4, RoundUpExceeds
  <2>6. RoundUp(s) \in Nat /\ RoundUp(s) <= k
    BY <1>1, RoundUpBound
  <2>7. RoundUp(s) = k
    BY <1>1, <2>5, <2>6
  <2>8. QED
    BY <2>1, <2>7 DEF s
<1>4. QED
  BY <1>2, <1>3

LEMMA MovedSizes ==
    ASSUME NEW e \in Entry, NEW b \in Nat, e.first <= e.last
    PROVE  /\ CurrentSize(MovedTo(e, b)) = CurrentSize(e)
           /\ ExtentSize(MovedTo(e, b)) = ExtentSize(e)
<1> DEFINE m == MovedTo(e, b)
<1>1. /\ m.first = b /\ m.last = b + Blocks(e) /\ m.lastbyte = e.lastbyte
      /\ e.first \in Nat /\ e.last \in Nat /\ Blocks(e) = e.last - e.first
  BY DEF MovedTo, Entry, Blocks
<1> HIDE DEF m
<1>2. m.first >= m.last <=> e.first >= e.last
  BY <1>1
<1>3. Blocks(m) = Blocks(e)
  BY <1>1 DEF Blocks
<1>4. QED
  BY <1>1, <1>2, <1>3 DEF CurrentSize, ExtentSize, m

-----------------------------------------------------------------------------
(* Bytes.                                                                  *)

\* Byte o behind the start of block b.
ByteIn(d, b, o) == d[b + o \div BlockSize][o % BlockSize]

\* A byte of g blocks after a fill.
LEMMA FillByte ==
    ASSUME NEW b0 \in Nat, NEW g \in Nat, LabelEnd <= b0, b0 + g <= EndOfVolume,
           NEW o \in Nat, o < g * BlockSize, NEW d, NEW lo, NEW hi, NEW v
    PROVE  ByteIn(Fill(d, b0, lo, hi, v), b0, o) =
               IF o \in lo .. hi - 1 THEN v ELSE ByteIn(d, b0, o)
<1> DEFINE q == o \div BlockSize
           r == o % BlockSize
<1>1. q \in Nat /\ q < g /\ r \in Index /\ q * BlockSize + r = o
  BY ByteInBlock
<1> HIDE DEF q, r
<1>2. b0 + q \in Block /\ b0 + q - b0 = q
  BY <1>1, GeometryAssumption DEF Block
<1>3. Fill(d, b0, lo, hi, v)[b0 + q][r] =
          IF (b0 + q - b0) * BlockSize + r \in lo .. hi - 1 THEN v ELSE d[b0 + q][r]
  BY <1>1, <1>2 DEF Fill
<1>4. QED
  BY <1>1, <1>2, <1>3 DEF q, r, ByteIn

\* The g blocks from block b on are blocks of the volume and hold n bytes.
Room(b, g, n) ==
    /\ b \in Nat /\ g \in Nat /\ n \in Nat
    /\ LabelEnd <= b /\ b + g <= EndOfVolume /\ n <= g * BlockSize

\* On disk c, file e has the bytes of disk d, but for bytes lo to hi - 1, which are v.
FilledIn(c, e, d, lo, hi, v) ==
    \A o \in 0 .. CurrentSize(e) - 1 :
        ContentIn(c, e)[o] = IF o \in lo .. hi - 1 THEN v ELSE ByteIn(d, e.first, o)

LEMMA FilledContent ==
    ASSUME NEW e, NEW g, Room(e.first, g, CurrentSize(e)), NEW d, NEW lo, NEW hi, NEW v
    PROVE  FilledIn(Fill(d, e.first, lo, hi, v), e, d, lo, hi, v)
<1> DEFINE c == Fill(d, e.first, lo, hi, v)
<1>1. /\ g * BlockSize \in Int /\ e.first \in Nat /\ g \in Nat
      /\ LabelEnd <= e.first /\ e.first + g <= EndOfVolume
      /\ CurrentSize(e) \in Nat /\ CurrentSize(e) <= g * BlockSize
  BY BlockSizeAssumption DEF Room
<1>2. ASSUME NEW o \in 0 .. CurrentSize(e) - 1
      PROVE  ContentIn(c, e)[o] = IF o \in lo .. hi - 1 THEN v ELSE ByteIn(d, e.first, o)
  <2>1. o \in Nat /\ o < g * BlockSize
    BY <1>1
  <2>2. ByteIn(c, e.first, o) = IF o \in lo .. hi - 1 THEN v ELSE ByteIn(d, e.first, o)
    BY <1>1, <2>1, FillByte
  <2>3. ContentIn(c, e)[o] = ByteIn(c, e.first, o)
    BY DEF ContentIn, ByteIn
  <2>4. QED
    BY <2>2, <2>3
<1>3. QED
  BY <1>2 DEF FilledIn

-----------------------------------------------------------------------------
(* What a running truncate or write knows.                                 *)

Working == {"down", "up", "gapSync", "gapTwin", "grow", "pad", "data", "hole"}

LEMMA StoreIdle ==
    ASSUME pc' \notin Working
    PROVE  StoreInv'
BY DEF StoreInv, Working

\* What StoreInv asks of the arguments of a handler that works on entry e.
Knows(o, e) ==
    \/ o.kind = "crunch"
    \/ o.kind = "truncate" /\ o.end \in Sizes /\ CurrentSize(e) < o.end
    \/ /\ o.kind \in {"write", "extend"} /\ o.value # Zero
       /\ o.offset \in Offsets /\ o.end - o.offset \in Lengths \ {0}
       /\ o.kind = "extend" <=> ExtentSize(e) < o.end

LEMMA StoreKnows == StoreInv /\ pc \in Working => Knows(op, files[op.idx])
BY DEF StoreInv, Working, Knows

\* Knowledge is kept where the entry keeps its size and no data is next.
LEMMA StoreOnward ==
    ASSUME pc' \in {"down", "up", "gapSync", "gapTwin", "grow"},
           Knows(op', files'[op'.idx])
    PROVE  StoreInv'
<1> DEFINE e == files'[op'.idx]
<1>1. CurrentSize(files[op.idx])' = CurrentSize(e) /\ ExtentSize(files[op.idx])' = ExtentSize(e)
  BY DEF CurrentSize, ExtentSize, Blocks
<1>2. Knows(op', e)
  OBVIOUS
<1> HIDE DEF e
<1>3. QED
  BY <1>1, <1>2 DEF StoreInv, Knows

\* The next step is the one PadOrData chooses.
LEMMA StoreReady ==
    ASSUME NEW i, NEW kind, NEW offset \in Nat, NEW end \in Nat,
           UNCHANGED <<files, disk>>, op'.idx = i, op'.kind = kind, op'.offset = offset,
           op'.end = end, CurrentSize(files[i]) \in Nat,
           kind \in {"truncate", "extend"}, Knows(op', files[i]),
           pc' = PadOrData(i, kind, offset, end)
    PROVE  StoreInv'
<1> DEFINE e == files[i]
<1>1. CurrentSize(files[op.idx])' = CurrentSize(e) /\ ExtentSize(files[op.idx])' = ExtentSize(e)
  BY DEF CurrentSize, ExtentSize, Blocks
<1>2. CurrentSize(e) \in Nat /\ Knows(op', e)
  OBVIOUS
<1>3. pc' = IF CurrentSize(e) < (IF kind = "truncate" THEN end ELSE offset)
            THEN "pad" ELSE "data"
  BY DEF PadOrData
<1> HIDE DEF e
<1>4. CASE kind = "truncate"
  <2>1. pc' = "pad"
    BY <1>2, <1>3, <1>4 DEF Knows
  <2>2. QED
    BY <1>1, <1>2, <1>4, <2>1 DEF StoreInv, Knows
<1>5. CASE kind = "extend"
  <2>1. pc' = "data" => offset <= CurrentSize(e)
    BY <1>2, <1>3, <1>5
  <2>2. pc' = "data" => CurrentSize(e) .. offset - 1 = {}
    BY <1>2, <2>1
  <2>3. pc' \in {"pad", "data"}
    BY <1>3
  <2>4. QED
    BY <1>1, <1>2, <1>5, <2>2, <2>3 DEF StoreInv, Knows
<1>6. QED
  BY <1>4, <1>5

LEMMA StartGrowingStore ==
    ASSUME VolumeInv, NEW n \in Names, Named(files, n), NEW i, i = IndexOf(files, n),
           NEW kind \in {"truncate", "extend"}, NEW offset \in Nat, NEW end \in Nat, NEW v,
           kind = "truncate" => end \in Sizes /\ CurrentSize(files[i]) < end,
           kind = "extend" => /\ v # Zero /\ offset \in Offsets
                              /\ end - offset \in Lengths \ {0}
                              /\ ExtentSize(files[i]) < end,
           StartGrowing(kind, n, offset, end, v)
    PROVE  StoreInv'
<1>1. /\ files \in Seq(Entry) /\ Layout(files)
      /\ i \in 1 .. Len(files) /\ CurrentSize(files[i]) \in Nat
  BY IndexOfNamed, EntryAt DEF VolumeInv, TypeOK, ExtentsDisjoint
<1>2. /\ op' = [kind |-> kind, idx |-> i, touched |-> {n},
                offset |-> offset, end |-> end, value |-> v]
      /\ pc' = PadOrData(i, kind, offset, end) \/ pc' = "down"
      /\ UNCHANGED <<files, disk>>
  BY DEF StartGrowing, Start
<1>3. Knows(op', files[i])
  BY <1>2 DEF Knows
<1>4. CASE pc' = "down"
  BY <1>2, <1>3, <1>4, StoreOnward
<1>5. CASE pc' = PadOrData(i, kind, offset, end)
  <2>1. op'.idx = i /\ op'.kind = kind /\ op'.offset = offset /\ op'.end = end
    BY <1>2
  <2>2. QED
    BY <1>1, <1>2, <1>3, <1>5, <2>1, StoreReady
<1>6. QED
  BY <1>2, <1>4, <1>5

LEMMA TruncateStore ==
    ASSUME VolumeInv, NEW n \in Names, NEW size \in Sizes, Truncate(n, size)
    PROVE  StoreInv'
<1>1. Named(files, n) /\ size \in Int
  BY InputAssumption DEF Truncate
<1>2. CASE pc' \in {"idle", "sync"}
  BY <1>2, StoreIdle DEF Working
<1>3. CASE /\ size >= 0 /\ size > CurrentSize(files[IndexOf(files, n)])
           /\ StartGrowing("truncate", n, 0, size, Zero)
  <2> DEFINE i == IndexOf(files, n)
  <2>1. /\ size \in Nat /\ CurrentSize(files[i]) \in Nat
    BY <1>1, <1>3, IndexOfNamed, EntryAt DEF VolumeInv, TypeOK, ExtentsDisjoint
  <2>2. CurrentSize(files[i]) < size /\ i = IndexOf(files, n)
    BY <1>3, <2>1
  <2> HIDE DEF i
  <2>3. QED
    BY <1>1, <1>3, <2>1, <2>2, StartGrowingStore
<1>4. QED
  BY <1>1, <1>2, <1>3 DEF Truncate, Refuse, Return, Start

LEMMA WriteStore ==
    ASSUME VolumeInv, NEW n \in Names, NEW offset \in Offsets, NEW nbytes \in Lengths,
           NEW v, v # Zero, Write(n, offset, nbytes, v)
    PROVE  StoreInv'
<1> DEFINE i == IndexOf(files, n)
           e == files[i]
           end == offset + nbytes
<1>1. Named(files, n) /\ offset \in Int /\ nbytes \in Nat
  BY InputAssumption DEF Write
<1>2. CASE pc' = "idle"
  BY <1>2, StoreIdle DEF Working
<1>3. /\ CurrentSize(e) \in Nat /\ ExtentSize(e) \in Nat
  <2>1. e \in Entry /\ e.first <= e.last
    BY <1>1, IndexOfNamed, EntryAt DEF VolumeInv, TypeOK, ExtentsDisjoint
  <2>2. QED
    BY <2>1, SizeBounds
<1>4. ASSUME offset >= 0, nbytes > 0
      PROVE  offset \in Nat /\ end \in Nat /\ end - offset = nbytes /\ offset < end
  BY <1>1, <1>4
<1>5. CASE /\ offset >= 0 /\ nbytes > 0 /\ end <= ExtentSize(e)
           /\ Start("write", i, {n}, offset, end, v,
                    IF end <= CurrentSize(e) \/ offset <= CurrentSize(e)
                    THEN "data" ELSE "hole")
           /\ UNCHANGED <<files, disk, image, backup, ro, loop, fault>>
  <2>1. /\ op' = [kind |-> "write", idx |-> i, touched |-> {n},
                  offset |-> offset, end |-> end, value |-> v]
        /\ pc' \in {"data", "hole"}
        /\ pc' = "data" => end <= CurrentSize(e) \/ offset <= CurrentSize(e)
        /\ UNCHANGED <<files, disk>>
    BY <1>5 DEF Start
  <2>2. /\ CurrentSize(files[op.idx])' = CurrentSize(e)
        /\ ExtentSize(files[op.idx])' = ExtentSize(e)
    BY <2>1 DEF CurrentSize, ExtentSize, Blocks
  <2>3. pc' = "data" => offset <= CurrentSize(e)
    BY <1>3, <1>4, <1>5, <2>1
  <2>4. pc' = "data" => CurrentSize(e) .. offset - 1 = {}
    BY <1>1, <1>3, <2>3
  <2>5. ~(ExtentSize(e) < end) /\ end - offset \in Lengths \ {0}
    BY <1>1, <1>3, <1>4, <1>5
  <2> HIDE DEF i, e, end
  <2>6. QED
    BY <2>1, <2>2, <2>3, <2>4, <2>5 DEF StoreInv
<1>6. CASE /\ offset >= 0 /\ nbytes > 0 /\ end > ExtentSize(e)
           /\ StartGrowing("extend", n, offset, end, v)
  <2>1. ExtentSize(e) < end /\ end - offset \in Lengths \ {0} /\ i = IndexOf(files, n)
    BY <1>1, <1>3, <1>4, <1>6
  <2>2. offset \in Nat /\ end \in Nat
    BY <1>4, <1>6
  <2> HIDE DEF i, e, end
  <2>3. ExtentSize(files[i]) < end
    BY <2>1 DEF e
  <2>4. QED
    BY <1>1, <1>6, <2>1, <2>2, <2>3, StartGrowingStore
<1>7. QED
  BY <1>1, <1>2, <1>5, <1>6 DEF Write, Refuse, Return

\* Files are moved: the one the handler works on keeps its size.
LEMMA MoveStore ==
    ASSUME VolumeInv, StoreInv, MoveDown \/ MoveUp
    PROVE  StoreInv'
<1> DEFINE j == loop.j
           e == files[j]
           t == Target
           m == MovedTo(e, t)
           i == op.idx
<1>1. Relocating /\ Relocated /\ pc \in {"down", "up"} /\ pc' \in {"down", "up"} /\ op' = op
  BY DEF MoveDown, MoveUp, Relocating
<1>2. files \in Seq(Entry) /\ Layout(files)
  BY DEF VolumeInv, TypeOK, ExtentsDisjoint
<1>3. j \in 1 .. Len(files) /\ t \in Nat
  BY <1>1, TargetBetween
<1>4. i \in 1 .. Len(files)
  BY <1>1 DEF VolumeInv, LoopInv
<1>5. e \in Entry /\ e.first <= e.last
  BY <1>2, <1>3, EntryAt
<1>6. files' = [files EXCEPT ![j] = m]
  BY <1>1 DEF Relocated
<1>7. Knows(op, files[i])
  BY <1>1, StoreKnows DEF Working
<1>8. CASE i # j
  <2>1. files'[i] = files[i]
    BY <1>2, <1>4, <1>6, <1>8
  <2>2. QED
    BY <1>1, <1>7, <2>1, StoreOnward
<1>9. CASE i = j
  <2>1. files'[i] = m
    BY <1>2, <1>3, <1>6, <1>9
  <2>2. CurrentSize(m) = CurrentSize(e) /\ ExtentSize(m) = ExtentSize(e)
    BY <1>3, <1>5, MovedSizes
  <2> HIDE DEF m, e
  <2>3. Knows(op, e)
    BY <1>7, <1>9 DEF e
  <2>4. Knows(op', files'[op'.idx])
    BY <1>1, <2>1, <2>2, <2>3 DEF Knows
  <2>5. QED
    BY <1>1, <2>4, StoreOnward
<1>10. QED
  BY <1>8, <1>9

LEMMA GrowStore ==
    ASSUME VolumeInv, HandlerInv, StoreInv, Grow
    PROVE  StoreInv'
<1>1. CASE pc' = "idle"
  BY <1>1, StoreIdle DEF Working
<1>2. CASE /\ op.kind # "crunch"
           /\ pc' = PadOrData(op.idx, op.kind, op.offset, op.end)
           /\ UNCHANGED <<files, disk, image, backup, ro, op, loop, ret, fault>>
  <2>1. pc = "grow" /\ op.kind \in {"truncate", "extend"} /\ op.idx \in 1 .. Len(files)
    BY <1>2 DEF Grow, HandlerInv, VolumeInv, LoopInv
  <2>2. op.offset \in Nat /\ op.end \in Nat /\ CurrentSize(files[op.idx]) \in Nat
    BY <2>1, EntryAt DEF VolumeInv, TypeOK, ExtentsDisjoint
  <2>3. Knows(op, files[op.idx])
    BY <2>1, StoreKnows DEF Working
  <2>4. op' = op /\ UNCHANGED <<files, disk>>
    BY <1>2
  <2>5. QED
    BY <1>2, <2>1, <2>2, <2>3, <2>4, StoreReady
<1>3. QED
  BY <1>1, <1>2 DEF Grow, Refuse, Return

\* The hole has been cleared when the data comes.
LEMMA PadStore ==
    ASSUME VolumeInv, HandlerInv, StoreInv, Pad
    PROVE  StoreInv'
<1> DEFINE e == files[op.idx]
           s == CurrentSize(e)
           g == RoundUp(op.end)
<1>1. pc = "pad" /\ op' = op
  BY DEF Pad
<1>2. op.kind = "truncate" \/ op.kind = "extend"
  BY <1>1 DEF HandlerInv, StoreInv
<1>3. CASE op.kind = "truncate"
  <2>1. pc' = "sync"
    BY <1>3 DEF Pad
  <2>2. QED
    BY <2>1, StoreIdle DEF Working
<1>4. CASE op.kind = "extend"
  <2>1. /\ disk' = Fill(disk, e.first, s, op.offset, Zero)
        /\ files' = files /\ pc' = "data"
    BY <1>4 DEF Pad, PadEnd
  <2>2. /\ op.idx \in 1 .. Len(files) /\ op.offset \in Nat /\ op.end \in Nat
        /\ op.offset <= op.end
    BY <1>1, <1>4 DEF VolumeInv, LoopInv, TypeOK, HandlerInv
  <2>3. /\ e.first \in Nat /\ LabelEnd <= e.first /\ s \in Nat
    BY <2>2, EntryAt DEF VolumeInv, TypeOK, ExtentsDisjoint
  <2>4. e.first + g <= EndOfVolume
    BY <1>1 DEF VolumeInv, RoomInv
  <2>5. g \in Nat /\ op.end <= g * BlockSize /\ g * BlockSize \in Int
    <3>1. g \in Nat /\ op.end <= g * BlockSize
      BY <2>2, RoundUpCovers
    <3> HIDE DEF g
    <3>2. QED
      BY <3>1, BlockSizeAssumption
  <2>6. \A o \in s .. op.offset - 1 : ByteIn(disk', e.first, o) = Zero
    <3> DEFINE b0 == e.first
               hi == op.offset
    <3>1. /\ b0 \in Nat /\ g \in Nat /\ LabelEnd <= b0 /\ b0 + g <= EndOfVolume
          /\ s \in Nat /\ hi \in Nat /\ hi <= g * BlockSize
      BY <2>2, <2>3, <2>4, <2>5
    <3>2. disk' = Fill(disk, b0, s, hi, Zero)
      BY <2>1
    <3> HIDE DEF b0, g, hi, s, e
    <3>3. ASSUME NEW o \in s .. hi - 1
          PROVE  ByteIn(Fill(disk, b0, s, hi, Zero), b0, o) = Zero
      <4>1. o \in Nat /\ o < g * BlockSize
        BY <2>5, <3>1
      <4>2. ByteIn(Fill(disk, b0, s, hi, Zero), b0, o) =
                IF o \in s .. hi - 1 THEN Zero ELSE ByteIn(disk, b0, o)
        BY <3>1, <4>1, FillByte
      <4>3. QED
        BY <4>2
    <3>4. QED
      BY <3>2, <3>3 DEF b0, hi
  <2>7. /\ CurrentSize(files[op.idx])' = s
        /\ ExtentSize(files[op.idx])' = ExtentSize(e)
    BY <1>1, <2>1 DEF CurrentSize, ExtentSize, Blocks
  <2>8. Knows(op, e)
    BY <1>1, StoreKnows DEF Working
  <2>9. files'[op'.idx] = e
    BY <1>1, <2>1
  <2> HIDE DEF e, s
  <2>10. ~(op'.kind = "write") /\ Knows(op', e) /\ pc' = "data" /\ op'.offset = op.offset
         /\ op'.kind = "extend"
    BY <1>1, <1>4, <2>1, <2>8
  <2>11. QED
    BY <2>6, <2>7, <2>9, <2>10 DEF StoreInv, Knows, ByteAt, ByteIn
<1>5. QED
  BY <1>2, <1>3, <1>4

LEMMA StoreNext == VolumeInv /\ HandlerInv /\ StoreInv /\ [Next]_vars => StoreInv'
<1> SUFFICES ASSUME VolumeInv, HandlerInv, StoreInv, [Next]_vars PROVE StoreInv'
  OBVIOUS
<1>1. CASE \E n \in Names : Mknod(n) \/ Unlink(n)
  <2>1. pc' \in {"idle", "sync"}
    BY <1>1 DEF Mknod, Unlink, Refuse, Return, Start
  <2>2. QED
    BY <2>1, StoreIdle DEF Working
<1>2. CASE \E n, m \in Names : Rename(n, m)
  <2>1. pc' \in {"idle", "sync"}
    BY <1>2 DEF Rename, Refuse, Return, Start
  <2>2. QED
    BY <2>1, StoreIdle DEF Working
<1>3. CASE Crunch
  <2>1. CASE pc' = "idle"
    BY <2>1, StoreIdle DEF Working
  <2>2. CASE Start("crunch", Len(files), {}, 0, 0, Zero, "down")
    <3>1. pc' = "down" /\ Knows(op', files'[op'.idx])
      BY <2>2 DEF Start, Knows
    <3>2. QED
      BY <3>1, StoreOnward
  <2>3. QED
    BY <1>3, <2>1, <2>2 DEF Crunch, Refuse, Return
<1>4. CASE WipeUnused
  <2>1. pc' = "idle"
    BY <1>4 DEF WipeUnused
  <2>2. QED
    BY <2>1, StoreIdle DEF Working
<1>5. CASE GapMade
  <2>1. /\ pc = "up" /\ pc' \in {"gapSync", "grow"} /\ files' = files /\ op' = op
    BY <1>5 DEF GapMade
  <2>2. Knows(op, files[op.idx])
    BY <2>1, StoreKnows DEF Working
  <2>3. QED
    BY <2>1, <2>2, StoreOnward
<1>6. CASE PutData \/ PutHole \/ HoleUnreadable \/ HoleAborts
  <2>1. pc' \in {"sync", "idle", "aborted"}
    BY <1>6 DEF PutData, PutHole, HoleUnreadable, HoleAborts, Refuse, Return
  <2>2. QED
    BY <2>1, StoreIdle DEF Working
<1>7. CASE WriteDirectory \/ WriteSecondDirectory
  <2>1. CASE pc' \in {"idle", "twin"}
    BY <2>1, StoreIdle DEF Working
  <2>2. CASE pc' \notin {"idle", "twin"}
    <3>1. /\ pc \in {"gapSync", "gapTwin"} /\ pc' \in {"gapTwin", "grow"}
          /\ files' = files /\ op' = op
      BY <1>7, <2>2 DEF WriteDirectory, WriteSecondDirectory, Synced, Return
    <3>2. Knows(op, files[op.idx])
      BY <3>1, StoreKnows DEF Working
    <3>3. QED
      BY <3>1, <3>2, StoreOnward
  <2>3. QED
    BY <2>1, <2>2
<1>8. CASE Failure \/ End
  <2>1. pc' \in {"idle", "lost"}
    BY <1>8 DEF Failure, DataFails, SyncFails, Fail, End, Restart, Remount, KilledInData,
       KilledInDirectory, KilledInSecondDirectory, Lost, Return
  <2>2. QED
    BY <2>1, StoreIdle DEF Working
<1>9. CASE UNCHANGED vars
  <2>1. UNCHANGED <<files, disk, pc, op>>
    BY <1>9 DEF vars
  <2>2. QED
    BY <2>1 DEF StoreInv, ByteAt, CurrentSize, ExtentSize, Blocks
<1>10. CASE \E n \in Names, size \in Sizes : Truncate(n, size)
  BY <1>10, TruncateStore
<1>11. CASE \E n \in Names, offset \in Offsets, nbytes \in Lengths, v \in Byte \ {Zero} :
               Write(n, offset, nbytes, v)
  BY <1>11, WriteStore
<1>12. CASE MoveDown \/ MoveUp
  BY <1>12, MoveStore
<1>13. CASE Grow
  BY <1>13, GrowStore
<1>14. CASE Pad
  BY <1>14, PadStore
<1>15. QED
  BY <1>1, <1>2, <1>3, <1>4, <1>5, <1>6, <1>7, <1>8, <1>9, <1>10, <1>11, <1>12, <1>13, <1>14
     DEF Next, Request, Step

\* What a running handler knows of its file and its arguments holds in every
\* state, whatever fails (file.cc:304-565, directory.cc:261-487).
THEOREM Inductive == Spec => []InductiveInv
<1>1. Init => StoreInv
  <2> SUFFICES ASSUME Init PROVE StoreInv
    OBVIOUS
  <2>1. pc = "idle"
    BY DEF Init
  <2>2. QED
    BY <2>1 DEF StoreInv
<1>2. Spec => []StoreInv
  BY <1>1, StoreNext, Invariance, Handlers, PTL DEF Spec
<1>3. QED
  BY <1>2, Invariance, Packed, Handlers, PTL DEF InductiveInv

-----------------------------------------------------------------------------
(* The store that a volume is.                                             *)

\* What a program finds under a name.
Data(n) == Content(files[IndexOf(files, n)])

LEMMA StoredAt ==
    /\ Stored = [n \in DOMAIN Stored |-> Stored[n]]
    /\ \A n : /\ n \in DOMAIN Stored <=> Named(files, n)
              /\ Named(files, n) => Stored[n] = Data(n)
<1>1. \A n : n \in {files[i].name : i \in 1 .. Len(files)} <=> Named(files, n)
  BY DEF Named
<1>2. DOMAIN Stored = {files[i].name : i \in 1 .. Len(files)}
  BY DEF Stored
<1>3. Stored = [n \in DOMAIN Stored |-> Stored[n]]
  BY DEF Stored
<1>4. ASSUME NEW n, Named(files, n) PROVE Stored[n] = Data(n)
  BY <1>1, <1>4 DEF Stored, Data
<1>5. QED
  BY <1>1, <1>2, <1>3, <1>4

LEMMA StoredAtNext ==
    /\ Stored' = [n \in DOMAIN Stored' |-> Stored'[n]]
    /\ \A n : /\ n \in DOMAIN Stored' <=> Named(files', n)
              /\ Named(files', n) => Stored'[n] = Data(n)'
<1>1. \A n : n \in {files'[i].name : i \in 1 .. Len(files')} <=> Named(files', n)
  BY DEF Named
<1>2. DOMAIN Stored' = {files'[i].name : i \in 1 .. Len(files')}
  BY DEF Stored
<1>3. Stored' = [n \in DOMAIN Stored' |-> Stored'[n]]
  BY DEF Stored
<1>4. ASSUME NEW n, Named(files', n) PROVE Stored'[n] = Data(n)'
  BY <1>1, <1>4 DEF Stored, Data
<1>5. QED
  BY <1>1, <1>2, <1>3, <1>4

\* A directory names only names, and no more of them than it has entries.
LEMMA NamesOfEntries ==
    ASSUME NEW fs \in Seq(Entry), NEW n, Named(fs, n)
    PROVE  n \in Names
<1>1. PICK i \in 1 .. Len(fs) : fs[i].name = n
  BY DEF Named
<1>2. fs[i] \in Entry
  BY LenProperties
<1>3. QED
  BY <1>1, <1>2 DEF Entry

LEMMA StoredCount ==
    ASSUME files \in Seq(Entry)
    PROVE  /\ Cardinality(DOMAIN Stored) \in Nat
           /\ Cardinality(DOMAIN Stored) <= Len(files)
<1> DEFINE S == 1 .. Len(files)
           T == DOMAIN Stored
           f == [i \in S |-> files[i].name]
<1>1. Len(files) \in Nat
  BY LenProperties
<1>2. IsFiniteSet(S) /\ Cardinality(S) = Len(files)
  BY <1>1, FS_Interval
<1>3. T = {files[i].name : i \in S}
  BY DEF Stored
<1>4. f \in Surjection(S, T)
  BY <1>3 DEF Surjection
<1>5. IsFiniteSet(T) /\ Cardinality(T) <= Cardinality(S)
  BY <1>2, <1>4, FS_Surjection
<1>6. QED
  BY <1>2, <1>5, FS_CardinalityType

LEMMA SameCardinality == \A S : Files!Cardinality(S) = Cardinality(S)
BY DEF Files!Cardinality, Cardinality

\* The number of bytes of a file that is stored.
LEMMA SizeOf ==
    ASSUME NEW f, NEW s \in Nat, DOMAIN f = 0 .. s - 1
    PROVE  Files!Size(f) = s
<1>1. Cardinality(0 .. s - 1) = s
  BY FS_Interval
<1>2. QED
  BY <1>1, SameCardinality DEF Files!Size

\* Files that are all kept are the store there was.
LEMMA AllKept ==
    ASSUME files \in Seq(Entry), files' \in Seq(Entry), \A n \in Names : Kept(n)
    PROVE  Stored' = Stored
<1>1. ASSUME NEW n
      PROVE  /\ n \in DOMAIN Stored <=> n \in DOMAIN Stored'
             /\ n \in DOMAIN Stored => Stored'[n] = Stored[n]
  <2>1. CASE n \in Names
    BY <2>1, StoredAt, StoredAtNext DEF Kept, Data
  <2>2. CASE n \notin Names
    BY <2>2, NamesOfEntries, StoredAt, StoredAtNext
  <2>3. QED
    BY <2>1, <2>2
<1>2. DOMAIN Stored' = DOMAIN Stored
  BY <1>1
<1>3. QED
  BY <1>1, <1>2, StoredAt, StoredAtNext

LEMMA SameStored == UNCHANGED <<files, disk>> => UNCHANGED Stored
BY DEF Stored, Content, CurrentSize, Blocks

\* One file gets the bytes f, all others are kept.
LEMMA Updated ==
    ASSUME files \in Seq(Entry), files' \in Seq(Entry), NEW t, NEW f,
           Named(files', t), Data(t)' = f, \A n \in Names : n # t => Kept(n)
    PROVE  Files!Update(t, f)
<1> DEFINE new == [m \in DOMAIN Stored \cup {t} |-> IF m = t THEN f ELSE Stored[m]]
<1>1. ASSUME NEW n
      PROVE  /\ n \in DOMAIN Stored' <=> n \in DOMAIN Stored \cup {t}
             /\ n \in DOMAIN Stored' => Stored'[n] = IF n = t THEN f ELSE Stored[n]
  <2>1. CASE n = t
    BY <2>1, StoredAtNext
  <2>2. CASE n # t /\ n \in Names
    BY <2>2, StoredAt, StoredAtNext DEF Kept, Data
  <2>3. CASE n # t /\ n \notin Names
    BY <2>3, NamesOfEntries, StoredAt, StoredAtNext
  <2>4. QED
    BY <2>1, <2>2, <2>3
<1>2. DOMAIN Stored' = DOMAIN Stored \cup {t}
  BY <1>1
<1>3. Stored' = new
  BY <1>1, <1>2, StoredAtNext
<1>4. QED
  BY <1>3 DEF Files!Update

-----------------------------------------------------------------------------
(* Create, remove and rename.                                              *)

\* What the invariant says of the entries, before a step and after it.
LEMMA Entries ==
    VolumeInv => files \in Seq(Entry) /\ Layout(files) /\ UniqueNames(files)
BY DEF VolumeInv, TypeOK, ExtentsDisjoint, NamesUnique

\* A file whose entry is the same and whose blocks no step writes is kept.
LEMMA EntryKept ==
    ASSUME VolumeInv, disk' = disk, NEW n, SameFile(files, files', n)
    PROVE  Kept(n)
BY Entries, KeptSame

LEMMA CreateStep ==
    ASSUME VolumeInv, VolumeInv', NEW n \in Names, Mknod(n)
    PROVE  Files!Create(n) \/ UNCHANGED Stored
<1> DEFINE e == [name |-> n, first |-> EndOfVolume, last |-> EndOfVolume,
                 lastbyte |-> BlockSize]
<1>1. /\ disk' = disk
      /\ \/ files' = files
         \/ ~Named(files, n) /\ Len(files) < MaxEntries /\ files' = Append(files, e)
  BY DEF Mknod, Refuse, Return
<1>2. CASE files' = files
  BY <1>1, <1>2, SameStored
<1>3. CASE ~Named(files, n) /\ Len(files) < MaxEntries /\ files' = Append(files, e)
  <2>1. e \in Entry /\ e.name = n /\ e.first = EndOfVolume /\ e.last = EndOfVolume
    BY GeometryAssumption, BlockSizeAssumption DEF Entry
  <2> HIDE DEF e
  <2>2. /\ files \in Seq(Entry) /\ UniqueNames(files) /\ Len(files) \in Nat
        /\ files' \in Seq(Entry) /\ UniqueNames(files')
    <3>1. /\ files \in Seq(Entry) /\ UniqueNames(files)
          /\ files' \in Seq(Entry) /\ UniqueNames(files)'
      BY DEF VolumeInv, TypeOK, NamesUnique
    <3>2. QED
      BY <3>1, LenProperties DEF UniqueNames
  <2>3. \A k \in Names : k # n => Kept(k)
    BY <1>1, <1>3, <2>1, <2>2, SameFileAppend, EntryKept
  <2>4. Named(files', n) /\ files'[IndexOf(files', n)] = e
    <3> DEFINE l == Len(files) + 1
    <3>1. l \in 1 .. Len(files') /\ files'[l] = e
      BY <1>3, <2>1, <2>2, AppendEntry
    <3> HIDE DEF l
    <3>2. \A i, j \in 1 .. Len(files') :
             files'[i].name = n /\ files'[j].name = n => i = j
      BY <2>2 DEF UniqueNames
    <3>3. Named(files', n) /\ IndexOf(files', n) = l
      BY <2>1, <3>1, <3>2, FoundAt
    <3>4. QED
      BY <3>1, <3>3
  <2>5. Data(n)' = [o \in {} |-> Zero]
    <3>1. CurrentSize(e) = 0
      BY <2>1, GeometryAssumption DEF CurrentSize
    <3>2. Data(n)' = ContentIn(disk', e)
      BY <2>4 DEF Data, Content, ContentIn
    <3>3. ContentIn(disk', e) = [o \in {} |-> Zero]
      <4>1. 0 .. CurrentSize(e) - 1 = {}
        BY <3>1
      <4>2. QED
        BY <4>1 DEF ContentIn
    <3>4. QED
      BY <3>2, <3>3
  <2>6. Files!Update(n, [o \in {} |-> Zero])
    BY <2>2, <2>3, <2>4, <2>5, Updated
  <2>7. n \notin DOMAIN Stored
    BY <1>3, StoredAt
  <2>8. Files!Cardinality(DOMAIN Stored) < MaxEntries
    BY <1>3, <2>2, StoredCount, SameCardinality, GeometryAssumption
  <2>9. QED
    BY <2>6, <2>7, <2>8 DEF Files!Create
<1>4. QED
  BY <1>1, <1>2, <1>3

LEMMA RemoveStep ==
    ASSUME VolumeInv, VolumeInv', NEW n \in Names, Unlink(n)
    PROVE  Files!Remove(n) \/ UNCHANGED Stored
<1> DEFINE i == IndexOf(files, n)
<1>1. /\ Named(files, n) /\ disk' = disk
      /\ files' = files \/ files' = Erase(files, i)
  BY DEF Unlink, Refuse, Return
<1>2. /\ files \in Seq(Entry) /\ UniqueNames(files)
      /\ files' \in Seq(Entry) /\ UniqueNames(files')
  BY DEF VolumeInv, TypeOK, NamesUnique, UniqueNames
<1>3. i \in 1 .. Len(files) /\ files[i].name = n
  BY <1>1, <1>2, IndexOfNamed
<1> HIDE DEF i
<1>4. CASE files' = files
  BY <1>1, <1>4, SameStored
<1>5. CASE files' = Erase(files, i)
  <2>1. \A k \in Names : k # n => Kept(k)
    BY <1>1, <1>2, <1>3, <1>5, SameFileErase, EntryKept
  <2>2. ~Named(files', n)
    <3>1. /\ Len(files) \in Nat /\ Len(files') = Len(files) - 1
          /\ \A k \in 1 .. Len(files) - 1 :
                files'[k] = IF k < i THEN files[k] ELSE files[k + 1]
      BY <1>2, <1>3, <1>5, EraseEntry, LenProperties
    <3>2. \A k \in 1 .. Len(files) : k # i => files[k].name # n
      BY <1>2, <1>3 DEF UniqueNames
    <3>3. \A k \in 1 .. Len(files') : files'[k].name # n
      BY <1>3, <3>1, <3>2
    <3>4. QED
      BY <3>3 DEF Named
  <2>3. ASSUME NEW k
        PROVE  /\ k \in DOMAIN Stored' <=> k \in DOMAIN Stored \ {n}
               /\ k \in DOMAIN Stored' => Stored'[k] = Stored[k]
    <3>1. CASE k = n
      BY <2>2, <3>1, StoredAtNext
    <3>2. CASE k # n /\ k \in Names
      BY <2>1, <3>2, StoredAt, StoredAtNext DEF Kept, Data
    <3>3. CASE k # n /\ k \notin Names
      BY <1>2, <3>3, NamesOfEntries, StoredAt, StoredAtNext
    <3>4. QED
      BY <3>1, <3>2, <3>3
  <2>4. DOMAIN Stored' = DOMAIN Stored \ {n}
    BY <2>3
  <2>5. Stored' = [m \in DOMAIN Stored \ {n} |-> Stored[m]]
    BY <2>3, <2>4, StoredAtNext
  <2>6. n \in DOMAIN Stored
    BY <1>1, StoredAt
  <2>7. QED
    BY <2>5, <2>6 DEF Files!Remove
<1>6. QED
  BY <1>1, <1>4, <1>5 DEF i

\* The file that is renamed is found under its new name.
LEMMA RenamePuts ==
    ASSUME VolumeInv, VolumeInv', NEW n \in Names, NEW m \in Names, Rename(n, m), pc' = "sync"
    PROVE  /\ Named(files', m)
           /\ files'[IndexOf(files', m)] = [files[IndexOf(files, n)] EXCEPT !.name = m]
<1>1. files \in Seq(Entry) /\ UniqueNames(files) /\ Named(files, n) /\ m # n
  BY DEF VolumeInv, TypeOK, NamesUnique, Rename, Refuse, Return
<1>2. UniqueNames(files')
  BY DEF VolumeInv, NamesUnique, UniqueNames
<1> DEFINE i == IndexOf(files, n)
           d == IndexOf(files, m)
           e == [files[i] EXCEPT !.name = m]
           renamed == [files EXCEPT ![i] = e]
<1>3. files' = IF Named(files, m) THEN Erase(renamed, d) ELSE renamed
  BY DEF Rename, Refuse, Return
<1>4. i \in 1 .. Len(files) /\ files[i].name = n
  BY <1>1, IndexOfNamed
<1>5. Named(files, m) => d \in 1 .. Len(files) /\ files[d].name = m
  BY <1>1, IndexOfNamed
<1> SUFFICES Named(files', m) /\ files'[IndexOf(files', m)] = e
  OBVIOUS
<1> HIDE DEF i, d
<1>6. files[i] \in Entry
  BY <1>1, <1>4, LenProperties
<1>7. e \in Entry /\ e.name = m
  BY <1>6 DEF Entry
<1> HIDE DEF e
<1>8. /\ renamed \in Seq(Entry) /\ Len(renamed) = Len(files) /\ Len(files) \in Nat
      /\ renamed[i] = e
  BY <1>1, <1>4, <1>7, ReplaceEntry, LenProperties
<1> HIDE DEF renamed
<1>9. \E k \in 1 .. Len(files') : files'[k] = e
  <2>1. CASE ~Named(files, m)
    BY <1>3, <1>4, <1>8, <2>1
  <2>2. CASE Named(files, m)
    <3>1. /\ d \in 1 .. Len(renamed) /\ d # i /\ files' = Erase(renamed, d)
      BY <1>1, <1>3, <1>4, <1>5, <1>8, <2>2
    <3>2. /\ Len(files') = Len(renamed) - 1
          /\ \A k \in 1 .. Len(renamed) - 1 :
                files'[k] = IF k < d THEN renamed[k] ELSE renamed[k + 1]
      BY <1>8, <3>1, EraseEntry
    <3>3. CASE i < d
      <4>1. i \in 1 .. Len(renamed) - 1
        BY <1>4, <1>8, <3>1, <3>3
      <4>2. QED
        BY <1>8, <3>2, <3>3, <4>1
    <3>4. CASE d < i
      <4> DEFINE k == i - 1
      <4>1. k \in 1 .. Len(renamed) - 1 /\ ~(k < d) /\ k + 1 = i
        BY <1>4, <1>8, <3>1, <3>4
      <4> HIDE DEF k
      <4>2. QED
        BY <1>8, <3>2, <4>1
    <3>5. QED
      BY <1>4, <1>8, <3>1, <3>3, <3>4
  <2>3. QED
    BY <2>1, <2>2
<1>10. PICK k \in 1 .. Len(files') : files'[k] = e
  BY <1>9
<1>11. \A p, q \in 1 .. Len(files') : files'[p].name = m /\ files'[q].name = m => p = q
  BY <1>2 DEF UniqueNames
<1>12. Named(files', m) /\ IndexOf(files', m) = k
  BY <1>7, <1>10, <1>11, FoundAt
<1>13. QED
  BY <1>10, <1>12

LEMMA RenamedStep ==
    ASSUME VolumeInv, VolumeInv', NEW n \in Names, NEW m \in Names, Rename(n, m)
    PROVE  Files!Rename(n, m) \/ UNCHANGED Stored
<1>1. /\ Named(files, n) /\ disk' = disk
      /\ files' = files \/ (pc' = "sync" /\ m # n)
  BY DEF Rename, Refuse, Return, Start
<1>2. CASE files' = files
  BY <1>1, <1>2, SameStored
<1>3. CASE pc' = "sync" /\ m # n
  <2> DEFINE e == files[IndexOf(files, n)]
             g == [e EXCEPT !.name = m]
  <2>1. Named(files', m) /\ files'[IndexOf(files', m)] = g
    BY <1>3, RenamePuts
  <2>2. ~Named(files', n)
    BY <1>3, RenameForgets
  <2>3. \A k \in Names : k # n /\ k # m => Kept(k)
    BY <1>1, <1>3, RenameKeepsOthers, EntryKept
  <2>4. files \in Seq(Entry) /\ files' \in Seq(Entry)
    BY DEF VolumeInv, TypeOK
  <2>5. Data(m)' = Data(n)
    <3>1. e \in Entry
      BY <1>1, <2>4, IndexOfNamed, LenProperties
    <3> HIDE DEF e
    <3>2. g.first = e.first /\ g.last = e.last /\ g.lastbyte = e.lastbyte
      BY <3>1 DEF Entry
    <3>3. Data(m)' = ContentIn(disk', g)
      BY <2>1 DEF Data, Content, ContentIn
    <3> HIDE DEF g
    <3>4. ContentIn(disk, g) = ContentIn(disk, e)
      BY <3>2 DEF ContentIn, CurrentSize, Blocks
    <3>5. QED
      BY <1>1, <3>3, <3>4 DEF Data, Content, ContentIn, e
  <2>6. ASSUME NEW k
        PROVE  /\ k \in DOMAIN Stored' <=> k \in (DOMAIN Stored \ {n}) \cup {m}
               /\ k \in DOMAIN Stored' => Stored'[k] = IF k = m THEN Stored[n] ELSE Stored[k]
    <3>1. CASE k = n
      BY <1>3, <2>2, <3>1, StoredAtNext
    <3>2. CASE k = m
      BY <1>1, <2>1, <2>5, <3>2, StoredAt, StoredAtNext
    <3>3. CASE k # n /\ k # m /\ k \in Names
      BY <2>3, <3>3, StoredAt, StoredAtNext DEF Kept, Data
    <3>4. CASE k # n /\ k # m /\ k \notin Names
      BY <2>4, <3>4, NamesOfEntries, StoredAt, StoredAtNext
    <3>5. QED
      BY <3>1, <3>2, <3>3, <3>4
  <2>7. DOMAIN Stored' = (DOMAIN Stored \ {n}) \cup {m}
    BY <2>6
  <2>8. Stored' = [k \in (DOMAIN Stored \ {n}) \cup {m} |->
                      IF k = m THEN Stored[n] ELSE Stored[k]]
    BY <2>6, <2>7, StoredAtNext
  <2>9. n \in DOMAIN Stored
    BY <1>1, StoredAt
  <2>10. QED
    BY <1>3, <2>8, <2>9 DEF Files!Rename
<1>4. QED
  BY <1>1, <1>2, <1>3

-----------------------------------------------------------------------------
(* Truncate and write.                                                     *)

\* The bytes stored under the name of an entry.
LEMMA StoredBytes ==
    ASSUME VolumeInv, NEW i \in 1 .. Len(files), NEW e, e = files[i]
    PROVE  /\ e.name \in Names /\ Named(files, e.name) /\ IndexOf(files, e.name) = i
           /\ e.name \in DOMAIN Stored
           /\ Data(e.name) = ContentIn(disk, e) /\ Stored[e.name] = ContentIn(disk, e)
           /\ DOMAIN Stored[e.name] = 0 .. CurrentSize(e) - 1
           /\ Files!Size(Stored[e.name]) = CurrentSize(e)
           /\ \A o \in 0 .. CurrentSize(e) - 1 : Stored[e.name][o] = ByteIn(disk, e.first, o)
<1>1. files \in Seq(Entry) /\ Layout(files) /\ UniqueNames(files)
  BY Entries
<1>2. e \in Entry /\ CurrentSize(e) \in Nat
  BY <1>1, EntryAt
<1>3. e.name \in Names
  BY <1>2 DEF Entry
<1>4. Named(files, e.name) /\ IndexOf(files, e.name) = i
  BY <1>1, FoundAt DEF UniqueNames
<1>5. Data(e.name) = ContentIn(disk, e)
  BY <1>4, ContentIsContentIn DEF Data
<1>6. e.name \in DOMAIN Stored /\ Stored[e.name] = ContentIn(disk, e)
  BY <1>4, <1>5, StoredAt
<1>7. /\ DOMAIN ContentIn(disk, e) = 0 .. CurrentSize(e) - 1
      /\ \A o \in 0 .. CurrentSize(e) - 1 : ContentIn(disk, e)[o] = ByteIn(disk, e.first, o)
  BY DEF ContentIn, ByteIn
<1>8. Files!Size(Stored[e.name]) = CurrentSize(e)
  BY <1>2, <1>6, <1>7, SizeOf
<1>9. QED
  BY <1>3, <1>4, <1>5, <1>6, <1>7, <1>8

LEMMA DataNext ==
    ASSUME VolumeInv', NEW i \in 1 .. Len(files'), NEW g, g = files'[i]
    PROVE  Named(files', g.name) /\ Data(g.name)' = ContentIn(disk', g)
<1>1. UniqueNames(files')
  BY DEF VolumeInv, NamesUnique, UniqueNames
<1>2. Named(files', g.name) /\ IndexOf(files', g.name) = i
  BY <1>1, FoundAt DEF UniqueNames
<1>3. QED
  BY <1>2 DEF Data, Content, ContentIn

\* The entry of a file that is given its size.
LEMMA SizeSet ==
    ASSUME VolumeInv, VolumeInv', NEW i \in 1 .. Len(files), NEW n \in Nat, NEW e, e = files[i],
           NEW g, g = Resized(e, n), files' = [files EXCEPT ![i] = g]
    PROVE  /\ g \in Entry /\ g.name = e.name /\ g.first = e.first /\ CurrentSize(g) = n
           /\ Named(files', e.name) /\ Data(e.name)' = ContentIn(disk', g)
           /\ \A k \in Names : k # e.name => SameFile(files, files', k)
<1>1. files \in Seq(Entry) /\ e \in Entry
  BY Entries, EntryAt
<1>2. g \in Entry /\ g.name = e.name /\ g.first = e.first /\ CurrentSize(g) = n
  BY <1>1, ResizedType, ResizedSize
<1>3. i \in 1 .. Len(files') /\ files'[i] = g
  BY <1>1, <1>2, ReplaceEntry
<1>4. Named(files', e.name) /\ Data(e.name)' = ContentIn(disk', g)
  BY <1>2, <1>3, DataNext
<1>5. \A k \in Names : k # e.name => SameFile(files, files', k)
  BY ResizeKeepsOthers
<1>6. QED
  BY <1>2, <1>4, <1>5

LEMMA ShrinkStep ==
    ASSUME VolumeInv, VolumeInv', NEW n \in Names, NEW size \in Sizes, Truncate(n, size)
    PROVE  (size >= 0 /\ Files!Resize(n, size)) \/ UNCHANGED Stored
<1>1. PICK i, e, g :
         /\ i \in 1 .. Len(files) /\ i = IndexOf(files, n) /\ e = files[i] /\ e.name = n
         /\ g = Resized(e, size)
  BY Entries, IndexOfNamed DEF Truncate
<1>2. /\ disk' = disk /\ size \in Int
      /\ \/ files' = files
         \/ size >= 0 /\ size <= CurrentSize(e) /\ files' = [files EXCEPT ![i] = g]
  BY <1>1, InputAssumption DEF Truncate, StartGrowing, Refuse, Return
<1>3. CASE files' = files
  BY <1>2, <1>3, SameStored
<1>4. CASE size >= 0 /\ size <= CurrentSize(e) /\ files' = [files EXCEPT ![i] = g]
  <2>1. size \in Nat /\ CurrentSize(e) \in Nat
    BY <1>1, <1>2, <1>4, Entries, EntryAt
  <2>2. /\ g.first = e.first /\ CurrentSize(g) = size
        /\ Named(files', n) /\ Data(n)' = ContentIn(disk', g)
        /\ \A k \in Names : k # n => SameFile(files, files', k)
    <3>1. /\ i \in 1 .. Len(files) /\ size \in Nat /\ e = files[i] /\ g = Resized(e, size)
          /\ VolumeInv /\ VolumeInv'
      BY <1>1, <2>1
    <3>2. files' = [files EXCEPT ![i] = g]
      BY <1>4
    <3>3. /\ g.first = e.first /\ CurrentSize(g) = size
          /\ Named(files', e.name) /\ Data(e.name)' = ContentIn(disk', g)
          /\ \A k \in Names : k # e.name => SameFile(files, files', k)
      <4>1. g.first = e.first
        <5>1. e \in Entry
          BY <3>1, Entries, EntryAt
        <5>2. QED
          BY <3>1, <5>1, ResizedType
      <4>2. CurrentSize(g) = size
        BY <3>1, <3>2, SizeSet
      <4>3. Named(files', e.name)
        BY <3>1, <3>2, SizeSet
      <4>4. Data(e.name)' = ContentIn(disk', g)
        BY <3>1, <3>2, SizeSet
      <4>5. \A k \in Names : k # e.name => SameFile(files, files', k)
        BY <3>1, <3>2, SizeSet
      <4>6. QED
        BY <4>1, <4>2, <4>3, <4>4, <4>5
    <3>4. e.name = n
      BY <1>1
    <3>5. QED
      BY <3>3, <3>4
  <2>3. \A k \in Names : k # n => Kept(k)
    BY <1>2, <2>2, EntryKept
  <2>4. /\ n \in DOMAIN Stored /\ Files!Size(Stored[n]) = CurrentSize(e)
        /\ \A o \in 0 .. CurrentSize(e) - 1 : Stored[n][o] = ByteIn(disk, e.first, o)
    BY <1>1, StoredBytes
  <2>5. Data(n)' = [o \in 0 .. size - 1 |-> ByteIn(disk, e.first, o)]
    BY <1>2, <2>2 DEF ContentIn, ByteIn
  <2>6. \A o \in 0 .. size - 1 : o < CurrentSize(e) /\ o \in 0 .. CurrentSize(e) - 1
    BY <1>4, <2>1
  <2>7. Data(n)' = [o \in 0 .. size - 1 |->
                       IF o < Files!Size(Stored[n]) THEN Stored[n][o] ELSE Zero]
    BY <2>4, <2>5, <2>6
  <2>8. files \in Seq(Entry) /\ files' \in Seq(Entry)
    BY DEF VolumeInv, TypeOK
  <2>9. QED
    BY <1>4, <2>2, <2>3, <2>4, <2>7, <2>8, Updated DEF Files!Resize
<1>5. QED
  BY <1>2, <1>3, <1>4

\* The file a handler writes data to, and what it knows of it.
AtWork(i, e, s, g, offset, end, v) ==
    /\ i \in 1 .. Len(files) /\ e \in Entry /\ s \in Nat /\ g \in Nat
    /\ offset \in Nat /\ end \in Nat /\ v \in Byte
    /\ i = op.idx /\ e = files[i] /\ s = CurrentSize(e) /\ g = RoundUp(end)
    /\ offset = op.offset /\ end = op.end /\ v = op.value
    /\ e.first \in Nat /\ LabelEnd <= e.first /\ e.first <= e.last
    /\ e.first + Blocks(e) <= EndOfVolume /\ Blocks(e) \in Nat /\ s <= Blocks(e) * BlockSize
    /\ e.first + g <= EndOfVolume /\ end <= g * BlockSize /\ g * BlockSize \in Int
    /\ s <= RoundUp(s) * BlockSize /\ RoundUp(s) * BlockSize = ExtentSize(e)
    /\ offset <= end /\ op.kind \in {"truncate", "write", "extend"}
    /\ Knows(op, e)

LEMMA AtWorkPicked ==
    ASSUME VolumeInv, HandlerInv, StoreInv, pc \in {"pad", "data", "hole"}
    PROVE  \E i, e, s, g, offset, end, v : AtWork(i, e, s, g, offset, end, v)
<1>1. PICK i, e, s, g, offset, end, v :
         /\ i = op.idx /\ e = files[i] /\ s = CurrentSize(e) /\ g = RoundUp(end)
         /\ offset = op.offset /\ end = op.end /\ v = op.value
  OBVIOUS
<1>2. /\ files \in Seq(Entry) /\ Layout(files) /\ i \in 1 .. Len(files)
      /\ offset \in Nat /\ end \in Nat /\ v \in Byte
  BY <1>1 DEF VolumeInv, TypeOK, ExtentsDisjoint, LoopInv
<1>3. /\ e \in Entry /\ e.first \in Nat /\ LabelEnd <= e.first /\ e.first <= e.last
      /\ Blocks(e) \in Nat /\ e.first + Blocks(e) <= EndOfVolume /\ s \in Nat
  BY <1>1, <1>2, EntryAt
<1>4. s <= Blocks(e) * BlockSize
  BY <1>1, <1>3, SizeBounds
<1>5. e.first + g <= EndOfVolume
  BY <1>1 DEF VolumeInv, RoomInv
<1>6. /\ g \in Nat /\ end <= g * BlockSize /\ s <= RoundUp(s) * BlockSize
      /\ RoundUp(s) * BlockSize = ExtentSize(e)
  BY <1>1, <1>2, <1>3, RoundUpCovers, ExtentOfSize
<1>7. g * BlockSize \in Int
  BY <1>6, BlockSizeAssumption
<1>8. op.kind \in {"truncate", "write", "extend"} /\ offset <= end
  BY <1>1 DEF HandlerInv
<1>9. Knows(op, e)
  BY <1>1, StoreKnows DEF Working
<1>10. QED
  BY <1>1, <1>2, <1>3, <1>4, <1>5, <1>6, <1>7, <1>8, <1>9 DEF AtWork

LEMMA OthersKeptByData ==
    ASSUME VolumeInv, HandlerInv, Pad \/ PutData \/ PutHole,
           NEW n \in Names, n # files[op.idx].name
    PROVE  Kept(n)
<1>1. op.idx \in 1 .. Len(files) /\ op.end \in Nat
  BY DEF VolumeInv, TypeOK, LoopInv, Pad, PutData, PutHole
<1>2. files' = files \/ files' = [files EXCEPT ![op.idx] = Resized(files[op.idx], op.end)]
  BY DEF Pad, PutData, PutHole, SetSize
<1>3. SameFile(files, files', n)
  <2>1. CASE files' = files
    BY <2>1 DEF SameFile
  <2>2. CASE files' = [files EXCEPT ![op.idx] = Resized(files[op.idx], op.end)]
    BY <1>1, <2>2, ResizeKeepsOthers
  <2>3. QED
    BY <1>2, <2>1, <2>2
<1>4. QED
  BY <1>3, DataKeeps

\* Zeros behind the old end of a file: it has its new size, or no byte changed.
LEMMA PaddedStep ==
    ASSUME VolumeInv, VolumeInv', HandlerInv, StoreInv, Pad
    PROVE  \/ \E n \in Names, size \in Sizes : size >= 0 /\ Files!Resize(n, size)
           \/ UNCHANGED Stored
<1>1. pc = "pad"
  BY DEF Pad
<1>2. PICK i, e, s, g, offset, end, v : AtWork(i, e, s, g, offset, end, v)
  BY <1>1, AtWorkPicked
<1>3. /\ i \in 1 .. Len(files) /\ e \in Entry /\ s \in Nat /\ g \in Nat
      /\ offset \in Nat /\ end \in Nat /\ e.name \in Names
  BY <1>2 DEF AtWork, Entry
<1>4. PICK t : t = e.name
  OBVIOUS
<1>5. /\ files \in Seq(Entry) /\ files' \in Seq(Entry)
      /\ \A n \in Names : n # t => Kept(n)
  BY <1>2, <1>4, OthersKeptByData DEF VolumeInv, TypeOK, AtWork
<1>6. /\ t \in DOMAIN Stored /\ Files!Size(Stored[t]) = s
      /\ Data(t) = ContentIn(disk, e) /\ Named(files, t)
      /\ \A o \in 0 .. s - 1 : Stored[t][o] = ByteIn(disk, e.first, o)
  BY <1>2, <1>3, <1>4, StoredBytes DEF AtWork
<1>7. CASE op.kind = "truncate"
  <2>1. /\ disk' = Fill(disk, e.first, s, end, Zero)
        /\ files' = [files EXCEPT ![i] = Resized(e, end)]
    BY <1>2, <1>7 DEF Pad, PadEnd, SetSize, AtWork
  <2>2. PICK f \in Entry : /\ f = Resized(e, end) /\ f.first = e.first /\ CurrentSize(f) = end
    BY <1>3, ResizedType, ResizedSize
  <2>3. Named(files', t) /\ Data(t)' = ContentIn(disk', f)
    <3>1. e = files[i] /\ f = Resized(e, end) /\ files' = [files EXCEPT ![i] = f]
      BY <1>2, <2>1, <2>2 DEF AtWork
    <3>2. QED
      BY <1>3, <1>4, <3>1, SizeSet
  <2>4. ContentIn(disk', f) = [o \in 0 .. end - 1 |-> ContentIn(disk', f)[o]]
    BY <2>2 DEF ContentIn
  <2>5. FilledIn(disk', f, disk, s, end, Zero)
    <3>1. Room(f.first, g, CurrentSize(f))
      BY <1>2, <1>3, <2>1, <2>2 DEF AtWork, Room
    <3>2. FilledIn(Fill(disk, f.first, s, end, Zero), f, disk, s, end, Zero)
      BY <3>1, FilledContent
    <3>3. QED
      BY <2>1, <2>2, <3>2
  <2>6. ASSUME NEW o \in 0 .. end - 1
        PROVE  (o \in s .. end - 1 <=> ~(o < s)) /\ (o < s => o \in 0 .. s - 1)
    BY <1>3
  <2>7. Data(t)' = [o \in 0 .. end - 1 |->
                       IF o < Files!Size(Stored[t]) THEN Stored[t][o] ELSE Zero]
    BY <1>6, <2>2, <2>3, <2>5, <2>6, <2>4 DEF FilledIn
  <2>8. Files!Resize(t, end)
    BY <1>5, <1>6, <2>3, <2>7, Updated DEF Files!Resize
  <2>9. end \in Sizes
    BY <1>2, <1>7 DEF AtWork, Knows
  <2>10. QED
    BY <1>3, <1>4, <2>8, <2>9
<1>8. CASE op.kind # "truncate"
  <2>1. /\ disk' = Fill(disk, e.first, s, offset, Zero) /\ files' = files
    BY <1>2, <1>8 DEF Pad, PadEnd, AtWork
  <2>2. Named(files', t) /\ Data(t)' = ContentIn(disk', e)
    <3>1. i \in 1 .. Len(files') /\ e = files'[i]
      BY <1>2, <2>1 DEF AtWork
    <3>2. QED
      BY <1>4, <3>1, DataNext
  <2>3. FilledIn(disk', e, disk, s, offset, Zero)
    <3>1. Room(e.first, Blocks(e), CurrentSize(e))
      BY <1>2 DEF AtWork, Room
    <3>2. FilledIn(Fill(disk, e.first, s, offset, Zero), e, disk, s, offset, Zero)
      BY <3>1, FilledContent
    <3>3. QED
      BY <2>1, <3>2
  <2>4. ASSUME NEW o \in 0 .. s - 1 PROVE o \notin s .. offset - 1
    BY <1>3
  <2>5. ContentIn(disk', e) = ContentIn(disk, e)
    <3>1. s = CurrentSize(e)
      BY <1>2 DEF AtWork
    <3>2. ContentIn(disk, e) = [o \in 0 .. s - 1 |-> ByteIn(disk, e.first, o)]
      BY <3>1 DEF ContentIn, ByteIn
    <3>3. ContentIn(disk', e) = [o \in 0 .. s - 1 |-> ContentIn(disk', e)[o]]
      BY <3>1 DEF ContentIn
    <3>4. QED
      BY <2>3, <2>4, <3>1, <3>2, <3>3 DEF FilledIn
  <2>6. Kept(t)
    BY <1>6, <2>2, <2>5 DEF Kept, Data
  <2>7. QED
    BY <1>5, <2>6, AllKept
<1>9. QED
  BY <1>7, <1>8

\* The entry of the file once the data is in it, and the blocks it then has.
LEMMA PutEntry ==
    ASSUME VolumeInv, VolumeInv', PutData, NEW i, NEW e, NEW s, NEW g, NEW offset, NEW end,
           NEW v, AtWork(i, e, s, g, offset, end, v), NEW t, t = e.name
    PROVE  \E f, k : /\ f.first = e.first /\ Room(f.first, k, CurrentSize(f))
                     /\ CurrentSize(f) = IF end > s THEN end ELSE s
                     /\ Named(files', t) /\ Data(t)' = ContentIn(disk', f)
<1>1. /\ i \in 1 .. Len(files) /\ e \in Entry /\ s \in Nat /\ g \in Nat
      /\ offset \in Nat /\ end \in Nat /\ e = files[i] /\ s = CurrentSize(e)
  BY DEF AtWork
<1>2. CASE end > s
  <2>1. PICK f \in Entry : f = Resized(e, end) /\ f.first = e.first /\ CurrentSize(f) = end
    BY <1>1, ResizedType, ResizedSize
  <2>2. files' = [files EXCEPT ![i] = f]
    BY <1>2, <2>1 DEF PutData, SetSize, AtWork
  <2>3. Named(files', t) /\ Data(t)' = ContentIn(disk', f)
    BY <1>1, <2>1, <2>2, SizeSet
  <2>4. Room(f.first, g, CurrentSize(f))
    BY <2>1 DEF AtWork, Room
  <2>5. QED
    BY <1>2, <2>1, <2>3, <2>4
<1>3. CASE ~(end > s)
  <2>1. files' = files
    BY <1>3 DEF PutData, AtWork
  <2>2. i \in 1 .. Len(files') /\ e = files'[i]
    BY <1>1, <2>1
  <2>3. Named(files', t) /\ Data(t)' = ContentIn(disk', e)
    BY <2>2, DataNext
  <2>4. Room(e.first, Blocks(e), CurrentSize(e))
    BY DEF AtWork, Room
  <2>5. QED
    BY <1>1, <1>3, <2>3, <2>4
<1>4. QED
  BY <1>2, <1>3

LEMMA PutStep ==
    ASSUME VolumeInv, VolumeInv', HandlerInv, StoreInv, PutData
    PROVE  \E n \in Names, offset \in Offsets, nbytes \in Lengths, v \in Byte \ {Zero} :
              offset >= 0 /\ nbytes > 0 /\ Files!Put(n, offset, nbytes, v)
<1>1. pc = "data"
  BY DEF PutData
<1>2. PICK i, e, s, g, offset, end, v : AtWork(i, e, s, g, offset, end, v)
  BY <1>1, AtWorkPicked
<1>3. /\ i \in 1 .. Len(files) /\ e \in Entry /\ s \in Nat /\ g \in Nat
      /\ offset \in Nat /\ end \in Nat /\ v \in Byte /\ e.name \in Names
      /\ e = files[i] /\ i = op.idx /\ s = CurrentSize(e)
      /\ offset = op.offset /\ end = op.end /\ v = op.value
  BY <1>2 DEF AtWork, Entry
<1>4. PICK t : t = e.name
  OBVIOUS
<1>5. /\ op.kind \in {"write", "extend"} /\ v # Zero /\ offset \in Offsets
      /\ end - offset \in Lengths \ {0}
      /\ op.kind = "extend" <=> ExtentSize(e) < end
  BY <1>1, <1>2, <1>3 DEF AtWork, Knows, StoreInv
<1>6. PICK nbytes \in Lengths : nbytes = end - offset
  BY <1>5
<1>7. /\ nbytes > 0 /\ offset + nbytes = end /\ nbytes \in Nat
  BY <1>3, <1>5, <1>6, InputAssumption
<1>8. /\ files \in Seq(Entry) /\ files' \in Seq(Entry)
      /\ \A n \in Names : n # t => Kept(n)
  BY <1>3, <1>4, OthersKeptByData DEF VolumeInv, TypeOK
<1>9. /\ t \in DOMAIN Stored /\ Files!Size(Stored[t]) = s
      /\ \A o \in 0 .. s - 1 : Stored[t][o] = ByteIn(disk, e.first, o)
  BY <1>3, <1>4, StoredBytes
<1>10. \A o \in s .. offset - 1 : ByteIn(disk, e.first, o) = Zero
  BY <1>1, <1>3 DEF StoreInv, ByteAt, ByteIn
<1>11. PICK f, k : /\ f.first = e.first /\ Room(f.first, k, CurrentSize(f))
                   /\ CurrentSize(f) = IF end > s THEN end ELSE s
                   /\ Named(files', t) /\ Data(t)' = ContentIn(disk', f)
  BY <1>2, <1>4, PutEntry
<1>12. FilledIn(disk', f, disk, offset, end, v)
  <2>1. disk' = Fill(disk, f.first, offset, end, v)
    BY <1>3, <1>11 DEF PutData
  <2>2. FilledIn(Fill(disk, f.first, offset, end, v), f, disk, offset, end, v)
    BY <1>11, FilledContent
  <2>3. QED
    BY <2>1, <2>2
<1>13. PICK size : size = IF end > s THEN end ELSE s
  OBVIOUS
<1>14. Data(t)' = [o \in 0 .. size - 1 |-> ContentIn(disk', f)[o]]
  BY <1>11, <1>13 DEF ContentIn
<1>15. ASSUME NEW o \in 0 .. size - 1
       PROVE  ContentIn(disk', f)[o] =
                  IF o \in offset .. offset + nbytes - 1 THEN v
                  ELSE IF o < Files!Size(Stored[t]) THEN Stored[t][o] ELSE Zero
  <2>1. ContentIn(disk', f)[o] =
            IF o \in offset .. end - 1 THEN v ELSE ByteIn(disk, e.first, o)
    BY <1>11, <1>12, <1>13 DEF FilledIn
  <2>2. o < s => o \in 0 .. s - 1
    BY <1>3, <1>13
  <2>3. o \notin offset .. end - 1 /\ ~(o < s) => o \in s .. offset - 1
    BY <1>3, <1>13
  <2>4. ContentIn(disk', f)[o] = IF o \in offset .. end - 1 THEN v
                                 ELSE IF o < s THEN Stored[t][o] ELSE Zero
    BY <1>9, <1>10, <2>1, <2>2, <2>3
  <2>5. o \in offset .. offset + nbytes - 1 <=> o \in offset .. end - 1
    <3>1. offset + nbytes - 1 = end - 1
      BY <1>3, <1>7
    <3>2. QED
      BY <3>1
  <2>6. Files!Size(Stored[t]) = s
    BY <1>9
  <2>7. QED
    BY <2>4, <2>5, <2>6
<1>16. Data(t)' = Files!WrittenAt(Stored[t], offset, nbytes, v)
  <2>1. size = IF offset + nbytes > Files!Size(Stored[t])
               THEN offset + nbytes ELSE Files!Size(Stored[t])
    BY <1>7, <1>9, <1>13
  <2>2. Files!WrittenAt(Stored[t], offset, nbytes, v) =
            [o \in 0 .. size - 1 |->
                IF o \in offset .. offset + nbytes - 1 THEN v
                ELSE IF o < Files!Size(Stored[t]) THEN Stored[t][o] ELSE Zero]
    BY <2>1 DEF Files!WrittenAt
  <2>3. QED
    BY <1>14, <1>15, <2>2
<1>17. Files!Update(t, Files!WrittenAt(Stored[t], offset, nbytes, v))
  BY <1>8, <1>11, <1>16, Updated
<1>18. ~Files!InLastBlock(Stored[t], offset, nbytes)
  <2>1. Files!BlocksOf(Stored[t]) = RoundUp(s)
    BY <1>9 DEF Files!BlocksOf, RoundUp
  <2>2. RoundUp(s) * BlockSize = ExtentSize(e) /\ ExtentSize(e) \in Nat
    BY <1>2, <1>3, SizeBounds DEF AtWork
  <2>3. CASE op.kind = "write"
    <3>1. offset <= s
      BY <1>1, <1>3, <2>3 DEF StoreInv
    <3>2. QED
      BY <1>3, <1>9, <3>1 DEF Files!InLastBlock
  <2>4. CASE op.kind = "extend"
    <3>1. ExtentSize(e) < end
      BY <1>5, <2>4
    <3>2. ~(offset + nbytes <= Files!BlocksOf(Stored[t]) * BlockSize)
      BY <1>3, <1>7, <2>1, <2>2, <3>1
    <3>3. QED
      BY <3>2 DEF Files!InLastBlock
  <2>5. QED
    BY <1>5, <2>3, <2>4
<1>19. Files!Put(t, offset, nbytes, v)
  BY <1>9, <1>17, <1>18 DEF Files!Put
<1>20. QED
  BY <1>3, <1>4, <1>5, <1>7, <1>19

LEMMA PutInHoleStep ==
    ASSUME VolumeInv, VolumeInv', HandlerInv, StoreInv, PutHole
    PROVE  \E n \in Names, offset \in Offsets, nbytes \in Lengths :
              offset >= 0 /\ nbytes > 0 /\ Files!PutInHole(n, offset, nbytes)
<1>1. pc = "hole" /\ HoleAssertion
  BY DEF PutHole
<1>2. PICK i, e, s, g, offset, end, v : AtWork(i, e, s, g, offset, end, v)
  BY <1>1, AtWorkPicked
<1>3. /\ i \in 1 .. Len(files) /\ e \in Entry /\ s \in Nat /\ g \in Nat
      /\ offset \in Nat /\ end \in Nat /\ v \in Byte /\ e.name \in Names
      /\ e = files[i] /\ i = op.idx /\ s = CurrentSize(e)
      /\ offset = op.offset /\ end = op.end /\ v = op.value
      /\ e.first \in Nat /\ LabelEnd <= e.first /\ e.first + g <= EndOfVolume
      /\ end <= g * BlockSize /\ g * BlockSize \in Int
  BY <1>2 DEF AtWork, Entry
<1>4. PICK t : t = e.name
  OBVIOUS
<1>5. /\ op.kind = "write" /\ offset \in Offsets /\ end - offset \in Lengths \ {0}
      /\ ~(ExtentSize(e) < end) /\ s < offset /\ offset < end
  BY <1>1, <1>2, <1>3 DEF AtWork, Knows, StoreInv, HandlerInv
<1>6. PICK nbytes \in Lengths : nbytes = end - offset
  BY <1>5
<1>7. /\ nbytes > 0 /\ offset + nbytes = end /\ nbytes \in Nat
  BY <1>3, <1>5, <1>6, InputAssumption
<1>8. /\ files \in Seq(Entry) /\ files' \in Seq(Entry)
      /\ \A n \in Names : n # t => Kept(n)
  BY <1>3, <1>4, OthersKeptByData DEF VolumeInv, TypeOK
<1>9. /\ t \in DOMAIN Stored /\ Files!Size(Stored[t]) = s
      /\ DOMAIN Stored[t] = 0 .. s - 1
      /\ \A o \in 0 .. s - 1 : Stored[t][o] = ByteIn(disk, e.first, o)
  BY <1>3, <1>4, StoredBytes
<1>10. PICK f \in Entry : f = Resized(e, end) /\ f.first = e.first /\ CurrentSize(f) = end
  BY <1>3, ResizedType, ResizedSize
<1>11. Named(files', t) /\ Data(t)' = ContentIn(disk', f)
  <2>1. files' = [files EXCEPT ![i] = f]
    BY <1>3, <1>10 DEF PutHole, SetSize
  <2>2. e = files[i] /\ f = Resized(e, end) /\ i \in 1 .. Len(files) /\ end \in Nat
    BY <1>3, <1>10
  <2>3. QED
    BY <1>4, <2>1, <2>2, SizeSet
<1>12. PICK lo, hi : /\ lo \in Nat /\ offset <= lo
                     /\ disk' = Fill(disk, e.first, lo, hi, v)
  <2>1. HoleStart \in Nat /\ op.offset <= HoleStart
    BY <1>1, <1>3, <1>5, HoleFits
  <2>2. disk' = Fill(disk, e.first, HoleStart, HoleStart + (op.end - op.offset), v)
    BY <1>3 DEF PutHole, HoleFilled
  <2>3. QED
    BY <1>3, <2>1, <2>2
<1>13. FilledIn(disk', f, disk, lo, hi, v)
  <2>1. Room(f.first, g, CurrentSize(f))
    BY <1>3, <1>10 DEF Room
  <2>2. FilledIn(Fill(disk, f.first, lo, hi, v), f, disk, lo, hi, v)
    BY <2>1, FilledContent
  <2>3. QED
    BY <1>10, <1>12, <2>2
<1>14. PICK c : c = ContentIn(disk', f)
  OBVIOUS
<1>15. c = [o \in 0 .. end - 1 |-> c[o]]
  BY <1>10, <1>14 DEF ContentIn
<1>16. ASSUME NEW o \in 0 .. end - 1
       PROVE  /\ c[o] = IF o \in lo .. hi - 1 THEN v ELSE ByteIn(disk, e.first, o)
              /\ ByteIn(disk, e.first, o) \in Byte
  <2>1. c[o] = IF o \in lo .. hi - 1 THEN v ELSE ByteIn(disk, e.first, o)
    BY <1>10, <1>13, <1>14 DEF FilledIn
  <2> DEFINE q == o \div BlockSize
             r == o % BlockSize
  <2>2. o \in Nat /\ o < g * BlockSize
    BY <1>3
  <2>3. q \in Nat /\ q < g /\ r \in Index
    BY <1>3, <2>2, ByteInBlock
  <2> HIDE DEF q, r
  <2>4. e.first + q \in LabelEnd .. EndOfVolume - 1
    <3>1. /\ e.first \in Nat /\ LabelEnd <= e.first /\ e.first + g <= EndOfVolume
          /\ g \in Nat
      BY <1>3
    <3>2. QED
      BY <2>3, <3>1, GeometryAssumption
  <2>5. disk \in [Block -> [Index -> Byte]]
    BY DEF VolumeInv, TypeOK
  <2>6. disk[e.first + q][r] \in Byte
    BY <2>3, <2>4, <2>5 DEF Block
  <2>7. QED
    BY <2>1, <2>6 DEF ByteIn, q, r
<1>17. c \in [0 .. end - 1 -> Byte]
  <2>1. \A o \in 0 .. end - 1 : c[o] \in Byte
    BY <1>3, <1>16
  <2>2. QED
    BY <1>15, <2>1
<1>18. \A o \in DOMAIN Stored[t] : c[o] = Stored[t][o]
  <2>1. ASSUME NEW o \in 0 .. s - 1
        PROVE  o \in 0 .. end - 1 /\ o \notin lo .. hi - 1
    BY <1>3, <1>5, <1>12
  <2>2. QED
    BY <1>9, <1>16, <2>1
<1>19. Files!Update(t, c)
  BY <1>8, <1>11, <1>14, Updated
<1>20. Files!InLastBlock(Stored[t], offset, nbytes)
  <2>1. Files!BlocksOf(Stored[t]) = RoundUp(s)
    BY <1>9 DEF Files!BlocksOf, RoundUp
  <2>2. RoundUp(s) * BlockSize = ExtentSize(e) /\ ExtentSize(e) \in Nat
    BY <1>2, <1>3, SizeBounds DEF AtWork
  <2>3. offset > Files!Size(Stored[t])
    BY <1>3, <1>5, <1>9
  <2>4. end <= ExtentSize(e)
    BY <1>3, <1>5, <2>2
  <2>5. offset + nbytes <= Files!BlocksOf(Stored[t]) * BlockSize
    BY <1>7, <2>1, <2>2, <2>4
  <2>6. QED
    BY <2>3, <2>5 DEF Files!InLastBlock
<1>21. Files!PutInHole(t, offset, nbytes)
  <2>1. c \in Files!Bytes(offset + nbytes)
    BY <1>7, <1>17 DEF Files!Bytes
  <2>2. QED
    BY <1>9, <1>18, <1>19, <1>20, <2>1 DEF Files!PutInHole
<1>22. t \in Names /\ offset \in Offsets /\ offset >= 0 /\ nbytes > 0
  BY <1>3, <1>4, <1>5, <1>7
<1>23. QED
  BY <1>21, <1>22

-----------------------------------------------------------------------------
(* All other steps are invisible.                                          *)

\* No call has failed and no handler was killed.
Faultless == ~fault /\ pc # "lost"

\* Where nothing fails no directory is torn, and the process ends between two
\* handlers only.
LEMMA FaultlessNext ==
    ASSUME ~MayFail, ~MayDie, HandlerInv, Faultless, [Next]_vars
    PROVE  Faultless'
<1>1. image # Torn
  BY DEF HandlerInv, Faultless
<1>2. ~Failure /\ ~Lost /\ ~KilledInData /\ ~KilledInDirectory /\ ~KilledInSecondDirectory
  BY <1>1 DEF Failure, DataFails, SyncFails, Fail, Lost, KilledInData, KilledInDirectory,
     KilledInSecondDirectory
<1>3. CASE Restart
  BY <1>3 DEF Restart, Remount, Return, Faultless
<1>4. CASE Request
  <2>1. ASSUME NEW kind, NEW n, NEW offset, NEW end, NEW value,
               StartGrowing(kind, n, offset, end, value)
        PROVE  fault' = fault /\ pc' # "lost"
    <3>1. fault' = fault
      BY <2>1 DEF StartGrowing
    <3>2. pc' = "down" \/ pc' = PadOrData(IndexOf(files, n), kind, offset, end)
      BY <2>1 DEF StartGrowing, Start
    <3>3. PadOrData(IndexOf(files, n), kind, offset, end) \in {"pad", "data"}
      BY DEF PadOrData
    <3>4. QED
      BY <3>1, <3>2, <3>3
  <2>2. ASSUME NEW n \in Names, Mknod(n) \/ Unlink(n)
        PROVE  Faultless'
    BY <2>2 DEF Mknod, Unlink, Refuse, Return, Start, Faultless
  <2>3. ASSUME NEW n \in Names, NEW m \in Names, Rename(n, m)
        PROVE  Faultless'
    BY <2>3 DEF Rename, Refuse, Return, Start, Faultless
  <2>4. ASSUME NEW n \in Names, NEW size \in Sizes, Truncate(n, size)
        PROVE  Faultless'
    <3>1. CASE StartGrowing("truncate", n, 0, size, Zero)
      BY <2>1, <3>1 DEF Faultless
    <3>2. CASE ~StartGrowing("truncate", n, 0, size, Zero)
      BY <2>4, <3>2 DEF Truncate, Refuse, Return, Start, Faultless
    <3>3. QED
      BY <3>1, <3>2
  <2>5. ASSUME NEW n \in Names, NEW offset \in Offsets, NEW nbytes \in Lengths,
               NEW v \in Byte \ {Zero}, Write(n, offset, nbytes, v)
        PROVE  Faultless'
    <3>1. CASE StartGrowing("extend", n, offset, offset + nbytes, v)
      BY <2>1, <3>1 DEF Faultless
    <3>2. CASE ~StartGrowing("extend", n, offset, offset + nbytes, v)
      <4>1. fault' = fault
        BY <2>5, <3>2 DEF Write, Refuse
      <4>2. pc' \in {"idle", "data", "hole"}
        BY <2>5, <3>2 DEF Write, Refuse, Return, Start
      <4>3. QED
        BY <4>1, <4>2 DEF Faultless
    <3>3. QED
      BY <3>1, <3>2
  <2>6. CASE Crunch \/ WipeUnused
    BY <2>6 DEF Crunch, WipeUnused, Refuse, Return, Start, Faultless
  <2>7. QED
    BY <1>4, <2>2, <2>3, <2>4, <2>5, <2>6 DEF Request
<1>5. CASE Step
  <2>1. CASE MoveDown \/ MoveUp \/ GapMade
    BY <2>1 DEF MoveDown, MoveUp, GapMade, Faultless
  <2>2. CASE Grow
    <3>1. PadOrData(op.idx, op.kind, op.offset, op.end) \in {"pad", "data"}
      BY DEF PadOrData
    <3>2. QED
      BY <2>2, <3>1 DEF Grow, Refuse, Return, Faultless
  <2>3. CASE Pad
    <3>1. fault' = fault
      BY <2>3 DEF Pad
    <3>2. pc' \in {"sync", "data"}
      BY <2>3 DEF Pad
    <3>3. QED
      BY <3>1, <3>2 DEF Faultless
  <2>4. CASE PutData \/ PutHole
    BY <2>4 DEF PutData, PutHole, Faultless
  <2>5. CASE HoleUnreadable \/ HoleAborts
    BY <2>5 DEF HoleUnreadable, HoleAborts, Refuse, Return, Faultless
  <2>6. ASSUME Synced PROVE Faultless'
    BY <2>6 DEF Synced, Return, Faultless
  <2>7. CASE WriteDirectory
    <3>1. CASE Twin
      BY <2>7, <3>1 DEF WriteDirectory, Faultless
    <3>2. CASE ~Twin
      BY <2>6, <2>7, <3>2 DEF WriteDirectory
    <3>3. QED
      BY <3>1, <3>2
  <2>8. CASE WriteSecondDirectory
    BY <2>6, <2>8 DEF WriteSecondDirectory
  <2>9. QED
    BY <1>5, <2>1, <2>2, <2>3, <2>4, <2>5, <2>7, <2>8 DEF Step
<1>6. CASE UNCHANGED vars
  BY <1>6 DEF vars, Faultless
<1>7. QED
  BY <1>2, <1>3, <1>4, <1>5, <1>6 DEF Next, End

LEMMA WipedStep ==
    ASSUME VolumeInv, WipeUnused
    PROVE  UNCHANGED Stored
<1>1. files' = files /\ files \in Seq(Entry)
  BY DEF WipeUnused, VolumeInv, TypeOK
<1>2. ASSUME NEW n PROVE Kept(n)
  <2>1. CASE ~Named(files, n)
    BY <1>1, <2>1 DEF Kept
  <2>2. CASE Named(files, n)
    <3>1. PICK i, e : /\ i \in 1 .. Len(files) /\ e = files[i] /\ i = IndexOf(files, n)
      BY <1>1, <2>2, IndexOfNamed
    <3>2. /\ e \in Entry /\ e.first \in Nat /\ e.last \in Nat
          /\ LabelEnd <= e.first /\ e.first <= e.last /\ e.last <= EndOfVolume
      BY <3>1, Entries, EntryAt
    <3>3. ASSUME NEW o \in 0 .. CurrentSize(e) - 1
          PROVE  ByteIn(disk', e.first, o) = ByteIn(disk, e.first, o)
      <4>1. PICK b, x : /\ b = e.first + o \div BlockSize /\ x = o % BlockSize
        OBVIOUS
      <4>2. /\ x \in Index /\ b \in e.first .. e.last - 1
            /\ (b - e.first) * BlockSize + x = o
        BY <3>2, <4>1, ByteOfFile
      <4>3. b \in Block
        BY <3>2, <4>2, GeometryAssumption DEF Block
      <4>4. Used(files, b, x)
        BY <3>1, <4>2 DEF Used
      <4>5. disk'[b][x] = disk[b][x]
        BY <4>2, <4>3, <4>4 DEF WipeUnused
      <4>6. QED
        BY <4>1, <4>5 DEF ByteIn
    <3>4. ContentIn(disk', e) = ContentIn(disk, e)
      BY <3>3 DEF ContentIn, ByteIn
    <3>5. Content(files[IndexOf(files, n)])' = ContentIn(disk', e)
      BY <1>1, <3>1 DEF Content, ContentIn
    <3>6. Content(files[IndexOf(files, n)]) = ContentIn(disk, e)
      BY <3>1 DEF Content, ContentIn
    <3>7. QED
      BY <1>1, <3>4, <3>5, <3>6 DEF Kept
  <2>3. QED
    BY <2>1, <2>2
<1>3. QED
  BY <1>1, <1>2, AllKept

LEMMA InvisibleStep ==
    ASSUME ~MayFail, ~MayDie, VolumeInv, VolumeInv', HandlerInv, Faultless,
           \/ Crunch \/ WipeUnused \/ MoveDown \/ MoveUp \/ GapMade \/ Grow
           \/ HoleUnreadable \/ HoleAborts \/ WriteDirectory \/ WriteSecondDirectory
           \/ Failure \/ End \/ UNCHANGED vars
           \/ \E n \in Names, offset \in Offsets, nbytes \in Lengths, v \in Byte \ {Zero} :
                 Write(n, offset, nbytes, v)
    PROVE  UNCHANGED Stored
<1>1. image # Torn
  BY DEF HandlerInv, Faultless
<1>2. ~Failure /\ ~Lost /\ ~KilledInData /\ ~KilledInDirectory /\ ~KilledInSecondDirectory
  BY <1>1 DEF Failure, DataFails, SyncFails, Fail, Lost, KilledInData, KilledInDirectory,
     KilledInSecondDirectory
<1>3. CASE WipeUnused
  BY <1>3, WipedStep
<1>4. CASE MoveDown \/ MoveUp
  <2>1. files \in Seq(Entry) /\ files' \in Seq(Entry)
    BY DEF VolumeInv, TypeOK
  <2>2. QED
    BY <1>4, <2>1, MoveKeeps, AllKept
<1>5. CASE Restart
  <2>1. image = files
    BY <1>5 DEF Restart, VolumeInv, WrittenInv, Faultless
  <2>2. UNCHANGED <<files, disk>>
    BY <1>5, <2>1 DEF Restart, Remount
  <2>3. QED
    BY <2>2, SameStored
<1>6. CASE \/ Crunch \/ GapMade \/ Grow \/ HoleUnreadable \/ HoleAborts \/ WriteDirectory
           \/ WriteSecondDirectory \/ UNCHANGED vars
  <2>1. UNCHANGED <<files, disk>>
    BY <1>6 DEF Crunch, GapMade, Grow, HoleUnreadable, HoleAborts, WriteDirectory,
       WriteSecondDirectory, Refuse, vars
  <2>2. QED
    BY <2>1, SameStored
<1>7. CASE \E n \in Names, offset \in Offsets, nbytes \in Lengths, v \in Byte \ {Zero} :
              Write(n, offset, nbytes, v)
  <2>1. UNCHANGED <<files, disk>>
    BY <1>7 DEF Write, StartGrowing, Refuse
  <2>2. QED
    BY <2>1, SameStored
<1>8. QED
  BY <1>2, <1>3, <1>4, <1>5, <1>6, <1>7 DEF End

LEMMA StepImplements ==
    ASSUME ~MayFail, ~MayDie, VolumeInv, VolumeInv', HandlerInv, StoreInv, Faultless, [Next]_vars
    PROVE  Files!Next \/ UNCHANGED Stored
<1>1. CASE \E n \in Names : Mknod(n)
  BY <1>1, CreateStep DEF Files!Next
<1>2. CASE \E n \in Names : Unlink(n)
  BY <1>2, RemoveStep DEF Files!Next
<1>3. CASE \E n, m \in Names : Rename(n, m)
  BY <1>3, RenamedStep DEF Files!Next
<1>4. CASE \E n \in Names, size \in Sizes : Truncate(n, size)
  BY <1>4, ShrinkStep DEF Files!Next
<1>5. CASE Pad
  BY <1>5, PaddedStep DEF Files!Next
<1>6. CASE PutData
  BY <1>6, PutStep DEF Files!Next
<1>7. CASE PutHole
  BY <1>7, PutInHoleStep DEF Files!Next
<1>8. QED
  BY <1>1, <1>2, <1>3, <1>4, <1>5, <1>6, <1>7, InvisibleStep DEF Next, Request, Step

\* Where no I/O call fails and no handler is killed, a volume is a store of named
\* byte sequences: every operation on a file takes effect in one step, as it was
\* asked for, and no move, directory write, wipe or mount changes a byte of any
\* file (file.cc:239-565, directory.cc:261-487).
THEOREM Implements ==
    ASSUME ~MayFail, ~MayDie
    PROVE  Spec => ImplementsFileStore
<1>1. Init => Files!Init
  <2> SUFFICES ASSUME Init PROVE Stored = [n \in {} |-> {}]
    BY DEF Files!Init
  <2>1. ~\E n : Named(files, n)
    BY DEF Init, Named
  <2>2. DOMAIN Stored = {}
    BY <2>1, StoredAt
  <2>3. QED
    BY <2>2, StoredAt
<1>2. Init => Faultless
  BY DEF Init, Faultless
<1>3. HandlerInv /\ Faultless /\ [Next]_vars => Faultless'
  BY FaultlessNext
<1>4. Spec => []Faultless
  BY <1>2, <1>3, Handlers, PTL DEF Spec
<1>5. VolumeInv /\ VolumeInv' /\ HandlerInv /\ StoreInv /\ Faultless /\ [Next]_vars
         => [Files!Next]_Stored
  BY StepImplements
<1>6. InductiveInv => StoreInv
  BY DEF InductiveInv
<1>7. QED
  BY <1>1, <1>4, <1>5, <1>6, Invariance, Handlers, Inductive, PTL
     DEF Spec, ImplementsFileStore, Files!Spec
=============================================================================
