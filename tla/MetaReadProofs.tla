--------------------------- MODULE MetaReadProofs ---------------------------
(***************************************************************************)
(* Theorems about MetaRead, for every geometry and every damaged image.    *)
(***************************************************************************)
EXTENDS MetaRead, FiniteSetTheorems, TLAPS

USE ExtentAssumption, ImagesAssumption

\* The entries the label of an image counts.
LEMMA FilesType ==
    ASSUME NEW img \in Image
    PROVE  /\ Len(Files(img)) = IF img.label.num <= Slots THEN img.label.num ELSE Slots
           /\ \A i \in 1 .. Len(Files(img)) : Files(img)[i] = img.slots[i]
BY DEF Files, Image

\* The entries of a sound image that is read are entries, in order and inside
\* the volume.
LEMMA SoundFiles ==
    ASSUME NEW img \in Image, Sound(img)
    PROVE  /\ Len(Files(img)) = img.label.num
           /\ Files(img) \in Seq(Entry)
           /\ \A i \in 1 .. Len(Files(img)) : Inside(Files(img)[i])
           /\ InOrder(Files(img))
<1>1. Len(Files(img)) = img.label.num
  BY FilesType DEF Sound, Image
<1>2. \A i \in 1 .. Len(Files(img)) : Files(img)[i] = img.slots[i]
  BY FilesType
<1>3. \A i \in 1 .. Len(Files(img)) : Files(img)[i] \in Entry
  BY <1>1, <1>2 DEF Sound, Image
<1>4. Files(img) \in Seq(Entry)
  <2>1. Files(img) = [i \in 1 .. Len(Files(img)) |-> Files(img)[i]]
    BY <1>1 DEF Files, Image, Sound
  <2> QED
    BY <1>1, <1>3, <2>1 DEF Image
<1> QED
  BY <1>1, <1>2, <1>4 DEF Sound

\* Nothing is wrong with such files.
LEMMA SoundFilesPass ==
    ASSUME NEW fs \in Seq(Entry), InOrder(fs),
           \A i \in 1 .. Len(fs) : Inside(fs[i])
    PROVE  /\ ~OutOfOrder(fs)
           /\ \A i \in 1 .. Len(fs) : ~Overlaps(fs[i]) /\ ~(fs[i].last > ActualEnd)
<1>1. \A i \in 1 .. Len(fs) : fs[i].first \in Nat /\ fs[i].last \in Nat
  <2>1. \A i \in 1 .. Len(fs) : fs[i] \in Entry
    OBVIOUS
  <2> QED
    BY <2>1 DEF Entry
<1>2. \A i \in 1 .. Len(fs) : LabelEnd <= fs[i].first /\ fs[i].last <= ActualEnd
  BY DEF Inside
<1>3. \A j \in 2 .. Len(fs) : fs[1].last <= fs[j].first
  BY DEF InOrder
<1>4. ~OutOfOrder(fs)
  BY <1>1, <1>3 DEF OutOfOrder
<1> QED
  BY <1>1, <1>2, <1>4 DEF Overlaps

LEMMA RepairsType ==
    ASSUME NEW e \in Entry, NEW b \in Nat
    PROVE  FsckFirstBlock(e, b) \in Entry /\ FsckLastBlock(e, b) \in Entry
<1> DEFINE last == IF b > e.last THEN b ELSE e.last
           first == IF b < e.first THEN b ELSE e.first
<1>1. last \in Nat /\ first \in Nat /\ BlockSize \in 1 .. BlockSize
  BY DEF Entry
<1>2. FsckFirstBlock(e, b) \in Entry
  <2>1. FsckFirstBlock(e, b) =
            [e EXCEPT !.first = b, !.last = last,
                      !.lastbyte = IF b = last THEN BlockSize ELSE @]
    BY DEF FsckFirstBlock
  <2> HIDE DEF last
  <2> QED
    BY <1>1, <2>1 DEF Entry
<1>3. FsckLastBlock(e, b) \in Entry
  <2>1. FsckLastBlock(e, b) =
            [e EXCEPT !.first = first, !.last = b,
                      !.lastbyte = IF b = first THEN BlockSize ELSE @]
    BY DEF FsckLastBlock
  <2> HIDE DEF first
  <2> QED
    BY <1>1, <2>1 DEF Entry
<1> QED
  BY <1>2, <1>3

\* The type invariant and what it rests on hold at first and are kept by every
\* step of meta_read.
LEMMA ReadInit == Init => ReadInv
<1> SUFFICES ASSUME Init PROVE ReadInv
  OBVIOUS
<1>1. image \in Image /\ label \in [eov : Nat, num : Nat, clean : BOOLEAN]
  BY DEF Init, Image
<1>2. files \in Seq(Entry) /\ Len(files) <= Slots
  BY DEF Init
<1>3. TypeOK
  BY <1>1, <1>2 DEF Init, TypeOK, Levels
<1> QED
  BY <1>3 DEF Init, ReadInv, LabelInv, SoundInv, SoundIsAccepted

LEMMA ReadNext == ReadInv /\ [Next]_vars => ReadInv'
<1> SUFFICES ASSUME ReadInv, [Next]_vars PROVE ReadInv'
  OBVIOUS
<1> USE DEF Levels, Checking
<1>1. ASSUME NEW l \in Levels, NEW ro \in BOOLEAN, Open(l, ro) PROVE ReadInv'
  <2>1. TypeOK'
    <3>1. files' \in Seq(Entry) /\ Len(files') <= Slots
      BY <1>1 DEF Open
    <3> QED
      BY <1>1, <3>1 DEF Open, ReadInv, TypeOK
  <2>2. pc' = "label"
    BY <1>1 DEF Open
  <2> QED
    BY <2>1, <2>2 DEF ReadInv, LabelInv, SoundInv, SoundIsAccepted
<1>2. CASE ReadFails
  BY <1>2 DEF ReadFails, ReadInv, TypeOK, LabelInv, SoundInv, SoundIsAccepted
<1>3. CASE ReadLabel
  <2>1. image \in Image /\ image' = image /\ level' = level
    BY <1>3 DEF ReadLabel, ReadInv, TypeOK
  <2>2. /\ label' \in [eov : Nat, num : Nat, clean : BOOLEAN]
        /\ errors' \in BOOLEAN
        /\ Checking => label'.num <= Capacity
    BY <1>3, <2>1 DEF ReadLabel, SaneNumber, Image
  <2>3. Sound(image) => /\ ~errors'
                        /\ label'.eov = ActualEnd /\ label'.num = image.label.num
    <3> SUFFICES ASSUME Sound(image)
                 PROVE  /\ ~errors'
                        /\ label'.eov = ActualEnd /\ label'.num = image.label.num
      OBVIOUS
    <3>1. /\ image.label.clean /\ image.label.eov = ActualEnd
          /\ image.label.num \in Nat /\ image.label.num <= Capacity
      BY <2>1 DEF Sound, Image
    <3>2. SaneNumber(image.label.num) = image.label.num /\ ~(image.label.num > Capacity)
      BY <3>1 DEF SaneNumber
    <3>3. label'.eov = ActualEnd /\ label'.num = image.label.num
      BY <1>3, <3>1, <3>2 DEF ReadLabel
    <3>4. ~errors'
      BY <1>3, <3>1, <3>2, Zenon DEF ReadLabel
    <3> QED
      BY <3>3, <3>4
  <2>4. TypeOK'
    BY <1>3, <2>1, <2>2 DEF ReadLabel, ReadInv, TypeOK
  <2> QED
    BY <1>3, <2>1, <2>2, <2>3, <2>4
    DEF ReadLabel, ReadInv, LabelInv, SoundInv, SoundIsAccepted
<1>4. CASE ReadEntries
  <2>1. /\ image \in Image /\ image' = image /\ level' = level
        /\ label' = label /\ errors' = errors
        /\ label.num \in Nat /\ label.num <= Slots
        /\ \A i \in 1 .. label.num : image.slots[i] \in Entry
    <3>1. /\ image \in Image /\ image' = image /\ level' = level
          /\ label' = label /\ errors' = errors
          /\ label.num \in Nat /\ label.num <= Slots
      BY <1>4 DEF ReadEntries, ReadInv, TypeOK
    <3>2. \A i \in 1 .. Slots : image.slots[i] \in Entry \cup {Empty}
      BY <3>1 DEF Image
    <3>3. \A i \in 1 .. label.num : i \in 1 .. Slots /\ image.slots[i] # Empty
      BY <1>4, <3>1 DEF ReadEntries
    <3> QED
      BY <3>1, <3>2, <3>3
  <2>2. /\ files' = [i \in 1 .. label.num |-> image.slots[i]]
        /\ files' \in Seq(Entry) /\ Len(files') = label.num
    BY <1>4, <2>1 DEF ReadEntries, Image
  <2>3. Sound(image) => files' = Files(image) /\ ~errors
    BY <1>4, <2>1 DEF ReadEntries, ReadInv, SoundInv, Sound, Files
  <2>4. TypeOK'
    BY <1>4, <2>1, <2>2 DEF ReadEntries, ReadInv, TypeOK
  <2>5. pc' \in {"order", "opened"} /\ (pc' = "order" => Checking)
    BY <1>4 DEF ReadEntries
  <2> QED
    BY <1>4, <2>1, <2>3, <2>4, <2>5
    DEF ReadEntries, ReadInv, LabelInv, SoundInv, SoundIsAccepted
<1>5. CASE EmptySlot
  BY <1>5 DEF EmptySlot, ReadInv, TypeOK, LabelInv, SoundInv, SoundIsAccepted
<1>6. CASE Overrun
  <2>1. TypeOK' /\ LabelInv'
    BY <1>6 DEF Overrun, ReadInv, TypeOK, LabelInv
  <2>2. ~Sound(image)
    BY <1>6 DEF Overrun, ReadInv, TypeOK, SoundInv, Sound, Image
  <2> QED
    BY <1>6, <2>1, <2>2 DEF Overrun, ReadInv, SoundInv, SoundIsAccepted, Sound, Files
<1>7. CASE CheckOrder
  <2>1. /\ image \in Image /\ image' = image /\ level' = level /\ label' = label
        /\ files \in Seq(Entry) /\ Len(files) <= Slots
    BY <1>7 DEF CheckOrder, ReadInv, TypeOK
  <2>2. files' \in Seq(Entry) /\ Len(files') <= Slots
    <3>1. CASE OutOfOrder(files)
      <4>1. PICK q \in [1 .. Len(files) -> 1 .. Len(files)] :
                files' = [i \in 1 .. Len(files) |-> files[q[i]]]
        BY <1>7, <3>1 DEF CheckOrder, Sortings
      <4>2. \A i \in 1 .. Len(files) : files[q[i]] \in Entry
        BY <2>1
      <4>3. files' \in Seq(Entry) /\ Len(files') = Len(files)
        BY <2>1, <4>1, <4>2
      <4> QED
        BY <2>1, <4>3
    <3>2. CASE ~OutOfOrder(files)
      BY <1>7, <2>1, <3>2 DEF CheckOrder
    <3> QED
      BY <3>1, <3>2
  <2>3. Sound(image) => files' = files /\ ~errors'
    <3> SUFFICES ASSUME Sound(image) PROVE files' = files /\ ~errors'
      OBVIOUS
    <3>1. files = Files(image) /\ ~errors
      BY <1>7 DEF CheckOrder, ReadInv, SoundIsAccepted
    <3>2. ~OutOfOrder(files)
      BY <2>1, <3>1, SoundFiles, SoundFilesPass
    <3>3. ~errors'
      BY <1>7, <3>1, <3>2, Zenon DEF CheckOrder
    <3> QED
      BY <1>7, <3>2, <3>3 DEF CheckOrder
  <2>4. TypeOK'
    BY <1>7, <2>1, <2>2 DEF CheckOrder, ReadInv, TypeOK, OutOfOrder
  <2> QED
    BY <1>7, <2>1, <2>3, <2>4
    DEF CheckOrder, ReadInv, LabelInv, SoundInv, SoundIsAccepted, Sound, Files
<1>8. CASE CheckOverlaps
  <2>1. /\ image \in Image /\ image' = image /\ level' = level /\ label' = label
        /\ files \in Seq(Entry) /\ Len(files) <= Slots
    BY <1>8 DEF CheckOverlaps, ReadInv, TypeOK
  <2>2. files' \in Seq(Entry) /\ Len(files') = Len(files)
    <3>1. \A i \in 1 .. Len(files) : FsckFirstBlock(files[i], LabelEnd) \in Entry
      <4>1. TAKE i \in 1 .. Len(files)
      <4>2. files[i] \in Entry
        BY <2>1
      <4> QED
        BY <2>1, <4>2, RepairsType
    <3> QED
      BY <1>8, <2>1, <3>1 DEF CheckOverlaps
  <2>3. Sound(image) => files' = files /\ ~errors'
    <3> SUFFICES ASSUME Sound(image) PROVE files' = files /\ ~errors'
      OBVIOUS
    <3>1. files = Files(image) /\ ~errors
      BY <1>8 DEF CheckOverlaps, ReadInv, SoundIsAccepted
    <3>2. \A i \in 1 .. Len(files) : ~Overlaps(files[i])
      BY <2>1, <3>1, SoundFiles, SoundFilesPass
    <3>3. files = [i \in 1 .. Len(files) |-> files[i]]
      BY <2>1
    <3>4. files' = files
      BY <1>8, <3>2, <3>3 DEF CheckOverlaps
    <3>5. ~errors'
      BY <1>8, <3>1, <3>2, Zenon DEF CheckOverlaps
    <3> QED
      BY <3>4, <3>5
  <2>4. TypeOK'
    BY <1>8, <2>1, <2>2 DEF CheckOverlaps, ReadInv, TypeOK, Overlaps
  <2> QED
    BY <1>8, <2>1, <2>3, <2>4
    DEF CheckOverlaps, ReadInv, LabelInv, SoundInv, SoundIsAccepted, Sound, Files
<1>9. CASE CheckFits
  <2>1. /\ image \in Image /\ image' = image /\ level' = level /\ label' = label
        /\ files \in Seq(Entry) /\ Len(files) <= Slots /\ label.eov \in Nat
    BY <1>9 DEF CheckFits, ReadInv, TypeOK
  <2>2. files' \in Seq(Entry) /\ Len(files') = Len(files)
    <3>1. \A i \in 1 .. Len(files) : FsckLastBlock(files[i], label.eov) \in Entry
      <4>1. TAKE i \in 1 .. Len(files)
      <4>2. files[i] \in Entry
        BY <2>1
      <4> QED
        BY <2>1, <4>2, RepairsType
    <3> QED
      BY <1>9, <2>1, <3>1 DEF CheckFits
  <2>3. Sound(image) => files' = files /\ ~errors' /\ pc' = "opened"
    <3> SUFFICES ASSUME Sound(image) PROVE files' = files /\ ~errors' /\ pc' = "opened"
      OBVIOUS
    <3>1. files = Files(image) /\ ~errors /\ label.eov = ActualEnd
      BY <1>9 DEF CheckFits, ReadInv, SoundIsAccepted, SoundInv
    <3>2. \A i \in 1 .. Len(files) : ~TooHigh(files[i])
      BY <2>1, <3>1, SoundFiles, SoundFilesPass DEF TooHigh
    <3>3. files = [i \in 1 .. Len(files) |-> files[i]]
      BY <2>1
    <3> QED
      BY <1>9, <3>1, <3>2, <3>3 DEF CheckFits
  <2>4. TypeOK'
    BY <1>9, <2>1, <2>2 DEF CheckFits, ReadInv, TypeOK, TooHigh
  <2>5. pc' \in {"sync", "opened"} /\ (pc' = "sync" => Checking)
    BY <1>9 DEF CheckFits
  <2> QED
    BY <1>9, <2>1, <2>3, <2>4, <2>5
    DEF CheckFits, ReadInv, LabelInv, SoundInv, SoundIsAccepted, Sound, Files
<1>10. CASE Sync
  <2>1. /\ label' = [label EXCEPT !.num = Len(files)] /\ pc' = "died"
        /\ files' = files /\ errors' = errors /\ level' = level
        /\ label'.num \in Nat /\ label' \in [eov : Nat, num : Nat, clean : BOOLEAN]
    BY <1>10 DEF Sync, ReadInv, TypeOK
  <2>2. image' \in Image
    <3>1. \A i \in 1 .. Slots : (IF i <= Len(files) THEN files[i] ELSE Empty)
                                    \in Entry \cup {Empty}
      BY DEF ReadInv, TypeOK
    <3> QED
      BY <1>10, <2>1, <3>1 DEF Sync, Image
  <2> QED
    BY <2>1, <2>2 DEF ReadInv, TypeOK, LabelInv, SoundInv, SoundIsAccepted
<1>11. CASE SyncFails
  BY <1>11 DEF SyncFails, ReadInv, TypeOK, LabelInv, SoundInv, SoundIsAccepted
<1>12. CASE Close
  BY <1>12 DEF Close, ReadInv, TypeOK, LabelInv, SoundInv, SoundIsAccepted
<1>13. CASE UNCHANGED vars
  <2>1. /\ image' = image /\ label' = label /\ files' = files
        /\ errors' = errors /\ level' = level /\ pc' = pc
    BY <1>13 DEF vars
  <2>2. TypeOK'
    BY <2>1 DEF ReadInv, TypeOK
  <2>3. LabelInv'
    BY <2>1 DEF ReadInv, LabelInv
  <2>4. SoundInv' /\ SoundIsAccepted'
    BY <2>1 DEF ReadInv, SoundInv, SoundIsAccepted
  <2> QED
    BY <2>2, <2>3, <2>4 DEF ReadInv
<1> QED
  BY <1>1, <1>2, <1>3, <1>4, <1>5, <1>6, <1>7, <1>8, <1>9, <1>10, <1>11, <1>12, <1>13
  DEF Next, FsckOptions

-----------------------------------------------------------------------------
(* What a repair does to the files.                                        *)

\* The entries of an image are the files its label counts, but for empty slots.
LEMMA EntriesOf ==
    ASSUME NEW img, NEW fs \in Seq(Entry), Files(img) = fs
    PROVE  Entries(img) = {fs[i] : i \in 1 .. Len(fs)}
<1>1. \A i \in 1 .. Len(fs) : fs[i] # Empty
  BY EmptyAssumption
<1>2. QED
  BY <1>1 DEF Entries

\* With checks, the entries read are all that the image has.
LEMMA ReadAll ==
    ASSUME ReadInv, RepairInv, ReadEntries, Checking
    PROVE  /\ files' \in Seq(Entry) /\ Files(image) = files'
           /\ \A i \in 1 .. Len(files') : files'[i] # Empty
<1> DEFINE n == image.label.num
<1>1. /\ image \in Image /\ n \in Nat /\ label.num \in Nat /\ label.num <= Slots
      /\ label.num = IF n > Capacity THEN Capacity ELSE n
      /\ files' = SubSeq(image.slots, 1, label.num)
  BY DEF ReadEntries, ReadInv, TypeOK, RepairInv, SaneNumber, Image
<1>2. label.num = IF n <= Slots THEN n ELSE Slots
  BY <1>1, CapacityAssumption
<1>3. Files(image) = files'
  BY <1>1, <1>2 DEF Files
<1>4. /\ Len(files') = label.num
      /\ \A i \in 1 .. label.num : files'[i] = image.slots[i] /\ image.slots[i] # Empty
  BY <1>1 DEF Image, ReadEntries
<1>5. \A i \in 1 .. label.num : files'[i] \in Entry
  BY <1>1, <1>4 DEF Image
<1>6. files' = [i \in 1 .. label.num |-> files'[i]]
  BY <1>1, <1>4 DEF Image
<1>7. files' \in Seq(Entry)
  BY <1>1, <1>5, <1>6
<1>8. \A i \in 1 .. Len(files') : files'[i] # Empty
  BY <1>4
<1>9. QED
  BY <1>3, <1>7, <1>8

\* Sorting keeps every file.
LEMMA Sorted ==
    ASSUME NEW fs \in Seq(Entry), NEW gs \in Sortings(fs)
    PROVE  /\ Len(gs) = Len(fs)
           /\ \A i \in 1 .. Len(gs) : \E k \in 1 .. Len(fs) : gs[i] = fs[k]
           /\ \A k \in 1 .. Len(fs) : \E i \in 1 .. Len(gs) : gs[i] = fs[k]
<1> DEFINE n == 1 .. Len(fs)
<1>1. PICK p \in [n -> n] :
         /\ \A i, k \in n : i < k => Before(fs[p[i]], fs[p[k]])
         /\ gs = [i \in n |-> fs[p[i]]]
  BY DEF Sortings
<1>2. IsFiniteSet(n) /\ Len(fs) \in Nat
  BY FS_Interval
<1>3. ASSUME NEW i \in n, NEW k \in n, i < k PROVE p[i] # p[k]
  <2>1. Before(fs[p[i]], fs[p[k]])
    BY <1>1, <1>3
  <2>2. ~Before(fs[p[i]], fs[p[i]])
    <3>1. fs[p[i]] \in Entry
      OBVIOUS
    <3>2. fs[p[i]].first \in Nat /\ fs[p[i]].name \in Nat
      BY <3>1 DEF Entry
    <3>3. QED
      BY <3>2 DEF Before
  <2>3. QED
    BY <2>1, <2>2
<1>4. \A i, k \in n : p[i] = p[k] => i = k
  BY <1>2, <1>3
<1>5. p \in Injection(n, n)
  BY <1>4 DEF Injection, IsInjective
<1>6. p \in Surjection(n, n)
  BY <1>2, <1>5, FS_Injection
<1>7. \A k \in n : \E i \in n : p[i] = k
  BY <1>6 DEF Surjection
<1>8. Len(gs) = Len(fs) /\ \A i \in n : gs[i] = fs[p[i]]
  BY <1>1, <1>2
<1>9. ASSUME NEW i \in 1 .. Len(gs) PROVE \E k \in 1 .. Len(fs) : gs[i] = fs[k]
  BY <1>8
<1>10. ASSUME NEW k \in 1 .. Len(fs) PROVE \E i \in 1 .. Len(gs) : gs[i] = fs[k]
  <2>1. PICK i \in n : p[i] = k
    BY <1>7
  <2>2. i \in 1 .. Len(gs) /\ gs[i] = fs[k]
    BY <1>8, <2>1
  <2>3. QED
    BY <2>2
<1>11. QED
  BY <1>8, <1>9, <1>10

\* Repairs keep the name; they change no entry that lies in the volume.
LEMMA RepairsKeep ==
    ASSUME NEW e \in Entry, NEW b \in Nat
    PROVE  FsckFirstBlock(e, b).name = e.name /\ FsckLastBlock(e, b).name = e.name
BY DEF FsckFirstBlock, FsckLastBlock, Entry

\* A part of meta_read that repairs file by file keeps what is mended when it
\* keeps names and the files inside the volume.
LEMMA MendedOnward ==
    ASSUME NEW img, NEW fs \in Seq(Entry), NEW gs \in Seq(Entry), Mended(fs, img),
           Len(gs) = Len(fs),
           \A i \in 1 .. Len(fs) : gs[i].name = fs[i].name /\ (Inside(fs[i]) => gs[i] = fs[i])
    PROVE  Mended(gs, img)
<1>1. {fs[i].name : i \in 1 .. Len(fs)} = {gs[i].name : i \in 1 .. Len(gs)}
  OBVIOUS
<1>2. \A i \in 1 .. Len(gs) : gs[i] # Empty
  BY EmptyAssumption
<1>3. ASSUME NEW e \in Entries(img), Inside(e) PROVE \E i \in 1 .. Len(gs) : gs[i] = e
  BY <1>3 DEF Mended
<1>4. QED
  BY <1>1, <1>2, <1>3 DEF Mended

LEMMA MendedSorted ==
    ASSUME NEW img, NEW fs \in Seq(Entry), NEW gs \in Seq(Entry), Mended(fs, img),
           gs \in Sortings(fs)
    PROVE  Mended(gs, img)
<1>1. /\ \A i \in 1 .. Len(gs) : \E k \in 1 .. Len(fs) : gs[i] = fs[k]
      /\ \A k \in 1 .. Len(fs) : \E i \in 1 .. Len(gs) : gs[i] = fs[k]
  BY Sorted
<1>2. {fs[i].name : i \in 1 .. Len(fs)} = {gs[i].name : i \in 1 .. Len(gs)}
  <2>1. \A i \in 1 .. Len(gs) : gs[i].name \in {fs[k].name : k \in 1 .. Len(fs)}
    BY <1>1
  <2>2. \A k \in 1 .. Len(fs) : fs[k].name \in {gs[i].name : i \in 1 .. Len(gs)}
    BY <1>1
  <2>3. QED
    BY <2>1, <2>2
<1>3. \A i \in 1 .. Len(gs) : gs[i] # Empty
  BY EmptyAssumption
<1>4. ASSUME NEW e \in Entries(img), Inside(e) PROVE \E i \in 1 .. Len(gs) : gs[i] = e
  BY <1>1, <1>4 DEF Mended
<1>5. QED
  BY <1>2, <1>3, <1>4 DEF Mended

LEMMA MendedRead ==
    ASSUME NEW img, NEW fs \in Seq(Entry), Files(img) = fs
    PROVE  Mended(fs, img)
<1>1. Entries(img) = {fs[i] : i \in 1 .. Len(fs)}
  BY EntriesOf
<1>2. {e.name : e \in Entries(img)} = {fs[i].name : i \in 1 .. Len(fs)}
  BY <1>1
<1>3. QED
  BY <1>1, <1>2, EmptyAssumption DEF Mended

\* With RepairInv: each part of meta_read mends what it should and nothing else.
LEMMA RepairNext == ReadInv /\ RepairInv /\ [Next]_vars => RepairInv'
<1> SUFFICES ASSUME ReadInv, RepairInv, [Next]_vars PROVE RepairInv'
  OBVIOUS
<1>1. CASE \E l \in Levels, ro \in BOOLEAN : Open(l, ro)
  BY <1>1 DEF Open, RepairInv
<1>2. CASE ReadFails \/ EmptySlot \/ Overrun \/ SyncFails \/ Close
  BY <1>2 DEF ReadFails, EmptySlot, Overrun, SyncFails, Close, RepairInv
<1>3. CASE ReadLabel
  <2>1. pc' = "entries" /\ image' = image /\ level' = level
    BY <1>3 DEF ReadLabel
  <2>2. Checking => /\ label'.eov = ActualEnd
                    /\ label'.num = SaneNumber(image.label.num)
                    /\ level = "repair" => label'.clean
    BY <1>3 DEF ReadLabel
  <2>3. QED
    BY <2>1, <2>2 DEF RepairInv, Checking
<1>4. CASE ReadEntries
  <2>1. /\ image' = image /\ label' = label /\ level' = level
        /\ pc' = IF Checking THEN "order" ELSE "opened"
        /\ pc = "entries"
    BY <1>4 DEF ReadEntries
  <2>2. Checking => Mended(files', image)
    BY <1>4, ReadAll, MendedRead
  <2>3. QED
    BY <2>1, <2>2 DEF RepairInv, Checking
<1>5. CASE CheckOrder
  <2>1. /\ image' = image /\ label' = label /\ level' = level /\ pc = "order"
        /\ pc' = "overlaps" /\ files \in Seq(Entry) /\ Mended(files, image)
        /\ files' \in IF OutOfOrder(files) THEN Sortings(files) ELSE {files}
    BY <1>5 DEF CheckOrder, RepairInv, ReadInv, TypeOK
  <2>2. files' \in Seq(Entry)
    BY <1>5, ReadNext DEF ReadInv, TypeOK
  <2>3. Mended(files', image)
    BY <2>1, <2>2, MendedSorted
  <2>4. QED
    BY <2>1, <2>3 DEF RepairInv, Checking
<1>6. CASE CheckOverlaps
  <2>1. /\ image' = image /\ label' = label /\ level' = level /\ pc = "overlaps"
        /\ pc' = "fits" /\ files \in Seq(Entry) /\ Mended(files, image)
    BY <1>6 DEF CheckOverlaps, RepairInv, ReadInv, TypeOK
  <2>2. files' \in Seq(Entry) /\ Len(files') = Len(files)
    BY <1>6, <2>1, ReadNext DEF ReadInv, TypeOK, CheckOverlaps
  <2>3. ASSUME NEW i \in 1 .. Len(files)
        PROVE  files'[i].name = files[i].name /\ (Inside(files[i]) => files'[i] = files[i])
    <3>1. files[i] \in Entry
      BY <2>1
    <3>2. files'[i] = IF level = "repair" /\ Overlaps(files[i])
                      THEN FsckFirstBlock(files[i], LabelEnd) ELSE files[i]
      BY <1>6 DEF CheckOverlaps
    <3>3. Inside(files[i]) => ~Overlaps(files[i])
      BY <3>1 DEF Inside, Overlaps, Entry
    <3>4. QED
      BY <3>1, <3>2, <3>3, RepairsKeep
  <2>4. Mended(files', image)
    BY <2>1, <2>2, <2>3, MendedOnward
  <2>5. QED
    BY <2>1, <2>4 DEF RepairInv, Checking
<1>7. CASE CheckFits
  <2>1. /\ image' = image /\ label' = label /\ level' = level /\ pc = "fits"
        /\ pc' \in {"sync", "opened"} /\ (pc' = "sync" => level = "repair")
        /\ files \in Seq(Entry) /\ Mended(files, image)
        /\ label.eov \in Nat /\ label.eov = ActualEnd
    BY <1>7 DEF CheckFits, RepairInv, ReadInv, TypeOK, LabelInv
  <2>2. files' \in Seq(Entry) /\ Len(files') = Len(files)
    BY <1>7, <2>1, ReadNext DEF ReadInv, TypeOK, CheckFits
  <2>3. ASSUME NEW i \in 1 .. Len(files)
        PROVE  files'[i].name = files[i].name /\ (Inside(files[i]) => files'[i] = files[i])
    <3>1. files[i] \in Entry
      BY <2>1
    <3>2. files'[i] = IF level = "repair" /\ TooHigh(files[i])
                      THEN FsckLastBlock(files[i], label.eov) ELSE files[i]
      BY <1>7 DEF CheckFits
    <3>3. Inside(files[i]) => ~TooHigh(files[i])
      <4>1. files[i].last \in Nat
        BY <3>1 DEF Entry
      <4>2. QED
        BY <2>1, <4>1 DEF Inside, TooHigh
    <3>4. QED
      BY <2>1, <3>1, <3>2, <3>3, RepairsKeep
  <2>4. Mended(files', image)
    BY <2>1, <2>2, <2>3, MendedOnward
  <2>5. QED
    BY <2>1, <2>4 DEF RepairInv, Checking
<1>8. CASE Sync
  BY <1>8 DEF Sync, RepairInv
<1>9. CASE UNCHANGED vars
  BY <1>9 DEF vars, RepairInv, Checking
<1>10. QED
  BY <1>1, <1>2, <1>3, <1>4, <1>5, <1>6, <1>7, <1>8, <1>9 DEF Next, FsckOptions, Levels

-----------------------------------------------------------------------------
(* What a repair does to files in block order.                             *)

LEMMA InOrderRead ==
    ASSUME NEW img, NEW fs \in Seq(Entry), Files(img) = fs, Ordered(img)
    PROVE  InOrder(fs) /\ \A i \in 1 .. Len(fs) : fs[i].first <= fs[i].last
<1>1. Entries(img) = {fs[i] : i \in 1 .. Len(fs)}
  BY EntriesOf
<1>2. QED
  BY <1>1 DEF Ordered

\* Such files are not sorted.
LEMMA OrderAccepted ==
    ASSUME NEW fs \in Seq(Entry), InOrder(fs)
    PROVE  ~OutOfOrder(fs)
<1>1. \A i \in 1 .. Len(fs) : fs[i].first \in Nat /\ fs[i].last \in Nat
  <2>1. \A i \in 1 .. Len(fs) : fs[i] \in Entry
    OBVIOUS
  <2>2. QED
    BY <2>1 DEF Entry
<1>2. \A j \in 2 .. Len(fs) : fs[1].last <= fs[j].first
  BY DEF InOrder
<1>3. QED
  BY <1>1, <1>2 DEF OutOfOrder

\* Extents in order stay in order when their ends below b are raised to b.
LEMMA RaisedOrder ==
    ASSUME NEW fs \in Seq(Entry), NEW gs \in Seq(Entry), NEW b \in Nat, InOrder(fs),
           \A i \in 1 .. Len(fs) : fs[i].first <= fs[i].last,
           Len(gs) = Len(fs),
           \A i \in 1 .. Len(fs) :
               gs[i] = IF fs[i].first < b THEN FsckFirstBlock(fs[i], b) ELSE fs[i]
    PROVE  /\ InOrder(gs)
           /\ \A i \in 1 .. Len(gs) : b <= gs[i].first /\ gs[i].first <= gs[i].last
<1>1. \A i \in 1 .. Len(fs) : fs[i] \in Entry /\ fs[i].first \in Nat /\ fs[i].last \in Nat
  <2>1. \A i \in 1 .. Len(fs) : fs[i] \in Entry
    OBVIOUS
  <2>2. QED
    BY <2>1 DEF Entry
<1>2. ASSUME NEW e \in Entry
      PROVE  /\ FsckFirstBlock(e, b).first = b
             /\ FsckFirstBlock(e, b).last = IF b > e.last THEN b ELSE e.last
  BY DEF FsckFirstBlock, Entry
<1>3. ASSUME NEW i \in 1 .. Len(fs)
      PROVE  /\ gs[i].first = IF fs[i].first < b THEN b ELSE fs[i].first
             /\ gs[i].last = IF b > fs[i].last THEN b ELSE fs[i].last
  <2>1. CASE fs[i].first < b
    BY <1>1, <1>2, <2>1
  <2>2. CASE ~(fs[i].first < b)
    BY <1>1, <2>2
  <2>3. QED
    BY <2>1, <2>2
<1>4. \A i \in 1 .. Len(gs) : b <= gs[i].first /\ gs[i].first <= gs[i].last
  BY <1>1, <1>3
<1>5. ASSUME NEW i \in 1 .. Len(gs), NEW k \in 1 .. Len(gs), i < k
      PROVE  gs[i].last <= gs[k].first
  <2>1. fs[i].last <= fs[k].first
    BY <1>5 DEF InOrder
  <2>2. /\ fs[i].last \in Nat /\ fs[k].first \in Nat
        /\ gs[i].last = IF b > fs[i].last THEN b ELSE fs[i].last
        /\ gs[k].first = IF fs[k].first < b THEN b ELSE fs[k].first
    BY <1>1, <1>3
  <2>3. QED
    BY <2>1, <2>2
<1>6. QED
  BY <1>4, <1>5 DEF InOrder

\* They stay in order when their ends above b are lowered to b.
LEMMA LoweredOrder ==
    ASSUME NEW fs \in Seq(Entry), NEW gs \in Seq(Entry), NEW b \in Nat, NEW a \in Nat,
           a <= b, InOrder(fs),
           \A i \in 1 .. Len(fs) : a <= fs[i].first /\ fs[i].first <= fs[i].last,
           Len(gs) = Len(fs),
           \A i \in 1 .. Len(fs) :
               gs[i] = IF fs[i].last > b THEN FsckLastBlock(fs[i], b) ELSE fs[i]
    PROVE  /\ InOrder(gs)
           /\ \A i \in 1 .. Len(gs) :
                 a <= gs[i].first /\ gs[i].first <= gs[i].last /\ gs[i].last <= b
<1>1. \A i \in 1 .. Len(fs) : fs[i] \in Entry /\ fs[i].first \in Nat /\ fs[i].last \in Nat
  <2>1. \A i \in 1 .. Len(fs) : fs[i] \in Entry
    OBVIOUS
  <2>2. QED
    BY <2>1 DEF Entry
<1>2. ASSUME NEW e \in Entry
      PROVE  /\ FsckLastBlock(e, b).first = IF b < e.first THEN b ELSE e.first
             /\ FsckLastBlock(e, b).last = b
  BY DEF FsckLastBlock, Entry
<1>3. ASSUME NEW i \in 1 .. Len(fs)
      PROVE  /\ gs[i].first = IF b < fs[i].first THEN b ELSE fs[i].first
             /\ gs[i].last = IF fs[i].last > b THEN b ELSE fs[i].last
  <2>1. CASE fs[i].last > b
    BY <1>1, <1>2, <2>1
  <2>2. CASE ~(fs[i].last > b)
    BY <1>1, <2>2
  <2>3. QED
    BY <2>1, <2>2
<1>4. \A i \in 1 .. Len(gs) :
         a <= gs[i].first /\ gs[i].first <= gs[i].last /\ gs[i].last <= b
  BY <1>1, <1>3
<1>5. ASSUME NEW i \in 1 .. Len(gs), NEW k \in 1 .. Len(gs), i < k
      PROVE  gs[i].last <= gs[k].first
  <2>1. fs[i].last <= fs[k].first
    BY <1>5 DEF InOrder
  <2>2. /\ fs[i].last \in Nat /\ fs[k].first \in Nat
        /\ gs[i].last = IF fs[i].last > b THEN b ELSE fs[i].last
        /\ gs[k].first = IF b < fs[k].first THEN b ELSE fs[k].first
    BY <1>1, <1>3
  <2>3. QED
    BY <2>1, <2>2
<1>6. QED
  BY <1>4, <1>5 DEF InOrder

\* With SettlingInv: each part of meta_read keeps files in block order so.
LEMMA SettlingNext == MetaReadInv /\ [Next]_vars => SettlingInv'
<1> SUFFICES ASSUME MetaReadInv, [Next]_vars PROVE SettlingInv'
  OBVIOUS
<1>1. ReadInv /\ RepairInv /\ SettlingInv /\ ReadInv' /\ RepairInv'
  BY ReadNext, RepairNext DEF MetaReadInv
<1>2. ASSUME pc' \notin {"order", "overlaps", "fits", "sync"} PROVE SettlingInv'
  BY <1>2 DEF SettlingInv
<1>3. /\ files \in Seq(Entry) /\ files' \in Seq(Entry)
      /\ \A i \in 1 .. Len(files) : files[i] \in Entry
  BY <1>1 DEF ReadInv, TypeOK
<1>4. CASE ReadEntries
  <2>1. CASE Checking
    <3>1. image' = image /\ pc' = "order" /\ Files(image) = files'
      BY <1>1, <1>4, <2>1, ReadAll DEF ReadEntries
    <3>2. Ordered(image) =>
              InOrder(files') /\ \A i \in 1 .. Len(files') : files'[i].first <= files'[i].last
      BY <1>3, <3>1, InOrderRead
    <3>3. QED
      BY <3>1, <3>2 DEF SettlingInv
  <2>2. CASE ~Checking
    BY <1>2, <1>4, <2>2 DEF ReadEntries
  <2>3. QED
    BY <2>1, <2>2
<1>5. CASE CheckOrder
  <2>1. image' = image /\ pc = "order" /\ pc' = "overlaps"
    BY <1>5 DEF CheckOrder
  <2>2. ASSUME Ordered(image)
        PROVE  /\ files' = files /\ InOrder(files)
               /\ \A i \in 1 .. Len(files) : files[i].first <= files[i].last
    <3>1. InOrder(files) /\ \A i \in 1 .. Len(files) : files[i].first <= files[i].last
      BY <1>1, <2>1, <2>2 DEF SettlingInv
    <3>2. ~OutOfOrder(files)
      BY <1>3, <3>1, OrderAccepted
    <3>3. files' = files
      BY <1>5, <3>2 DEF CheckOrder
    <3>4. QED
      BY <3>1, <3>3
  <2>3. QED
    BY <2>1, <2>2 DEF SettlingInv
<1>6. CASE CheckOverlaps
  <2>1. image' = image /\ level' = level /\ pc = "overlaps" /\ pc' = "fits"
    BY <1>6 DEF CheckOverlaps
  <2>2. ASSUME Ordered(image)
        PROVE  InOrder(files) /\ \A i \in 1 .. Len(files) : files[i].first <= files[i].last
    BY <1>1, <2>1, <2>2 DEF SettlingInv
  <2>3. CASE level = "repair"
    <3>1. Len(files') = Len(files)
      BY <1>3, <1>6 DEF CheckOverlaps
    <3>2. \A i \in 1 .. Len(files) :
             files'[i] = IF files[i].first < LabelEnd
                         THEN FsckFirstBlock(files[i], LabelEnd) ELSE files[i]
      BY <1>6, <2>3 DEF CheckOverlaps, Overlaps
    <3>3. Ordered(image) =>
             /\ InOrder(files')
             /\ \A i \in 1 .. Len(files') :
                   LabelEnd <= files'[i].first /\ files'[i].first <= files'[i].last
      BY <1>3, <2>2, <3>1, <3>2, RaisedOrder
    <3>4. QED
      BY <2>1, <3>3 DEF SettlingInv
  <2>4. CASE level # "repair"
    <3>1. files' = files
      BY <1>3, <1>6, <2>4 DEF CheckOverlaps
    <3>2. QED
      BY <2>1, <2>2, <2>4, <3>1 DEF SettlingInv
  <2>5. QED
    BY <2>3, <2>4
<1>7. CASE CheckFits
  <2>1. image' = image /\ pc = "fits" /\ label.eov = ActualEnd
    BY <1>1, <1>7 DEF CheckFits, RepairInv, ReadInv, LabelInv
  <2>2. CASE pc' = "sync"
    <3>1. level = "repair" /\ level' = level
      BY <1>7, <2>2 DEF CheckFits
    <3>2. ASSUME Ordered(image)
          PROVE  /\ InOrder(files)
                 /\ \A i \in 1 .. Len(files) :
                       LabelEnd <= files[i].first /\ files[i].first <= files[i].last
      BY <1>1, <2>1, <3>1, <3>2 DEF SettlingInv
    <3>3. Len(files') = Len(files)
      BY <1>3, <1>7 DEF CheckFits
    <3>4. \A i \in 1 .. Len(files) :
             files'[i] = IF files[i].last > ActualEnd
                         THEN FsckLastBlock(files[i], ActualEnd) ELSE files[i]
      BY <1>7, <2>1, <3>1 DEF CheckFits, TooHigh
    <3>5. Ordered(image) =>
             /\ InOrder(files')
             /\ \A i \in 1 .. Len(files') :
                   /\ LabelEnd <= files'[i].first /\ files'[i].first <= files'[i].last
                   /\ files'[i].last <= ActualEnd
      BY <1>3, <3>2, <3>3, <3>4, LoweredOrder
    <3>6. QED
      BY <2>1, <2>2, <3>5 DEF SettlingInv
  <2>3. CASE pc' # "sync"
    BY <1>2, <1>7, <2>3 DEF CheckFits
  <2>4. QED
    BY <2>2, <2>3
<1>8. CASE UNCHANGED vars
  BY <1>1, <1>8 DEF vars, SettlingInv
<1>9. CASE \/ \E l \in Levels, ro \in BOOLEAN : Open(l, ro)
           \/ ReadFails \/ ReadLabel \/ EmptySlot \/ Overrun \/ Sync \/ SyncFails \/ Close
  <2>1. pc' \notin {"order", "overlaps", "fits", "sync"}
    BY <1>9 DEF Open, ReadFails, ReadLabel, EmptySlot, Overrun, Sync, SyncFails, Close
  <2>2. QED
    BY <1>2, <2>1
<1>10. QED
  BY <1>4, <1>5, <1>6, <1>7, <1>8, <1>9 DEF Next, FsckOptions, Levels

LEMMA InvInit == Init => MetaReadInv
<1>1. Init => ReadInv
  BY ReadInit
<1>2. Init => RepairInv /\ SettlingInv
  BY DEF Init, RepairInv, SettlingInv
<1>3. QED
  BY <1>1, <1>2 DEF MetaReadInv

LEMMA InvNext == MetaReadInv /\ [Next]_vars => MetaReadInv'
BY ReadNext, RepairNext, SettlingNext DEF MetaReadInv

\* MetaReadInv holds in every state: the types, that a program reads a sound image as
\* it is, and what a repair has mended in memory (directory.cc:56-192).
THEOREM Invariance == Spec => []MetaReadInv
BY InvInit, InvNext, PTL DEF Spec

\* No check of meta_read takes a sound image for a damaged one and no repair
\* touches it, for every geometry (directory.cc:116-182).
THEOREM Acceptance == Spec => []SoundIsAccepted
<1>1. MetaReadInv => SoundIsAccepted
  BY DEF MetaReadInv, ReadInv
<1> QED
  BY Invariance, <1>1, PTL

\* With checks, meta_read stays in its buffer if the label's capacity does
\* (volume_label.cc:458-468).
THEOREM Bounded == Spec => []ReadsInBuffer
<1>1. MetaReadInv => ReadsInBuffer
  BY DEF MetaReadInv, ReadInv, TypeOK, LabelInv, ReadsInBuffer, Checking, Levels
<1> QED
  BY Invariance, <1>1, PTL

\* What is written at the end of a repair is what is in memory.
LEMMA Written ==
    ASSUME MetaReadInv, Sync
    PROVE  /\ image' \in Image /\ Files(image') = files /\ files \in Seq(Entry)
           /\ Entries(image') = {files[i] : i \in 1 .. Len(files)}
           /\ image'.label.num = Len(files) /\ image'.label.eov = ActualEnd
           /\ image'.label.clean
           /\ \A i \in 1 .. Len(files) : image'.slots[i] = files[i]
           /\ Len(files) <= Slots /\ pc = "sync"
<1>1. /\ files \in Seq(Entry) /\ Len(files) <= Slots /\ Len(files) \in Nat
      /\ label \in [eov : Nat, num : Nat, clean : BOOLEAN]
      /\ pc = "sync" /\ level = "repair" /\ Checking
  BY DEF MetaReadInv, ReadInv, TypeOK, RepairInv, Sync, Checking
<1>2. label.eov = ActualEnd /\ label.clean
  BY <1>1 DEF MetaReadInv, RepairInv
<1>3. /\ image'.label = [label EXCEPT !.num = Len(files)]
      /\ image'.slots = [i \in 1 .. Slots |-> IF i <= Len(files) THEN files[i] ELSE Empty]
  BY DEF Sync
<1>4. /\ image'.label.num = Len(files) /\ image'.label.eov = ActualEnd
      /\ image'.label.clean
  BY <1>1, <1>2, <1>3
<1>5. image' \in Image
  BY InvNext DEF Next, MetaReadInv, ReadInv, TypeOK
<1>6. \A i \in 1 .. Len(files) : image'.slots[i] = files[i]
  BY <1>1, <1>3
<1>7. /\ Len(Files(image')) = Len(files)
      /\ \A i \in 1 .. Len(files) : Files(image')[i] = files[i]
  BY <1>1, <1>4, <1>5, <1>6, FilesType
<1>8. Files(image') = files
  <2>1. Files(image') = [i \in 1 .. Len(files) |-> Files(image')[i]]
    BY <1>1, <1>3, <1>4, <1>7 DEF Files
  <2>2. QED
    BY <1>1, <1>7, <2>1
<1>9. Entries(image') = {files[i] : i \in 1 .. Len(files)}
  BY <1>1, <1>8, EntriesOf
<1>10. QED
  BY <1>1, <1>4, <1>5, <1>6, <1>8, <1>9

\* Only the end of a repair changes the image.
LEMMA OnlySyncWrites == [Next]_vars /\ image' # image => Sync
BY DEF Next, vars, Open, ReadFails, ReadLabel, ReadEntries, EmptySlot, Overrun, CheckOrder,
   CheckOverlaps, CheckFits, SyncFails, Close

\* A repair drops no file and leaves every file alone that lies in the volume and
\* shares no block with another one, for every geometry and every damage
\* (directory.cc:150-179).
THEOREM Gentle == Spec => RepairTouchesOnlyDamage
<1>1. ASSUME MetaReadInv, Sync
      PROVE  /\ {e.name : e \in Entries(image)} = {e.name : e \in Entries(image')}
             /\ \A e \in Entries(image) : Inside(e) => e \in Entries(image')
  <2>1. /\ Mended(files, image)
        /\ Entries(image') = {files[i] : i \in 1 .. Len(files)}
    BY <1>1, Written DEF MetaReadInv, RepairInv
  <2>2. {e.name : e \in Entries(image')} = {files[i].name : i \in 1 .. Len(files)}
    BY <2>1
  <2>3. QED
    BY <2>1, <2>2 DEF Mended
<1>2. MetaReadInv /\ [Next]_vars =>
         [image' # image =>
              /\ {e.name : e \in Entries(image)} = {e.name : e \in Entries(image')}
              /\ \A e \in Entries(image) :
                    /\ Inside(e)
                    /\ \A f \in Entries(image) \ {e} : Disjoint(e, f)
                    => e \in Entries(image')]_vars
  BY <1>1, OnlySyncWrites
<1>3. QED
  BY Invariance, <1>2, PTL DEF Spec, RepairTouchesOnlyDamage

\* When the damage is only that files in block order stick out of the volume, one
\* repair makes the image sound, for every geometry (file.cc:718-738).
THEOREM Settles == Spec => RepairSettles
<1>1. ASSUME MetaReadInv, Sync, Ordered(image) PROVE Sound(image')
  <2>1. /\ InOrder(files)
        /\ \A i \in 1 .. Len(files) : Inside(files[i]) /\ files[i] # Empty
    <3>1. pc = "sync" /\ level = "repair" /\ Mended(files, image)
      BY <1>1 DEF Sync, MetaReadInv, RepairInv
    <3>2. QED
      BY <1>1, <3>1 DEF MetaReadInv, SettlingInv, Inside, Mended
  <2>2. /\ image'.label.clean /\ image'.label.eov = ActualEnd
        /\ image'.label.num = Len(files) /\ Files(image') = files
        /\ \A i \in 1 .. Len(files) : image'.slots[i] = files[i]
        /\ Len(files) \in Nat /\ Len(files) <= Slots /\ Len(files) <= Capacity
    <3>1. Len(files) \in Nat
      BY <1>1 DEF MetaReadInv, ReadInv, TypeOK
    <3>2. QED
      BY <1>1, <3>1, Written, CapacityAssumption
  <2>3. QED
    BY <2>1, <2>2 DEF Sound
<1>2. MetaReadInv /\ [Next]_vars =>
         [/\ image' # image
          /\ \A e \in Entries(image) : e.first <= e.last
          /\ InOrder(Files(image))
          => Sound(image')]_vars
  BY <1>1, OnlySyncWrites DEF Ordered
<1>3. QED
  BY Invariance, <1>2, PTL DEF Spec, RepairSettles

=============================================================================
