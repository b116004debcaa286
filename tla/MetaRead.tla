------------------------------ MODULE MetaRead ------------------------------
(***************************************************************************)
(* directory::meta_read: how a program opens an image that may be damaged, *)
(* with the checks and repairs of ucsdpsys_fsck.  ucsdpsys_mount and       *)
(* ucsdpsys_disk read it at the level "blithe".                            *)
(*                                                                         *)
(* Abstractions.  Every program here is one thread that ends before the    *)
(* next one opens the image.  A name is the identity of an entry; "clean"  *)
(* says whether the label's fields that should be zero are.  The first     *)
(* block of the label is 0, its last block 6 or 10 (LabelEnd): an image    *)
(* with another label is refused before it is read (guess.cc:35-48).       *)
(***************************************************************************)
EXTENDS Integers, Sequences

CONSTANTS
    LabelEnd,       \* get_last_block() of the label
    ActualEnd,      \* the blocks of the medium, size_in_bytes() >> 9
    BlockSize,      \* 512
    Slots,          \* entries that the buffer of 2048 bytes holds
    Capacity,       \* maximum_directory_entries()
    Empty,          \* a slot whose name has no length
    Images          \* the images to start from

Entry == [name : Nat, first : Nat, last : Nat, lastbyte : 1 .. BlockSize]

Image ==
    [label : [eov : Nat, num : Nat, clean : BOOLEAN],
     slots : [1 .. Slots -> Entry \cup {Empty}]]

ASSUME ImagesAssumption == Images \subseteq Image
ASSUME ExtentAssumption ==
    /\ {LabelEnd, ActualEnd, Capacity, Slots} \subseteq Nat
    /\ LabelEnd <= ActualEnd
    /\ BlockSize \in Nat \ {0}

\* The buffer holds the entries of a directory of four blocks, and a label of ten
\* blocks has room for more.
ASSUME CapacityAssumption == Slots <= Capacity

ASSUME EmptyAssumption == Empty \notin Entry

VARIABLES
    image,      \* the directory on the image: label fields and slots
    label,      \* the label in memory: eov, num, clean
    files,      \* the entries in memory
    errors,     \* number_of_errors > 0
    level,      \* concern_level
    pc          \* the next part of meta_read, or how the program stands

vars == <<image, label, files, errors, level, pc>>

Levels == {"blithe", "check", "repair"}
Checking == level \in {"check", "repair"}

-----------------------------------------------------------------------------

\* fsck_first_block and fsck_last_block.

\* Fault: a file that is moved past its end keeps its end.
FirstBlockOnly(e, b) == [e EXCEPT !.first = b]

FsckFirstBlock(e, b) ==
    LET last == IF b > e.last THEN b ELSE e.last
    IN [e EXCEPT !.first = b, !.last = last,
                 !.lastbyte = IF b = last THEN BlockSize ELSE @]

\* Fault: a file that loses all its blocks is left with no byte in the last one.
FsckLastBlockZero(e, b) ==
    LET first == IF b < e.first THEN b ELSE e.first
    IN [e EXCEPT !.first = first, !.last = b,
                 !.lastbyte = IF b = first THEN 0 ELSE @]

FsckLastBlock(e, b) ==
    LET first == IF b < e.first THEN b ELSE e.first
    IN [e EXCEPT !.first = first, !.last = b,
                 !.lastbyte = IF b = first THEN BlockSize ELSE @]

\* sort_by_first_block, files with the same first block by name.
Before(e, f) == e.first < f.first \/ (e.first = f.first /\ e.name < f.name)

Sortings(fs) ==
    LET n == 1 .. Len(fs)
    IN {[i \in n |-> fs[q[i]]] :
            q \in {p \in [n -> n] : \A i, k \in n : i < k => Before(fs[p[i]], fs[p[k]])}}

\* Fault: a file that starts where the first one ends is out of order.
OutOfOrderWhenAbutting(fs) == \E j \in 2 .. Len(fs) : fs[1].last >= fs[j].first

\* The check of the order: prev stays at the first file.
OutOfOrder(fs) == \E j \in 2 .. Len(fs) : fs[1].last > fs[j].first

\* Fault: the files are taken to start behind the first of them.
OverlapsFirst(e) == e.first < files[1].last

\* The check of overlaps: block_num stays at the end of the label.
Overlaps(e) == e.first < LabelEnd

TooHigh(e) == e.last > label.eov

\* Fault: the number of files is believed.
NumberBelieved(num) == num

\* The number of files, made sane.
SaneNumber(num) == IF num > Capacity THEN Capacity ELSE num

-----------------------------------------------------------------------------

\* What ucsdpsys_fsck may be asked for: --fix and --read-only exclude each other.
FsckOptions == [level : {"check", "repair"}, ro : BOOLEAN]
               \ {[level |-> "repair", ro |-> TRUE]}

\* directory::factory: nothing is repaired on an image that is only read.
Open(l, ro) ==
    /\ pc = "closed"
    /\ level' = IF ro /\ l = "repair" THEN "check" ELSE l
    /\ files' = <<>>
    /\ errors' = FALSE
    /\ pc' = "label"
    /\ UNCHANGED <<image, label>>

\* The directory cannot be read: factory ends the program.
ReadFails ==
    /\ pc = "label"
    /\ pc' = "died"
    /\ UNCHANGED <<image, label, files, errors, level>>

\* The label, with its own fsck.
ReadLabel ==
    /\ pc = "label"
    /\ LET l == image.label
       IN /\ label' = IF ~Checking THEN l
                      ELSE [eov |-> ActualEnd, num |-> SaneNumber(l.num),
                            clean |-> l.clean \/ level = "repair"]
          /\ errors' = (Checking /\ (\/ ~l.clean
                                     \/ l.eov # ActualEnd
                                     \/ l.num > Capacity))
    /\ pc' = "entries"
    /\ UNCHANGED <<image, files, level>>

\* The entries.  Their own fsck does nothing (file.cc:615).
ReadEntries ==
    /\ pc = "entries"
    /\ label.num <= Slots
    /\ \A i \in 1 .. label.num : image.slots[i] # Empty
    /\ files' = SubSeq(image.slots, 1, label.num)
    /\ pc' = IF Checking THEN "order" ELSE "opened"
    /\ UNCHANGED <<image, label, errors, level>>

\* An empty slot among them ends the program.
EmptySlot ==
    /\ pc = "entries"
    /\ \E i \in 1 .. label.num : i <= Slots /\ image.slots[i] = Empty
    /\ pc' = "died"
    /\ UNCHANGED <<image, label, files, errors, level>>

\* More entries than the buffer holds: what is read then is undefined.
Overrun ==
    /\ pc = "entries"
    /\ label.num > Slots
    /\ \A i \in 1 .. Slots : image.slots[i] # Empty
    /\ pc' = "overrun"
    /\ UNCHANGED <<image, label, files, errors, level>>

CheckOrder ==
    /\ pc = "order"
    /\ files' \in IF OutOfOrder(files) THEN Sortings(files) ELSE {files}
    /\ errors' = (errors \/ OutOfOrder(files))
    /\ pc' = "overlaps"
    /\ UNCHANGED <<image, label, level>>

CheckOverlaps ==
    /\ pc = "overlaps"
    /\ files' = [i \in 1 .. Len(files) |->
                    IF level = "repair" /\ Overlaps(files[i])
                    THEN FsckFirstBlock(files[i], LabelEnd) ELSE files[i]]
    /\ errors' = (errors \/ \E i \in 1 .. Len(files) : Overlaps(files[i]))
    /\ pc' = "fits"
    /\ UNCHANGED <<image, label, level>>

CheckFits ==
    /\ pc = "fits"
    /\ files' = [i \in 1 .. Len(files) |->
                    IF level = "repair" /\ TooHigh(files[i])
                    THEN FsckLastBlock(files[i], label.eov) ELSE files[i]]
    /\ LET found == errors \/ \E i \in 1 .. Len(files) : TooHigh(files[i])
       IN /\ errors' = found
          /\ pc' = IF level = "repair" /\ found THEN "sync" ELSE "opened"
    /\ UNCHANGED <<image, label, level>>

\* What was repaired is written, and factory ends the program.
Sync ==
    /\ pc = "sync"
    /\ label' = [label EXCEPT !.num = Len(files)]
    /\ image' = [label |-> label',
                 slots |-> [i \in 1 .. Slots |->
                                IF i <= Len(files) THEN files[i] ELSE Empty]]
    /\ pc' = "died"
    /\ UNCHANGED <<files, errors, level>>

\* Nothing was written when the call fails at once; how a directory is torn is
\* the business of module Volume.
SyncFails ==
    /\ pc = "sync"
    /\ pc' = "died"
    /\ UNCHANGED <<image, label, files, errors, level>>

\* The program ends.
Close ==
    /\ pc \in {"opened", "died", "overrun"}
    /\ pc' = "closed"
    /\ UNCHANGED <<image, label, files, errors, level>>

Init ==
    /\ image \in Images
    /\ label = image.label
    /\ files = <<>>
    /\ errors = FALSE
    /\ level = "blithe"
    /\ pc = "closed"

Next ==
    \/ \E ro \in BOOLEAN : Open("blithe", ro)
    \/ \E o \in FsckOptions : Open(o.level, o.ro)
    \/ ReadFails \/ ReadLabel \/ ReadEntries \/ EmptySlot \/ Overrun
    \/ CheckOrder \/ CheckOverlaps \/ CheckFits \/ Sync \/ SyncFails \/ Close

Spec == Init /\ [][Next]_vars

-----------------------------------------------------------------------------
(* Properties.                                                             *)

\* Every variable has its type.
TypeOK ==
    /\ image \in Image
    /\ label \in [eov : Nat, num : Nat, clean : BOOLEAN]
    /\ files \in Seq(Entry)
    /\ Len(files) <= Slots
    /\ errors \in BOOLEAN
    /\ level \in Levels
    /\ pc \in {"closed", "label", "entries", "order", "overlaps", "fits", "sync",
               "opened", "died", "overrun"}

\* An entry whose extent lies in the volume.
Inside(e) == LabelEnd <= e.first /\ e.first <= e.last /\ e.last <= ActualEnd

InOrder(fs) == \A i, k \in 1 .. Len(fs) : i < k => fs[i].last <= fs[k].first

\* The entries the label of an image counts.
Files(img) ==
    SubSeq(img.slots, 1, IF img.label.num <= Slots THEN img.label.num ELSE Slots)

Entries(img) == {Files(img)[i] : i \in 1 .. Len(Files(img))} \ {Empty}

\* The image of a volume as Volume keeps it.
Sound(img) ==
    /\ img.label.clean /\ img.label.eov = ActualEnd
    /\ img.label.num <= Slots /\ img.label.num <= Capacity
    /\ \A i \in 1 .. img.label.num : img.slots[i] # Empty /\ Inside(img.slots[i])
    /\ InOrder(Files(img))

\* A sound image is opened as it is, at every level, without a complaint: no
\* check takes files that abut, empty files or a full volume for damage, and no
\* repair touches them (directory.cc:116-182).
SoundIsAccepted ==
    Sound(image) /\ pc \notin {"closed", "label", "entries", "died"} =>
        /\ ~errors
        /\ files = Files(image)
        /\ pc \notin {"sync", "overrun"}

Disjoint(e, f) == e.last <= f.first \/ f.last <= e.first

\* A repair leaves every file alone that lies in the volume and shares no block
\* with another one, and it drops no file (directory.cc:150-179).
RepairTouchesOnlyDamage ==
    [][image' # image =>
          /\ {e.name : e \in Entries(image)} = {e.name : e \in Entries(image')}
          /\ \A e \in Entries(image) :
                /\ Inside(e)
                /\ \A f \in Entries(image) \ {e} : Disjoint(e, f)
                => e \in Entries(image')]_vars

\* When the damage is only that files in block order stick out of the volume,
\* the repair makes the image sound, and the next check will find nothing
\* (file.cc:718-738).
RepairSettles ==
    [][/\ image' # image
       /\ \A e \in Entries(image) : e.first <= e.last
       /\ InOrder(Files(image))
       => Sound(image')]_vars

\* With checks, the entries that are read are those of the buffer, unless a
\* label of ten blocks asks for more of them than it holds
\* (volume_label.cc:458-468, directory.cc:92).
ReadsInBuffer == pc = "overrun" => level = "blithe" \/ Capacity > Slots

\* "Make sure all files are in block order." and "We always fix this error."
\* (directory.cc:118, 133): files that share no block are opened in block order.
OrderIsRestored ==
    /\ pc = "opened" /\ Checking
    /\ \A i \in 1 .. Len(files) : Inside(files[i])
    /\ \A i, k \in 1 .. Len(files) : i # k => Disjoint(files[i], files[k])
    =>
        \A i, k \in 1 .. Len(files) : i < k => files[i].first <= files[k].first

-----------------------------------------------------------------------------
(* The inductive invariant behind all of them.                             *)

\* What is known of the label and the entries in memory.
LabelInv ==
    /\ pc \in {"entries", "overrun"} /\ Checking => label.num <= Capacity
    /\ pc = "overrun" => label.num > Slots
    /\ pc \in {"order", "overlaps", "fits", "sync"} => Checking

\* While a sound image is read.
SoundInv ==
    Sound(image) =>
        /\ pc = "entries" => ~errors
        /\ pc \in {"entries", "order", "overlaps", "fits"} =>
              label.eov = ActualEnd /\ label.num = image.label.num

ReadInv == TypeOK /\ LabelInv /\ SoundInv /\ SoundIsAccepted

\* Files that a repair has made of those of an image: none is lost, and those
\* inside the volume are as they were.
Mended(fs, img) ==
    /\ {e.name : e \in Entries(img)} = {fs[i].name : i \in 1 .. Len(fs)}
    /\ \A e \in Entries(img) : Inside(e) => \E i \in 1 .. Len(fs) : fs[i] = e
    /\ \A i \in 1 .. Len(fs) : fs[i] # Empty

\* While the label and the files of an image are mended in memory.
RepairInv ==
    /\ pc = "sync" => level = "repair"
    /\ pc \in {"entries", "order", "overlaps", "fits", "sync"} /\ Checking =>
          /\ label.eov = ActualEnd
          /\ label.num = SaneNumber(image.label.num)
          /\ level = "repair" => label.clean
    /\ pc \in {"order", "overlaps", "fits", "sync"} => Mended(files, image)

\* An image with files in block order.
Ordered(img) == InOrder(Files(img)) /\ \A e \in Entries(img) : e.first <= e.last

\* While it repairs files that are in block order: they stay so, and each part
\* brings one end of their extents into the volume.
SettlingInv ==
    Ordered(image) =>
        /\ pc \in {"order", "overlaps", "fits", "sync"} =>
              /\ InOrder(files)
              /\ \A i \in 1 .. Len(files) : files[i].first <= files[i].last
        /\ pc \in {"fits", "sync"} /\ level = "repair" =>
              \A i \in 1 .. Len(files) : LabelEnd <= files[i].first
        /\ pc = "sync" => \A i \in 1 .. Len(files) : files[i].last <= ActualEnd

MetaReadInv == ReadInv /\ RepairInv /\ SettlingInv

=============================================================================
