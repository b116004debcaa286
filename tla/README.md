# A verification development for ucsd-psystem-fs

`ucsd-psystem-fs` reads and writes UCSD p-System disk images: a FUSE daemon
(`ucsdpsys_mount`) and a set of command-line tools around one library.  This
directory holds TLA+ modules that model the library and the programs that
change an image, TLC configurations that check them on small instances, and
theorems about them whose proofs TLAPS checks.  File and line references are
to `src/`.

## 1. Inventory

| Component | State it keeps | Operations | Talks to |
|---|---|---|---|
| **Volume directory** `lib/directory.cc` | `files`: the label and the list of entries, in block order; byte order | `meta_read` (mount), `meta_sync`, `find`, `move_gap_after`, `sizeof_gap_after`, `crunch`, `wipe_unused`, `statfs` | entries (calls), sector I/O |
| **File entries** `lib/directory/entry/file.cc` | first block, last block, bytes in the last block, name, kind, date | `truncate`, `read`, `write`, `relocate`, `rename`, `unlink`, `utime_ns`, `fsck` | calls back into the directory to make room and to write it |
| **Volume label** `.../volume_label.cc` | geometry, number of files, volume name, date | `mkfs`, `meta_read`, `mknod`, `fsck`, `utime_ns` | directory |
| **FUSE daemon** `ucsdpsys_mount/main.cc` | the mounted directory; a handle per open file | the call-backs | directory and entries |
| **ucsdpsys_disk** | none | get, put, remove, list, crunch, wipe | directory and entries |
| **ucsdpsys_fsck** and `meta_read` | concern level (ask, repair, report) | checks and repairs of label, entries, block order, overlaps | directory |
| **Sector I/O** `lib/sector_io/{read,write,write_zero,relocate}.cc` | none | byte ranges turned into sector reads and writes | a stack of layers |
| **Sector maps** `apple`, `pdp`, `offset`, `guess`, `raw`, `mmap` | the file, a sector size | one sector read or written, at a mapped place; the guess of the map | each other |
| **IMD, TD0 images** | the decoded image in memory | recognise, decode at open, decompress | sector I/O |
| **Text files** `.../file/text.cc`, `output/text_encode.cc`, `output/text_decode.cc` | a cache of the decoded text | decode, re-encode, truncate and write | the file entry |
| **Streams** `lib/input*`, `lib/output*` | a buffer, a codec, a temporary file | buffered reads and writes, flush, destructors | text encoding, tools |
| **Dates, kinds, byte order** `entry.cc`, `dfkind*`, `byte_sex.cc` | none | `get_date`, `put_date`, the kind of a file name | entries, label |
| `ucsdpsys_mkfs` | options | make an image: size, machine, label, boot blocks | sector I/O, label |
| `ucsdpsys_interleave` | two images | copy between sector orders | sector maps |
| `ucsdpsys_text` | a file and its temporary twin | encode, decode, filter | streams |
| `ucsdpsys_rt11` | the directory of an RT-11 disk | list, extract | Unix files |
| `ucsdpsys_logo`, `_umount`, the string library | none | formatting, a call of `fusermount` | |

What is hard in this code, and the properties that make it correct:

* A file is one contiguous extent.  A write or truncate that grows a file may
  first **relocate every other file** of the volume (`move_gap_after`), one I/O
  call after the other, and only then write the directory.  Extents must stay
  disjoint and in order at every one of those calls, whichever of them fails
  or is the last one before a kill; no file may change but the one written.
* **Memory and image differ** in the middle of every handler.  When no handler
  runs they must agree, on both directories of a twin volume; a kill may cost
  only what the running handler works on, and the code does not promise even
  that while files are being relocated.
* **Block arithmetic** at boundaries: 512 bytes in the last block and not 0,
  writes inside the last block past the end of the file, offsets at odd bytes.
* The **free space** a volume reports must be the space a write can use.
* A **read-only** mount must change nothing.
* **Mounting a damaged image** must end in a directory with disjoint extents.
* **Byte ranges over sectors**: unaligned heads and tails, overlapping copies,
  interleaved sectors: the result must be that of a plain array of bytes.
* Two views of a **text file** (the cache and the disk) must agree.
* The daemon keeps **pointers to entries** in open files, while removals and
  renames take entries out of the directory; the FUSE library compares paths
  by spelling, `find` by 15 characters and no case.
* An image is opened through a **guess**: format, interleave and offset are
  tried in turn, and a wrong one may look right.
* A **Teledisk** image is decompressed with a tree that changes at every
  character; one wrong swap and the rest of the image is noise.
* A copy in the **command-line tools** is in two buffers and a codec when it
  is stopped; some of it is written by destructors, after the last check.

The complete list, each at its line, is `hazards` in `PROJECT.json`.

## 2. Modules

| Module | What it is |
|---|---|
| `Volume` | The mounted volume: entries, blocks, directory copies, the running handler.  One action per sector-I/O call. |
| `FileStore` | The abstract specification of a volume: a map from names to sequences of bytes, with one atomic step per operation. |
| `VolumeRefinement` | `Volume` implements `FileStore`. |
| `VolumeClaims` | What the documentation says of `write`, each claim shown to fail. |
| `VolumeProofs` | Theorems about `Volume` for every value of the constants: layout, names, directory copies, read-only mounts, the free space and the passes of `move_gap_after`; the bytes of files through kills, failing calls, holes and wipes; and that `Volume` implements `FileStore`. |
| `ByteDevice` | The abstract specification of sector I/O: an array of bytes. |
| `SectorIO` | The loops of `read`, `write`, `write_zero` and `relocate_bytes`, one action per sector, over an interleaved medium; they implement `ByteDevice`. |
| `SectorIOProofs` | That they do, proved for any sector size, number of sectors and order. |
| `Interleave` | The Apple Pascal and PDP-11 sector orders. |
| `MetaRead` | How an image that may be damaged is opened: `directory::meta_read` with the checks and repairs of `ucsdpsys_fsck`. |
| `MetaReadProofs` | Theorems about `MetaRead` for every value of the constants. |
| `TextCodec` | The pages of a p-System text file: `output_text_encode` and `output_text_decode` as operators. |
| `TextFile` | A text file of a mount with `--text`: the text in memory, the pages in the file, and the calls between them. |
| `TextFileProofs` | Theorems about `TextFile` and the codec for every text, page, tab and code length. |
| `Mount` | The FUSE daemon: its call-backs, the pointers in open files, and what the FUSE library does around them. |
| `MountProofs` | Theorems about `Mount` for every value of the constants. |
| `Lzss` | The abstract specification of the decompressor: a text that grows by literal bytes and by copies of its own past. |
| `Decompress` | `get_byte` of `td0.cc`: bits, the adaptive Huffman tree, positions and the ring; it implements `Lzss`. |
| `DecompressProofs` | That it does, for every file, and that no bit is used twice or lost. |
| `ImageFile` | The readers of `.imd` and `.td0` files: the sectors of a track in any order and encoding, placed in a buffer. |
| `DiskImage` | Extends `ImageFile` and `Interleave`: `ucsdpsys_mkfs`, imaging programs (external), `ucsdpsys_interleave` and the opening of an image with its guesses, one after the other on the same files. |
| `DiskImageProofs` | That a volume is found in every image made of it and the buffers of the readers suffice, proved for any files, volumes and floppy disks; that the orders of `Interleave` are orders as `SectorIO` asks for. |
| `Streams` | Output buffers and the codecs in front of them, as operators. |
| `EntryData` | What an entry keeps besides its extent: name, kind, date. |
| `Programs` | What the tools share: Unix files, the image, the run of a program, a kill at any step. |
| `DiskTool`, `TextTool`, `Rt11`, `MkfsTool` | The four programs, each extending `Programs`. |
| `Tools` | Their composition: programs run one after the other on the same files and image. |
| `ToolsProofs` | Theorems about the four programs for every value of the constants: copies, extractions, replacements, and what fits on a volume. |
| `MCVolume`, `MCSectorIO`, `MCMetaRead`, `MCTextFile`, `MCMount`, `MCDecompress`, `MCDiskImage`, `MCTools` | The instances TLC checks. |

How they fit together:

* `Volume` treats one call of `sector_io::write`, `write_zero` or
  `relocate_bytes` as one action that writes its range, or, when it fails or the
  process is killed in it, one end of its range (`Fill`, `PartlyCopied`).
  `ByteDevice` is that contract, and `SectorIO` shows that the sector loops
  keep it, whatever the interleave.  The orders of `Interleave` are
  permutations (`OrdersAreMaps`), which is what `SectorIO` assumes of its `Map`.
* `Volume` mounts (`Remount`) the directory it finds on the image as it is.
  `SoundIsAccepted` of `MetaRead` shows that the checks do not change a
  directory which is `Layout`, which `ExtentsDisjoint` says the one on the
  image always is.  A torn directory is outside `Volume`: it stops (`Lost`),
  and `MetaRead` says what opening damaged images does.

* `Mount` has what `Volume` leaves out, the handles, and leaves out what `Volume`
  has, the blocks: a file is its number of blocks there.  Its properties say that
  what `Volume` takes for granted - a handler works on a file of the directory -
  is so.
* `Programs` sees a volume as `FileStore` does, names and contents, which
  `Volume` is shown to implement; its text files go through the same `TextCodec`
  as those of `TextFile`.
* `DiskImage` has cells of 128 bytes and no directory but the cell of its label:
  what it shows is that the array of bytes `SectorIO` works on is the one that was
  made.  `ImageFile` gives it the buffer that the readers of `.imd` and `.td0` files
  fill.  The bytes a `.td0` reader works on come out of `Decompress`.

### Volume and the code

| Variable | In the code |
|---|---|
| `files` | `directory::files`; the label is kept apart |
| `disk` | the blocks behind the label; `BlockSize` is 512 |
| `image`, `backup` | the directory `meta_sync` writes at byte 0x400, and the second copy of a twin volume |
| `ro` | `deeper->is_read_only()` |
| `pc`, `op`, `loop` | the place of the running handler, its arguments, and the locals of `move_gap_after` |
| `ret` | what the last handler returned |
| `fault` | not in the code: an I/O call failed, or the process was killed in a handler, since the last full `meta_sync` |

A handler begins with the action of its name (`Mknod`, `Unlink`, `Rename`,
`Truncate`, `Write`, `Crunch`, `WipeUnused`), which makes every check the
call-back and the entry make, in their order, and every change up to the first
I/O call.  `MoveDown` and `MoveUp` are one `relocate` each; `GapMade` and `Grow`
the end of `move_gap_after` and the second look at the gap by its caller;
`Pad`, `PutData` and `PutHole` the writes of data; `WriteDirectory` and
`WriteSecondDirectory` the two copies.  `WipeUnused` is one action: it ignores
the errors of its writes, so all it can do is to clear some of the blocks.
The process may end between any two of these steps (`Restart`) or in the middle
of one (`KilledIn...`), and each call may fail (`DataFails`, `SyncFails`).  The
next mount may be read-only.

Names stand for what `find` tells apart.  Entries have no kind, date or status
bit here.  All bytes of one write are equal, and are not zero.

### SectorIO and the code

`Begin` is a call; `ReadSector`, `FetchSector` and `WriteSector` are one
`read_sector` or `write_sector` of its loop.  `remainder`, `nbytes` and `partial`
are the locals of the same name.  The "fast path" for whole sectors is
`Whole`; that it transfers several sectors in one virtual call in some layers
changes nothing seen here.  The refinement mapping maps the sectors, through
the sector map, to one array of bytes.

### MetaRead and the code

`Open` to `Sync` are the parts of `meta_read` in their order: the label and its
`fsck`, the entries, the order, the overlaps, the end of the volume, and the
`meta_sync` at the end of a repair.  `blithe`, `check` and `repair` are the levels
of concern.  `EmptySlot`, `ReadFails` and the end of a repair are the places where
`factory` ends the program.  `Overrun` is where the buffer of 2048 bytes ends:
what is read past it is undefined, so nothing is said of what follows.

### TextFile, TextCodec and the code

| Variable | In the code |
|---|---|
| `cache` | `directory_entry_file_text::cache`; `Null` is a null pointer |
| `file` | what `directory_entry_file::read` gives |
| `pc`, `op` | the place of the running `write` or `truncate`; "plain" is an entry of class `directory_entry_file` |
| `status` | not in the code: what is known of the last rewrite |

`Look` is `getattr` and `read`; `Write` and `Truncate` change the text in memory
and stop before the calls of the file below: `Shrink` is its `truncate(0)`,
`Refill` its `write`.  Both have the outcomes of those handlers in `Volume`: an
error before or after the change, an error that looks like success
(`RefillUnsynced`), a kill.  `Release` runs when any handle is closed.
`ReadFails` and `TruncateOverruns` are where the code uses a null pointer or
writes past its buffer: the process may stop, or go on with the outcome the
other actions give.  Bytes between the end of the text and the offset of a write
are what the buffer held, so `Write` leaves them open.

`Encode` and `Decode` fold the code's character step (`line_character` and
`write_one_line`, the loop of `write_inner`) over a text.  The property
`TextKept` does not use them twice: it compares what `Decode` makes of the file
with `Canonical`, which defines line by line what a text file can keep of a
text, and `Fits` says, line by line too, whether it has to split one.  Tabs and
blanks in front of a line are exchanged, tabs behind its first
character become blanks, NULs and DLEs go, and a character that cannot be
printed becomes its hexadecimal code.  An indent of more than 223 blanks takes several codes,
and a tab stop may lie behind the last of them: `Canonical` has what the decoder makes of
those (section 6).

### Mount and the code

| Variable | In the code |
|---|---|
| `volume` | `directory::files`, with the name and the blocks of each entry |
| `handle` | the open files of the kernel: the path the FUSE library knows them by and `fi->fh` |
| `pointers` | the heap cells made by `open_callback` and `opendir_callback` |
| `options` | `-r` and the mount option `ro`; `Down` when the daemon is not running |
| `ret` | what the last call-back returned |
| `misnamed`, `died` | not in the code: handles whose file was also named by another spelling; whether the daemon died with hidden files |

Each request of the kernel is one action, with the call-backs the FUSE library makes
for it: `RemoveFile` and `Rename` hide an open file behind a made-up name
(`HideNode`; the library is external and modelled from how its high-level
interface is used), and `Close` removes it with the last handle.  A call-back
is an operator that gives the volume and the result; `Answers` are those that
change nothing.  Where an assertion can fail the result is "abort" and the daemon
ends.  Addresses of entries that nobody refers to are used again (`Collected`).
The files are a set: their order on the volume, which the call-backs do not look at,
is in `Volume`.

### Decompress, ImageFile, DiskImage and the code

`Decompress` keeps the names of `td0.cc`: `freq`, `son`, `parent`, `Bitbuff`, `Bits`,
`ring_buff`, `GBr`, `GBi`, `GBj`, `GBk`, `GBstate`.  `Walk` is one turn of the
loop of `decode_char`, `Climb` one of `update`, `CopyByte` one call
of `get_byte` within a string.  `Rebuild` begins the `reconst` part; `HalveLeaf`, `JoinNodes` and
`ConnectParents` are one turn of each of its loops, whose `i` and `j` are in `loop`.
`Sentinel` is the 0xffff behind the root, and `MAX_FREQ` is 0x8000.  The file is any sequence of bits, since each is the
code of some text, so a byte is chosen when it is read.  The mapping to `Lzss` gives the text
returned so far and the rest of the copy under way.

In `ImageFile` the sectors of a track stand in the file in one of `Orders`, each in
any of the encodings its contents allow (`ImdRecords`, `Td0Records`), and one is decoded at
a time.  In `DiskImage` a job is a program: `Mkfs` and `Capture` are one step; `Open`,
`ReadImage`, `Guess` or `NoGuess`, then `FillVolume` or one `CopyChunk` after the
other, are the steps of the programs that open an image.  `vol` is history: what
each cell of the volume in a file is to be.

### The tools and the code

| Variable | In the code |
|---|---|
| `files` | the Unix files: contents and the two times |
| `image` | the disk image: entries with kind, contents and date, the boot blocks, byte order |
| `memory` | the entries a running program has read and changed |
| `run` | the running program: its command, its place, the files and the stream it has open, what it has done |
| `ran` | how many were run (bounded) |

A stream is a record: what its buffer holds, the state of its codec, and the pieces
that are on their way to the file.  `CopyChunk` is one read and one write of the
16 KB loop; `WritePiece`, `WriteTemporary` or `CopyBlock` is one `write` of the system, so that a kill or a full
volume comes between any two of them.  `Closed` is where the destructors run.  A program that dies
runs none.  In `TextTool` the filter reads a pipe that gives any number of bytes.

### Operators marked "Fault"

A definition whose comment begins with "Fault:" is no part of the model.  It
stands before the operator it resembles and is what a plausible mistake in that
place of the code would make of it.  Each property of each run fails when one
of them takes the place of the original; `mutants` in `PROJECT.json` lists them.

## 3. Runs

| Run | Bounds | What it shows |
|---|---|---|
| `volume_kill` | 3 blocks of 2 bytes, 2 files, sizes up to more than the volume; kills everywhere, read-only mounts, no I/O errors | Extents stay disjoint and names unique in memory and on the image at every I/O call; between handlers the directory is written; free space is exact and "no space" is true; a wipe leaves no stray byte; a read-only mount changes nothing; a kill loses no file the handler does not work on, unless files were being moved. |
| `volume_faults` | twin volume, 2 blocks of 4 bytes, 2 files, one size and one offset, errors and kills everywhere | The whole inductive invariant (`InductiveInv`), and that the second directory survives a kill in the first. |
| `volume_hole` | blocks of 8 bytes, writes at odd offsets, errors | A write in the hole of a last block, and a relocation that stops half way, damage no other byte or file. |
| `volume_store` | 2 blocks of 4 bytes, 2 names, no errors | `ImplementsFileStore`, and every handler returns. |
| `sector_io` | 5 sectors of 3 bytes, all ranges and moves, a failure at each sector | `ImplementsByteDevice`. |
| `meta_read` | 3 slots, a volume of 2 blocks, every extent in 0 to 5 under a good label, damaged labels over good files | Sound images are accepted untouched at each level; a repair touches only damage, and settles a volume whose files stick out of it. |
| `text_file` | pages of 6 bytes, tabs of 4, codes of at most 7 blanks, texts of up to 3 characters (more when they are read back), of a letter, blanks, tabs, line ends, one that is not printable and one that is ignored; every call may fail, kills anywhere | The next reader of a text file sees the text this one sees; long lines are only split; pages are whole; reading and writing back changes no byte. |
| `mount` | 2 classes of names with two spellings of one, 2 hidden names of one class, 4 addresses, 2 handles, 1 block, 2 entries; kills at any time | An open file is in the directory; each pointer is freed once; hidden files go with their last close; a read-only mount changes nothing. |
| `decompress` | bytes of 2 bits, 2 literals, strings of 2 and 3, a ring of 8, frequencies up to 7, any input, texts up to 7 bytes | `ImplementsLzss`; no bit is used twice or lost; the tree is a Huffman tree whenever it is not being made anew. |
| `disk_image` | 3 files, volumes of 1 and 2 tracks or 52 cells, both interleaves, `.imd` tracks in two orders and any encoding, 3 programs | However an image came to be, it opens as the volume that was made; the buffer of `td0` is large enough. |
| `tools` | 8 Unix files, a volume of 8 blocks and 3 entries, 2 RT-11 disks, 26 command lines, 2 runs, kills anywhere | Success means that the whole file is there; a stopped copy is a beginning; a text is replaced as a whole; every permanent RT-11 file is extracted. |
| `silent_error` | 2 blocks, 1 file, errors | A write that reports success was not written; see section 6. |

Why the bounds are enough.  Two names are what `rename` and the interplay of a
growing file with another one need; three blocks hold a file that grows, one
that must move, and a gap in front of, between or behind them, and a file can
need more than all of them.  A block of two bytes has a full, a half-full and
an empty last block; odd offsets in a hole need room for the misplaced byte,
and get 8.  The label is as long as a real one so that block numbers are real
(6), but its length only shifts them: the theorems hold for any.  No counter is
bounded in `Volume`; its state space is finite.  In `SectorIO` calls share
nothing but the medium, which starts with all bytes different, so one call
(`MaxCalls`) shows what any sequence does; the behaviour then ends, which is why
this configuration does not check deadlock.  Three slots are the least for a file
which is out of order with one that is not the first.  A page
of six bytes holds four characters and an end.  A character that is not printable
takes four, so that texts of three characters fill a page exactly, spill over
it, and are too long for one or two; a tab of 4 gives indents below, at and
above a tab stop, with and without a DLE code.  Codes of at most 7 blanks stand to
tabs of 4 as 223 to 8, one less than a multiple, so that two tabs take more than one code.  The
longest code for an indent fits in a page, as it does in a real one.  The
bound on texts (`MaxText`) is a guard of `Write` and `Truncate`.

In `Mount` a third name or handle adds nothing that two of them and two
spellings cannot do: a file in the way of a rename and the one renamed, both
open; four addresses let two entries be listed while two removed ones are
still pointed to.  A state is what later call-backs can see (`VIEW` leaves out
the last result).  In `Decompress` a character of a text of 7 is counted to the limit, so
the tree is rebuilt; the text wraps the ring of 8 with the last string, and
strings overlap themselves.  In `DiskImage` the label is in cell 8 of the first
track of every volume, so that one track decides every guess, and the second shows
that the map goes on; three programs are make, convert or capture, and open
(`MaxPrograms`).  In `Tools` buffers of 5 and reads of 10 against pages of 4 and
blocks of 2 put boundaries of each inside the others, and two runs are a killed
program and the one that finds what it left (`MaxRuns`).  These two bounds and `MaxText` of `Decompress` end the behaviours,
which is why those configurations do not check deadlock.

`volume_faults` also leaves the last result out of a state (`StateView`), which the
steps of a volume do not look at.  One size, offset and length are enough there: what a
directory copy holds does not depend on how long a file is, and the other volumes vary them.

Names are symmetric in `Volume`, addresses and handles in `Mount`: the models never
order them (`volume_store` checks a liveness property and uses no symmetry).

**Fairness.**  `HandlersReturn` assumes `WF_vars(Step)` and nothing more: that
the thread inside a handler goes on.  The daemon is single-threaded (`-s`,
`ucsdpsys_mount/main.cc:797-803`), a handler is straight-line code that
waits for nothing, and requests, failures and kills have no fairness.

## 4. Theorems

Assumptions are those of the `ASSUME`s: an even positive block size, a label
that ends no later than the volume, a byte `Zero`.  Failures and kills may be on
or off.

* **`Invariance`** (`VolumeProofs`): `Spec => []VolumeInv`.  Disjointness is not
  inductive by itself: while `move_gap_after` runs, that a move does not land on
  another file depends on how far the passes have come.  `LoopInv` says it: files
  up to `loop.j` end at or below `loop.low`, those above start at or above
  `loop.high`.  `RoomInv` carries what `Grow` found out to the write that sets the
  size.  `WrittenInv` says when image and memory agree; it is what makes a
  mount in the middle of a handler find a directory that is disjoint.
  **`Disjointness`**, **`Uniqueness`** and **`Durability`** follow.
* **`ReadOnly`**: its own small invariant says that no handler that writes runs on
  a read-only mount; the action property follows.
* **`FreeSpace`, `Packed`, `NoSpace`** (`VolumeProofs`): the free space that
  `statfs` computes is the number of blocks in no extent, and a handler that gives
  up for want of space needs more blocks than that.  The sum over the files is a
  function on `0 .. Len(files)`.  The lemmas about it go by induction on that index:
  the set of indices for which a fact holds has no least member outside it
  (`LeastNumber`, `NaturalInduction`).  `SpaceInv` says that the files behind `loop.j` are packed
  against `loop.high` and those before it against `loop.low`, so that when both passes
  are done all free blocks lie in the gap.
* **`Handlers`** (`VolumeProofs`): `Spec => []HandlerInv`.  At each place of a
  handler: which file it works on and which names it may touch, that its
  range is one it may write, and how the two directory copies agree with memory.
  From it follow **`BackupSurvives`**, **`KillKeepsOthers`**, **`OneFile`** and **`HoleKeeps`**.  The
  lemma behind them is that a file keeps its bytes when the blocks written are not
  its own (`DataFrame`), or when its extent is copied to where only it and free
  blocks are (`MoveKeeps`; source and target may overlap).  **`Wiped`** carries
  `ret = "wiped"` from the wipe to the next request; it assumes `~MayFail`, since the
  code goes on after a failed write (section 5).
* **`Inductive`, `Implements`** (`VolumeProofs`).  `StoreInv` adds what a handler
  still knows, when it sets the size, of what it found at its start: that the file ended at or
  before the hole it pads, and that a write ends within the extent or begins where
  zeros have been written.  Under it each step that sets a size or an entry is one step of
  `FileStore` (`CreateStep`, `RemoveStep`, `RenamedStep`, `ShrinkStep`, `PaddedStep`, `PutStep`,
  `PutInHoleStep`), and every other one leaves the store unchanged (`InvisibleStep`).
  `Implements` assumes `~MayFail` and `~MayDie`, as the run does: after either of them a file may
  be half written, which the abstract store does not allow.  `Faultless` says that then
  no directory is torn and each mount finds the one in memory.
* **`Calls`, `Implements`** (`SectorIOProofs`): `SectorIO` implements `ByteDevice` for every
  sector size, every number of sectors, every permutation `Map` of them and every
  contents (`ContentsAssumption`), with failures.  `CallInv`, which stands in this module because only the proof
  needs it, says at each place of a loop how much of the range is done,
  that the sector buffer holds the sector it was filled from, and, for a move, that what is still to
  be read has not been written.  The mapping splits a byte of the range into sector and
  offset (`\div` and `%`), and its lemmas say that every byte is in one sector at one place.
* **`Invariance`, `Acceptance`, `Bounded`** (`MetaReadProofs`): a sound image is
  opened as it is at every level of concern; entries are read inside the
  buffer when the capacity of the label is.  `LabelInv` and `SoundInv` carry what is
  known of the label from one part of `meta_read` to the next.
* **`Gentle`, `Settles`** (`MetaReadProofs`): a repair keeps all names and each file
  inside the volume, and one repair settles files that are in order but stick out.
  Both speak of the image before and after, so `Mended` and `SettlingInv` relate
  the files in memory to those on the image at each part of the repair; that sorting loses no
  file is that an injection of `1 .. n` into itself is onto.  Assumed is that the label has
  room for as many entries as the buffer (`CapacityAssumption`): 77 of 77, or of 156 for a
  label of ten blocks (`volume_label.cc:286-293`).
* **`Invariance`, `TypeCorrect`, `OpenFiles`, `HiddenFiles`, `Pointers`, `ReadOnly`**
  (`MountProofs`): `Spec => []MountInv` and what follows from it.  That an open
  file is in the directory is not inductive by itself.  `Owned` adds that it
  stands there under the class of its handle's path, so that a removal of it
  goes through `hide_node`; `OnePath`, that its handles share one path, so that
  hiding it moves all of them.  For the last close, `HiddenListed` says that the
  hidden file is found, and `OneHidden` that no other made-up path of the same
  15 characters is in use, so that the file which `find` gives is the right one.
  All four are said of any volume and handles (`Names`), because a rename that
  hides a file first is two changes in one action (`RenameOnward`).  `ReadOnlyInv`
  says that a read-only mount has nothing hidden and nothing that only a handle
  points at; `ReadOnly` follows for each action.  Assumed are that no program uses the
  library's made-up paths in any spelling (`HiddenAssumption`), and that there are
  addresses for every entry (`EntryAssumption`).
* **`AppleTrack`, `AppleInjective`, `PdpTrack`, `PdpInjective`, `OrdersAreMaps`**
  (`DiskImageProofs`): the sector orders stay on their track and put no two sectors in one
  place, so that of any number of whole tracks they are maps as `MapAssumption` asks for.
* **`BitsOnce`** (`DecompressProofs`): the invariant `Remains` gives the bit buffer
  position by position; a shift, a byte put below `n` bits and an "or" of the two are
  lemmas about sequences.  The tree plays no part in it, so nothing is assumed of the codes.
* **`TextIsLzss`** (`DecompressProofs`): `Decompress` implements `Lzss`.  `LzssInv` says which byte of
  the text each cell of the ring holds, or that it is still a blank, and where a copy
  under way reads; positions are taken modulo the size of the ring (`Turned`).  Assumed
  are the shape of the tables of positions (`CodeAssumption`) and that an upper part of a position fits in a
  byte (`P <= W` of `SizesAssumption`; 6 and 8 in the code).
* **`TreeStays`** (`DecompressProofs`): `TreeInv` for any number of characters and any `MAX_FREQ` above
  it (`FreqAssumption`).  Between two turns of `update` the node that is to be counted next weighs one less
  than its children, and while the tree is made anew there is none: `TreeIndInv` has `IsTree` with
  that node (`Pending`), and `Halving` and `Joining` for the two loops.  That each
  character keeps its leaf is an injection among the nodes not yet passed; that the new root
  weighs no more than `MAX_FREQ`, so that the next character can be counted, is a sum over the
  leaves (`Total`), which halving brings down to half of what it was and one for each leaf.
  That the new tree has as many nodes as the old is counting; that it is sorted, `JoinPlace`.
* **`FileStays`, `TypeCorrect`, `TextIsKept`, `RewritesAreStable`, `PagesAreWhole`, `RoundTrip`**
  (`TextFileProofs`): what `Decode` makes of `Encode(t)` is `Canonical(t)` for every text with `Fits(t)`, and what holds of
  a file between calls follows.  The two folds are opened to the recursive function that
  `FoldLeft` is defined by, and taken character by character through a set of numbers
  (`EncodedSteps`, `DecodedSteps`).  The state of the encoder behind a text is a function of its last line
  (`EncodedIs`), so the file is made line by line (`OutSteps`); a line is read back as what is kept
  of it (`DecodeLine`), and what is kept of it is written as the line itself
  is (`KeptCode`), which makes a rewrite stable.  For the pages, `PutPaged` and `SplitPaged` say that a
  line that is put or split leaves whole pages.  `FileInv` says what a `status` means: a
  file to be refilled is empty; one that was rewritten, split or not, is `Encode` of a
  text; and where it was not split, that text fits and is the one in memory, or is what
  memory will be read from.  Assumed are a page of at least three bytes, codes that fit in a
  byte, and characters that are bytes (`SizesAssumption`, `CharactersAssumption`, `NullAssumption`).
* **`FilesHold`, `VolumesAreFound`, `BufferIsEnough`** (`DiskImageProofs`): `DiskInv` says that every file,
  what a reader has read of it, what a program uses, and what of a copy is made, holds the volume it is
  to hold (`Holds`): its cells are in the places of one of the layers `Made`, zeros may have become junk,
  and the label is in no cell but those of the two directories.  The last part is
  not needed to read a volume, but without it the guess is not right: `GuessIsRight` says that none of the
  layers tried before that of the volume finds a label.  That cells on whole tracks are in the image
  (`WholeTracksStay`), and no two in one place (`PlaceInjective`), comes from the theorems about the orders.
  The flattened tracks of an image are divided into blocks of one length (`FlattenIs`, `Blocks`),
  and the numbers of their cells split by a lemma without division (`InBlock`).  `ReaderInv` says how far a reader
  has come, with sectors on a track put down in any order.  Assumed are that nothing else
  looks like the label and volumes hold a directory (`VolumesAssumption`), and of floppy disks (`GeometryAssumption`)
  that a sector fits in the buffer `td0` begins with, that the sectors are numbered from 1 on,
  and that a `.td0` file has them in that order: the code looks at no numbers there.

* **`Completes`, `CopiesArePrefixes`, `Extractions`, `Replacements`, `TypeCorrect`** (`ToolsProofs`):
  the five properties of `Tools`, from one invariant, `IInv`.  What makes a copy hard to reason about is that the
  program, two buffers and a codec each hold a part of the file.  `Keeps` says how they fit: what is
  written, what is queued or held behind the codec, and what the codec will make of what is
  held in front of it and of what is not yet read, are one after the other what it
  makes of the whole.  Each way a buffer can go (`WriteToIs`) and
  each call of a stream (`KeepsAccept`, `KeepsCoding`) keeps that, since the codecs are folds and what they
  have put out they keep (`Longer`).  Decoding needs more: the stream decides at its
  first piece whether there is a header to skip, so `Told` says that this piece answers as the
  file does.  It does when the file is read in whole chunks; of a pipe, whose first read
  may be shorter, only when the header is plain, which is what `CopyIsPrefix` asks of it.
  `Copying` is that by phase: reading, flushed, and closing, where the destructors write what is left.
  `DiskInv`, `TextInv` and `Rt11Inv` say which file is copied at each place of a program and that what
  is done is whole and is not touched again, unless the same name comes twice (`Again`).  That a temporary name
  is free is a pigeonhole argument over the names tried; `Replacements` rests on it.  For
  `Extractions`, `Extracts` has each entry that `find` gives done, under way or still among the titles,
  and the blocks counted up to it are those it owns.
  `TypeCorrect` has `SizeInv` besides: the blocks the files take are a sum over a set, for which
  the order in which it is taken does not matter (`TotalWithout`), so that cutting a file to nothing or removing it
  only makes room (`EmptiedUses`).  A volume that mkfs has zeroed but not labelled is empty.
  Assumed are that the 16 KB of a chunk are more than a buffer of 8 KB (`BufferAssumption`), that the files, the image and the disks there are at the beginning
  are such files and a volume as the checks of `meta_read` leave it, or none (`FilesAssumption`, `ImageAssumption`), that
  the command lines are of their programs (`CommandsAssumption`: a filter does not write to its own
  input), and a block of at least one byte, and a label that fits in the smallest volume (`VolumeAssumption`).

`InductiveInv` is `VolumeInv`, `SpaceInv`, `HandlerInv` and `StoreInv` together; the run `volume_faults`
checks it as it is proved.  `TornAssumption`, that a torn directory is not a
directory, is about the model value `Torn`.

Only model-checked:

* `ImplementsFileStore` with I/O errors and kills does not hold; what holds there is in
  `KillKeepsOthers`, `OneFile` and `BackupSurvives`, which are proved with both.
* `LongLinesOnlySplit` does not hold for every constant: a line that begins with so
  many blanks that their codes alone fill a page (more than 113,000 with pages of 1024 bytes)
  loses those that go to another page than its first mark.  The run has texts too short for that.
* `HandlersReturn`: liveness is out of reach of TLAPS.

## 5. Hazards

`PROJECT.json` lists them with the properties that look at each.  Without a
property are: the wipe of text entries and the errors of a wipe; the truncate
that makes a text longer and the flag of `--text`, where what one would ask does
not hold (section 6); the Teledisk images that are not compressed, and the dates
that are not written, of which no text of the repository promises anything.

## 6. What was found

By a run:

* A write that extends a file reports success when the directory cannot be
  written (`silent_error`; `file.cc:563` returns a positive number).

While modelling; the models have these as they are, and the first five are
stated as operators that no configuration lists because they do not hold:

* A write past the end of a file inside its last block (`file.cc:457-474`): the
  data lands one byte too far at odd offsets (`HoleDataInPlace` of `VolumeClaims`; `-511` where `~511` was
  meant).  The buffer is zeroed before it is read, so the gap is not zero (`PutHole`),
  and a write that fills the block fails an assertion (`HoleAborts`).
* The check of the block order compares each file with the first one only, so
  files stay out of order behind it (`OrderIsRestored` of `MetaRead`; `directory.cc:124`).
* `--text` has no effect on the text files that are on the image: the flag is set
  when their entries have been made (`TextIsTranslated` of `TextFile`; `ucsdpsys_mount/main.cc:815`).
* A truncate that makes a text longer adds the new size to it instead of growing it
  to that size, and may overrun the buffer (`TruncateSetsSize` of `TextFile`; `set_size.cc:33-35`).
* A file that is open under one spelling and removed under another is not hidden by
  the FUSE library, and a write that grows it then fails an assertion
  (`GrowingFileListed` of `Mount`; `directory.cc:408`, `470`).
* `link_callback` looks the other file up and then tests its path and not its entry
  (`ucsdpsys_mount/main.cc:183`); the call is refused in any case.
* A Teledisk image that is not compressed is recognised and then refused
  (`Td0Accepted`; `td0.cc:490`).
* `utime_ns` takes the time of access, and no directory is written
  (`file.cc:377`), so the date of the last file that `ucsdpsys_disk --put` copied
  stays that of today.
* `ucsdpsys_disk --put` of two files whose names agree in 15 characters overwrites the
  first with the second.
* `ucsdpsys_text` as a filter looks for the header in the first piece a pipe
  gives, which may be shorter than the header (`PlainHeader` names the texts for
  which this does no harm).
* An indent of 224 blanks is not what its encoding is read back as: the encoder writes a
  code for 223 and a plain blank, the decoder makes tabs of the 223 and then adds the blank, so
  that 27 tabs and 8 blanks come back and not 28 tabs (`text_encode.cc:99-131`,
  `text_decode.cc:140-170`).  The columns are the same; `Canonical` says so.
* `ucsdpsys_interleave` does not truncate its output and leaves out a last
  incomplete track (`OpensAsMade` claims neither).

## 7. Not modelled

The list with reasons is `components` in `PROJECT.json`.  The string library,
spelling suggestions, hex dumps and listings as text, the logo and
`ucsdpsys_umount` have no state that outlives a call and stay out; so do the
two test programs.  The mapped file (`mmap.cc`) is not told apart from the raw
one.  Pushing input back, which no program uses, the options `-t` and `-N` of
`ucsdpsys_text`, the radix-50 decoding of RT-11 names and the checksums of
Teledisk images, which the code reads past, are left out.

The programs of `Tools` see a volume as names and contents: that a put of text
with `--text` goes through the cache of `TextFile`, and a wipe after it through
the blocks of `Volume`, is not composed.  `Mount` and `Volume` are two views of
the daemon and not one module: their product has no new interaction, since one
call-back runs at a time and a handler of `Volume` begins and ends within one
action of `Mount`, but its states are too many for TLC.

## 8. Plan

What is left: `--text` and `--wipe-unused` within the sessions of `DiskTool`.
