----------------------------- MODULE ImageFile -----------------------------
(***************************************************************************)
(* The readers of ImageDisk (.imd) and Teledisk (.td0) image files: what   *)
(* sector_io_imd and sector_io_td0 make of a file that an imaging program  *)
(* wrote of a floppy disk.                                                 *)
(*                                                                         *)
(* A cell stands for 128 bytes.  A medium is a sequence of tracks, a track *)
(* a sequence of sectors, a sector a sequence of cells.  The file holds    *)
(* the sectors of a track in any of Orders, and each sector in any         *)
(* encoding: the encodings are chosen when they are read.                  *)
(***************************************************************************)
EXTENDS Integers, Sequences, SequencesExt

CONSTANTS
    Zero,
    Junk,           \* what stands for memory that was never written
    Skippable,      \* bound: the sectors an imaging program may leave out
    Orders(_, _),   \* by format and number of sectors: the orders of a track
    GuessedSize     \* cells: the size td0 guesses from the type of the drive

ASSUME GuessAssumption == GuessedSize \in Nat \ {0}

VARIABLES
    format,     \* "imd", "td0", or "" when no file is being read
    medium,     \* what the file is an image of
    order,      \* the order of the sectors in the track being read
    placed,     \* the sectors of the track that have been read
    data,       \* cells of the tracks (td0: of the sectors) that have been read
    size,       \* of the buffer for them: data_size
    at          \* the track, and the sector in the file, to be read next

vars == <<format, medium, order, placed, data, size, at>>

-----------------------------------------------------------------------------
(* What may stand in the file for a sector.                                *)

\* The one cell a sector is full of, if there is one.
Fill(s) == {c \in ToSet(s) : \A i \in DOMAIN s : s[i] = c}

\* .imd: unavailable, written out, or one byte repeated.
ImdRecords(s) ==
    {[code |-> 1, data |-> s]}
    \cup {[code |-> 2, fill |-> c] : c \in Fill(s)}
    \cup {[code |-> 0] : c \in Fill(s) \cap {Zero}}

\* .td0: a sector may be left out (flags & 0x30), written out, or be given as
\* runs of one pattern, or as literal and repeated pieces.
Runs(s) == {<<[n |-> Len(s), pattern |-> <<c>>]>> : c \in Fill(s)}
           \cup {[i \in DOMAIN s |-> [n |-> 1, pattern |-> <<s[i]>>]]}

Td0Records(s, id) ==
    {[flags |-> 0, method |-> 0, data |-> s]}
    \cup {[flags |-> 0, method |-> 1, pieces |-> r] : r \in Runs(s)}
    \cup {[flags |-> 0, method |-> 2, pieces |-> r] :
            r \in Runs(s) \cup {<<[n |-> 0, pattern |-> s]>>}}
    \cup {[flags |-> 16] : c \in {x \in Fill(s) : x = Zero /\ id \in Skippable}}

-----------------------------------------------------------------------------
(* imd.cc                                                                  *)

\* Fault: the sectors are put down in the order of the file.
InFileOrder(id, n, j) == j

\* The place of the j-th sector of the file, whose id is from 1 (or from 0) on.
SectorPlace(id, n, j) == (id + n - 1) % n

\* The cells of a record, of a sector of k cells.
ImdDecoded(r, k) ==
    CASE r.code = 0 -> [i \in 1 .. k |-> Zero]
      [] r.code = 1 -> r.data
      [] r.code = 2 -> [i \in 1 .. k |-> r.fill]

Track == medium[at.track]
Sectors == Len(Track)

\* sector_io_imd::track::read, one sector.
ImdReadRecord ==
    /\ format = "imd" /\ at.track <= Len(medium) /\ at.sector <= Sectors
    /\ LET id == order[at.sector]
       IN \E r \in ImdRecords(Track[id]) :
            placed' = [placed EXCEPT ![SectorPlace(id, Sectors, at.sector - 1) + 1] =
                            ImdDecoded(r, Len(Track[id]))]
    /\ at' = [at EXCEPT !.sector = @ + 1]
    /\ UNCHANGED <<format, medium, order, data, size>>

\* The tracks are put one after the other as they are in the file; before each,
\* its order is read.
NextTrack(t) ==
    IF t <= Len(medium)
    THEN /\ order' \in Orders(format, Len(medium[t]))
         /\ placed' = [s \in 1 .. Len(medium[t]) |-> <<>>]
    ELSE order' = <<>> /\ placed' = <<>>

ImdEndTrack ==
    /\ format = "imd" /\ at.track <= Len(medium) /\ at.sector > Sectors
    /\ data' = data \o FlattenSeq(placed)
    /\ size' = Len(data')
    /\ at' = [track |-> at.track + 1, sector |-> 1]
    /\ NextTrack(at.track + 1)
    /\ UNCHANGED <<format, medium>>

-----------------------------------------------------------------------------
(* td0.cc                                                                  *)

\* A piece with no count is literal.
Repeated(n, pattern) ==
    IF n = 0 THEN pattern ELSE FlattenSeq([i \in 1 .. n |-> pattern])

Expanded(pieces) ==
    FlattenSeq([i \in DOMAIN pieces |-> Repeated(pieces[i].n, pieces[i].pattern)])

\* What read_sector finds for a sector of k cells.  Nothing is put into the buffer
\* for a sector that was left out, and the buffer is not cleared when it is made.
Td0Decoded(r, k) ==
    CASE r.flags # 0 -> [i \in 1 .. k |-> Junk]
      [] r.flags = 0 /\ r.method = 0 -> r.data
      [] r.flags = 0 /\ r.method \in {1, 2} -> Expanded(r.pieces)

\* Fault: the buffer is never made larger.
NeverGrown(n) == size

\* The size of the buffer, once there has to be room for n cells.
Grown(n) == IF n > size THEN size * 2 ELSE size

\* sector_io_td0::read_sector: sectors are put one after the other as they are in
\* the file; their numbers are not looked at.
Td0ReadSector ==
    /\ format = "td0" /\ at.track <= Len(medium) /\ at.sector <= Sectors
    /\ LET id == order[at.sector]
       IN \E r \in Td0Records(Track[id], id) :
            data' = data \o Td0Decoded(r, Len(Track[id]))
    /\ size' = Grown(Len(data'))
    /\ at' = [at EXCEPT !.sector = @ + 1]
    /\ UNCHANGED <<format, medium, order, placed>>

Td0EndTrack ==
    /\ format = "td0" /\ at.track <= Len(medium) /\ at.sector > Sectors
    /\ at' = [track |-> at.track + 1, sector |-> 1]
    /\ NextTrack(at.track + 1)
    /\ UNCHANGED <<format, medium, data, size>>

-----------------------------------------------------------------------------

\* The constructors up to the first track: the header, and for td0 the guess.
BeginRead(f, m) ==
    /\ format' = f
    /\ medium' = m
    /\ data' = <<>>
    /\ size' = IF f = "td0" THEN GuessedSize ELSE 0
    /\ at' = [track |-> 1, sector |-> 1]
    /\ order' \in Orders(f, Len(m[1]))
    /\ placed' = [s \in 1 .. Len(m[1]) |-> <<>>]

\* All the tracks have been read; td0 gives back what it does not need.
AllRead == format # "" /\ at.track > Len(medium)

EndRead ==
    /\ format' = ""
    /\ size' = Len(data)
    /\ UNCHANGED <<medium, order, placed, data, at>>

Init ==
    /\ format = "" /\ medium = <<>> /\ order = <<>> /\ placed = <<>>
    /\ data = <<>> /\ size = 0 /\ at = [track |-> 1, sector |-> 1]

ReadStep == ImdReadRecord \/ ImdEndTrack \/ Td0ReadSector \/ Td0EndTrack

-----------------------------------------------------------------------------

\* A sector that td0 appends is inside the buffer, which is doubled once at most for
\* it (td0.cc:732-745), and what it has given back is what is in use (td0.cc:626-636).
BufferSuffices == Len(data) <= size

=============================================================================
