----------------------------- MODULE DiskImage -----------------------------
(***************************************************************************)
(* Files that hold an image of a volume, from the program that makes one   *)
(* to the program that opens it: ucsdpsys_mkfs, ucsdpsys_interleave, an    *)
(* imaging program (external), and sector_io::factory with the guess of    *)
(* the interleave that directory::factory makes.  One program runs at a    *)
(* time.  A cell stands for 128 bytes; the label is in cell 8 (byte 1024)  *)
(* of a volume.                                                            *)
(***************************************************************************)
EXTENDS ImageFile, Interleave

CONSTANTS
    Files,
    Label, Boot,    \* cells of a volume that has no files yet
    MkfsTracks,     \* tracks of 4 KB that mkfs is asked for
    Existing,       \* cells of the volumes that are there at first
    Geometries,     \* of floppy disks: sectors on a track, cells in a sector
    Chunk,          \* cells: bufsiz of ucsdpsys_interleave
    MaxPrograms     \* bound: the programs that are run

\* Files hold no cell that looks like the label, and volumes hold a directory.
ASSUME VolumesAssumption ==
    /\ Label \notin {Zero, Boot, Junk} /\ (Label \in Nat => Label < 24)
    /\ MkfsTracks \cup Existing \subseteq Nat
    /\ \A n \in Existing : n >= 24
    /\ Chunk \in Nat \ {0}

\* The buffer that td0 begins with holds a sector, so that one doubling is enough for
\* each.  The sectors on a track have the numbers from 1 on, in any order; td0 does
\* not look at them.
ASSUME GeometryAssumption ==
    \A geo \in Geometries :
        /\ geo.sectors \in Nat \ {0} /\ geo.cells \in 1 .. GuessedSize
        /\ \A o \in Orders("imd", geo.sectors) :
              /\ o \in [1 .. geo.sectors -> 1 .. geo.sectors]
              /\ \A id \in 1 .. geo.sectors : \E j \in 1 .. geo.sectors : o[j] = id
        /\ Orders("td0", geo.sectors) \subseteq {[j \in 1 .. geo.sectors |-> j]}

VARIABLES
    disk,       \* what each file holds
    vol,        \* history: the cells of the volume that each file is to hold
    job,        \* the program that is running
    programs    \* how many were run

reader == <<format, medium, order, placed, data, size, at>>
allvars == <<reader, disk, vol, job, programs>>

None == [kind |-> "none", cells |-> <<>>]
Plain(c) == [kind |-> "plain", cells |-> c]
Idle == [pc |-> "idle"]

-----------------------------------------------------------------------------
(* Layers over an image: an offset, and an interleave map.                 *)

Layer(off, map) == [off |-> off, map |-> map]

\* filter_factory of ucsdpsys_interleave: 26 * 128 bytes come before what it
\* calls pdp; interleave_factory of mkfs knows no offset.
PdpTrack0 == 26
Filter(type) == Layer(IF type = "pdp" THEN PdpTrack0 ELSE 0, type)

\* The cell of the image that holds cell u of the volume.
Place(l, u) ==
    l.off + CASE l.map = "none" -> u
              [] l.map = "apple" -> 2 * AppleMap(u \div 2) + (u % 2)
              [] l.map = "pdp" -> PdpMap(u)

CellsOnTrack(map) == CASE map = "none" -> 1 [] map = "apple" -> 32 [] map = "pdp" -> 26

\* The cells of n on a track that is all there.
WholeTracks(map, n) ==
    {u \in 0 .. n - 1 : (u \div CellsOnTrack(map) + 1) * CellsOnTrack(map) <= n}

\* bytes_per_sector_hint: a map makes the sectors of the image as small as its own.
Hinted(map) == CASE map = "none" -> 4 [] map = "apple" -> 2 [] map = "pdp" -> 1

\* size_in_bytes, in cells, of a layer over an image of n cells whose sectors have
\* bps cells.
LayerSize(l, n, bps) ==
    LET raw == n - (n % bps)
        off == raw - l.off
    IN IF l.off = 0 THEN raw - (raw % Hinted(l.map)) ELSE off - (off % 2)

\* A cell read through a layer: sectors that are not in the image are an error.
Readable(cells, l, u) == Place(l, u) < Len(cells)
Read(cells, l, u) == cells[Place(l, u) + 1]

\* Some cells of a volume get a value through a layer; pwrite makes the file as
\* long as it has to be.
Stored(cells, l, value) ==
    LET places == {Place(l, u) : u \in DOMAIN value}
        from(p) == CHOOSE u \in DOMAIN value : Place(l, u) = p
    IN [i \in 1 .. Max({Len(cells)} \cup {p + 1 : p \in places}) |->
            IF i - 1 \in places THEN value[from(i - 1)]
            ELSE IF i <= Len(cells) THEN cells[i] ELSE Zero]

-----------------------------------------------------------------------------
(* guess_interleaving.                                                     *)

HasValidSignature(cells, l) ==
    /\ Readable(cells, l, 8) /\ Readable(cells, l, 9)
    /\ Read(cells, l, 8) = Label

\* Fault: the track that the PDP-11 leaves out is not looked for.
TrialsNoTrack0 ==
    <<Layer(0, "none"), Layer(0, "apple"), Layer(0, "pdp")>>

\* The layers in the order they are tried.
Trials ==
    <<Layer(0, "none"), Layer(0, "apple"), Layer(PdpTrack0, "none"),
      Layer(PdpTrack0, "pdp"), Layer(0, "pdp")>>
    \o [k \in 1 .. 127 |-> Layer(2 * k, "none")]

Guesses(cells) == {i \in DOMAIN Trials : HasValidSignature(cells, Trials[i])}
Guessed(cells) == CHOOSE i \in Guesses(cells) : \A j \in Guesses(cells) : i <= j

\* The sectors of the image after the trials up to the i-th.
TriedBps(i) == Min({Hinted(Trials[k].map) : k \in 1 .. i})

-----------------------------------------------------------------------------
(* The programs.                                                           *)

CanRun == job = Idle /\ programs < MaxPrograms

\* What a volume of n cells with nothing but a label is made of.
EmptyVolume(n, twin, boot) ==
    [u \in 0 .. n - 1 |->
        CASE u = 8 \/ (twin /\ u = 24) -> Label
          [] boot /\ u < 8 -> Boot
          [] OTHER -> Zero]

\* ucsdpsys_mkfs: the file is truncated and filled with zeros, the directory is
\* written through the interleave, twice for a twin volume, and so are boot blocks.
Mkfs(f, type, tracks, twin, boot) ==
    /\ CanRun
    /\ LET n == 32 * tracks
           v == EmptyVolume(n, twin, boot)
           l == Layer(0, type)
           dir == 8 .. (IF twin THEN 39 ELSE 23)
           written == dir \cup IF boot THEN 0 .. 7 ELSE {}
       IN /\ dir \subseteq 0 .. n - 1
          /\ disk' = [disk EXCEPT ![f] =
                Plain(Stored([i \in 1 .. n |-> Zero], l, [u \in written |-> v[u]]))]
          /\ vol' = [vol EXCEPT ![f] = [u \in WholeTracks(type, n) |-> v[u]]]
    /\ programs' = programs + 1
    /\ UNCHANGED <<reader, job>>

\* External: a disk of these cells, as tracks of sectors, if they fill the tracks.
MediumOf(cells, geo) ==
    LET perTrack == geo.sectors * geo.cells
    IN [t \in 1 .. Len(cells) \div perTrack |->
          [s \in 1 .. geo.sectors |->
            [k \in 1 .. geo.cells |-> cells[(t - 1) * perTrack + (s - 1) * geo.cells + k]]]]

\* External: the disk is read by an imaging program, that writes a file g of it.
Capture(f, g, kind, geo) ==
    /\ CanRun /\ f # g
    /\ disk[f].kind = "plain"
    /\ Len(disk[f].cells) % (geo.sectors * geo.cells) = 0
    /\ disk' = [disk EXCEPT ![g] = [kind |-> kind, medium |-> MediumOf(disk[f].cells, geo)]]
    /\ vol' = [vol EXCEPT ![g] = vol[f]]
    /\ programs' = programs + 1
    /\ UNCHANGED <<reader, job>>

\* The files the two readers take for theirs, by the first bytes.
ImdCandidate(d) == d.kind = "imd"
Td0Candidate(d) == d.kind \in {"td0", "TD0"}

\* The constructor of sector_io_td0 then accepts compressed files only: the test
\* of the other magic number has no "else".
Td0Accepted(d) == d.kind # "TD0"

\* create of both: the program dies unless it only reads.
ForReading(args) == args.ro

\* sector_io::factory: an image file is read whole, any other is used where it is.
Open(f, prog, args) ==
    /\ CanRun
    /\ disk[f].kind # "none"
    /\ \/ /\ disk[f].kind = "plain"
          /\ job' = [pc |-> "guess", prog |-> prog, file |-> f, args |-> args,
                     cells |-> disk[f].cells]
          /\ UNCHANGED reader
       \/ /\ ImdCandidate(disk[f]) \/ Td0Candidate(disk[f])
          /\ ForReading(args) /\ Td0Accepted(disk[f])
          /\ job' = [pc |-> "read", prog |-> prog, file |-> f, args |-> args]
          /\ BeginRead(disk[f].kind, disk[f].medium)
    /\ programs' = programs + 1
    /\ UNCHANGED <<disk, vol>>

OpenDies(f, prog, args) ==
    /\ CanRun
    /\ ImdCandidate(disk[f]) \/ Td0Candidate(disk[f])
    /\ ~ForReading(args) \/ ~Td0Accepted(disk[f])
    /\ programs' = programs + 1
    /\ UNCHANGED <<reader, disk, vol, job>>

ReadImage ==
    /\ job.pc = "read"
    /\ ReadStep
    /\ UNCHANGED <<disk, vol, job, programs>>

ImageRead ==
    /\ job.pc = "read"
    /\ AllRead /\ EndRead
    /\ job' = [pc |-> "guess", prog |-> job.prog, file |-> job.file, args |-> job.args,
               cells |-> data]
    /\ UNCHANGED <<disk, vol, programs>>

\* A volume is used through the layer that was guessed, or as it is when the
\* program was told to encode it.
Use(l, bps) ==
    job' = [pc |-> IF job.prog = "mount" THEN "use" ELSE "copy",
            prog |-> job.prog, file |-> job.file, args |-> job.args,
            cells |-> job.cells, layer |-> l,
            size |-> LayerSize(l, Len(job.cells), bps), address |-> 0]

Guess ==
    /\ job.pc = "guess"
    /\ job.prog \in {"mount", "decode"}
    /\ IF Guesses(job.cells) # {}
       THEN LET i == Guessed(job.cells) IN Use(Trials[i], TriedBps(i))
       ELSE job' = [pc |-> "refused", prog |-> job.prog, file |-> job.file]
    /\ UNCHANGED <<reader, disk, vol, programs>>

NoGuess ==
    /\ job.pc = "guess" /\ job.prog = "encode"
    /\ Use(Layer(0, "none"), 4)
    /\ UNCHANGED <<reader, disk, vol, programs>>

\* A mounted volume is filled with files: every cell after the second directory gets
\* contents of its own.  A cell of a sector that is not in the file cannot be
\* written: a plain image is mapped into memory.
FillVolume ==
    /\ job.pc = "use" /\ disk[job.file].kind = "plain" /\ ~job.args.ro
    /\ LET us == {u \in 40 .. job.size - 1 : Readable(job.cells, job.layer, u)}
           cells == Stored(job.cells, job.layer, [u \in us |-> u])
       IN /\ job' = [job EXCEPT !.cells = cells]
          /\ disk' = [disk EXCEPT ![job.file] = Plain(cells)]
          /\ vol' = [vol EXCEPT ![job.file] =
                        [u \in DOMAIN @ |-> IF u \in us THEN u ELSE @[u]]]
    /\ UNCHANGED <<reader, programs>>

\* ucsdpsys_interleave copies the next chunk, through the layer it reads or through
\* the one it writes, or dies.
OutLayer == IF job.prog = "encode" THEN Filter(job.args.type) ELSE Layer(0, "none")

CopyChunk ==
    /\ job.pc = "copy" /\ job.address < job.size
    /\ LET end == IF job.address + Chunk > job.size THEN job.size ELSE job.address + Chunk
           us == job.address .. end - 1
           out == job.args.out
       IN /\ \/ /\ \A u \in us : Readable(job.cells, job.layer, u)
                /\ disk' = [disk EXCEPT ![out] =
                     Plain(Stored(@.cells, OutLayer,
                                  [u \in us |-> Read(job.cells, job.layer, u)]))]
                /\ job' = [job EXCEPT !.address = end]
             \/ /\ \E u \in us : ~Readable(job.cells, job.layer, u)
                /\ job' = Idle
                /\ UNCHANGED disk
          /\ vol' = [vol EXCEPT ![out] = <<>>]
    /\ UNCHANGED <<reader, programs>>

\* What the copy is to hold: the cells of the volume, those on whole tracks if it is
\* interleaved now.  Nothing is said of the image of an image, nor of a file that held
\* something else before: it is not truncated.
CopyDone ==
    /\ job.pc = "copy" /\ job.address >= job.size
    /\ vol' = [vol EXCEPT ![job.args.out] =
         IF job.args.fresh /\ (job.prog = "decode" \/ ~job.args.mapped)
         THEN [u \in DOMAIN vol[job.file] \cap WholeTracks(OutLayer.map, job.size) |->
                vol[job.file][u]]
         ELSE <<>>]
    /\ job' = Idle
    /\ UNCHANGED <<reader, disk, programs>>

Close ==
    /\ job.pc \in {"use", "refused"}
    /\ job' = Idle
    /\ UNCHANGED <<reader, disk, vol, programs>>

\* Whether a file holds a volume under a map, which encoding again would bury.
Mapped(f) ==
    \/ disk[f].kind # "plain"
    \/ \E u \in DOMAIN vol[f] : disk[f].cells[u + 1] # vol[f][u]

Interleaver(f, g, prog, type) ==
    /\ f # g /\ disk[g].kind \in {"none", "plain"}
    /\ LET args == [ro |-> TRUE, out |-> g, type |-> type, fresh |-> disk[g].kind = "none",
                    mapped |-> Mapped(f)]
       IN Open(f, prog, args) \/ OpenDies(f, prog, args)

DiskInit ==
    /\ Init
    /\ \E f \in Files, n \in Existing :
        LET v == [u \in 0 .. n - 1 |-> IF u = 8 THEN Label ELSE IF u < 24 THEN Zero ELSE u]
        IN /\ disk = [g \in Files |-> IF g = f THEN Plain([i \in 1 .. n |-> v[i - 1]]) ELSE None]
           /\ vol = [g \in Files |-> IF g = f THEN v ELSE <<>>]
    /\ job = Idle
    /\ programs = 0

DiskNext ==
    \/ \E f \in Files, type \in {"none", "apple", "pdp"}, tracks \in MkfsTracks,
          twin, boot \in BOOLEAN : Mkfs(f, type, tracks, twin, boot)
    \/ \E f, g \in Files, kind \in {"imd", "td0", "TD0"}, geo \in Geometries :
          Capture(f, g, kind, geo)
    \/ \E f \in Files, ro \in BOOLEAN :
          Open(f, "mount", [ro |-> ro]) \/ OpenDies(f, "mount", [ro |-> ro])
    \/ \E f, g \in Files, type \in {"none", "apple", "pdp"} : Interleaver(f, g, "encode", type)
    \/ \E f, g \in Files : Interleaver(f, g, "decode", "guess")
    \/ ReadImage \/ ImageRead \/ Guess \/ NoGuess \/ FillVolume
    \/ CopyChunk \/ CopyDone \/ Close

DiskSpec == DiskInit /\ [][DiskNext]_allvars

-----------------------------------------------------------------------------

\* However an image was made, interleaved, captured as .imd or .td0 and turned back, a
\* program that opens it finds the volume: its interleave is guessed right, and every
\* cell on a whole track holds what was stored in it, or was left out of a .td0 file.
OpensAsMade ==
    /\ job.pc = "refused" => DOMAIN vol[job.file] = {}
    /\ job.pc = "use" =>
        \A u \in DOMAIN vol[job.file] :
            /\ Readable(job.cells, job.layer, u)
            /\ Read(job.cells, job.layer, u) \in {vol[job.file][u], Junk}

=============================================================================
