------------------------------ MODULE DiskTool -------------------------------
(***************************************************************************)
(* ucsdpsys_disk: files put on a volume, got from it and removed, one      *)
(* argument after the other, then the volume crunched, listed and its boot *)
(* blocks copied.  The first thing that goes wrong ends the program, with  *)
(* what was done by then left as it is.  Crunching moves no byte of a file *)
(* here and wiping, which clears free blocks, is in module Volume.         *)
(*                                                                         *)
(* An argument is a directory or a pair of a Unix path and a name on the   *)
(* volume, which is the last part of the path unless both are given.       *)
(***************************************************************************)
EXTENDS Programs

CONSTANT SystemFiles    \* the files a volume needs to run the p-System

Disk == Running("disk")
Op == run.command.op

\* The command line when it has no options.
NoOptions ==
    [program |-> "disk", op |-> "list", args |-> <<>>, binary |-> FALSE, dots |-> FALSE,
     crunch |-> FALSE, boot |-> <<>>, sort |-> "block", system |-> FALSE]

\* decode_sort_name
SortBy ==
    [block |-> "block", name |-> "name", size |-> "size", date |-> "date",
     mtime |-> "date", kind |-> "kind", type |-> "kind"]

\* What is not a usage error.
Allowed(c) ==
    /\ c.sort \in DOMAIN SortBy
    /\ c.boot # <<>> => c.op \in {"put", "get"}
    /\ c.args # <<>> => c.op \in {"put", "get", "remove"} \/ c.system

-----------------------------------------------------------------------------
\* The volume.

Space(i) == i.blocks - LabelEnd
BlocksOf(data) == (Len(data) + Block - 1) \div Block
UsedBy(entries) == FoldSet(LAMBDA c, n : n + BlocksOf(entries[c].data), 0,
                           DOMAIN entries)

\* meta_read and meta_sync: the dates become words, and words dates.
ReadEntries(i) ==
    [c \in DOMAIN i.entries |-> [i.entries[c] EXCEPT !.date = Date(@)]]
Written(i, entries) ==
    [i EXCEPT !.entries = [c \in DOMAIN entries |->
                              [entries[c] EXCEPT !.date = Word(@)]]]

Synced(entries) == memory' = entries /\ image' = Written(image, entries)

NewEntry(name) == [kind |-> Kind(name), data |-> <<>>, date |-> Now]

\* Fault: the entry is not cut to nothing.
KeptWhole(entry) == [entry EXCEPT !.date = Now]

\* truncate(0)
Truncated(entry) == [entry EXCEPT !.data = <<>>, !.date = Now]

\* utime_ns: the date becomes the first of the two times, in memory only.
Dated(entry, stamp) == [entry EXCEPT !.date = stamp.atime]

\* Which files are translated.
IsText(entry) == ~run.command.binary /\ entry.kind = "textfile"

-----------------------------------------------------------------------------
\* print_listing: the order of the files.

\* Names are ordered; blocks are not modelled, and put the files in any order.
Before(sort, c, d) ==
    LET e == memory[c]
        f == memory[d]
        by == SortBy[sort]
    IN CASE by = "block" -> FALSE
         [] by = "size" /\ Len(e.data) # Len(f.data) -> Len(e.data) < Len(f.data)
         [] by = "date" /\ e.date # f.date -> DateBefore(e.date, f.date)
         [] by = "kind" /\ e.kind # f.kind -> KindNumber[e.kind] < KindNumber[f.kind]
         [] OTHER -> Rank(c) < Rank(d)

Sorted(sort, order) ==
    \A i, j \in DOMAIN order : i < j => ~Before(sort, order[j], order[i])

-----------------------------------------------------------------------------
\* main, up to the first argument.

Start(c) ==
    /\ Idle /\ ran < MaxRuns
    /\ ran' = ran + 1
    /\ c.program = "disk"
    /\ ~(c.system /\ Allowed(c) /\ image.formatted)
    /\ IF Allowed(c) /\ image.formatted
       THEN /\ run' = [NewRun(c) EXCEPT !.left = c.args]
            /\ memory' = ReadEntries(image)
       ELSE run' = [NewRun(c) EXCEPT !.phase = "failed"] /\ memory' = <<>>
    /\ UNCHANGED <<files, image>>

\* --system-volume: the exit status says whether the system can run, and
\* nothing else is done that the command asks for.
CheckSystem(c) ==
    /\ Idle /\ ran < MaxRuns
    /\ ran' = ran + 1
    /\ c.program = "disk"
    /\ c.system /\ Allowed(c) /\ image.formatted
    /\ run' = [NewRun(c) EXCEPT
                 !.phase = IF SystemFiles \subseteq DOMAIN ReadEntries(image)
                           THEN "ok" ELSE "failed"]
    /\ memory' = <<>>
    /\ UNCHANGED <<files, image>>

Argument == Head(run.left)
AtArgument == Disk /\ run.phase = "next" /\ run.left # <<>>
Rest == Tail(run.left)

\* put_dir: the regular files of a directory in the order of readdir, by
\* their names in upper case.  get_dir: every file of the volume.
Regular(dir) ==
    {p \in DOMAIN files : p.dir = dir /\ p.temp = 0
                          /\ (run.command.dots \/ ~IsDotFile(p.name))}
PutPair(p) == [unix |-> p, ucsd |-> Upcase(p.name), dir |-> FALSE]
GetPair(dir, c) ==
    LET name == [stem |-> c[1], ext |-> c[2], upper |-> FALSE]
    IN [unix |-> [dir |-> dir, name |-> name, temp |-> 0], ucsd |-> name, dir |-> FALSE]

Pairs(dir) ==
    IF Op = "put" THEN {PutPair(p) : p \in Regular(dir)}
    ELSE {GetPair(dir, c) : c \in DOMAIN memory}

ExpandDirectory ==
    /\ AtArgument /\ Op \in {"put", "get"} /\ Argument.dir
    /\ \E pairs \in SetToSeqs(Pairs(Argument.unix)) :
          run' = [run EXCEPT !.left = pairs \o Rest]
    /\ UNCHANGED <<files, image, memory, ran>>

AtFile(op) == AtArgument /\ Op = op /\ ~Argument.dir

\* put, up to the copy: the entry is found or made, and cut to nothing.
Put ==
    /\ AtFile("put") /\ Exists(Argument.unix)
    /\ LET c == Cut(Argument.ucsd)
           entry == IF c \in DOMAIN memory THEN memory[c] ELSE NewEntry(Argument.ucsd)
           source == files[Argument.unix]
       IN /\ c \in DOMAIN memory \/ Cardinality(DOMAIN memory) < MaxEntries
          /\ Synced(With(memory, c, Truncated(entry)))
          /\ run' = [Opened(run, Argument.unix, c, source.data,
                            IF IsText(entry) THEN "encode" ELSE "none",
                            [atime |-> source.atime, mtime |-> source.mtime])
                     EXCEPT !.left = Rest]
    /\ UNCHANGED <<files, ran>>

PutDies ==
    /\ AtFile("put")
    /\ \/ ~Exists(Argument.unix)
       \/ /\ Cut(Argument.ucsd) \notin DOMAIN memory
          /\ Cardinality(DOMAIN memory) = MaxEntries
    /\ Dies

\* get, up to the copy.
Get ==
    /\ AtFile("get") /\ Cut(Argument.ucsd) \in DOMAIN memory
    /\ LET c == Cut(Argument.ucsd)
           entry == memory[c]
       IN /\ files' = Created(Argument.unix)
          /\ run' = [Opened(run, c, Argument.unix, entry.data,
                            IF IsText(entry) THEN "decode" ELSE "none",
                            [atime |-> entry.date, mtime |-> entry.date])
                     EXCEPT !.left = Rest]
    /\ UNCHANGED <<image, memory, ran>>

RemoveFile ==
    /\ AtFile("remove") /\ Cut(Argument.ucsd) \in DOMAIN memory
    /\ Synced([c \in DOMAIN memory \ {Cut(Argument.ucsd)} |-> memory[c]])
    /\ run' = [run EXCEPT !.left = Rest]
    /\ UNCHANGED <<files, ran>>

NotFound ==
    /\ AtFile("get") \/ AtFile("remove")
    /\ Cut(Argument.ucsd) \notin DOMAIN memory
    /\ Dies

-----------------------------------------------------------------------------
\* The copy.

Copy == Disk /\ CopyChunk

EndOfInput ==
    /\ Disk /\ CanRead /\ run.data = <<>>
    /\ run' = [run EXCEPT !.stream = Flush(@), !.phase = "flushed"]
    /\ UNCHANGED <<files, image, memory, ran>>

Piece == NextPiece(run.stream)
HasPiece == Disk /\ run.open /\ Pending(run.stream) # <<>>
Grown == [memory EXCEPT ![run.target].data = @ \o Piece, ![run.target].date = Now]

\* output_psystem::write_inner
WritePiece ==
    /\ HasPiece /\ Op = "put" /\ UsedBy(Grown) <= Space(image)
    /\ Synced(Grown)
    /\ Given
    /\ UNCHANGED <<files, ran>>

NoSpace == HasPiece /\ Op = "put" /\ UsedBy(Grown) > Space(image) /\ Dies

\* output_file::write_inner
WriteFile ==
    /\ HasPiece /\ Op = "get"
    /\ files' = Appended(run.target, Piece)
    /\ Given
    /\ UNCHANGED <<image, memory, ran>>

\* The times of the input are given to the output before the destructors write
\* what is left.
Stamp ==
    /\ Disk /\ run.phase = "flushed" /\ ~HasPiece
    /\ run' = [run EXCEPT !.stream = CloseStream(@), !.phase = "closing"]
    /\ IF Op = "put"
       THEN /\ memory' = [memory EXCEPT ![run.target] = Dated(@, run.stamp)]
            /\ UNCHANGED files
       ELSE files' = Stamped(run.target, run.stamp) /\ UNCHANGED memory
    /\ UNCHANGED <<image, ran>>

Closed ==
    /\ Disk /\ run.phase = "closing" /\ ~HasPiece
    /\ run' = [run EXCEPT !.phase = "next", !.open = FALSE,
                          !.done = With(@, run.target, run.source)]
    /\ UNCHANGED <<files, image, memory, ran>>

-----------------------------------------------------------------------------
\* main, after the last argument.

BootBytes == Page
Boot == run.command.boot
BootBlocks(data) ==
    LET read == Take(data, BootBytes)
    IN read \o Times(BootBytes - Len(read), NUL)

\* get_boot_blocks
BootFile(path) == With(files, path, UnixFile(image.boot))

AtEnd == Disk /\ run.phase = "next" /\ run.left = <<>>

\* Crunching writes the directory if it moved a file; then the listing, and
\* the boot blocks.
Finish ==
    /\ AtEnd
    /\ Boot # <<>> /\ Op = "put" => Exists(Head(Boot))
    /\ \E moved \in BOOLEAN, order \in SetToSeqs(DOMAIN memory) :
          /\ moved => run.command.crunch
          /\ Sorted(run.command.sort, order)
          /\ run' = [run EXCEPT !.phase = "ok", !.shown = order, !.data = <<>>,
                                !.stream = NewStream("none")]
          /\ LET written == IF moved THEN Written(image, memory) ELSE image
             IN image' = IF Boot # <<>> /\ Op = "put"
                         THEN [written EXCEPT !.boot = BootBlocks(files[Head(Boot)].data)]
                         ELSE written
    /\ files' = IF Boot # <<>> /\ Op = "get"
                THEN BootFile(Head(Boot)) ELSE files
    /\ memory' = <<>>
    /\ UNCHANGED ran

NoBootFile ==
    AtEnd /\ Boot # <<>> /\ Op = "put" /\ ~Exists(Head(Boot)) /\ Dies

DiskNext ==
    \/ \E c \in Commands : Start(c) \/ CheckSystem(c)
    \/ ExpandDirectory \/ Put \/ PutDies \/ Get \/ RemoveFile \/ NotFound
    \/ Copy \/ EndOfInput \/ WritePiece \/ NoSpace \/ WriteFile \/ Stamp \/ Closed
    \/ Finish \/ NoBootFile

-----------------------------------------------------------------------------
(* Properties.                                                             *)

DiskDone(op) == run.phase = "ok" /\ run.command.program = "disk" /\ Op = op

\* When put reports success, every file it was given is on the image as a
\* whole, encoded if it is a text; of files whose names are one name for the
\* volume the last one is.  When get does, the Unix files have the contents
\* and the dates of the entries.
SuccessIsComplete ==
    /\ DiskDone("put") =>
          \A c \in DOMAIN run.done :
             /\ c \in DOMAIN image.entries
             /\ image.entries[c].data =
                   Through(IF IsText(image.entries[c]) THEN "encode" ELSE "none",
                           files[run.done[c]].data)
    /\ DiskDone("get") =>
          \A p \in DOMAIN run.done \ ToSet(Boot) :
             LET e == image.entries[run.done[p]]
             IN /\ files[p].data = Through(IF IsText(e) THEN "decode" ELSE "none", e.data)
                /\ files[p].mtime = Date(e.date)

\* The file that is being written is the beginning of what it will become.
DiskCopyIsPrefix ==
    run.open /\ run.command.program = "disk" =>
       IF Op = "put"
       THEN LET e == image.entries[run.target]
            IN IsPrefix(e.data,
                        Through(IF IsText(e) THEN "encode" ELSE "none",
                                files[run.source].data))
       ELSE LET e == image.entries[run.source]
            IN IsPrefix(files[run.target].data,
                        Through(IF IsText(e) THEN "decode" ELSE "none", e.data))

=============================================================================
