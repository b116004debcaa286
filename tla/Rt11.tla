-------------------------------- MODULE Rt11 ---------------------------------
(***************************************************************************)
(* ucsdpsys_rt11: files extracted from an RT-11 disk that was copied to    *)
(* two Unix files, one of its directory and one of the blocks of its       *)
(* files.  The disk is a record: the block the directory says the files    *)
(* begin at, the entries in their order and the blocks of the second file. *)
(* An entry is a type, a title, a length in blocks and a date.             *)
(***************************************************************************)
EXTENDS Programs

Rt11Runs == Running("rt11")
Entries == run.command.disk.entries
Blocks == run.command.disk.blocks

\* Fault: only files take room, and what was deleted leaves none.
LengthOfFiles(e) == IF e.type = "permanent" THEN e.length ELSE 0

\* decode: where an entry starts, in blocks of the file of blocks.
LengthOf(e) == e.length
FirstBlock(k) == FoldLeft(LAMBDA n, e : n + LengthOf(e), 0, SubSeq(Entries, 1, k - 1))

\* The first entry of a title, whatever its type is, and the end mark or none.
Titled(title) == {k \in DOMAIN Entries : Entries[k].title = title}
Find(title) == CHOOSE k \in Titled(title) : \A j \in Titled(title) : k <= j

EndMark ==
    LET marks == {k \in DOMAIN Entries : Entries[k].type = "endmark"}
    IN IF marks = {} THEN Len(Entries) + 1
       ELSE CHOOSE k \in marks : \A j \in marks : k <= j

Titles == [k \in 1 .. EndMark - 1 |-> Entries[k].title]

PathOf(title) == [dir |-> ".", name |-> title, temp |-> 0]

\* list: what was deleted has no title.
Listed == [k \in 1 .. EndMark - 1 |->
              IF Entries[k].type = "empty" THEN <<>> ELSE <<Entries[k].title>>]

\* main: the titles to extract, or the entries to list.
StartRt11(c) ==
    /\ Idle /\ ran < MaxRuns
    /\ ran' = ran + 1
    /\ c.program = "rt11"
    /\ run' = [NewRun(c) EXCEPT !.phase = "begin"]
    /\ UNCHANGED <<files, image, memory>>

ReadDirectory ==
    /\ Rt11Runs /\ run.phase = "begin"
    /\ run' = [run EXCEPT !.phase = "next",
                          !.shown = IF run.command.op = "list" THEN Listed ELSE <<>>,
                          !.left = CASE run.command.op = "all" -> Titles
                                     [] run.command.op = "get" -> run.command.args
                                     [] run.command.op = "list" -> <<>>]
    /\ UNCHANGED <<files, image, memory, ran>>

AtTitle == Rt11Runs /\ run.phase = "next" /\ run.left # <<>>

\* The first block tells a text by its characters.
TextCharacter(c) == c \in {NUL, TAB, CR, LF} \/ Printable(c)
LooksLikeText(block) == \A i \in DOMAIN block : TextCharacter(block[i])

\* extract_one_file, up to the copy: the entry is found, the block where it
\* starts is read, also of a file of no blocks, and the output is created.
Extract ==
    /\ AtTitle /\ Titled(Head(run.left)) # {}
    /\ LET k == Find(Head(run.left))
           first == FirstBlock(k)
           path == PathOf(Head(run.left))
       IN /\ first < Len(Blocks)
          /\ files' = Created(path)
          /\ run' = [run EXCEPT !.phase = "extract", !.left = Tail(@), !.open = TRUE,
                                !.source = <<k, LooksLikeText(Blocks[first + 1])>>,
                                !.target = path,
                                !.data = [i \in 1 .. Entries[k].length |-> first + i]]
    /\ UNCHANGED <<image, memory, ran>>

ExtractDies ==
    /\ AtTitle
    /\ \/ Titled(Head(run.left)) = {}
       \/ FirstBlock(Find(Head(run.left))) >= Len(Blocks)
    /\ Dies

\* A text loses every NUL and CR; anything else is copied.
Extracted(block, text) ==
    IF text THEN FlattenSeq([i \in DOMAIN block |->
                    IF block[i] \in {NUL, CR} THEN <<>> ELSE <<block[i]>>])
    ELSE block

Extracting == Rt11Runs /\ run.phase = "extract"

CopyBlock ==
    /\ Extracting /\ run.data # <<>> /\ Head(run.data) <= Len(Blocks)
    /\ files' = Appended(run.target, Extracted(Blocks[Head(run.data)], run.source[2]))
    /\ run' = [run EXCEPT !.data = Tail(@)]
    /\ UNCHANGED <<image, memory, ran>>

ShortFile ==
    /\ Extracting /\ run.data # <<>> /\ Head(run.data) > Len(Blocks)
    /\ Dies

\* get_mtime: the year has five bits, from 1972 on.
Mtime(e) == [e.date EXCEPT !.year = (@ % 32) + 72]

\* The date of the entry, if it has one.
ExtractEnds ==
    /\ Extracting /\ run.data = <<>>
    /\ LET e == Entries[run.source[1]]
       IN files' = IF e.date.month = 0 \/ e.date.day = 0 THEN files
                   ELSE Stamped(run.target, [atime |-> Mtime(e), mtime |-> Mtime(e)])
    /\ run' = [run EXCEPT !.phase = "next", !.open = FALSE,
                          !.done = With(@, run.target, run.source[1])]
    /\ UNCHANGED <<image, memory, ran>>

Rt11Ends ==
    /\ Rt11Runs /\ run.phase = "next" /\ run.left = <<>>
    /\ Ends("ok")
    /\ UNCHANGED <<files, image, memory, ran>>

Rt11Next ==
    \/ \E c \in Commands : StartRt11(c)
    \/ ReadDirectory \/ Extract \/ ExtractDies \/ CopyBlock \/ ShortFile
    \/ ExtractEnds \/ Rt11Ends

-----------------------------------------------------------------------------
(* Properties.                                                             *)

\* The blocks that an entry owns: those after the blocks of the entries before
\* it, deleted ones included.
Owned(k) ==
    LET before == FoldLeft(LAMBDA n, e : n + e.length, 0, SubSeq(Entries, 1, k - 1))
    IN SubSeq(Blocks, before + 1, before + Entries[k].length)

\* When all files were extracted, every permanent file of the disk is there
\* with the contents of its own blocks, unless an entry before it - a deleted
\* one, usually - has its title.
PermanentFilesExtracted ==
    run.phase = "ok" /\ run.command.program = "rt11" /\ run.command.op = "all" =>
       \A k \in 1 .. EndMark - 1 :
          Entries[k].type = "permanent" /\ Find(Entries[k].title) = k =>
             LET path == PathOf(Entries[k].title)
                 owned == Owned(k)
             IN /\ Exists(path)
                /\ files[path].data =
                      FlattenSeq([i \in DOMAIN owned |->
                                     Extracted(owned[i], LooksLikeText(owned[1]))])

=============================================================================
