------------------------------ MODULE TextTool -------------------------------
(***************************************************************************)
(* ucsdpsys_text: files encoded or decoded where they are.  The new text   *)
(* goes to a temporary file beside the old one, which it then replaces.    *)
(* Without arguments it is a filter; its standard input is a pipe, whose   *)
(* reads give any number of bytes, and its standard output a file.         *)
(***************************************************************************)
EXTENDS Programs

Text == Running("text")

Filter(c) == c.args = <<>>

StartText(c) ==
    /\ Idle /\ ran < MaxRuns
    /\ ran' = ran + 1
    /\ c.program = "text" /\ ~Filter(c)
    /\ run' = [NewRun(c) EXCEPT !.left = c.args]
    /\ UNCHANGED <<files, image, memory>>

\* The shell opens both ends, and makes the output a new file.
StartFilter(c) ==
    /\ Idle /\ ran < MaxRuns
    /\ ran' = ran + 1
    /\ c.program = "text" /\ Filter(c)
    /\ Exists(c.input)
    /\ files' = Created(c.output)
    /\ run' = Opened(NewRun(c), c.input, c.output, files[c.input].data, c.op,
                     [atime |-> Now, mtime |-> Now])
    /\ UNCHANGED <<image, memory>>

InFilter == Text /\ Filter(run.command)

\* Fault: the first temporary name is taken whether it is free or not.
FirstTemporary(path) == [path EXCEPT !.temp = 1]

\* The first temporary name that no file has.
Temporary(path) ==
    LET name(n) == [path EXCEPT !.temp = n]
    IN name(CHOOSE n \in 1 .. Cardinality(DOMAIN files) + 1 :
                ~Exists(name(n)) /\ \A k \in 1 .. n - 1 : Exists(name(k)))

AtText == Text /\ run.phase = "next" /\ run.left # <<>>

\* insitu, up to the copy.
InSitu ==
    /\ AtText /\ Exists(Head(run.left))
    /\ LET path == Head(run.left)
           temporary == Temporary(path)
       IN /\ files' = Created(temporary)
          /\ run' = [Opened(run, path, temporary, files[path].data, run.command.op,
                            [atime |-> files[path].atime, mtime |-> files[path].mtime])
                     EXCEPT !.left = Tail(@)]
    /\ UNCHANGED <<image, memory, ran>>

NoText == AtText /\ ~Exists(Head(run.left)) /\ Dies

CopyText == Text /\ ~Filter(run.command) /\ CopyChunk

\* A read of standard input.
CopyPipe ==
    /\ InFilter /\ CanRead
    /\ \E n \in 1 .. Len(Take(run.data, Temp)) :
          run' = [run EXCEPT !.stream = Accept(@, Take(run.data, n)),
                             !.data = Drop(@, n)]
    /\ UNCHANGED <<files, image, memory, ran>>

\* out.reset(): the destructors write what the streams hold.
Reset ==
    /\ Text /\ CanRead /\ run.data = <<>>
    /\ run' = [run EXCEPT !.stream = CloseStream(@), !.phase = "closing"]
    /\ UNCHANGED <<files, image, memory, ran>>

WriteTemporary ==
    /\ Text /\ run.open /\ Pending(run.stream) # <<>>
    /\ files' = Appended(run.target, NextPiece(run.stream))
    /\ Given
    /\ UNCHANGED <<image, memory, ran>>

\* Fault: the file is renamed while its end is in the buffers.
ClosedOrCopied == run.phase = "copy" /\ run.data = <<>>

WholeWritten == run.phase = "closing" /\ Pending(run.stream) = <<>>

RenameOver ==
    /\ Text /\ ~Filter(run.command) /\ WholeWritten
    /\ files' = [p \in DOMAIN files \ {run.target} |->
                    IF p = run.source THEN files[run.target] ELSE files[p]]
    /\ run' = [run EXCEPT !.phase = "renamed", !.open = FALSE]
    /\ UNCHANGED <<image, memory, ran>>

RestoreTimes ==
    /\ Text /\ run.phase = "renamed"
    /\ files' = Stamped(run.source, run.stamp)
    /\ run' = [run EXCEPT !.phase = "next"]
    /\ UNCHANGED <<image, memory, ran>>

TextEnds ==
    /\ Text /\ run.phase = "next" /\ run.left = <<>>
    /\ Ends("ok")
    /\ UNCHANGED <<files, image, memory, ran>>

FilterEnds ==
    /\ InFilter /\ run.phase = "closing" /\ Pending(run.stream) = <<>>
    /\ run' = [run EXCEPT !.phase = "ok", !.open = FALSE, !.stream = NewStream("none")]
    /\ UNCHANGED <<files, image, memory, ran>>

TextNext ==
    \/ \E c \in Commands : StartText(c) \/ StartFilter(c)
    \/ CopyPipe \/ FilterEnds
    \/ InSitu \/ NoText
    \/ CopyText \/ Reset \/ WriteTemporary \/ RenameOver \/ RestoreTimes \/ TextEnds

-----------------------------------------------------------------------------
(* Properties.                                                             *)

\* A file that ucsdpsys_text translates is the old text until it is the whole
\* new one, wherever the program is killed, and no other file than that and a
\* temporary one it made itself is touched, a leftover of a killed run included.
ReplacedAsAWhole ==
    [][ Text /\ ~Filter(run.command) =>
           \A p \in DOMAIN files :
              \/ p = run.target /\ run.open
              \/ /\ p \in DOMAIN files'
                 /\ \/ files'[p].data = files[p].data
                    \/ /\ p = run.source
                       /\ files'[p].data = Through(run.command.op, files[p].data)
      ]_vars

\* A text that starts with a header the editor has not written to, or has none.
PlainHeader(data) ==
    IsTextBuffer(data) \/ \A i \in DOMAIN Take(data, Page) : data[i] = NUL

\* What the filter has written.
FilterCopies ==
    LET input == files[run.command.input].data
        output == files[run.command.output].data
        whole == Through(run.command.op, input)
    IN run.command.program = "text" /\ Filter(run.command)
       /\ (run.command.op = "encode" \/ PlainHeader(input))
       =>
           /\ IsPrefix(output, whole)
           /\ run.phase = "ok" => output = whole

=============================================================================
