------------------------------ MODULE Programs -------------------------------
(***************************************************************************)
(* What the command line programs have in common: the Unix files they read *)
(* and write, the disk image, and the run of one program at a time, which  *)
(* may be killed at any step.                                              *)
(*                                                                         *)
(* The volume is a set of named files here (FileStore, which Volume        *)
(* implements): "image" is what the disk image holds, "memory" what a      *)
(* program has read of it and changed since.  The two are the same but for *)
(* the dates, for every call that changes a file writes the directory.     *)
(***************************************************************************)
EXTENDS Streams, EntryData, FiniteSets, TLC

CONSTANTS
    Commands,       \* the command lines
    MaxRuns,        \* bound: programs run one after the other
    Block,          \* bytes of a block, 512
    LabelEnd,       \* blocks in front of the files, 6
    MaxEntries,     \* entries of a directory
    Ranked,         \* the names of entries in their order
    Now             \* the day on which all this happens

\* The smallest volume that is made, of 4 KB, has 8 blocks.
ASSUME VolumeAssumption ==
    /\ Block \in Nat \ {0} /\ LabelEnd \in 0 .. 8
    /\ MaxEntries \in Nat /\ MaxRuns \in Nat

Rank(name) == CHOOSE k \in DOMAIN Ranked : Ranked[k] = name

VARIABLES files, image, memory, run, ran

\* The function f with y at x.
With(f, x, y) == [z \in DOMAIN f \cup {x} |-> IF z = x THEN y ELSE f[z]]

vars == <<files, image, memory, run, ran>>

Idle == run.phase \in {"ok", "failed", "killed"}

\* A program that has nothing open.
NewRun(command) ==
    [command |-> command, phase |-> "next", left |-> <<>>, open |-> FALSE,
     source |-> <<>>, target |-> <<>>, data |-> <<>>, stream |-> NewStream("none"),
     stamp |-> [atime |-> Now, mtime |-> Now], done |-> <<>>, shown |-> <<>>]

Running(program) == ~Idle /\ run.command.program = program

\* What a program leaves behind; its streams are gone.
Ends(how) ==
    run' = [run EXCEPT !.phase = how, !.left = <<>>, !.data = <<>>,
                       !.stream = NewStream("none")]

\* explain_..._or_die: the message, and exit without a flush or a destructor.
Dies ==
    /\ Ends("failed")
    /\ memory' = <<>>
    /\ UNCHANGED <<files, image, ran>>

Killed ==
    /\ ~Idle
    /\ Ends("killed")
    /\ memory' = <<>>
    /\ UNCHANGED <<files, image, ran>>

-----------------------------------------------------------------------------
\* Unix files.

Exists(path) == path \in DOMAIN files

UnixFile(data) == [data |-> data, atime |-> Now, mtime |-> Now]

\* A file is created, or cut to nothing.
Created(path) ==
    LET old == IF Exists(path) THEN files[path] ELSE UnixFile(<<>>)
    IN With(files, path, [old EXCEPT !.data = <<>>, !.mtime = Now])

Appended(path, data) ==
    [files EXCEPT ![path].data = @ \o data, ![path].mtime = Now]

Stamped(path, stamp) ==
    [files EXCEPT ![path].atime = stamp.atime, ![path].mtime = stamp.mtime]

-----------------------------------------------------------------------------
\* The copy of a file: chunks of the input go into the stream.  A codec, the
\* input and the output are chosen when both are opened.

Opened(r, source, target, data, codec, stamp) ==
    [r EXCEPT !.phase = "copy", !.open = TRUE, !.source = source,
              !.target = target, !.data = data, !.stream = NewStream(codec),
              !.stamp = stamp]

CanRead == run.phase = "copy" /\ Pending(run.stream) = <<>>

CopyChunk ==
    /\ CanRead /\ run.data # <<>>
    /\ run' = [run EXCEPT !.stream = Accept(@, Take(run.data, Temp)),
                          !.data = Drop(@, Temp)]
    /\ UNCHANGED <<files, image, memory, ran>>

\* Every piece is written before the program goes on.
Given == run' = [run EXCEPT !.stream = PieceWritten(@)]

=============================================================================
