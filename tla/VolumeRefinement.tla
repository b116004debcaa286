-------------------------- MODULE VolumeRefinement --------------------------
(***************************************************************************)
(* The volume seen by a program: the bytes of each file, whatever blocks   *)
(* they are in.  As long as no I/O call fails and no handler is killed,    *)
(* the volume implements FileStore: relocations, directory writes and      *)
(* remounts are invisible, and an operation takes effect at once or not at *)
(* all.                                                                    *)
(***************************************************************************)
EXTENDS Volume

Stored ==
    [n \in {files[i].name : i \in 1 .. Len(files)} |->
        Content(files[IndexOf(files, n)])]

Files == INSTANCE FileStore WITH store <- Stored, MaxFiles <- MaxEntries

\* Every handler of a mount changes the bytes of the files it is asked to change
\* in one step, as FileStore says, and no other step changes any byte of any
\* file (file.cc:239-565, directory.cc:387-487, meta_read and meta_sync).
ImplementsFileStore == Files!Spec

\* Byte o behind the start of entry e, whether the file has it or not.
ByteAt(e, o) == disk[e.first + o \div BlockSize][o % BlockSize]

\* What makes the last step of a truncate or write the operation that was asked
\* for: what it found out about its file when it began is still so after
\* move_gap_after has moved every file, and the hole in front of its data has
\* been cleared (file.cc:304-565).
StoreInv ==
    LET e == files[op.idx]
        size == CurrentSize(e)
    IN /\ pc \in {"down", "up", "gapSync", "gapTwin", "grow", "pad", "data", "hole"} =>
             \/ op.kind = "crunch"
             \/ op.kind = "truncate" /\ pc # "data" /\ op.end \in Sizes /\ size < op.end
             \/ /\ op.kind \in {"write", "extend"} /\ op.value # Zero
                /\ op.offset \in Offsets /\ op.end - op.offset \in Lengths \ {0}
                /\ op.kind = "extend" <=> ExtentSize(e) < op.end
       /\ pc = "hole" => op.kind = "write"
       /\ pc = "pad" => op.kind # "write"
       /\ pc = "data" =>
             /\ op.kind = "write" => op.offset <= size
             /\ \A o \in size .. op.offset - 1 : ByteAt(e, o) = Zero

\* The whole inductive invariant of the volume, which holds in the middle of every
\* handler and whatever fails: where the extents are, what each handler knows, and
\* when the directories on the image are those of memory (file.cc:237-565,
\* directory.cc:261-487).
InductiveInv == VolumeInv /\ SpaceInv /\ HandlerInv /\ StoreInv

=============================================================================
