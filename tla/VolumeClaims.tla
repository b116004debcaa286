---------------------------- MODULE VolumeClaims ----------------------------
(***************************************************************************)
(* What comments of the source say of write, and what the code does not    *)
(* do.                                                                     *)
(***************************************************************************)
EXTENDS VolumeRefinement

HoleWritten == pc = "hole" /\ pc' = "sync"

\* "Write data to an open file", at the offset asked for (entry.h:249-253).
HoleDataInPlace ==
    [][HoleWritten =>
          LET f == Content(files[op.idx])'
          IN \A o \in op.offset .. op.end - 1 : f[o] = op.value]_vars

\* A call that returns success after changing a file has put its entry on the
\* medium: write is documented to return "-errno on error" (entry.h:262-263).
SuccessMeansWritten ==
    [][pc = "sync" /\ ret' = "ok" => image' = files']_vars
=============================================================================
