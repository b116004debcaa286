------------------------------- MODULE MCMount -------------------------------
(***************************************************************************)
(* Two files, one of which may be called by two paths, and two handles.    *)
(***************************************************************************)
EXTENDS Mount, TLC

CONSTANTS e1, e2, e3, e4, h1, h2

ThePaths == {"data", "DATA", "text"}
TheHidden == {".fuse_hidden00000001", ".fuse_hidden00000002"}

\* The names on the volume.
TheClasses ==
    [p \in ThePaths \cup TheHidden |->
        CASE p \in {"data", "DATA"} -> "data" [] p = "text" -> "text" [] OTHER -> ".fuse_hidden000"]

\* The answer to the last call does not matter to the next.
View == <<volume, handle, pointers, options, misnamed, died>>

Symmetry == Permutations(Objects) \cup Permutations(Handles)
=============================================================================
