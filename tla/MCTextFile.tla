----------------------------- MODULE MCTextFile -----------------------------
(***************************************************************************)
(* A letter, blanks, tabs, line ends, a character that cannot be printed   *)
(* and one that is ignored.                                                *)
(***************************************************************************)
EXTENDS TextFile

MCCharacters == {65, Blank, TAB, LF, 1, DLE}

=============================================================================
