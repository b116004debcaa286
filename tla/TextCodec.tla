----------------------------- MODULE TextCodec ------------------------------
(***************************************************************************)
(* Text files: how output_text_encode makes the pages of a p-System text   *)
(* file of a Unix text, and how output_text_decode reads them.             *)
(*                                                                         *)
(* Page stands for 1024, Tab for 8, MaxBlanks for 255 - 32 and Window for  *)
(* 16.  A file is read in one piece, as one of up to 16 KB is.  The        *)
(* options are the default ones: DLE codes, tabs and a NUL at the end of   *)
(* each page.                                                              *)
(***************************************************************************)
EXTENDS Integers, Sequences, SequencesExt

CONSTANTS Page, Tab, MaxBlanks, Window

ASSUME SizesAssumption ==
    /\ Page \in Nat /\ Page > 2
    /\ {Tab, MaxBlanks} \subseteq Nat \ {0}
    /\ MaxBlanks + 32 < 256
    /\ Window \in Nat

NUL == 0
TAB == 9
LF == 10
CR == 13
DLE == 16
Blank == 32

Printable(c) == c \in 32 .. 126

Times(n, c) == [i \in 1 .. n |-> c]

-----------------------------------------------------------------------------
(* output_text_encode.                                                     *)

\* Fault: a page may be filled to the last byte.
PerPageFull == Page

\* The characters of a page, not counting the NUL at its end.
PerPage == Page - 1

\* The codes for n leading blanks.
Indent(n) ==
    LET rest == n % MaxBlanks
    IN FlattenSeq(Times(n \div MaxBlanks, <<DLE, 32 + MaxBlanks>>))
        \o IF rest <= 2 THEN Times(rest, Blank) ELSE <<DLE, 32 + rest>>

\* A character that cannot be printed becomes \xNN.
Digit(d) == IF d < 10 THEN 48 + d ELSE 55 + d
Shown(c) ==
    IF Printable(c) THEN <<c>> ELSE <<92, 120, Digit(c \div 16), Digit(c % 16)>>

NextTab(column) == column - (column % Tab) + Tab

\* line_character.
LineCharacter(s, c) ==
    CASE c \in {NUL, DLE} -> s
      [] c = TAB ->
            [s EXCEPT !.line = IF s.nonWhite
                               THEN @ \o Times(NextTab(s.column) - s.column, Blank)
                               ELSE @,
                      !.column = NextTab(@)]
      [] c = Blank ->
            [s EXCEPT !.line = IF s.nonWhite THEN Append(@, Blank) ELSE @,
                      !.column = @ + 1]
      [] OTHER ->
            [s EXCEPT !.line = (IF s.nonWhite THEN @ ELSE @ \o Indent(s.column))
                               \o Shown(c),
                      !.nonWhite = TRUE,
                      !.column = @ + 1]

\* Fault: the character in front of a split is lost.
SplitLosing(line) ==
    LET k == (Len(line) - PerPage + PerPage - 2) \div (PerPage - 1)
        piece(i) == SubSeq(line, (i - 1) * PerPage + 1, i * PerPage - 1)
    IN IF Len(line) <= PerPage THEN line
       ELSE FlattenSeq([i \in 1 .. k |-> piece(i) \o <<CR, NUL>>])
            \o SubSeq(line, k * PerPage + 1, Len(line))

\* A line too long for a page is split into pieces that fill one each.
Split(line) ==
    LET k == (Len(line) - PerPage + PerPage - 2) \div (PerPage - 1)
        piece(i) == SubSeq(line, (i - 1) * (PerPage - 1) + 1, i * (PerPage - 1))
    IN IF Len(line) <= PerPage THEN line
       ELSE FlattenSeq([i \in 1 .. k |-> piece(i) \o <<CR, NUL>>])
            \o SubSeq(line, k * (PerPage - 1) + 1, Len(line))

\* write_one_line: a line that does not fit in the page starts a new one, and
\* one that is too long for any page leaves a page empty if it starts one.
WriteOneLine(s) ==
    LET line == Append(s.line, CR)
        address == Len(s.out) % Page
    IN [out |-> s.out \o (IF address + Len(line) > PerPage
                          THEN Times(Page - address, NUL) ELSE <<>>) \o Split(line),
        line |-> <<>>, column |-> 0, nonWhite |-> FALSE]

EncodeCharacter(s, c) ==
    IF c \in {LF, CR} THEN WriteOneLine(s) ELSE LineCharacter(s, c)

\* The header page, the lines, and the rest of the last page.
Encode(text) ==
    LET all == FoldLeft(EncodeCharacter,
                        [out |-> Times(Page, NUL), line |-> <<>>,
                         column |-> 0, nonWhite |-> FALSE],
                        text)
        last == IF all.line = <<>> THEN all ELSE WriteOneLine(all)
    IN last.out \o Times((-Len(last.out)) % Page, NUL)

-----------------------------------------------------------------------------
(* output_text_decode.                                                     *)

\* Fault: blanks that do not fill a tab are one more tab.
TabsRoundedUp(column) == Times((column + Tab - 1) \div Tab, TAB)

\* Leading blanks: tabs as far as they go.
Tabs(column) == Times(column \div Tab, TAB) \o Times(column % Tab, Blank)

\* A character that is neither a code nor the end of a line.
Plain(s, c) ==
    [s EXCEPT !.out = (IF s.nonWhite THEN @ ELSE @ \o Tabs(s.column)) \o <<c>>,
              !.nonWhite = TRUE,
              !.column = @ + 1]

Coded(s, c) ==
    CASE c = NUL -> s
      [] c \in {CR, LF} ->
            [s EXCEPT !.out = Append(@, LF), !.column = 0, !.nonWhite = FALSE]
      [] c = DLE -> [s EXCEPT !.dle = TRUE]
      [] OTHER -> Plain(s, c)

DecodeCharacter(s, c) ==
    LET after == [s EXCEPT !.dle = FALSE]
    IN IF ~s.dle THEN Coded(s, c)
       ELSE IF c < 32 THEN Coded(Plain(after, DLE), c)
       ELSE [after EXCEPT !.out = IF s.nonWhite THEN @ \o Times(c - 32, Blank) ELSE @,
                          !.column = @ + (c - 32)]

\* The file starts with text: its header has been taken off.
IsTextBuffer(bytes) ==
    LET ends == {i \in 1 .. Len(bytes) : bytes[i] # NUL}
    IN \A j \in 1 .. Window :
          (\E i \in ends : j <= i) =>
              Printable(bytes[j]) \/ bytes[j] \in 9 .. 13 \cup {DLE}

Decode(bytes) ==
    FoldLeft(DecodeCharacter,
             [out |-> <<>>, column |-> 0, nonWhite |-> FALSE, dle |-> FALSE],
             IF IsTextBuffer(bytes) THEN bytes
             ELSE SubSeq(bytes, Page + 1, Len(bytes))).out

=============================================================================
