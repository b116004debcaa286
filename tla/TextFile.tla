------------------------------ MODULE TextFile ------------------------------
(***************************************************************************)
(* A text file of a mount that translates text on the fly: the Unix text   *)
(* in memory, and the pages in the file, rewritten as a whole by every     *)
(* change.                                                                 *)
(*                                                                         *)
(* One action is one call of directory_entry_file, whose own steps are     *)
(* those of module Volume; each may fail, and the process may be killed    *)
(* between two of them.  An entry that meta_read finds on the image is not *)
(* translated: what programs do to it is the business of module Volume.    *)
(***************************************************************************)
EXTENDS TextCodec

CONSTANTS
    Characters,     \* what programs write, and what memory may hold
    MaxText,        \* bound: the longest text a write or truncate leaves
    Null            \* no text in memory

ASSUME NullAssumption == Null \notin Seq(0 .. 255)
ASSUME CharactersAssumption == Characters \subseteq 0 .. 255 /\ MaxText \in Nat

VARIABLES
    cache,      \* the text in memory, or Null
    file,       \* the bytes of the file
    pc,         \* the next call of the running handler, or how it stands
    op,         \* the running handler: "write", "truncate" or "none"
    status      \* history: how the file came to be what it is

vars == <<cache, file, pc, op, status>>

-----------------------------------------------------------------------------

\* The status is "own" when this program wrote the file, "split" when it had to
\* split a line of the text in memory, "lost" when it failed, else "other".

\* The text a handler works on: it is read first if it is not in memory.
Text == IF cache = Null THEN Decode(file) ELSE cache

\* overwrite: a hole holds what the buffer held.
Overwritten(text, offset, c) ==
    {[i \in 1 .. IF offset < Len(text) THEN Len(text) ELSE offset + 1 |->
        IF i = offset + 1 THEN c ELSE IF i <= Len(text) THEN text[i] ELSE hole] :
        hole \in IF offset <= Len(text) THEN {NUL} ELSE Characters}

\* set_size: a text that grows grows by the size it should have.
SetSize(text, size) ==
    IF size <= Len(text) THEN SubSeq(text, 1, size) ELSE text \o Times(size, LF)

-----------------------------------------------------------------------------
(* What a text file keeps of a text, line by line.                         *)

LineEnds == {LF, CR}
Ignored == {NUL, DLE}

\* The line in front of position e.
LineStart(t, e) ==
    CHOOSE a \in 1 .. e :
        /\ a > 1 => t[a - 1] \in LineEnds
        /\ \A i \in a .. e - 1 : t[i] \notin LineEnds
Line(t, e) == SubSeq(t, LineStart(t, e), e - 1)

\* The column behind the first i characters of a line.
Column(l) ==
    LET column[i \in 0 .. Len(l)] ==
            IF i = 0 THEN 0
            ELSE IF l[i] \in Ignored THEN column[i - 1]
            ELSE IF l[i] = TAB THEN NextTab(column[i - 1]) ELSE column[i - 1] + 1
    IN column

\* The number of characters in front of the first that leaves a mark.
Leading(l) ==
    CHOOSE n \in 0 .. Len(l) :
        /\ \A i \in 1 .. n : l[i] \in {Blank, TAB} \cup Ignored
        /\ n < Len(l) => l[n + 1] \notin {Blank, TAB} \cup Ignored

\* What follows them, with blanks for tabs.
Body(l) ==
    FlattenSeq([i \in 1 .. Len(l) |->
        IF i <= Leading(l) \/ l[i] \in Ignored THEN <<>>
        ELSE IF l[i] = TAB THEN Times(Column(l)[i] - Column(l)[i - 1], Blank)
        ELSE Shown(l[i])])

\* A line of blanks is empty.  Leading blanks are tabs as far as they go; one or
\* two that are left when the others have their codes stay blanks.
Kept(l) ==
    IF Body(l) = <<>> THEN <<>>
    ELSE LET indent == Column(l)[Leading(l)]
             loose == IF indent % MaxBlanks <= 2 THEN indent % MaxBlanks ELSE 0
             coded == indent - loose
         IN Times(coded \div Tab, TAB) \o Times((coded % Tab) + loose, Blank) \o Body(l)

\* The last line gets a line end, unless there is nothing in it.
Ended(t, e) == IF e <= Len(t) THEN t[e] \in LineEnds ELSE Body(Line(t, e)) # <<>>

Canonical(t) ==
    FlattenSeq([e \in 1 .. Len(t) + 1 |->
        IF Ended(t, e) THEN Append(Kept(Line(t, e)), LF) ELSE <<>>])

\* The line and its end fill at most a page with its NUL.
Fits(l) ==
    Body(l) # <<>> =>
        Len(Indent(Column(l)[Leading(l)])) + Len(Body(l)) + 1 <= Page - 1

LinesFit(t) == \A e \in 1 .. Len(t) + 1 : Ended(t, e) => Fits(Line(t, e))

-----------------------------------------------------------------------------

\* getattr and read.
Look ==
    /\ pc = "idle"
    /\ cache' = Text
    /\ UNCHANGED <<file, pc, op, status>>

Write(offset, c) ==
    /\ pc = "idle" /\ Len(Text) <= MaxText
    /\ cache' \in Overwritten(Text, offset, c)
    /\ pc' = "shrink"
    /\ op' = "write"
    /\ UNCHANGED <<file, status>>

Truncate(size) ==
    /\ pc = "idle"
    /\ cache' = SetSize(Text, size)
    /\ Len(cache') <= MaxText
    /\ pc' = "shrink"
    /\ op' = "truncate"
    /\ UNCHANGED <<file, status>>

\* set_size writes past the buffer when a text that is not empty grows.
TruncateOverruns(size) ==
    /\ pc = "idle" /\ Text # <<>> /\ size > Len(Text)
    /\ pc' = "crashed"
    /\ UNCHANGED <<cache, file, op, status>>

\* The file cannot be read: getattr returns an error, the others use the text
\* that is not there.
ReadFails ==
    /\ pc = "idle" /\ cache = Null
    /\ pc' \in {"idle", "crashed"}
    /\ UNCHANGED <<cache, file, op, status>>

\* Fault: the file is not truncated before it is written.
ShrinkForgotten ==
    /\ pc = "shrink"
    /\ pc' = "refill"
    /\ UNCHANGED <<cache, file, op, status>>

\* directory_entry_file::truncate(0).
Shrink ==
    /\ pc = "shrink"
    /\ file' = <<>>
    /\ pc' = "refill"
    /\ status' = "lost"
    /\ UNCHANGED <<cache, op>>

\* It fails before or after the file is empty.
ShrinkFails ==
    /\ pc = "shrink"
    /\ file' \in {file, <<>>}
    /\ pc' = "idle"
    /\ op' = "none"
    /\ status' = "lost"
    /\ UNCHANGED cache

\* The file after the pages were put at its start.
Filled ==
    LET pages == Encode(cache)
    IN pages \o SubSeq(file, Len(pages) + 1, Len(file))

\* directory_entry_file::write of all pages.
Refill ==
    /\ pc = "refill"
    /\ file' = Filled
    /\ pc' = "idle"
    /\ op' = "none"
    /\ status' = IF LinesFit(cache) THEN "own" ELSE "split"
    /\ UNCHANGED cache

\* There is no room, or the data cannot be written: the file stays empty.
RefillFails ==
    /\ pc = "refill"
    /\ pc' = "idle"
    /\ op' = "none"
    /\ UNCHANGED <<cache, file, status>>

\* The directory cannot be written: write of the file returns a positive number,
\* and the text's write asserts that it is the number of bytes.
RefillUnsynced ==
    /\ pc = "refill"
    /\ file' = Filled
    /\ pc' = IF op = "write" THEN "crashed" ELSE "idle"
    /\ op' = "none"
    /\ UNCHANGED <<cache, status>>

Forgotten ==
    /\ cache' = Null
    /\ status' = IF status = "split" THEN "other" ELSE status

\* Fault: another thread releases a handle while the file is rewritten.
ReleaseMeanwhile ==
    /\ pc # "crashed"
    /\ Forgotten
    /\ UNCHANGED <<file, pc, op>>

\* A handle is released, the last one or not.
Release ==
    /\ pc = "idle"
    /\ Forgotten
    /\ UNCHANGED <<file, pc, op>>

\* The process ends and the volume is mounted again: main asks for translation
\* when the directory has been read and its entries have been made.
Restart ==
    /\ Forgotten
    /\ pc' = "plain"
    /\ op' = "none"
    /\ UNCHANGED file

\* The file is deleted, and a new one of its name created.
Recreate ==
    /\ pc \in {"idle", "plain"}
    /\ cache' = Null
    /\ file' = <<>>
    /\ pc' = "idle"
    /\ op' = "none"
    /\ status' = "other"

\* A new file is empty.
Init ==
    /\ cache = Null
    /\ file = <<>>
    /\ pc = "idle"
    /\ op = "none"
    /\ status = "other"

Next ==
    \/ Look \/ Release \/ Recreate
    \/ \E offset \in 0 .. MaxText - 1, c \in Characters : Write(offset, c)
    \/ \E size \in 0 .. MaxText : Truncate(size) \/ TruncateOverruns(size)
    \/ ReadFails \/ Shrink \/ ShrinkFails \/ Refill \/ RefillFails \/ RefillUnsynced
    \/ Restart

Spec == Init /\ [][Next]_vars

-----------------------------------------------------------------------------
(* Properties.                                                             *)

\* Every variable has its type, and a handler that rewrites the file has the text
\* in memory (text.cc:143-148).
TypeOK ==
    /\ cache \in Seq(0 .. 255) \cup {Null}
    /\ file \in Seq(0 .. 255)
    /\ pc \in {"idle", "shrink", "refill", "crashed", "plain"}
    /\ op \in {"none", "write", "truncate"}
    /\ status \in {"other", "own", "split", "lost"}
    /\ pc \in {"shrink", "refill"} => cache # Null /\ op # "none"

Written == pc \in {"idle", "plain"} /\ status \in {"own", "split"}

\* The next program to open the file reads the text this one sees, after any
\* writes and truncates, failed ones and releases by others among them; only
\* blanks change, where text files have no room for them (text.cc:79-100,
\* 181-238).
TextKept ==
    Written /\ status = "own" /\ cache # Null => Decode(file) = Canonical(cache)

Unbroken(t) == SelectSeq(t, LAMBDA c : c # LF)

\* A line too long for a page is cut into several and loses no character
\* (text_encode.cc:196-213).
LongLinesOnlySplit ==
    Written /\ cache # Null => Unbroken(Decode(file)) = Unbroken(Canonical(cache))

\* The pages of a file this program wrote: an empty header, then lines that
\* cross no page boundary and a NUL at the end of every page (ucsdpsys_text(5)).
PagesWhole ==
    Written =>
        /\ Len(file) % Page = 0
        /\ \A i \in 1 .. Page : file[i] = NUL
        /\ \A p \in 1 .. Len(file) \div Page - 1 :
              LET page == SubSeq(file, p * Page + 1, (p + 1) * Page)
              IN \E n \in 0 .. Page - 1 :
                    /\ \A i \in 1 .. Page : page[i] = NUL <=> i > n
                    /\ n > 0 => page[n] = CR

\* A file this program wrote that is opened and written back as it is keeps every
\* byte, unless one of its lines had to be split.
RewriteIsStable == Written /\ status = "own" => Encode(Decode(file)) = file

\* What a program reads.
Seen == IF pc = "plain" THEN file ELSE Text

\* "Convert text files between Unix and UCSD formats on-the-fly."
\* (man1/ucsdpsys_mount.1:101): a program reads text, not pages.
TextIsTranslated == pc \in {"idle", "plain"} => Seen = Text

\* "If the size if less than the current size, it will be truncated.  If the
\* size if greater than the current size, it will be padded"
\* (accumulator.h:183-186), and "@param size The new size of the file"
\* (entry.h:197-198).
TruncateSetsSize ==
    [][\A size \in 0 .. MaxText : Truncate(size) => Len(cache') = size]_vars

=============================================================================
