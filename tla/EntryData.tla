------------------------------ MODULE EntryData ------------------------------
(***************************************************************************)
(* What an entry of the directory keeps of a file besides its extent: the  *)
(* name, the kind, which comes from the name once when the file is made,   *)
(* and the date, which has seven bits for the year.                        *)
(*                                                                         *)
(* A name is a stem, an extension and whether it is in upper case.  A time *)
(* is a day; its year counts from 1900, as in struct tm.                   *)
(***************************************************************************)
EXTENDS Integers, Sequences

CONSTANT LongStems      \* stems of fifteen characters or more

\* Fault: the name is kept as it is.
Uncut(name) == <<name.stem, name.ext>>

\* The name of an entry is cut at 15 characters, and compared regardless of
\* case over as many.
Cut(name) == IF name.stem \in LongStems THEN <<name.stem, "">>
             ELSE <<name.stem, name.ext>>

Upcase(name) == [name EXCEPT !.upper = TRUE]
Downcase(name) == [name EXCEPT !.upper = FALSE]

IsDotFile(name) == name.stem = ""

-----------------------------------------------------------------------------
\* Kinds, in the order of their numbers.
KindNumber == [untypedfile |-> 0, xdskfile |-> 1, codefile |-> 2, textfile |-> 3,
               infofile |-> 4, datafile |-> 5, graffile |-> 6, fotofile |-> 7]

\* The names that have a kind of their own: data files, one text file, and
\* the programs of the system.
SystemData == {"apple", "charset", "miscinfo"}
SystemCode == {"assmbler", "compiler", "editor", "filer", "library", "linker", "pascal"}

ExactKind(name) ==
    CASE name.stem \in {"6500", "6502"} /\ name.ext \in {"errors", "opcodes"}
            -> "datafile"
      [] name.stem = "system" /\ name.ext \in SystemData -> "datafile"
      [] name.stem = "system" /\ name.ext \in SystemCode -> "codefile"
      [] name.stem = "system" /\ name.ext = "syntax" -> "textfile"
      [] OTHER -> "none"

Extensions ==
    [codefile |-> {"a", "code", "dll", "exe", "lib", "o", "obj", "so"},
     textfile |-> {"back", "backup", "c", "c++", "cc", "conf", "cpp", "csv", "cxx",
                   "h", "h++", "hh", "hpp", "hxx", "p", "pas", "pascal", "text",
                   "txt"},
     datafile |-> {"bin", "binary", "dat", "data", "miscinfo", "raw"},
     fotofile |-> {"bmp", "foto", "gif", "ico", "icon", "jpeg", "jpg", "photo",
                   "png"},
     graffile |-> {"graf", "graph", "svg"},
     infofile |-> {"info"},
     xdskfile |-> {"xdsk"}]

HasExtension(name, kind) == name.ext \in Extensions[kind]

\* Fault: the extension is looked at before the whole name.
KindByExtensionFirst(name) ==
    IF \E k \in DOMAIN Extensions : HasExtension(name, k)
    THEN CHOOSE k \in DOMAIN Extensions : HasExtension(name, k)
    ELSE IF ExactKind(name) # "none" THEN ExactKind(name) ELSE "datafile"

\* dfkind_from_extension: of the whole name, before it is cut.
Kind(name) ==
    CASE ExactKind(name) # "none" -> ExactKind(name)
      [] ExactKind(name) = "none"
            /\ \E k \in DOMAIN Extensions : HasExtension(name, k)
            -> CHOOSE k \in DOMAIN Extensions : HasExtension(name, k)
      [] OTHER -> IF name.stem = "system" /\ name.ext # "" THEN "codefile"
                  ELSE "datafile"

-----------------------------------------------------------------------------
Epoch == [year |-> 70, month |-> 1, day |-> 1]
NoWord == [year |-> 0, month |-> 0, day |-> 0]

\* put_date
Word(date) == [year |-> date.year % 100, month |-> date.month, day |-> date.day]

\* Fault: years are taken for years of the twentieth century.
YearOfCentury(y) == y

\* get_date: years up to 69 are 2000 to 2069, and no date is the epoch.
Year(y) == IF y < 70 THEN y + 100 ELSE y

Date(word) == IF word = NoWord THEN Epoch ELSE [word EXCEPT !.year = Year(@)]

DateBefore(d, e) ==
    \/ d.year < e.year
    \/ d.year = e.year /\ d.month < e.month
    \/ d.year = e.year /\ d.month = e.month /\ d.day < e.day

=============================================================================
