------------------------------- MODULE MCTools -------------------------------
(***************************************************************************)
(* A few Unix files in two directories, a small volume with two files, and *)
(* two RT-11 disks.  The texts need all of the encoder: indentation, lines *)
(* too long for a page, a last line without an end.                        *)
(***************************************************************************)
EXTENDS Tools

Name(s, e) == [stem |-> s, ext |-> e, upper |-> FALSE]
Path(d, n) == [dir |-> d, name |-> n, temp |-> 0]

notes == Name("notes", "text")
blob == Name("blob", "data")
long1 == Name("fifteen.letters", "text")
long2 == Name("fifteen.letters", "data")
dot == Name("", "profile")
errors == Name("6500", "errors")
syntax == Name("system", "syntax")
filer == Name("system", "filer")

MCLongStems == {"fifteen.letters"}
MCRanked ==
    << <<"6500", "errors">>, <<"blob", "data">>, <<"fifteen.letters", "">>,
       <<"notes", "text">>, <<"system", "syntax">>, <<"system", "filer">>,
       <<"", "profile">> >>

Old == [year |-> 99, month |-> 12, day |-> 31]
Older == [year |-> 70, month |-> 6, day |-> 1]
Today == [year |-> 126, month |-> 2, day |-> 3]

File(data, atime, mtime) == [data |-> data, atime |-> atime, mtime |-> mtime]

InD == Path("d", notes)
Bin == Path(".", blob)
Encoded == Path("e", notes)
Out == Path(".", Name("out", "text"))
Indented == <<32, 32, 32, 97, 10, 97, 98, 99, 100>>
Bytes12 == <<1, 2, 3, 4, 5, 6, 7, 8, 9, 10, 11, 12>>

MCFiles ==
    InD :> File(Indented, Old, Older)
    @@ [InD EXCEPT !.temp = 1] :> File(<<7>>, Old, Old)
    @@ Path("d", Upcase(notes)) :> File(<<98, 10>>, Old, Old)
    @@ Path("d", dot) :> File(<<>>, Old, Old)
    @@ Bin :> File(Bytes12, Older, Old)
    @@ Path(".", long1) :> File(<<97, 10>>, Old, Old)
    @@ Path(".", long2) :> File(<<1, 97>>, Old, Old)
    @@ Encoded :> File(<<0, 0, 0, 0, 97, 13, 98, 13>>, Old, Old)

MCImage ==
    [formatted |-> TRUE, sex |-> "LE", blocks |-> 14, boot |-> <<1, 0, 0, 0>>,
     entries |->
        <<"notes", "text">> :>
            [kind |-> "textfile", data |-> <<0, 0, 0, 0, 97, 98, 13, 0, 99, 13, 0, 0>>,
             date |-> [year |-> 4, month |-> 7, day |-> 5]]
        @@ <<"6500", "errors">> :> [kind |-> "datafile", data |-> <<5>>, date |-> NoWord]]

Pair(p, n) == [unix |-> p, ucsd |-> n, dir |-> FALSE]
Plain_(p) == Pair(p, p.name)
Dir(d) == [unix |-> d, ucsd |-> Name("", ""), dir |-> TRUE]

DiskCommand(op, args, binary, boot) ==
    [NoOptions EXCEPT !.op = op, !.args = args, !.binary = binary, !.boot = boot]

Boot0 == Path(".", Name("boot", ""))

DiskCommands ==
    { DiskCommand("put", <<Pair(InD, notes), Plain_(Path(".", long1)),
                           Plain_(Path(".", long2))>>, FALSE, <<>>),
      DiskCommand("put", <<Plain_(Bin), Pair(Path(".", long2), syntax)>>, FALSE, <<Bin>>),
      DiskCommand("put", <<Pair(Bin, filer)>>, TRUE, <<Boot0>>),
      [DiskCommand("put", <<Dir("d")>>, FALSE, <<>>) EXCEPT !.dots = TRUE],
      [DiskCommand("put", <<Dir("d")>>, TRUE, <<>>) EXCEPT !.crunch = TRUE],
      [DiskCommand("get", <<Dir("d")>>, FALSE, <<Boot0>>) EXCEPT !.sort = "date"],
      DiskCommand("get", <<Pair(Bin, notes)>>, TRUE, <<>>),
      DiskCommand("remove", <<Pair(Bin, notes)>>, FALSE, <<Boot0>>),
      [DiskCommand("remove", <<Pair(Bin, errors), Pair(Bin, notes)>>, FALSE, <<>>)
         EXCEPT !.sort = "kind"],
      [DiskCommand("list", <<>>, FALSE, <<>>) EXCEPT !.sort = "size", !.crunch = TRUE],
      [DiskCommand("list", <<>>, FALSE, <<>>) EXCEPT !.sort = "owner"],
      [DiskCommand("list", <<>>, FALSE, <<>>) EXCEPT !.system = TRUE] }

\* Of the four, the two that fit.
MCSystemFiles == {<<"system", "syntax">>, <<"blob", "data">>}

FilterCommand(op, input) ==
    [program |-> "text", op |-> op, args |-> <<>>, input |-> input, output |-> Out]

TextCommands ==
    { FilterCommand("encode", InD), FilterCommand("decode", Encoded),
      FilterCommand("decode", Path(".", long1)),
      [program |-> "text", op |-> "encode", args |-> <<InD, Path(".", long1)>>],
      [program |-> "text", op |-> "decode", args |-> <<InD, Boot0>>] }

Rt11Entry(type, title, length, date) ==
    [type |-> type, title |-> title, length |-> length, date |-> date]

Undated == [year |-> 7, month |-> 0, day |-> 1]
WithDate == [year |-> 7, month |-> 11, day |-> 2]

Rt11Disk ==
    [entries |-> << Rt11Entry("empty", blob, 1, Undated),
                    Rt11Entry("permanent", notes, 2, WithDate),
                    Rt11Entry("permanent", blob, 1, Undated),
                    Rt11Entry("permanent", syntax, 1, Undated),
                    Rt11Entry("endmark", errors, 0, Undated),
                    Rt11Entry("permanent", errors, 1, Undated) >>,
     blocks |-> << <<0, 5>>, <<65, 13>>, <<10, 0>>, <<200, 0>>, <<13, 66>> >>]

ShortDisk == [Rt11Disk EXCEPT !.blocks = SubSeq(@, 1, 2)]

Rt11Command(op, args, disk) ==
    [program |-> "rt11", op |-> op, args |-> args, disk |-> disk]

Rt11Commands ==
    { Rt11Command("all", <<>>, Rt11Disk), Rt11Command("all", <<>>, ShortDisk),
      Rt11Command("get", <<errors>>, Rt11Disk), Rt11Command("list", <<>>, Rt11Disk) }

MkfsCommand(machine, size, boot) ==
    [program |-> "mkfs", machine |-> machine, size |-> size, boot |-> boot]

MkfsCommands ==
    { MkfsCommand("ga-440", <<4, "">>, <<>>), MkfsCommand("apple", <<>>, <<Bin>>),
      MkfsCommand("", <<8192, "b">>, <<Boot0>>), MkfsCommand("vax", <<>>, <<>>),
      MkfsCommand("", <<1, "gb">>, <<>>) }

MCCommands == DiskCommands \cup TextCommands \cup Rt11Commands \cup MkfsCommands

=============================================================================
