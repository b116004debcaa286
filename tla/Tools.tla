-------------------------------- MODULE Tools --------------------------------
(***************************************************************************)
(* The command line programs run one after the other on the same Unix      *)
(* files and the same disk image; any of them may be killed at any step.   *)
(***************************************************************************)
EXTENDS DiskTool, TextTool, Rt11, MkfsTool

CONSTANTS Files0, Image0

\* A time is a day; an entry has two digits of its year.
Dates == [year : Nat, month : Nat, day : Nat]
Words == [year : 0 .. 99, month : Nat, day : Nat]

UnixFiles == [data : Seq(0 .. 255), atime : Dates, mtime : Dates]
VolumeFiles(dates) ==
    [kind : DOMAIN KindNumber, data : Seq(0 .. 255), date : dates]

\* The Unix files there are before the first program runs.
ASSUME FilesAssumption ==
    /\ Files0 \in [DOMAIN Files0 -> UnixFiles] /\ IsFiniteSet(DOMAIN Files0)
    /\ Now \in Dates

\* The image there is: what is not a volume, or one as the checks of meta_read leave it.
ASSUME ImageAssumption ==
    /\ Image0 = [formatted |-> Image0.formatted, sex |-> Image0.sex,
                 blocks |-> Image0.blocks, entries |-> Image0.entries,
                 boot |-> Image0.boot]
    /\ Image0.entries \in [DOMAIN Image0.entries -> VolumeFiles(Words)]
    /\ Image0.boot \in Seq(0 .. 255)
    /\ IsFiniteSet(DOMAIN Image0.entries)
    /\ Cardinality(DOMAIN Image0.entries) <= MaxEntries
    /\ \A c \in DOMAIN Image0.entries : c[1] \in LongStems => c[2] = ""
    /\ Image0.blocks \in Nat
    /\ Image0.formatted => UsedBy(Image0.entries) <= Space(Image0)

\* What the command lines can be.  The output of a filter is not its input, which
\* the shell would cut to nothing.
ASSUME CommandsAssumption ==
    \A c \in Commands :
       /\ c.program \in {"disk", "text", "rt11", "mkfs"}
       /\ c.program = "disk" => c.boot = <<>> \/ c.boot = <<Head(c.boot)>>
       /\ c.program = "text" =>
             /\ c.op \in {"encode", "decode"}
             /\ c.args \in Seq(ToSet(c.args))
             /\ \A p \in ToSet(c.args) : p = [dir |-> p.dir, name |-> p.name, temp |-> p.temp]
             /\ Filter(c) => c.input # c.output
       /\ c.program = "rt11" =>
             /\ c.disk.entries \in Seq(ToSet(c.disk.entries))
             /\ \A e \in ToSet(c.disk.entries) : e.length \in Nat /\ e.date \in Dates
             /\ c.disk.blocks \in Seq(Seq(0 .. 255))
       /\ c.program = "mkfs" => c.size = <<>> \/ c.size[1] \in Nat

Init ==
    /\ files = Files0
    /\ image = Image0
    /\ memory = <<>>
    /\ run = [NewRun([program |-> "none"]) EXCEPT !.phase = "ok"]
    /\ ran = 0

Next == DiskNext \/ TextNext \/ Rt11Next \/ MkfsNext \/ Killed

Spec == Init /\ [][Next]_vars

Phases == {"ok", "failed", "killed", "next", "copy", "flushed", "closing", "renamed",
           "begin", "extract", "options", "zeroed", "labelled"}

\* Files are sequences of bytes, no name is on the volume twice or longer than
\* an entry holds, what is in memory is on the image but for the dates, and
\* the files fit in the volume.
TypeOK ==
    /\ run.phase \in Phases
    /\ ran \in 0 .. MaxRuns
    /\ \A p \in DOMAIN files : \A i \in DOMAIN files[p].data : files[p].data[i] \in 0 .. 255
    /\ \A c \in DOMAIN image.entries :
          /\ c[1] \in LongStems => c[2] = ""
          /\ image.entries[c].kind \in DOMAIN KindNumber
          /\ image.entries[c].date.year \in 0 .. 99
    /\ Cardinality(DOMAIN image.entries) <= MaxEntries
    /\ image.formatted => UsedBy(image.entries) <= Space(image)
    /\ Disk => /\ DOMAIN memory = DOMAIN image.entries
               /\ \A c \in DOMAIN memory :
                     memory[c].data = image.entries[c].data

\* Whenever a copy is stopped - a kill, a full volume - what was written is the
\* beginning of what it would have become, and no other mixture of the buffers
\* on the way; of ucsdpsys_text as a filter too, however its input arrives, and
\* when that ends with success the output is all there.
CopyIsPrefix == DiskCopyIsPrefix /\ FilterCopies

=============================================================================
