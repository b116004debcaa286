------------------------------ MODULE MkfsTool -------------------------------
(***************************************************************************)
(* ucsdpsys_mkfs: the size and the machine a volume is made for, then the  *)
(* image in three steps: zeroed, labelled, and the boot blocks.            *)
(*                                                                         *)
(* A size is a number and the letters after it, a machine a name or <<>>   *)
(* for none.  The volume has one directory.                                *)
(***************************************************************************)
EXTENDS Programs

MaxDiskSizeKB == 16380

Machines ==
    [m6502 |-> {"6502", "65c02", "65c02s", "65c02s-wdc", "apple", "klebsch"},
     m6800 |-> {"6800", "6809"},
     m8080 |-> {"8080", "8085"},
     ga440 |-> {"ga-16", "ga-16/440", "ga-440"},
     pdp11 |-> {"lsi-11", "pdp-11", "terak"},
     pcode_be |-> {"p-code be", "p-code-be"},
     pcode_le |-> {"p-code le", "p-code-le"},
     ti9900 |-> {"ti-99-4", "ti-99/4", "ti-990", "ti-9900", "ti9900", "tms9900"},
     z80 |-> {"z-80", "z80", "zilog-z80"}]

Mtype(name) ==
    IF \E t \in DOMAIN Machines : name \in Machines[t]
    THEN CHOOSE t \in DOMAIN Machines : name \in Machines[t] ELSE "undefined"

ByteSex(mtype) ==
    IF mtype \in {"pcode_be", "ga440", "m6800", "ti9900"} THEN "BE" ELSE "LE"

\* parse_size: kilobytes, a part of one counted as a whole; -1 is "yuck".
CeilKB(bytes) == (bytes + 1023) \div 1024
ParseSize(size) ==
    LET n == size[1]
        letters == size[2]
    IN CASE letters \in {"", "k", "kb", "kib"} -> n
         [] letters = "b" -> CeilKB(n)
         [] letters \in {"m", "mb", "mib"} -> 1024 * n
         [] letters \in {"g", "gb", "gib"} -> 1024 * 1024 * n
         [] OTHER -> -1

DefaultSize(mtype) ==
    CASE mtype \in {"undefined", "m6502"} -> 140
      [] mtype = "pdp11" -> 800
      [] OTHER -> 256

\* Fault: a size beyond the largest is not refused.
SizeUnbounded(kb) == kb % 4 = 0 /\ kb >= 4

SizeAllowed(kb) == kb % 4 = 0 /\ kb >= 4 /\ kb <= MaxDiskSizeKB

Mkfs == Running("mkfs")

MkfsMtype == IF run.command.machine = "" THEN "undefined" ELSE Mtype(run.command.machine)
MkfsSize ==
    IF run.command.size = <<>> THEN DefaultSize(MkfsMtype)
    ELSE ParseSize(run.command.size)

StartMkfs(c) ==
    /\ Idle /\ ran < MaxRuns
    /\ ran' = ran + 1
    /\ c.program = "mkfs"
    /\ run' = [NewRun(c) EXCEPT !.phase = "options"]
    /\ UNCHANGED <<files, image, memory>>

\* A name that is no machine is at best a suggestion in the message.
BadOption ==
    /\ Mkfs /\ run.phase = "options"
    /\ \/ run.command.machine # "" /\ MkfsMtype = "undefined"
       \/ ~SizeAllowed(MkfsSize)
    /\ Dies

\* zero_whole_volume: an image that was there is gone.
ZeroWholeVolume ==
    /\ Mkfs /\ run.phase = "options"
    /\ run.command.machine # "" => MkfsMtype # "undefined"
    /\ SizeAllowed(MkfsSize)
    /\ image' = [formatted |-> FALSE, sex |-> "LE", blocks |-> 2 * MkfsSize,
                 entries |-> <<>>, boot |-> Times(Page, NUL)]
    /\ run' = [run EXCEPT !.phase = "zeroed"]
    /\ UNCHANGED <<files, memory, ran>>

\* mkfs and meta_sync
WriteLabel ==
    /\ Mkfs /\ run.phase = "zeroed"
    /\ image' = [image EXCEPT !.formatted = TRUE, !.sex = ByteSex(MkfsMtype)]
    /\ run' = [run EXCEPT !.phase = "labelled"]
    /\ UNCHANGED <<files, memory, ran>>

\* set_boot_blocks, if a file was given.
MkfsBoot ==
    /\ Mkfs /\ run.phase = "labelled"
    /\ LET boot == run.command.boot
       IN IF boot = <<>> THEN Ends("ok") /\ UNCHANGED <<image, memory>>
          ELSE IF Exists(Head(boot))
          THEN /\ image' = [image EXCEPT !.boot =
                               LET read == Take(files[Head(boot)].data, Page)
                               IN read \o Times(Page - Len(read), NUL)]
               /\ Ends("ok")
               /\ UNCHANGED memory
          ELSE Ends("failed") /\ memory' = <<>> /\ UNCHANGED image
    /\ UNCHANGED <<files, ran>>

MkfsNext ==
    \/ \E c \in Commands : StartMkfs(c)
    \/ BadOption \/ ZeroWholeVolume \/ WriteLabel \/ MkfsBoot

=============================================================================
