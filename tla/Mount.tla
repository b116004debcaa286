-------------------------------- MODULE Mount --------------------------------
(***************************************************************************)
(* The FUSE daemon: the call-backs, the pointers they keep in the kernel's *)
(* open files, and what the FUSE library does around them.                 *)
(*                                                                         *)
(* The daemon has one thread: a request of the kernel, with the call-backs *)
(* the library makes for it, is one action.  Find treats alike the paths   *)
(* of one class (no case, 15 characters); the library knows a file by the  *)
(* path it was opened with, spelling included.                             *)
(*                                                                         *)
(* Abstractions.  A file is its number of blocks: module Volume has their  *)
(* contents and what becomes of a call that fails or is cut short.  Their  *)
(* order and dates are left out.                                           *)
(***************************************************************************)
EXTENDS Integers, FiniteSetsExt

CONSTANTS
    Paths,      \* what programs call the files
    Hidden,     \* the paths the FUSE library makes up for removed files
    ClassOf,    \* the name that find looks for, for each path
    Objects,    \* addresses of entries of files
    Handles,    \* open files of the kernel
    Root, Null, \* the volume label, which is the entry of "/"; no entry
    Space,      \* blocks of the volume
    MaxEntries  \* maximum_directory_entries()

ASSUME PathAssumption ==
    /\ {Root, Null} \cap (Paths \cup Hidden) = {} /\ Root # Null
    /\ DOMAIN ClassOf = Paths \cup Hidden
\* No program uses the paths that the library makes up, in no spelling.
ASSUME HiddenAssumption == \A p \in Paths, q \in Hidden : ClassOf[p] # ClassOf[q]
\* There is an address for every new entry.
ASSUME EntryAssumption ==
    /\ {Root, Null} \cap Objects = {}
    /\ IsFiniteSet(Handles)
    /\ IsFiniteSet(Objects) /\ Cardinality(Objects) >= MaxEntries + Cardinality(Handles)
ASSUME SizeAssumption == Space \in Nat /\ MaxEntries \in Nat

VARIABLES
    volume,     \* directory::files, and the name and size of every entry
    handle,     \* the open files: their path and their fi->fh
    pointers,   \* copies of pointers on the heap: new less delete
    options,    \* what the daemon was started with; "down": it does not run
    ret,        \* what the last call-back returned
    misnamed,   \* history: handles whose file was named by another path
    died        \* history: the daemon died while files were hidden

vars == <<volume, handle, pointers, options, ret, misnamed, died>>

Classes == {ClassOf[p] : p \in Paths \cup Hidden}
Closed == [path |-> Null, fh |-> Null]
Down == {"down"}

-----------------------------------------------------------------------------
(* The entries of the volume v and their methods.                          *)

Listed(v, o) == o \in v.files

\* Fault: names are compared to their end, not over the 15 stored characters.
FindWhole(v, p) ==
    IF \E o \in v.files : v.name[o] = p
    THEN CHOOSE o \in v.files : v.name[o] = p ELSE Null

Find(v, p) ==
    IF \E o \in v.files : v.name[o] = ClassOf[p]
    THEN CHOOSE o \in v.files : v.name[o] = ClassOf[p] ELSE Null

\* directory::find: "/" is the volume label.
Lookup(v, p) == IF p = Root THEN Root ELSE Find(v, p)

\* Entries live while the list or an open file of hs points at them.
Live(v, hs) == v.files \cup ({hs[h].fh : h \in Handles} \cap Objects)

Collected(v, hs) ==
    [files |-> v.files, name |-> Restrict(v.name, Live(v, hs)),
     blocks |-> Restrict(v.blocks, Live(v, hs))]

Used(v) == MapThenSumSet(LAMBDA o : v.blocks[o], v.files)

Reply(v, r) == [volume |-> v, ret |-> r]

\* What the base class answers for a method that a class does not override.
Default(method) ==
    CASE method \in {"opendir", "names"} -> "ENOTDIR"
      [] method \in {"flush", "release", "fsync", "releasedir", "fsyncdir", "statfs"} -> "ok"
      [] OTHER -> "ENOSYS"

FileOverrides == {"getattr", "unlink", "rename", "chmod", "chown", "open", "truncate",
                  "utime_ns", "read", "write"}
LabelOverrides == {"getattr", "utime_ns", "mknod", "opendir", "names", "releasedir"}

\* The methods that change nothing of a volume that may be written.
Answer(o, method) ==
    IF method \in (IF o = Root THEN LabelOverrides ELSE FileOverrides)
    THEN "ok" ELSE Default(method)

\* Fault: the option "ro" is left to the kernel.
IsReadOnlyFlag == "r" \in options

\* What the daemon may be asked for, as far as it matters here.
CommandLines == SUBSET {"r", "ro"}

\* The option -r, and "ro" among the mount options.
IsReadOnly == options \cap {"r", "ro"} # {}

\* delete_existing_file
DeleteExistingFile(v, o) == [v EXCEPT !.files = @ \ {o}]

Removed(v, o) ==
    IF IsReadOnly THEN Reply(v, "EROFS") ELSE Reply(DeleteExistingFile(v, o), "ok")

\* Fault: rename erases the entry that is renamed and not the one in the way.
RenamedErasesSelf(v, o, q) ==
    LET old == Find(v, q)
    IN IF IsReadOnly THEN Reply(v, "EROFS")
       ELSE IF old = o THEN Reply(v, "EINVAL")
       ELSE Reply([v EXCEPT !.files = IF old = Null THEN @ ELSE @ \ {o},
                            !.name[o] = ClassOf[q]], "ok")

\* rename: an entry found under the new name is erased first.
Renamed(v, o, q) ==
    LET old == Find(v, q)
    IN IF IsReadOnly THEN Reply(v, "EROFS")
       ELSE IF old = o THEN Reply(v, "EINVAL")
       ELSE Reply([(IF old = Null THEN v ELSE DeleteExistingFile(v, old))
                      EXCEPT !.name[o] = ClassOf[q]], "ok")

\* truncate, and write that ends in block n.  The gap after the file is asked
\* for, and with it its place in the directory: an entry no longer there stops
\* the daemon at an assertion.
Sized(v, o, n, grows) ==
    IF IsReadOnly THEN Reply(v, "EROFS")
    ELSE IF ~grows THEN Reply(v, "ok")
    ELSE IF ~Listed(v, o) THEN Reply(v, "abort")
    ELSE IF Used(v) - v.blocks[o] + n > Space THEN Reply(v, "ENOSPC")
    ELSE Reply([v EXCEPT !.blocks[o] = n], "ok")

-----------------------------------------------------------------------------
(* The call-backs that are given a path.                                   *)

\* Fault: the directory always has room.
AlwaysRoom(v) == TRUE

\* has_room_for_new_file
HasRoom(v) == Cardinality(v.files) < MaxEntries

\* add_new_file: an empty file.
AddNewFile(v, name) ==
    LET new == CHOOSE o \in Objects : o \notin Live(v, handle)
        all == DOMAIN v.name \cup {new}
    IN [files |-> v.files \cup {new},
        name |-> [o \in all |-> IF o = new THEN name ELSE v.name[o]],
        blocks |-> [o \in all |-> IF o = new THEN 0 ELSE v.blocks[o]]]

\* mknod of the volume label, once the path is known to be new.
MknodCallback(v, p) ==
    IF Find(v, p) # Null THEN Reply(v, "EEXIST")
    ELSE IF IsReadOnly THEN Reply(v, "EROFS")
    ELSE IF ~HasRoom(v) THEN Reply(v, "ENOSPC")
    ELSE Reply(AddNewFile(v, ClassOf[p]), "ok")

UnlinkCallback(v, p) ==
    IF Find(v, p) = Null THEN Reply(v, "ENOENT") ELSE Removed(v, Find(v, p))

RenameCallback(v, p, q) ==
    IF Find(v, p) = Null THEN Reply(v, "ENOENT") ELSE Renamed(v, Find(v, p), q)

TruncateCallback(v, p, n) ==
    IF Find(v, p) = Null THEN Reply(v, "ENOENT") ELSE Sized(v, Find(v, p), n, TRUE)

GetattrCallback(v, p) == IF Find(v, p) = Null THEN "ENOENT" ELSE "ok"

\* mkdir, symlink and link: the volume label makes files only.
MkdirCallback(v, p) == IF Find(v, p) # Null THEN "EEXIST" ELSE Answer(Root, "mkdir")
SymlinkCallback(v, p) == IF Find(v, p) # Null THEN "EEXIST" ELSE Answer(Root, "symlink")

\* link looks the other file up and then tests the path and not the entry.
LinkCallback(v, p) == IF Find(v, p) # Null THEN "EEXIST" ELSE Answer(Root, "link")

\* rmdir and readlink of a file.
RmdirCallback(v, p) == IF Find(v, p) = Null THEN "ENOENT" ELSE Answer(Find(v, p), "rmdir")
ReadlinkCallback(v, p) ==
    IF Find(v, p) = Null THEN "ENOENT" ELSE Answer(Find(v, p), "readlink")

ChmodCallback(v, p) ==
    IF Find(v, p) = Null THEN {"ENOENT"} ELSE IF IsReadOnly THEN {"EROFS"} ELSE {"ok", "EINVAL"}
ChownCallback(v, p) == ChmodCallback(v, p)
UtimensCallback(v, p) ==
    IF Find(v, p) = Null THEN "ENOENT" ELSE IF IsReadOnly THEN "EROFS" ELSE "ok"
StatfsCallback(v, p) ==
    IF Find(v, p) = Null THEN "ENOENT" ELSE Answer(Find(v, p), "statfs")

\* setxattr, getxattr, listxattr and removexattr.
XattrCallbacks(v, p) ==
    IF Find(v, p) = Null THEN "ENOENT" ELSE Answer(Find(v, p), "setxattr")

\* The answers to the requests that leave the files alone.
Answers(v, p) ==
    {GetattrCallback(v, p), MkdirCallback(v, p), SymlinkCallback(v, p),
     LinkCallback(v, p), RmdirCallback(v, p), ReadlinkCallback(v, p),
     UtimensCallback(v, p), StatfsCallback(v, p), XattrCallbacks(v, p)}
        \cup ChmodCallback(v, p) \cup ChownCallback(v, p)

-----------------------------------------------------------------------------
(* The call-backs that are given an open file.                             *)

IsOpen(h) == handle[h].path # Null

\* The entry a call-back works on: the one fi->fh points at, else the one of
\* the path.
Through(h) ==
    IF handle[h].fh # Null THEN handle[h].fh ELSE Lookup(volume, handle[h].path)

OpenCallback(h, p) ==
    LET o == Lookup(volume, p)
    IN IF o = Null
       THEN ret' = "ENOENT" /\ UNCHANGED <<handle, pointers>>
       ELSE /\ handle' = [handle EXCEPT ![h] = [path |-> p, fh |-> o]]
            /\ pointers' = pointers + 1
            /\ ret' = "ok"

\* A file opened as a directory: the kernel does not ask for it.
OpendirCallback(h) == OpenCallback(h, Root)

\* read, readdir, flush, fsync and fsyncdir.
ReadCallback(h) == IF Through(h) = Null THEN "ENOENT" ELSE "ok"
ReaddirCallback(h) ==
    IF Through(h) = Null THEN "ENOENT" ELSE Answer(Through(h), "names")
FlushCallback(h) ==
    IF Through(h) = Null THEN "ENOENT" ELSE Answer(Through(h), "flush")
FsyncCallback(h) ==
    IF Through(h) = Null THEN "ENOENT" ELSE Answer(Through(h), "fsync")
FsyncdirCallback(h) ==
    IF Through(h) = Null THEN "ENOENT" ELSE Answer(Through(h), "fsyncdir")

WriteCallback(h, n) ==
    IF Through(h) = Null THEN Reply(volume, "ENOENT")
    ELSE Sized(volume, Through(h), n, n > volume.blocks[Through(h)])

\* Fault: release leaves the pointer on the heap.
ReleaseLeaks(h) ==
    /\ handle' = [handle EXCEPT ![h] = Closed]
    /\ UNCHANGED pointers

ReleaseCallback(h) ==
    /\ handle' = [handle EXCEPT ![h] = Closed]
    /\ pointers' = pointers - (IF handle[h].fh = Null THEN 0 ELSE 1)

ReleasedirCallback(h) == ReleaseCallback(h)

-----------------------------------------------------------------------------
(* The FUSE library and the kernel, for programs that name files by path.  *)

Running == options # Down

\* Handles of a file that is named by a path other than theirs.
Misnamed(p) ==
    {h \in Handles : IsOpen(h) /\ handle[h].fh = Find(volume, p) /\ handle[h].path # p}

\* The open files of path p are now known by path q.
Moved(p, q) ==
    [h \in Handles |-> IF handle[h].path = p THEN [handle[h] EXCEPT !.path = q]
                       ELSE handle[h]]

OpenAt(p) == \E h \in Handles : handle[h].path = p

\* hide_node: an open file that is to go is renamed to a made-up path, unless
\* the volume has a file that find takes for it.
HideNode(p, q) ==
    IF Find(volume, q) # Null THEN Reply(volume, "EBUSY") ELSE RenameCallback(volume, p, q)

\* open, with O_CREAT when there is no such file.
OpenFile(h, p) ==
    /\ Running /\ ~IsOpen(h)
    /\ Find(volume, p) # Null
    /\ OpenCallback(h, p)
    /\ misnamed' = (misnamed \ {h}) \cup
                   (IF Misnamed(p) = {} THEN {} ELSE {h} \cup Misnamed(p))
    /\ UNCHANGED <<volume, options, died>>

OpenDirectory(h) ==
    /\ Running /\ ~IsOpen(h)
    /\ OpendirCallback(h)
    /\ misnamed' = misnamed \ {h}
    /\ UNCHANGED <<volume, options, died>>

\* What programs may do without changing a file.
Inquire ==
    /\ Running
    /\ \/ \E p \in Paths : ret' \in Answers(volume, p)
       \/ \E h \in Handles :
            /\ IsOpen(h)
            /\ ret' \in IF handle[h].fh = Root
                        THEN {ReaddirCallback(h), FsyncdirCallback(h)}
                        ELSE {ReadCallback(h), FlushCallback(h), FsyncCallback(h)}
    /\ UNCHANGED <<volume, handle, pointers, options, misnamed, died>>

\* The outcome of a call-back that may change the files.  An assertion that
\* fails ends the daemon.
Outcome(r) ==
    /\ ret' = r.ret
    /\ IF r.ret = "abort"
       THEN /\ handle' = [h \in Handles |-> Closed]
            /\ pointers' = 0
            /\ options' = Down
            /\ died' = (died \/ \E h \in Handles : handle[h].path \in Hidden)
       ELSE UNCHANGED <<handle, pointers, options, died>>
    /\ volume' = Collected(r.volume, handle')

Create(p) ==
    /\ Running /\ Find(volume, p) = Null
    /\ Outcome(MknodCallback(volume, p))
    /\ UNCHANGED misnamed

Truncate(p, n) ==
    /\ Running /\ Find(volume, p) # Null
    /\ Outcome(TruncateCallback(volume, p, n))
    /\ misnamed' = misnamed \cup Misnamed(p)

WriteFile(h, n) ==
    /\ Running /\ IsOpen(h) /\ handle[h].fh # Root
    /\ Outcome(WriteCallback(h, n))
    /\ UNCHANGED misnamed

\* unlink: hidden while it is open, else removed at once.
RemoveFile(p) ==
    /\ Running /\ Find(volume, p) # Null
    /\ misnamed' = misnamed \cup Misnamed(p)
    /\ \/ /\ ~OpenAt(p)
          /\ Outcome(UnlinkCallback(volume, p))
       \/ /\ OpenAt(p)
          /\ \E q \in {q \in Hidden : ~OpenAt(q)} :
               LET r == HideNode(p, q)
               IN /\ volume' = r.volume
                  /\ ret' = r.ret
                  /\ handle' = IF r.ret = "ok" THEN Moved(p, q) ELSE handle
          /\ UNCHANGED <<pointers, options, died>>

\* rename: a file in the way is hidden first if it is open.
Rename(p, q) ==
    /\ Running /\ Find(volume, p) # Null /\ p # q
    /\ misnamed' = misnamed \cup Misnamed(p) \cup Misnamed(q)
    /\ \E hidden \in {x \in Hidden : ~OpenAt(x)} :
         LET way == IF OpenAt(q) THEN HideNode(q, hidden) ELSE Reply(volume, "ok")
             r == IF way.ret = "ok" THEN RenameCallback(way.volume, p, q) ELSE way
         IN /\ ret' = r.ret
            /\ handle' = [h \in Handles |->
                  IF way.ret = "ok" /\ handle[h].path = q THEN [handle[h] EXCEPT !.path = hidden]
                  ELSE IF r.ret = "ok" /\ handle[h].path = p THEN [handle[h] EXCEPT !.path = q]
                  ELSE handle[h]]
            /\ volume' = Collected(r.volume, handle')
    /\ UNCHANGED <<pointers, options, died>>

\* The last close of a hidden file removes it.
Close(h) ==
    /\ Running /\ IsOpen(h)
    /\ IF handle[h].fh = Root THEN ReleasedirCallback(h) ELSE ReleaseCallback(h)
    /\ LET p == handle[h].path
           last == p \in Hidden /\ \A g \in Handles \ {h} : handle[g].path # p
           r == IF last THEN UnlinkCallback(volume, p) ELSE Reply(volume, "ok")
       IN volume' = Collected(r.volume, handle') /\ ret' = r.ret
    /\ misnamed' = misnamed \ {h}
    /\ UNCHANGED <<options, died>>

-----------------------------------------------------------------------------
(* The daemon starts with the options it is given, and ends.               *)

Start(o) ==
    /\ ~Running
    /\ options' = o
    /\ ret' = "ok"
    /\ UNCHANGED <<volume, handle, pointers, misnamed, died>>

\* umount waits until no file is open.
Unmount ==
    /\ Running /\ \A h \in Handles : ~IsOpen(h)
    /\ options' = Down
    /\ UNCHANGED <<volume, handle, pointers, ret, misnamed, died>>

Killed ==
    /\ Running
    /\ handle' = [h \in Handles |-> Closed]
    /\ volume' = Collected(volume, handle')
    /\ pointers' = 0
    /\ options' = Down
    /\ misnamed' = {}
    /\ died' = (died \/ \E h \in Handles : handle[h].path \in Hidden)
    /\ UNCHANGED ret

Init ==
    /\ volume = [files |-> {}, name |-> <<>>, blocks |-> <<>>]
    /\ handle = [h \in Handles |-> Closed]
    /\ pointers = 0
    /\ options = Down
    /\ ret = "ok"
    /\ misnamed = {}
    /\ died = FALSE

Next ==
    \/ Inquire \/ Unmount \/ Killed
    \/ \E o \in CommandLines : Start(o)
    \/ \E h \in Handles : OpenDirectory(h) \/ Close(h)
    \/ \E h \in Handles, p \in Paths : OpenFile(h, p)
    \/ \E h \in Handles, n \in 1 .. Space : WriteFile(h, n)
    \/ \E p \in Paths : Create(p) \/ RemoveFile(p)
    \/ \E p \in Paths, n \in 0 .. Space : Truncate(p, n)
    \/ \E p, q \in Paths : Rename(p, q)

Spec == Init /\ [][Next]_vars

-----------------------------------------------------------------------------
TypeOK ==
    /\ volume = [files |-> volume.files, name |-> volume.name, blocks |-> volume.blocks]
    /\ volume.files \subseteq Objects /\ Cardinality(volume.files) <= MaxEntries
    /\ volume.name \in [Live(volume, handle) -> Classes]
    /\ volume.blocks \in [Live(volume, handle) -> 0 .. Space]
    /\ handle \in [Handles -> [path : Paths \cup Hidden \cup {Root, Null},
                               fh : Objects \cup {Root, Null}]]
    /\ options \in CommandLines \cup {Down}
    /\ misnamed \subseteq Handles /\ died \in BOOLEAN

\* An open file is still an entry of the directory, so that what is written to
\* it goes to blocks that are its own (write_callback uses fi->fh and never
\* looks the path up again).  Only a file that was also named by another path,
\* in other case, can go while it is open: the FUSE library does not know the
\* two paths for one file.
OpenFilesListed ==
    \A h \in Handles : IsOpen(h) =>
        handle[h].fh = Root \/ Listed(volume, handle[h].fh) \/ h \in misnamed

\* The pointers on the heap are those of the open files: release frees each
\* once, and no other call-back loses one.
PointersOwned == pointers = Cardinality({h \in Handles : IsOpen(h)})

\* A removed file that was kept under a made-up name while it was open goes
\* with its last close; only the death of the daemon leaves one behind.
HiddenOnlyWhileOpen ==
    \A o \in volume.files :
        volume.name[o] \in {ClassOf[q] : q \in Hidden} =>
            died \/ \E h \in Handles : handle[h].path \in Hidden

\* Neither way to ask for a read-only mount lets a call-back change a file.
ReadOnlyMount == [][options \cap {"r", "ro"} # {} => volume' = volume]_vars

\* "assert(idx != (size_t)(-1))" (directory.cc:408, 470): a file that grows is
\* in the directory.
GrowingFileListed == ret # "abort"
=============================================================================
