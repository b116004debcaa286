----------------------------- MODULE MountProofs -----------------------------
(***************************************************************************)
(* Theorems about Mount, for any paths, any spellings of them, any number  *)
(* of open files and any options.                                          *)
(***************************************************************************)
EXTENDS Mount, FiniteSetTheorems, TLAPS

\* A handle is closed or has a path and a pointer; only "/" leads to the label.
HandlesInv ==
    \A h \in Handles :
        \/ handle[h] = Closed
        \/ handle[h] = [path |-> Root, fh |-> Root]
        \/ handle[h].path \in Paths \cup Hidden /\ handle[h].fh \in Objects

\* What follows is said of a volume v, handles hs and misnamed handles mis, for
\* a request of the kernel is more than one change of them.

\* No two entries have a name in common.
NamesDiffer(v) ==
    \A o1, o2 \in v.files : v.name[o1] = v.name[o2] => o1 = o2

\* A file that was named by one path only is in the directory under that name.
Owned(v, hs, mis) ==
    \A h \in Handles \ mis :
        hs[h].fh \in Objects =>
            Listed(v, hs[h].fh) /\ v.name[hs[h].fh] = ClassOf[hs[h].path]

OnePath(hs, mis) ==
    \A g, h \in Handles \ mis :
        hs[g].fh = hs[h].fh /\ hs[g].fh \in Objects => hs[g].path = hs[h].path

\* The library takes a made-up path only while the volume has no such file, and
\* the file stays until the last handle with that path is closed.
HiddenListed(v, hs) ==
    \A h \in Handles :
        hs[h].path \in Hidden => \E o \in v.files : v.name[o] = ClassOf[hs[h].path]

OneHidden(hs) ==
    \A g, h \in Handles :
        /\ hs[g].path \in Hidden /\ hs[h].path \in Hidden
        /\ ClassOf[hs[g].path] = ClassOf[hs[h].path]
        => hs[g].path = hs[h].path

HiddenOpen(v, hs, dead) ==
    \A o \in v.files, q \in Hidden :
        v.name[o] = ClassOf[q] =>
            \/ dead
            \/ \E h \in Handles : hs[h].path \in Hidden /\ v.name[o] = ClassOf[hs[h].path]

Names(v, hs, mis, dead) ==
    /\ NamesDiffer(v) /\ Owned(v, hs, mis) /\ OnePath(hs, mis)
    /\ HiddenListed(v, hs) /\ OneHidden(hs) /\ HiddenOpen(v, hs, dead)

NamesInv == Names(volume, handle, misnamed, died)

\* What no longer is in the directory is gone when the daemon starts, and a
\* read-only mount removes and hides nothing.
DownInv == options = Down => handle = [h \in Handles |-> Closed] /\ pointers = 0

ReadOnlyInv ==
    options \cap {"r", "ro"} # {} =>
        /\ Live(volume, handle) = volume.files
        /\ \A h \in Handles : handle[h].path \notin Hidden

MountInv ==
    TypeOK /\ HandlesInv /\ DownInv /\ PointersOwned /\ NamesInv /\ ReadOnlyInv

-----------------------------------------------------------------------------
(* The volume.  VolumeOK is what TypeOK says of it; between a call-back and *)
(* the end of a request there may be entries nobody points at any more.     *)

VolumeOK(v, hs) ==
    /\ v = [files |-> v.files, name |-> v.name, blocks |-> v.blocks]
    /\ v.files \subseteq Objects /\ Cardinality(v.files) <= MaxEntries
    /\ v.name \in [Live(v, hs) -> Classes]
    /\ v.blocks \in [Live(v, hs) -> 0 .. Space]

Uncollected(v, hs) ==
    /\ v = [files |-> v.files, name |-> v.name, blocks |-> v.blocks]
    /\ v.files \subseteq Objects /\ Cardinality(v.files) <= MaxEntries
    /\ v.name \in [DOMAIN v.name -> Classes]
    /\ v.blocks \in [DOMAIN v.name -> 0 .. Space]
    /\ Live(v, hs) \subseteq DOMAIN v.name

LEMMA OKUncollected ==
    ASSUME NEW v, NEW hs, VolumeOK(v, hs)
    PROVE  Uncollected(v, hs)
BY DEF VolumeOK, Uncollected

\* Collected drops entries and changes none of the others.
LEMMA Collecting ==
    ASSUME NEW v, NEW hs, Uncollected(v, hs)
    PROVE  /\ VolumeOK(Collected(v, hs), hs)
           /\ Collected(v, hs).files = v.files
           /\ \A o \in Live(v, hs) : Collected(v, hs).name[o] = v.name[o]
<1> DEFINE L == Live(v, hs)
           w == Collected(v, hs)
<1>1. /\ w = [files |-> w.files, name |-> w.name, blocks |-> w.blocks]
      /\ w.files = v.files
      /\ w.name = [o \in L |-> v.name[o]]
      /\ w.blocks = [o \in L |-> v.blocks[o]]
  BY DEF Collected, Restrict
<1>2. Live(w, hs) = L
  BY <1>1 DEF Live
<1>3. /\ [o \in L |-> v.name[o]] \in [L -> Classes]
      /\ [o \in L |-> v.blocks[o]] \in [L -> 0 .. Space]
  BY DEF Uncollected
<1> QED
  BY <1>1, <1>2, <1>3 DEF VolumeOK, Uncollected

\* Nothing is dropped when every entry is pointed at.
LEMMA CollectingNothing ==
    ASSUME NEW v, NEW hs, VolumeOK(v, hs)
    PROVE  Collected(v, hs) = v
<1>1. Restrict(v.name, Live(v, hs)) = v.name /\ Restrict(v.blocks, Live(v, hs)) = v.blocks
  BY DEF Restrict, VolumeOK
<1> QED
  BY <1>1 DEF Collected, VolumeOK

\* Find returns the entry of that name, if there is one.
LEMMA FindNamed ==
    ASSUME NEW v, NEW p, v.files \subseteq Objects
    PROVE  /\ Find(v, p) # Null =>
                 Find(v, p) \in v.files /\ v.name[Find(v, p)] = ClassOf[p]
           /\ Find(v, p) = Null => \A o \in v.files : v.name[o] # ClassOf[p]
BY EntryAssumption DEF Find

-----------------------------------------------------------------------------
(* What the call-backs do to the volume.                                    *)

LEMMA SizedVolume ==
    ASSUME NEW v, NEW hs, NEW o, NEW n \in 0 .. Space, NEW grows \in BOOLEAN,
           VolumeOK(v, hs), o \in Live(v, hs)
    PROVE  LET r == Sized(v, o, n, grows)
           IN /\ VolumeOK(r.volume, hs)
              /\ r.volume.files = v.files /\ r.volume.name = v.name
              /\ IsReadOnly => r.volume = v
              /\ r.ret = "abort" => r.volume = v /\ o \notin v.files
<1> DEFINE r == Sized(v, o, n, grows)
           w == [v EXCEPT !.blocks[o] = n]
<1>1. /\ w = [files |-> w.files, name |-> w.name, blocks |-> w.blocks]
      /\ w.files = v.files /\ w.name = v.name
      /\ w.blocks = [v.blocks EXCEPT ![o] = n]
  BY DEF VolumeOK
<1>2. Live(w, hs) = Live(v, hs)
  BY <1>1 DEF Live
<1>3. VolumeOK(w, hs)
  <2> HIDE DEF w
  <2> QED BY <1>1, <1>2 DEF VolumeOK
<1>4. /\ r.volume = v \/ (~IsReadOnly /\ r.volume = w)
      /\ r.ret = "abort" => r.volume = v /\ o \notin v.files
  <2>1. r = IF IsReadOnly THEN Reply(v, "EROFS")
            ELSE IF ~grows THEN Reply(v, "ok")
            ELSE IF ~Listed(v, o) THEN Reply(v, "abort")
            ELSE IF Used(v) - v.blocks[o] + n > Space THEN Reply(v, "ENOSPC")
            ELSE Reply(w, "ok")
    BY DEF Sized
  <2> HIDE DEF r, w
  <2> QED BY <2>1 DEF Reply, Listed
<1> HIDE DEF w
<1> QED
  BY <1>1, <1>3, <1>4

LEMMA RemovedVolume ==
    ASSUME NEW v, NEW hs, NEW o \in v.files, Uncollected(v, hs)
    PROVE  LET r == Removed(v, o)
           IN /\ IsReadOnly => r = [volume |-> v, ret |-> "EROFS"]
              /\ ~IsReadOnly =>
                    /\ r.ret = "ok"
                    /\ r.volume.files = v.files \ {o} /\ r.volume.name = v.name
              /\ Uncollected(r.volume, hs)
<1> DEFINE w == DeleteExistingFile(v, o)
<1>1. /\ w = [files |-> w.files, name |-> w.name, blocks |-> w.blocks]
      /\ w.files = v.files \ {o} /\ w.name = v.name /\ w.blocks = v.blocks
  <2>1. v = [files |-> v.files, name |-> v.name, blocks |-> v.blocks]
    BY DEF Uncollected
  <2>2. w = [v EXCEPT !.files = v.files \ {o}]
    BY DEF DeleteExistingFile
  <2> HIDE DEF w
  <2> QED BY <2>1, <2>2
<1>2. Live(w, hs) \subseteq Live(v, hs)
  BY <1>1 DEF Live
<1>3. IsFiniteSet(v.files) /\ Cardinality(w.files) <= Cardinality(v.files)
  BY <1>1, EntryAssumption, FS_Subset DEF Uncollected
<1>4. Cardinality(w.files) \in Nat /\ Cardinality(v.files) \in Nat
  BY <1>1, <1>3, EntryAssumption, FS_Subset, FS_CardinalityType DEF Uncollected
<1>5. Uncollected(w, hs)
  BY <1>1, <1>2, <1>3, <1>4, SizeAssumption DEF Uncollected
<1> QED
  BY <1>1, <1>5 DEF Removed, Reply

LEMMA RenamedVolume ==
    ASSUME NEW v, NEW hs, NEW o \in v.files, NEW q \in Paths \cup Hidden, Uncollected(v, hs)
    PROVE  LET r == Renamed(v, o, q)
           IN /\ r.ret \in {"ok", "EROFS", "EINVAL"}
              /\ r.ret = "ok" =>
                    /\ ~IsReadOnly /\ Find(v, q) # o
                    /\ r.volume.files = v.files \ {Find(v, q)}
                    /\ r.volume.name = [v.name EXCEPT ![o] = ClassOf[q]]
              /\ r.ret # "ok" => r.volume = v
              /\ Uncollected(r.volume, hs)
<1> DEFINE r == Renamed(v, o, q)
           old == Find(v, q)
           u == IF old = Null THEN v ELSE DeleteExistingFile(v, old)
           w == [u EXCEPT !.name[o] = ClassOf[q]]
<1>1. /\ u = [files |-> u.files, name |-> u.name, blocks |-> u.blocks]
      /\ u.files = v.files \ {old} /\ u.name = v.name /\ u.blocks = v.blocks
  BY EntryAssumption DEF DeleteExistingFile, Uncollected
<1>2. /\ w = [files |-> w.files, name |-> w.name, blocks |-> w.blocks]
      /\ w.files = u.files /\ w.blocks = u.blocks
      /\ w.name = [u.name EXCEPT ![o] = ClassOf[q]]
  <2> HIDE DEF u
  <2> QED BY <1>1
<1> HIDE DEF u, w
<1>3. Live(w, hs) \subseteq Live(v, hs)
  BY <1>1, <1>2 DEF Live
<1>4. IsFiniteSet(v.files) /\ Cardinality(w.files) <= Cardinality(v.files)
  BY <1>1, <1>2, EntryAssumption, FS_Subset DEF Uncollected
<1>5. Cardinality(w.files) \in Nat /\ Cardinality(v.files) \in Nat
  BY <1>1, <1>2, <1>4, EntryAssumption, FS_Subset, FS_CardinalityType DEF Uncollected
<1>6. ClassOf[q] \in Classes
  BY DEF Classes
<1>7. Uncollected(w, hs)
  <2>1. w.name \in [DOMAIN w.name -> Classes] /\ DOMAIN w.name = DOMAIN v.name
    BY <1>1, <1>2, <1>6 DEF Uncollected
  <2>2. w.blocks \in [DOMAIN w.name -> 0 .. Space]
    BY <1>1, <1>2, <2>1 DEF Uncollected
  <2>3. Cardinality(w.files) <= MaxEntries
    BY <1>4, <1>5, SizeAssumption DEF Uncollected
  <2> QED
    BY <1>1, <1>2, <1>3, <2>1, <2>2, <2>3 DEF Uncollected
<1>8. \/ r.ret \in {"EROFS", "EINVAL"} /\ r.volume = v
      \/ ~IsReadOnly /\ old # o /\ r.ret = "ok" /\ r.volume = w
  BY DEF Renamed, Reply, u, w
<1> QED
  BY <1>1, <1>2, <1>7, <1>8

\* A new entry gets an address nobody points at.
LEMMA NewAddress ==
    ASSUME NEW v, NEW hs, VolumeOK(v, hs), HasRoom(v)
    PROVE  \E o \in Objects : o \notin Live(v, hs)
<1> DEFINE pointing == {hs[h].fh : h \in Handles} \cap Objects
<1>1. /\ IsFiniteSet(v.files) /\ Cardinality(v.files) \in Nat
      /\ Cardinality(v.files) < MaxEntries
  BY EntryAssumption, FS_Subset, FS_CardinalityType DEF VolumeOK, HasRoom
<1>2. /\ IsFiniteSet({hs[h].fh : h \in Handles})
      /\ Cardinality({hs[h].fh : h \in Handles}) <= Cardinality(Handles)
  <2> DEFINE f == [h \in Handles |-> hs[h].fh]
             T == {hs[h].fh : h \in Handles}
  <2>1. f \in Surjection(Handles, T)
    BY DEF Surjection
  <2> QED BY <2>1, EntryAssumption, FS_Surjection
<1>3. /\ IsFiniteSet(pointing) /\ Cardinality(pointing) \in Nat
      /\ Cardinality(pointing) <= Cardinality(Handles) /\ Cardinality(Handles) \in Nat
  BY <1>2, EntryAssumption, FS_Subset, FS_CardinalityType
<1>4. /\ IsFiniteSet(Live(v, hs)) /\ Cardinality(Live(v, hs)) \in Nat
      /\ Cardinality(Live(v, hs)) <= Cardinality(v.files) + Cardinality(pointing)
  <2>1. Live(v, hs) = v.files \cup pointing
    BY DEF Live
  <2> HIDE DEF pointing
  <2>2. /\ IsFiniteSet(v.files \cup pointing)
        /\ Cardinality(v.files \cup pointing) =
              Cardinality(v.files) + Cardinality(pointing) - Cardinality(v.files \cap pointing)
    BY <1>1, <1>3, FS_Union
  <2>3. Cardinality(v.files \cap pointing) \in Nat
    BY <1>1, FS_Intersection, FS_CardinalityType
  <2> QED BY <1>1, <1>3, <2>1, <2>2, <2>3, FS_CardinalityType
<1>5. Live(v, hs) \subseteq Objects
  BY DEF Live, VolumeOK
<1>6. Live(v, hs) # Objects
  BY <1>1, <1>3, <1>4, EntryAssumption, SizeAssumption, FS_CardinalityType
<1> QED
  BY <1>5, <1>6

-----------------------------------------------------------------------------
(* The initial state, and steps that change no name and no handle.          *)

HandleType == [path : Paths \cup Hidden \cup {Root, Null}, fh : Objects \cup {Root, Null}]

OthersOK == options \in CommandLines \cup {Down} /\ misnamed \subseteq Handles /\ died \in BOOLEAN

LEMMA TypeParts ==
    TypeOK <=> VolumeOK(volume, handle) /\ handle \in [Handles -> HandleType] /\ OthersOK
BY DEF TypeOK, VolumeOK, HandleType, OthersOK

LEMMA NobodyOpen ==
    ASSUME NEW hs, \A h \in Handles : hs[h].path = Null
    PROVE  Cardinality({h \in Handles : hs[h].path # Null}) = 0
<1>1. {h \in Handles : hs[h].path # Null} = {}
  OBVIOUS
<1> QED BY <1>1, FS_EmptySet

LEMMA InitInv == Init => MountInv
<1> SUFFICES ASSUME Init PROVE MountInv
  OBVIOUS
<1>1. \A h \in Handles : handle[h] = Closed /\ handle[h].path = Null /\ handle[h].fh = Null
  BY DEF Init, Closed
<1>2. Live(volume, handle) = {} /\ volume.files = {}
  BY <1>1, EntryAssumption DEF Init, Live
<1>3. VolumeOK(volume, handle)
  BY <1>2, FS_EmptySet, SizeAssumption DEF Init, VolumeOK
<1>4. handle \in [Handles -> HandleType]
  BY DEF Init, Closed, HandleType
<1>5. OthersOK
  BY DEF Init, OthersOK
<1>6. HandlesInv /\ NamesInv
  BY <1>1, <1>2, PathAssumption, EntryAssumption
     DEF HandlesInv, NamesInv, Names, NamesDiffer, Owned, OnePath, HiddenListed, OneHidden,
         HiddenOpen
<1>7. PointersOwned
  BY <1>1, NobodyOpen DEF PointersOwned, IsOpen, Init
<1>8. DownInv /\ ReadOnlyInv
  BY <1>1, <1>2, PathAssumption DEF DownInv, ReadOnlyInv, Init, Down
<1> QED BY <1>3, <1>4, <1>5, <1>6, <1>7, <1>8, TypeParts DEF MountInv

LEMMA NamesKept ==
    ASSUME NamesInv, volume'.files = volume.files,
           \A o \in volume.files : volume'.name[o] = volume.name[o],
           handle' = handle, misnamed \subseteq misnamed', died' = died
    PROVE  NamesInv'
<1>1. NamesDiffer(volume)' /\ OnePath(handle, misnamed)' /\ OneHidden(handle)'
  BY DEF NamesInv, Names, NamesDiffer, OnePath, OneHidden
<1>2. Owned(volume, handle, misnamed)'
  BY DEF NamesInv, Names, Owned, Listed
<1>3. HiddenListed(volume, handle)' /\ HiddenOpen(volume, handle, died)'
  BY DEF NamesInv, Names, HiddenListed, HiddenOpen
<1> QED BY <1>1, <1>2, <1>3 DEF NamesInv, Names

\* A step that changes ret only, a start, an end, or the list of misnamed handles.
LEMMA NothingChanged ==
    ASSUME MountInv, UNCHANGED <<volume, handle, pointers, options, died>>,
           misnamed \subseteq misnamed', misnamed' \subseteq Handles
    PROVE  MountInv'
<1>1. TypeOK'
  BY TypeParts DEF MountInv, TypeOK
<1>2. HandlesInv' /\ DownInv' /\ ReadOnlyInv'
  BY DEF MountInv, HandlesInv, DownInv, ReadOnlyInv, Live
<1>3. PointersOwned'
  BY DEF MountInv, PointersOwned, IsOpen
<1>4. NamesInv'
  BY NamesKept DEF MountInv
<1> QED BY <1>1, <1>2, <1>3, <1>4 DEF MountInv

LEMMA InquireStep == MountInv /\ Inquire => MountInv'
BY NothingChanged DEF MountInv, TypeOK, Inquire

LEMMA StartStep == ASSUME MountInv, NEW o \in CommandLines, Start(o) PROVE MountInv'
<1>1. \A h \in Handles : handle[h] = Closed /\ handle[h].path = Null /\ handle[h].fh = Null
  BY DEF MountInv, DownInv, Start, Running, Closed
<1>2. Live(volume, handle) = volume.files
  BY <1>1, EntryAssumption DEF Live
<1>3. TypeOK'
  BY DEF MountInv, TypeOK, Start
<1>4. HandlesInv'
  BY DEF MountInv, HandlesInv, Start
<1>5. DownInv' /\ PointersOwned'
  BY DEF MountInv, DownInv, PointersOwned, IsOpen, Start, Running
<1>6. ReadOnlyInv'
  BY <1>1, <1>2, PathAssumption DEF ReadOnlyInv, Start, Live
<1>7. NamesInv'
  BY NamesKept DEF MountInv, Start
<1> QED BY <1>3, <1>4, <1>5, <1>6, <1>7 DEF MountInv

LEMMA UnmountStep == MountInv /\ Unmount => MountInv'
<1> SUFFICES ASSUME MountInv, Unmount PROVE MountInv'
  OBVIOUS
<1>1. \A h \in Handles : handle[h] = Closed
  BY PathAssumption DEF MountInv, HandlesInv, Unmount, IsOpen
<1>2. handle = [h \in Handles |-> Closed]
  BY <1>1 DEF MountInv, TypeOK
<1>3. pointers = 0
  BY NobodyOpen DEF MountInv, PointersOwned, IsOpen, Unmount
<1>4. TypeOK' /\ HandlesInv' /\ DownInv'
  BY <1>2, <1>3 DEF MountInv, TypeOK, HandlesInv, DownInv, Unmount
<1>5. PointersOwned' /\ ReadOnlyInv'
  BY DEF MountInv, PointersOwned, IsOpen, ReadOnlyInv, Unmount, Down
<1>6. NamesInv'
  BY NamesKept DEF MountInv, Unmount
<1> QED BY <1>4, <1>5, <1>6 DEF MountInv

\* The daemon dies: whatever it had open is forgotten.
LEMMA DeathStep ==
    ASSUME MountInv, handle' = [h \in Handles |-> Closed], pointers' = 0, options' = Down,
           volume' = Collected(volume, handle'), misnamed' \subseteq Handles,
           died' = (died \/ \E h \in Handles : handle[h].path \in Hidden)
    PROVE  MountInv'
<1>1. \A h \in Handles : handle'[h] = Closed /\ handle'[h].path = Null /\ handle'[h].fh = Null
  BY DEF Closed
<1>2. Uncollected(volume, handle')
  <2>1. Live(volume, handle') \subseteq Live(volume, handle)
    BY <1>1, EntryAssumption DEF Live
  <2> QED BY <2>1, TypeParts DEF MountInv, VolumeOK, Uncollected
<1>3. /\ VolumeOK(volume, handle)'
      /\ volume'.files = volume.files
      /\ \A o \in volume.files : volume'.name[o] = volume.name[o]
  BY <1>2, Collecting DEF Live
<1>4. handle' \in [Handles -> HandleType] /\ OthersOK'
  BY DEF Closed, HandleType, OthersOK, MountInv, TypeOK
<1>5. TypeOK'
  BY <1>3, <1>4 DEF TypeOK, VolumeOK, HandleType, OthersOK
<1>6. HandlesInv' /\ DownInv' /\ ReadOnlyInv'
  BY <1>1 DEF HandlesInv, DownInv, ReadOnlyInv, Down
<1>7. PointersOwned'
  BY <1>1, NobodyOpen DEF PointersOwned, IsOpen
<1>8. /\ NamesDiffer(volume)' /\ Owned(volume, handle, misnamed)' /\ OnePath(handle, misnamed)'
      /\ HiddenListed(volume, handle)' /\ OneHidden(handle)'
  BY <1>1, <1>3, PathAssumption, EntryAssumption
     DEF MountInv, NamesInv, Names, NamesDiffer, Owned, OnePath, HiddenListed, OneHidden
<1>9. HiddenOpen(volume, handle, died)'
  <2>1. died \/ (\E h \in Handles : handle[h].path \in Hidden) => died'
    OBVIOUS
  <2>2. \A o \in volume.files, q \in Hidden :
            volume.name[o] = ClassOf[q] =>
                died \/ \E h \in Handles : handle[h].path \in Hidden
    BY DEF MountInv, NamesInv, Names, HiddenOpen
  <2>3. \A o \in volume.files, q \in Hidden : volume.name[o] = ClassOf[q] => died'
    BY <2>1, <2>2
  <2> QED BY <1>3, <2>3 DEF HiddenOpen
<1> QED BY <1>5, <1>6, <1>7, <1>8, <1>9 DEF MountInv, NamesInv, Names

LEMMA KilledStep == MountInv /\ Killed => MountInv'
BY DeathStep DEF Killed

-----------------------------------------------------------------------------
(* A handle is opened.                                                      *)

LEMMA HandleFacts ==
    ASSUME MountInv, NEW h \in Handles
    PROVE  /\ IsOpen(h) <=> handle[h] # Closed
           /\ handle[h].fh \in Objects <=> handle[h].path \in Paths \cup Hidden
           /\ handle[h].fh = Null <=> handle[h].path = Null
           /\ handle[h].fh = Root <=> handle[h].path = Root
           /\ handle[h] = [path |-> handle[h].path, fh |-> handle[h].fh]
BY PathAssumption, EntryAssumption DEF MountInv, TypeOK, HandlesInv, IsOpen, Closed

LEMMA OpenedHandle ==
    ASSUME MountInv, NEW h \in Handles, ~IsOpen(h), NEW p \in Paths \cup {Root}, NEW o,
           (p = Root /\ o = Root) \/ (p # Root /\ o \in volume.files),
           handle' = [handle EXCEPT ![h] = [path |-> p, fh |-> o]],
           pointers' = pointers + 1, misnamed' \subseteq Handles, Running,
           UNCHANGED <<volume, options, died>>
    PROVE  TypeOK' /\ HandlesInv' /\ DownInv' /\ PointersOwned' /\ ReadOnlyInv'
<1>1. o \in Objects \cup {Root} /\ (o \in Objects <=> o \in volume.files)
  BY EntryAssumption DEF MountInv, TypeOK
<1>2. handle[h].fh = Null /\ handle[h].path = Null
  BY HandleFacts DEF IsOpen
<1>3. /\ handle'[h].path = p /\ handle'[h].fh = o /\ handle'[h] = [path |-> p, fh |-> o]
      /\ \A g \in Handles \ {h} : handle'[g] = handle[g]
  BY DEF MountInv, TypeOK
<1>4. Live(volume', handle') = Live(volume, handle)
  BY <1>1, <1>2, <1>3, EntryAssumption DEF Live
<1>5. VolumeOK(volume, handle)'
  BY <1>4, TypeParts DEF MountInv, VolumeOK
<1>6. handle' \in [Handles -> HandleType]
  BY <1>1, TypeParts DEF MountInv, HandleType
<1>7. TypeOK'
  BY <1>5, <1>6 DEF TypeOK, VolumeOK, HandleType, MountInv
<1>8. HandlesInv'
  BY <1>1, <1>3, EntryAssumption DEF MountInv, HandlesInv
<1>9. DownInv'
  BY DEF DownInv, Running
<1>10. PointersOwned'
  <2> DEFINE S == {g \in Handles : handle[g].path # Null}
  <2>1. {g \in Handles : handle'[g].path # Null} = S \cup {h} /\ h \notin S
    BY <1>2, <1>3, PathAssumption
  <2>2. IsFiniteSet(S)
    BY EntryAssumption, FS_Subset
  <2>3. Cardinality(S \cup {h}) = Cardinality(S) + 1
    BY <2>1, <2>2, FS_AddElement
  <2> QED BY <2>1, <2>3 DEF MountInv, PointersOwned, IsOpen
<1>11. ReadOnlyInv'
  BY <1>3, <1>4, HiddenAssumption, PathAssumption DEF MountInv, ReadOnlyInv
<1> QED BY <1>7, <1>8, <1>9, <1>10, <1>11

LEMMA OpenFileStep ==
    ASSUME MountInv, NEW h \in Handles, NEW p \in Paths, OpenFile(h, p)
    PROVE  MountInv'
<1> DEFINE o == Find(volume, p)
<1>1. o \in volume.files /\ volume.name[o] = ClassOf[p] /\ o \in Objects /\ p # Root /\ p # Null
  BY FindNamed, PathAssumption DEF OpenFile, MountInv, TypeOK
<1> HIDE DEF o
<1>2. /\ handle' = [handle EXCEPT ![h] = [path |-> p, fh |-> o]]
      /\ pointers' = pointers + 1
      /\ misnamed' \subseteq Handles
  <2>1. Lookup(volume, p) = o /\ o # Null
    BY <1>1, EntryAssumption DEF Lookup, o
  <2> QED BY <2>1 DEF OpenFile, OpenCallback, Misnamed, MountInv, TypeOK
<1>3. TypeOK' /\ HandlesInv' /\ DownInv' /\ PointersOwned' /\ ReadOnlyInv'
  BY <1>1, <1>2, OpenedHandle DEF OpenFile
<1>4. /\ handle'[h].path = p /\ handle'[h].fh = o
      /\ \A g \in Handles \ {h} : handle'[g] = handle[g]
      /\ volume' = volume /\ died' = died
  BY <1>2 DEF MountInv, TypeOK, OpenFile
<1>5. \A g \in Handles \ misnamed' :
         g # h => /\ g \notin misnamed
                  /\ h \notin misnamed' => ~(IsOpen(g) /\ handle[g].fh = o /\ handle[g].path # p)
  BY DEF OpenFile, Misnamed, o
<1>6. Owned(volume, handle, misnamed)'
  BY <1>1, <1>4, <1>5 DEF MountInv, NamesInv, Names, Owned, Listed
<1>7. \A g \in Handles : handle[g].fh = o => IsOpen(g)
  BY <1>1, HandleFacts, PathAssumption DEF IsOpen
<1>8. OnePath(handle, misnamed)'
  <2> SUFFICES ASSUME NEW f \in Handles \ misnamed', NEW g \in Handles \ misnamed',
                      handle'[f].fh = handle'[g].fh, handle'[f].fh \in Objects
               PROVE  handle'[f].path = handle'[g].path
    BY DEF OnePath
  <2>1. CASE f = h /\ g = h
    BY <2>1
  <2>2. CASE f # h /\ g # h
    BY <2>2, <1>4, <1>5 DEF MountInv, NamesInv, Names, OnePath
  <2>3. CASE f = h /\ g # h
    BY <2>3, <1>4, <1>5, <1>7
  <2>4. CASE f # h /\ g = h
    BY <2>4, <1>4, <1>5, <1>7
  <2> QED BY <2>1, <2>2, <2>3, <2>4
<1>9. p \notin Hidden
  BY HiddenAssumption
<1>10. HiddenListed(volume, handle)' /\ OneHidden(handle)' /\ NamesDiffer(volume)'
  BY <1>4, <1>9 DEF MountInv, NamesInv, Names, HiddenListed, OneHidden, NamesDiffer
<1>11. HiddenOpen(volume, handle, died)'
  <2>1. handle[h].path \notin Hidden
    BY PathAssumption DEF OpenFile, IsOpen
  <2> QED BY <2>1, <1>4 DEF MountInv, NamesInv, Names, HiddenOpen
<1> QED BY <1>3, <1>6, <1>8, <1>10, <1>11 DEF MountInv, NamesInv, Names

LEMMA OpenDirectoryStep ==
    ASSUME MountInv, NEW h \in Handles, OpenDirectory(h)
    PROVE  MountInv'
<1>1. /\ handle' = [handle EXCEPT ![h] = [path |-> Root, fh |-> Root]]
      /\ pointers' = pointers + 1
      /\ misnamed' \subseteq Handles
  BY PathAssumption DEF OpenDirectory, OpendirCallback, OpenCallback, Lookup, MountInv, TypeOK
<1>2. TypeOK' /\ HandlesInv' /\ DownInv' /\ PointersOwned' /\ ReadOnlyInv'
  BY <1>1, OpenedHandle DEF OpenDirectory
<1>3. /\ handle'[h].path = Root /\ handle'[h].fh = Root
      /\ \A g \in Handles \ {h} : handle'[g] = handle[g]
      /\ volume' = volume /\ died' = died /\ misnamed' = misnamed \ {h}
  BY <1>1 DEF MountInv, TypeOK, OpenDirectory
<1>4. Root \notin Objects /\ Root \notin Hidden /\ handle[h].path \notin Hidden
  BY PathAssumption, EntryAssumption DEF OpenDirectory, IsOpen
<1>5. Owned(volume, handle, misnamed)' /\ OnePath(handle, misnamed)' /\ NamesDiffer(volume)'
  BY <1>3, <1>4 DEF MountInv, NamesInv, Names, Owned, OnePath, NamesDiffer, Listed
<1>6. HiddenListed(volume, handle)' /\ OneHidden(handle)' /\ HiddenOpen(volume, handle, died)'
  BY <1>3, <1>4 DEF MountInv, NamesInv, Names, HiddenListed, OneHidden, HiddenOpen
<1> QED BY <1>2, <1>5, <1>6 DEF MountInv, NamesInv, Names

-----------------------------------------------------------------------------
(* Call-backs that resize a file or make one.                               *)

\* The entries of a volume that has the names it had.
LEMMA ResizedStep ==
    ASSUME MountInv, UNCHANGED <<handle, pointers, options, died>>,
           misnamed \subseteq misnamed', misnamed' \subseteq Handles,
           VolumeOK(volume, handle)', volume'.files = volume.files,
           \A o \in volume.files : volume'.name[o] = volume.name[o]
    PROVE  MountInv'
<1>1. TypeOK'
  BY DEF MountInv, TypeOK, VolumeOK
<1>2. HandlesInv' /\ DownInv' /\ ReadOnlyInv'
  BY DEF MountInv, HandlesInv, DownInv, ReadOnlyInv, Live
<1>3. PointersOwned'
  BY DEF MountInv, PointersOwned, IsOpen
<1>4. NamesInv'
  BY NamesKept DEF MountInv
<1> QED BY <1>1, <1>2, <1>3, <1>4 DEF MountInv

LEMMA SizedStep ==
    ASSUME MountInv, NEW o \in Live(volume, handle), NEW n \in 0 .. Space, NEW grows \in BOOLEAN,
           Outcome(Sized(volume, o, n, grows)),
           misnamed \subseteq misnamed', misnamed' \subseteq Handles
    PROVE  MountInv'
<1> DEFINE r == Sized(volume, o, n, grows)
<1>1. VolumeOK(volume, handle)
  BY TypeParts DEF MountInv
<1>2. /\ VolumeOK(r.volume, handle)
      /\ r.volume.files = volume.files /\ r.volume.name = volume.name
      /\ r.ret = "abort" => r.volume = volume
  BY <1>1, SizedVolume
<1> HIDE DEF r
<1>3. CASE r.ret = "abort"
  <2>1. /\ handle' = [h \in Handles |-> Closed] /\ pointers' = 0 /\ options' = Down
        /\ volume' = Collected(r.volume, handle')
        /\ died' = (died \/ \E h \in Handles : handle[h].path \in Hidden)
    BY <1>3 DEF Outcome, r
  <2> QED BY <1>2, <1>3, <2>1, DeathStep
<1>4. CASE r.ret # "abort"
  <2>1. UNCHANGED <<handle, pointers, options, died>> /\ volume' = Collected(r.volume, handle)
    BY <1>4 DEF Outcome, r
  <2>2. volume' = r.volume
    BY <1>2, <2>1, CollectingNothing
  <2>3. VolumeOK(volume, handle)'
    BY <1>2, <2>1, <2>2 DEF VolumeOK, Live
  <2> QED BY <1>2, <2>1, <2>2, <2>3, ResizedStep
<1> QED BY <1>3, <1>4

LEMMA TruncateStep ==
    ASSUME MountInv, NEW p \in Paths, NEW n \in 0 .. Space, Truncate(p, n)
    PROVE  MountInv'
<1> DEFINE o == Find(volume, p)
<1>1. o \in Live(volume, handle)
  BY FindNamed DEF Truncate, MountInv, TypeOK, Live
<1>2. Outcome(Sized(volume, o, n, TRUE))
  BY DEF Truncate, TruncateCallback
<1>3. misnamed \subseteq misnamed' /\ misnamed' \subseteq Handles
  BY DEF Truncate, Misnamed, MountInv, TypeOK
<1> QED BY <1>1, <1>2, <1>3, SizedStep

LEMMA WriteFileStep ==
    ASSUME MountInv, NEW h \in Handles, NEW n \in 1 .. Space, WriteFile(h, n)
    PROVE  MountInv'
<1> DEFINE o == handle[h].fh
           grows == n > volume.blocks[o]
<1>1. o \in Objects /\ o # Null
  <2>1. handle[h].path # Null /\ handle[h].fh # Root
    BY DEF WriteFile, IsOpen
  <2>2. handle[h].fh # Null
    BY <2>1, HandleFacts
  <2> QED BY <2>1, <2>2 DEF MountInv, TypeOK
<1>2. o \in Live(volume, handle)
  BY <1>1 DEF Live
<1>3. Outcome(Sized(volume, o, n, grows))
  BY <1>1 DEF WriteFile, WriteCallback, Through
<1>4. misnamed' = misnamed /\ misnamed \subseteq Handles
  BY DEF WriteFile, MountInv, TypeOK
<1>5. n \in 0 .. Space /\ grows \in BOOLEAN
  OBVIOUS
<1> HIDE DEF o, grows
<1> QED BY <1>2, <1>3, <1>4, <1>5, SizedStep

LEMMA CreateStep ==
    ASSUME MountInv, NEW p \in Paths, Create(p)
    PROVE  MountInv'
<1> DEFINE r == MknodCallback(volume, p)
           new == CHOOSE o \in Objects : o \notin Live(volume, handle)
           all == DOMAIN volume.name \cup {new}
           v == AddNewFile(volume, ClassOf[p])
<1>1. VolumeOK(volume, handle)
  BY TypeParts DEF MountInv
<1>2. /\ UNCHANGED <<handle, pointers, options, died, misnamed>>
      /\ volume' = Collected(r.volume, handle)
      /\ r.volume = volume \/ (HasRoom(volume) /\ ~IsReadOnly /\ r.volume = v)
  <2>1. r.ret # "abort"
    BY DEF MknodCallback, Reply
  <2>2. r.volume = volume \/ (HasRoom(volume) /\ ~IsReadOnly /\ r.volume = v)
    BY DEF MknodCallback, Reply
  <2> HIDE DEF r
  <2>3. Outcome(r) /\ UNCHANGED misnamed
    BY DEF Create, r
  <2> QED BY <2>1, <2>2, <2>3 DEF Outcome
<1> HIDE DEF r
<1>3. CASE r.volume = volume
  BY <1>1, <1>2, <1>3, CollectingNothing, NothingChanged DEF MountInv, TypeOK
<1>4. CASE HasRoom(volume) /\ ~IsReadOnly /\ r.volume = v
  <2>1. new \in Objects /\ new \notin Live(volume, handle)
    BY <1>1, <1>4, NewAddress
  <2>2. /\ v.files = volume.files \cup {new}
        /\ v.name = [o \in all |-> IF o = new THEN ClassOf[p] ELSE volume.name[o]]
        /\ v.blocks = [o \in all |-> IF o = new THEN 0 ELSE volume.blocks[o]]
        /\ v = [files |-> v.files, name |-> v.name, blocks |-> v.blocks]
    BY DEF AddNewFile
  <2> HIDE DEF new, v
  <2>3. Live(v, handle) = Live(volume, handle) \cup {new}
    BY <2>2 DEF Live
  <2>4. VolumeOK(v, handle)
    <3>1. DOMAIN volume.name = Live(volume, handle) /\ ClassOf[p] \in Classes
      BY <1>1 DEF VolumeOK, Classes
    <3>2. v.name \in [Live(v, handle) -> Classes] /\ v.blocks \in [Live(v, handle) -> 0 .. Space]
      BY <1>1, <2>2, <2>3, <3>1, SizeAssumption DEF VolumeOK
    <3>3. Cardinality(v.files) <= MaxEntries
      BY <1>1, <1>4, <2>2, EntryAssumption, SizeAssumption, FS_Subset, FS_AddElement,
         FS_CardinalityType DEF VolumeOK, HasRoom
    <3> QED BY <1>1, <2>1, <2>2, <3>2, <3>3 DEF VolumeOK
  <2>5. volume' = v
    BY <1>2, <1>4, <2>4, CollectingNothing
  <2>6. \A o \in volume.files : o # new /\ volume'.name[o] = volume.name[o]
    <3>1. volume.files \subseteq Live(volume, handle) /\ DOMAIN volume.name = Live(volume, handle)
      BY <1>1 DEF Live, VolumeOK
    <3> QED BY <2>1, <2>2, <2>5, <3>1
  <2>7. volume'.files = volume.files \cup {new} /\ volume'.name[new] = ClassOf[p]
    BY <2>2, <2>5
  <2>8. \A o \in volume.files : volume.name[o] # ClassOf[p]
    BY FindNamed, <1>1 DEF Create, VolumeOK
  <2>9. TypeOK'
    BY <1>2, <2>4, <2>5 DEF MountInv, TypeOK, VolumeOK, Live
  <2>10. HandlesInv' /\ DownInv' /\ PointersOwned' /\ ReadOnlyInv'
    BY <1>2, <1>4 DEF MountInv, HandlesInv, DownInv, PointersOwned, IsOpen, ReadOnlyInv, IsReadOnly
  <2>11. NamesDiffer(volume)' /\ OnePath(handle, misnamed)' /\ OneHidden(handle)'
    BY <1>2, <2>6, <2>7, <2>8 DEF MountInv, NamesInv, Names, NamesDiffer, OnePath, OneHidden
  <2>12. Owned(volume, handle, misnamed)' /\ HiddenListed(volume, handle)'
    BY <1>2, <2>6, <2>7 DEF MountInv, NamesInv, Names, Owned, HiddenListed, Listed
  <2>13. HiddenOpen(volume, handle, died)'
    BY <1>2, <2>6, <2>7, HiddenAssumption DEF MountInv, NamesInv, Names, HiddenOpen
  <2> QED BY <2>9, <2>10, <2>11, <2>12, <2>13 DEF MountInv, NamesInv, Names
<1> QED BY <1>2, <1>3, <1>4

-----------------------------------------------------------------------------
(* Names and handles when a file is removed, hidden or renamed.             *)

LEMMA SameNames ==
    ASSUME NEW v, NEW w, NEW hs, NEW mis, NEW dead, Names(v, hs, mis, dead),
           w.files = v.files, \A o \in v.files : w.name[o] = v.name[o]
    PROVE  Names(w, hs, mis, dead)
<1>1. NamesDiffer(w) /\ OnePath(hs, mis) /\ OneHidden(hs)
  BY DEF Names, NamesDiffer
<1>2. Owned(w, hs, mis)
  BY DEF Names, Owned, Listed
<1>3. HiddenListed(w, hs) /\ HiddenOpen(w, hs, dead)
  BY DEF Names, HiddenListed, HiddenOpen
<1> QED BY <1>1, <1>2, <1>3 DEF Names

\* A file that is open under no path it goes by is removed.
LEMMA RemovedNames ==
    ASSUME NEW v, NEW w, NEW hs, NEW mis, NEW dead, NEW p \in Paths, NEW o \in v.files,
           Names(v, hs, mis, dead), v.name[o] = ClassOf[p],
           w.files = v.files \ {o}, w.name = v.name,
           \A h \in Handles \ mis : hs[h].fh # o
    PROVE  Names(w, hs, mis, dead)
<1>1. NamesDiffer(w) /\ OnePath(hs, mis) /\ OneHidden(hs)
  BY DEF Names, NamesDiffer
<1>2. Owned(w, hs, mis)
  BY DEF Names, Owned, Listed
<1>3. HiddenListed(w, hs)
  BY HiddenAssumption DEF Names, HiddenListed
<1>4. HiddenOpen(w, hs, dead)
  BY DEF Names, HiddenOpen
<1> QED BY <1>1, <1>2, <1>3, <1>4 DEF Names

\* hs2 are the handles hs with path p replaced by q.
Replaced(hs, hs2, p, q) ==
    \A h \in Handles :
        /\ hs2[h].fh = hs[h].fh
        /\ hs[h].path = p => hs2[h].path = q
        /\ hs[h].path # p => hs2[h].path = hs[h].path

LEMMA ReplacedOnePath ==
    ASSUME NEW hs, NEW hs2, NEW mis, NEW p, NEW q, OnePath(hs, mis), Replaced(hs, hs2, p, q)
    PROVE  OnePath(hs2, mis)
<1> SUFFICES ASSUME NEW g \in Handles \ mis, NEW h \in Handles \ mis,
                    hs2[g].fh = hs2[h].fh, hs2[g].fh \in Objects
             PROVE  hs2[g].path = hs2[h].path
  BY DEF OnePath
<1>1. hs[g].path = hs[h].path
  BY DEF OnePath, Replaced
<1> QED BY <1>1 DEF Replaced

\* An open file is removed from sight, behind a path that no file is named by.
LEMMA HiddenNames ==
    ASSUME NEW v, NEW w, NEW hs, NEW hs2, NEW mis, NEW dead,
           NEW p \in Paths, NEW q \in Hidden, NEW o \in v.files,
           Names(v, hs, mis, dead), v.name[o] = ClassOf[p], v.files \subseteq DOMAIN v.name,
           w.files = v.files, w.name = [v.name EXCEPT ![o] = ClassOf[q]],
           \A x \in v.files : v.name[x] # ClassOf[q],
           \E h \in Handles : hs[h].path = p,
           Replaced(hs, hs2, p, q),
           \A h \in Handles \ mis : hs[h].fh = o => hs[h].path = p
    PROVE  Names(w, hs2, mis, dead)
<1>1. /\ w.name[o] = ClassOf[q]
      /\ \A x \in v.files \ {o} : w.name[x] = v.name[x]
  OBVIOUS
<1>2. NamesDiffer(w)
  BY <1>1 DEF Names, NamesDiffer
<1>3. OnePath(hs2, mis)
  BY ReplacedOnePath DEF Names
<1>4. Owned(w, hs2, mis)
  <2> SUFFICES ASSUME NEW h \in Handles \ mis, hs2[h].fh \in Objects
               PROVE  /\ hs2[h].fh \in w.files
                      /\ w.name[hs2[h].fh] = ClassOf[hs2[h].path]
    BY DEF Owned, Listed
  <2>1. /\ hs2[h].fh = hs[h].fh /\ hs[h].fh \in v.files
        /\ v.name[hs[h].fh] = ClassOf[hs[h].path]
    BY DEF Names, Owned, Listed, Replaced
  <2>2. CASE hs[h].path = p
    <3>1. hs[h].fh = o
      BY <2>1, <2>2 DEF Names, NamesDiffer
    <3>2. hs2[h].path = q
      BY <2>2 DEF Replaced
    <3> QED BY <1>1, <2>1, <3>1, <3>2
  <2>3. CASE hs[h].path # p
    BY <1>1, <2>1, <2>3 DEF Replaced
  <2> QED BY <2>2, <2>3
<1>5. \A h \in Handles : hs[h].path \in Hidden => ClassOf[hs[h].path] # ClassOf[q]
  BY DEF Names, HiddenListed
<1>6. \A h \in Handles : hs2[h].path \in Hidden =>
         hs2[h].path = q \/ (hs[h].path \in Hidden /\ hs2[h].path = hs[h].path)
  BY DEF Replaced
<1>7. OneHidden(hs2)
  <2> SUFFICES ASSUME NEW g \in Handles, NEW h \in Handles,
                      hs2[g].path \in Hidden, hs2[h].path \in Hidden,
                      ClassOf[hs2[g].path] = ClassOf[hs2[h].path]
               PROVE  hs2[g].path = hs2[h].path
    BY DEF OneHidden
  <2> QED BY <1>5, <1>6 DEF Names, OneHidden
<1>8. HiddenListed(w, hs2)
  <2> SUFFICES ASSUME NEW h \in Handles, hs2[h].path \in Hidden
               PROVE  \E x \in w.files : w.name[x] = ClassOf[hs2[h].path]
    BY DEF HiddenListed
  <2>1. CASE hs2[h].path = q
    BY <1>1, <2>1
  <2>2. CASE hs[h].path \in Hidden /\ hs2[h].path = hs[h].path
    <3>1. PICK x \in v.files : v.name[x] = ClassOf[hs[h].path]
      BY <2>2 DEF Names, HiddenListed
    <3>2. x # o
      BY <2>2, <3>1, HiddenAssumption
    <3> QED BY <1>1, <2>2, <3>1, <3>2
  <2> QED BY <1>6, <2>1, <2>2
<1>9. HiddenOpen(w, hs2, dead)
  <2> SUFFICES ASSUME NEW x \in w.files, NEW z \in Hidden, w.name[x] = ClassOf[z], ~dead
               PROVE  \E h \in Handles : /\ hs2[h].path \in Hidden
                                        /\ w.name[x] = ClassOf[hs2[h].path]
    BY DEF HiddenOpen
  <2>1. CASE x = o
    BY <1>1, <2>1 DEF Replaced
  <2>2. CASE x # o
    <3>1. PICK h \in Handles : hs[h].path \in Hidden /\ v.name[x] = ClassOf[hs[h].path]
      BY <1>1, <2>2 DEF Names, HiddenOpen
    <3>2. hs[h].path # p
      BY <3>1, HiddenAssumption
    <3> QED BY <1>1, <2>2, <3>1, <3>2 DEF Replaced
  <2> QED BY <2>1, <2>2
<1> QED BY <1>2, <1>3, <1>4, <1>7, <1>8, <1>9 DEF Names

LEMMA RenamedNames ==
    ASSUME NEW v, NEW w, NEW hs, NEW hs2, NEW mis, NEW dead,
           NEW p \in Paths, NEW q \in Paths, NEW o \in v.files, NEW old, old # o,
           Names(v, hs, mis, dead), v.name[o] = ClassOf[p], v.files \subseteq DOMAIN v.name,
           \A x \in v.files : v.name[x] = ClassOf[q] <=> x = old,
           w.files = v.files \ {old}, w.name = [v.name EXCEPT ![o] = ClassOf[q]],
           Replaced(hs, hs2, p, q),
           \A h \in Handles \ mis : hs[h].fh = o => hs[h].path = p,
           \A h \in Handles \ mis : hs[h].fh = old => old \notin v.files,
           \A h \in Handles : hs[h].path # q
    PROVE  Names(w, hs2, mis, dead)
<1>1. /\ w.name[o] = ClassOf[q] /\ o \in w.files
      /\ \A x \in w.files \ {o} : x \in v.files /\ w.name[x] = v.name[x] /\ w.name[x] # ClassOf[q]
  OBVIOUS
<1>2. NamesDiffer(w)
  BY <1>1 DEF Names, NamesDiffer
<1>3. OnePath(hs2, mis)
  BY ReplacedOnePath DEF Names
<1>4. Owned(w, hs2, mis)
  <2> SUFFICES ASSUME NEW h \in Handles \ mis, hs2[h].fh \in Objects
               PROVE  /\ hs2[h].fh \in w.files
                      /\ w.name[hs2[h].fh] = ClassOf[hs2[h].path]
    BY DEF Owned, Listed
  <2>1. /\ hs2[h].fh = hs[h].fh /\ hs[h].fh \in v.files
        /\ v.name[hs[h].fh] = ClassOf[hs[h].path]
    BY DEF Names, Owned, Listed, Replaced
  <2>2. CASE hs[h].path = p
    <3>1. hs[h].fh = o
      BY <2>1, <2>2 DEF Names, NamesDiffer
    <3>2. hs2[h].path = q
      BY <2>2 DEF Replaced
    <3> QED BY <1>1, <2>1, <3>1, <3>2
  <2>3. CASE hs[h].path # p
    BY <1>1, <2>1, <2>3 DEF Replaced
  <2> QED BY <2>2, <2>3
<1>5. \A h \in Handles : hs2[h].path \in Hidden => hs2[h].path = hs[h].path
  BY HiddenAssumption DEF Replaced
<1>6. OneHidden(hs2)
  BY <1>5 DEF Names, OneHidden
<1>7. HiddenListed(w, hs2)
  <2> SUFFICES ASSUME NEW h \in Handles, hs2[h].path \in Hidden
               PROVE  \E x \in w.files : w.name[x] = ClassOf[hs2[h].path]
    BY DEF HiddenListed
  <2>1. PICK x \in v.files : v.name[x] = ClassOf[hs[h].path]
    BY <1>5 DEF Names, HiddenListed
  <2>2. x # o /\ x # old
    BY <1>5, <2>1, HiddenAssumption
  <2> QED BY <1>1, <1>5, <2>1, <2>2
<1>8. HiddenOpen(w, hs2, dead)
  <2> SUFFICES ASSUME NEW x \in w.files, NEW z \in Hidden, w.name[x] = ClassOf[z], ~dead
               PROVE  \E h \in Handles : /\ hs2[h].path \in Hidden
                                        /\ w.name[x] = ClassOf[hs2[h].path]
    BY DEF HiddenOpen
  <2>1. x # o
    BY <1>1, HiddenAssumption
  <2>2. PICK h \in Handles : hs[h].path \in Hidden /\ v.name[x] = ClassOf[hs[h].path]
    BY <1>1, <2>1 DEF Names, HiddenOpen
  <2>3. hs[h].path # p
    BY <2>2, HiddenAssumption
  <2> QED BY <1>1, <2>1, <2>2, <2>3 DEF Replaced
<1> QED BY <1>2, <1>3, <1>4, <1>6, <1>7, <1>8 DEF Names

-----------------------------------------------------------------------------
(* Files are removed and renamed.                                           *)

LEMMA MovedHandles ==
    ASSUME MountInv, Running, UNCHANGED <<pointers, options>>, handle' \in [Handles -> HandleType],
           \A h \in Handles :
              /\ handle'[h].fh = handle[h].fh
              /\ \/ handle'[h].path = handle[h].path
                 \/ handle[h].path \in Paths /\ handle'[h].path \in Paths \cup Hidden
    PROVE  /\ HandlesInv' /\ DownInv' /\ PointersOwned'
           /\ \A v : Live(v, handle') = Live(v, handle)
<1>1. HandlesInv'
  <2> SUFFICES ASSUME NEW h \in Handles
               PROVE  \/ handle'[h] = Closed
                      \/ handle'[h] = [path |-> Root, fh |-> Root]
                      \/ handle'[h].path \in Paths \cup Hidden /\ handle'[h].fh \in Objects
    BY DEF HandlesInv
  <2>1. handle'[h] = [path |-> handle'[h].path, fh |-> handle'[h].fh]
    BY DEF HandleType
  <2>2. CASE handle'[h].path = handle[h].path
    BY <2>1, <2>2, HandleFacts DEF MountInv, HandlesInv, Closed
  <2>3. CASE handle[h].path \in Paths /\ handle'[h].path \in Paths \cup Hidden
    BY <2>3, HandleFacts
  <2> QED BY <2>2, <2>3
<1>2. DownInv'
  BY DEF DownInv, Running
<1>3. \A h \in Handles : handle'[h].path # Null <=> handle[h].path # Null
  BY PathAssumption
<1>4. PointersOwned'
  <2>1. {h \in Handles : handle'[h].path # Null} = {h \in Handles : handle[h].path # Null}
    BY <1>3
  <2> QED BY <2>1 DEF MountInv, PointersOwned, IsOpen
<1>5. {handle'[h].fh : h \in Handles} = {handle[h].fh : h \in Handles}
  OBVIOUS
<1> QED BY <1>1, <1>2, <1>4, <1>5 DEF Live

\* Who is not marked as misnamed knows the file by the path that is used now.
LEMMA MarkedMisnamed ==
    ASSUME MountInv, NEW p \in Paths, NEW h \in Handles, h \notin Misnamed(p),
           Find(volume, p) # Null, handle[h].fh = Find(volume, p)
    PROVE  handle[h].path = p
<1>1. Find(volume, p) \in Objects
  BY FindNamed DEF MountInv, TypeOK
<1>2. handle[h].path # Null
  BY <1>1, HandleFacts, PathAssumption
<1> QED BY <1>2 DEF Misnamed, IsOpen

\* hide_node: the file keeps its place and gets a name no other file has.
LEMMA Hiding ==
    ASSUME MountInv, NEW p \in Paths, NEW q \in Hidden
    PROVE  LET r == HideNode(p, q)
               o == Find(volume, p)
           IN /\ r.ret # "ok" => r.volume = volume
              /\ r.ret # "abort"
              /\ r.ret = "ok" =>
                    /\ ~IsReadOnly /\ o \in volume.files /\ o # Null
                    /\ r.volume.files = volume.files
                    /\ r.volume.name = [volume.name EXCEPT ![o] = ClassOf[q]]
                    /\ \A x \in volume.files : volume.name[x] # ClassOf[q]
              /\ VolumeOK(r.volume, handle)
<1> DEFINE r == HideNode(p, q)
           o == Find(volume, p)
<1>1. VolumeOK(volume, handle) /\ Uncollected(volume, handle) /\ volume.files \subseteq Objects
  BY TypeParts, OKUncollected DEF MountInv, VolumeOK
<1>2. CASE Find(volume, q) # Null
  BY <1>1, <1>2 DEF HideNode, Reply
<1>3. CASE Find(volume, q) = Null /\ o = Null
  BY <1>1, <1>3 DEF HideNode, RenameCallback, Reply
<1>4. CASE Find(volume, q) = Null /\ o # Null
  <2>1. r = Renamed(volume, o, q) /\ o \in volume.files
    BY <1>1, <1>4, FindNamed DEF HideNode, RenameCallback
  <2> HIDE DEF r, o
  <2>2. /\ r.ret \in {"ok", "EROFS", "EINVAL"} /\ Uncollected(r.volume, handle)
        /\ r.ret # "ok" => r.volume = volume
        /\ r.ret = "ok" => /\ ~IsReadOnly
                           /\ r.volume.files = volume.files \ {Null}
                           /\ r.volume.name = [volume.name EXCEPT ![o] = ClassOf[q]]
    BY <1>1, <1>4, <2>1, RenamedVolume
  <2>3. r.ret = "ok" => r.volume.files = volume.files
    BY <1>1, <2>2, EntryAssumption
  <2>4. \A x \in volume.files : volume.name[x] # ClassOf[q]
    BY <1>1, <1>4, FindNamed
  <2>5. VolumeOK(r.volume, handle)
    <3>1. CASE r.ret = "ok"
      <4>1. Live(r.volume, handle) = Live(volume, handle)
        BY <2>3, <3>1 DEF Live
      <4>2. DOMAIN r.volume.name = Live(volume, handle)
        BY <1>1, <2>2, <3>1 DEF VolumeOK
      <4> QED BY <2>2, <4>1, <4>2 DEF VolumeOK, Uncollected
    <3>2. CASE r.ret # "ok"
      BY <1>1, <2>2, <3>2
    <3> QED BY <3>1, <3>2
  <2> QED BY <1>4, <2>1, <2>2, <2>3, <2>4, <2>5 DEF r, o
<1> QED BY <1>2, <1>3, <1>4

LEMMA RemoveFileStep ==
    ASSUME MountInv, NEW p \in Paths, RemoveFile(p)
    PROVE  MountInv'
<1> DEFINE o == Find(volume, p)
<1>1. VolumeOK(volume, handle) /\ Uncollected(volume, handle) /\ volume.files \subseteq Objects
  BY TypeParts, OKUncollected DEF MountInv, VolumeOK
<1>2. o \in volume.files /\ volume.name[o] = ClassOf[p] /\ o # Null /\ o \in Objects
  BY <1>1, FindNamed DEF RemoveFile
<1>3. misnamed' = misnamed \cup Misnamed(p) /\ misnamed' \subseteq Handles /\ Running
  BY DEF RemoveFile, Misnamed, MountInv, TypeOK
<1>4. \A h \in Handles \ misnamed' : handle[h].fh = o => handle[h].path = p
  BY <1>2, <1>3, MarkedMisnamed
<1>5. Names(volume, handle, misnamed', died)
  BY <1>3 DEF MountInv, NamesInv, Names, Owned, OnePath
<1> HIDE DEF o
<1>6. CASE ~OpenAt(p) /\ Outcome(UnlinkCallback(volume, p))
  <2> DEFINE r == Removed(volume, o)
  <2>1. Outcome(r)
    BY <1>2, <1>6 DEF UnlinkCallback, o
  <2>2. /\ IsReadOnly => r = [volume |-> volume, ret |-> "EROFS"]
        /\ ~IsReadOnly => /\ r.ret = "ok" /\ r.volume.files = volume.files \ {o}
                          /\ r.volume.name = volume.name
        /\ Uncollected(r.volume, handle)
    BY <1>1, <1>2, RemovedVolume
  <2>3. r.ret # "abort"
    BY <2>2
  <2> HIDE DEF r
  <2>4. UNCHANGED <<handle, pointers, options, died>> /\ volume' = Collected(r.volume, handle)
    BY <2>1, <2>3 DEF Outcome
  <2>5. CASE IsReadOnly
    BY <1>1, <1>3, <2>2, <2>4, <2>5, CollectingNothing, NothingChanged
  <2>6. CASE ~IsReadOnly
    <3>1. /\ VolumeOK(volume', handle) /\ volume'.files = r.volume.files
          /\ \A x \in r.volume.files : volume'.name[x] = r.volume.name[x]
      BY <2>2, <2>4, Collecting DEF Live
    <3>2. \A h \in Handles \ misnamed' : handle[h].fh # o
      BY <1>4, <1>6 DEF OpenAt
    <3>3. Names(r.volume, handle, misnamed', died)
      BY <1>2, <1>5, <2>2, <2>6, <3>2, RemovedNames
    <3>4. Names(volume', handle, misnamed', died)
      BY <3>1, <3>3, SameNames
    <3>5. NamesInv'
      BY <2>4, <3>4 DEF NamesInv
    <3>6. TypeOK'
      BY <1>3, <2>4, <3>1 DEF MountInv, TypeOK, VolumeOK
    <3>7. HandlesInv' /\ DownInv' /\ PointersOwned' /\ ReadOnlyInv'
      BY <2>4, <2>6 DEF MountInv, HandlesInv, DownInv, PointersOwned, IsOpen, ReadOnlyInv, IsReadOnly
    <3> QED BY <3>5, <3>6, <3>7 DEF MountInv
  <2> QED BY <2>5, <2>6
<1>7. ASSUME OpenAt(p), NEW q \in Hidden, volume' = HideNode(p, q).volume,
             handle' = IF HideNode(p, q).ret = "ok" THEN Moved(p, q) ELSE handle,
             UNCHANGED <<pointers, options, died>>
      PROVE  MountInv'
  <2> DEFINE r == HideNode(p, q)
  <2>1. /\ r.ret # "ok" => r.volume = volume
        /\ r.ret = "ok" => /\ ~IsReadOnly /\ r.volume.files = volume.files
                           /\ r.volume.name = [volume.name EXCEPT ![o] = ClassOf[q]]
                           /\ \A x \in volume.files : volume.name[x] # ClassOf[q]
        /\ VolumeOK(r.volume, handle)
    BY Hiding DEF o
  <2> HIDE DEF r
  <2>2. CASE r.ret # "ok"
    BY <1>3, <1>7, <2>1, <2>2, NothingChanged DEF r
  <2>3. CASE r.ret = "ok"
    <3>1. volume' = r.volume /\ handle' = Moved(p, q)
      BY <1>7, <2>3 DEF r
    <3>2. Replaced(handle, handle', p, q)
      BY <3>1 DEF Replaced, Moved, MountInv, TypeOK
    <3>3. handle' \in [Handles -> HandleType]
      BY <3>1 DEF Moved, HandleType, MountInv, TypeOK
    <3>4. /\ HandlesInv' /\ DownInv' /\ PointersOwned'
          /\ Live(volume', handle') = Live(volume', handle)
      BY <1>3, <1>7, <3>2, <3>3, MovedHandles DEF Replaced
    <3>5. TypeOK'
      BY <1>3, <1>7, <2>1, <3>1, <3>3, <3>4 DEF MountInv, TypeOK, VolumeOK, HandleType
    <3>6. ReadOnlyInv'
      BY <1>7, <2>1, <2>3 DEF ReadOnlyInv, IsReadOnly
    <3>7. volume.files \subseteq DOMAIN volume.name
      BY <1>1 DEF VolumeOK, Live
    <3>8. Names(volume', handle', misnamed', died)
      BY <1>2, <1>4, <1>5, <1>7, <2>1, <2>3, <3>1, <3>2, <3>7, HiddenNames DEF OpenAt
    <3>9. NamesInv'
      BY <1>7, <3>8 DEF NamesInv
    <3> QED BY <3>4, <3>5, <3>6, <3>9 DEF MountInv
  <2> QED BY <2>2, <2>3
<1>8. CASE ~OpenAt(p)
  BY <1>6, <1>8 DEF RemoveFile
<1>9. CASE OpenAt(p)
  <2>1. PICK q \in Hidden :
           LET r == HideNode(p, q)
           IN volume' = r.volume /\ handle' = IF r.ret = "ok" THEN Moved(p, q) ELSE handle
    BY <1>9 DEF RemoveFile
  <2>2. UNCHANGED <<pointers, options, died>>
    BY <1>9 DEF RemoveFile
  <2> QED BY <1>7, <1>9, <2>1, <2>2
<1> QED BY <1>8, <1>9

\* What rename does once nobody has the file in the way open by its path: v1
\* and hs1 are the volume and the handles then.
LEMMA RenameOnward ==
    ASSUME MountInv, NEW p \in Paths, NEW q \in Paths, NEW v1, NEW hs1, Running,
           UNCHANGED <<pointers, options, died>>, misnamed' \subseteq Handles,
           VolumeOK(v1, handle), Names(v1, hs1, misnamed', died),
           IsReadOnly => v1 = volume /\ hs1 = handle,
           \A h \in Handles :
              /\ hs1[h].fh = handle[h].fh /\ hs1[h].path # q
              /\ \/ hs1[h].path = handle[h].path
                 \/ handle[h].path \in Paths /\ hs1[h].path \in Paths \cup Hidden,
           \A h \in Handles \ misnamed' :
              hs1[h].fh = Find(v1, p) /\ Find(v1, p) # Null => hs1[h].path = p,
           \A h \in Handles \ misnamed' : hs1[h].fh = Find(v1, q) => Find(v1, q) = Null,
           handle' \in [Handles -> HandleType],
           IF RenameCallback(v1, p, q).ret = "ok" THEN Replaced(hs1, handle', p, q)
                                                  ELSE handle' = hs1,
           volume' = Collected(RenameCallback(v1, p, q).volume, handle')
    PROVE  MountInv'
<1> DEFINE r == RenameCallback(v1, p, q)
           o == Find(v1, p)
           old == Find(v1, q)
<1>1. Uncollected(v1, handle) /\ v1.files \subseteq Objects /\ Null \notin v1.files
  BY OKUncollected, EntryAssumption DEF VolumeOK
<1>2. CASE r.ret # "ok"
  <2>1. r.volume = v1
    BY <1>2 DEF RenameCallback, Renamed, Reply
  <2> HIDE DEF r
  <2>2. handle' = hs1 /\ volume' = Collected(v1, hs1)
    BY <1>2, <2>1 DEF r
  <2>3. /\ HandlesInv' /\ DownInv' /\ PointersOwned'
        /\ Live(v1, handle') = Live(v1, handle)
    BY <2>2, MovedHandles
  <2>4. VolumeOK(v1, handle')
    BY <2>3 DEF VolumeOK
  <2>5. volume' = v1
    BY <2>2, <2>4, CollectingNothing
  <2>6. TypeOK'
    BY <2>4, <2>5 DEF MountInv, TypeOK, VolumeOK, HandleType
  <2>7. NamesInv'
    BY <2>2, <2>5 DEF NamesInv
  <2>8. ReadOnlyInv'
    BY <2>2, <2>5 DEF MountInv, ReadOnlyInv, IsReadOnly
  <2> QED BY <2>3, <2>6, <2>7, <2>8 DEF MountInv
<1>3. CASE r.ret = "ok"
  <2>1. o # Null
    BY <1>3 DEF RenameCallback, Reply
  <2>2. r = Renamed(v1, o, q) /\ o \in v1.files /\ v1.name[o] = ClassOf[p]
    BY <1>1, <2>1, FindNamed DEF RenameCallback
  <2> HIDE DEF r, o, old
  <2>3. /\ ~IsReadOnly /\ old # o /\ Uncollected(r.volume, handle)
        /\ r.volume.files = v1.files \ {old}
        /\ r.volume.name = [v1.name EXCEPT ![o] = ClassOf[q]]
    BY <1>1, <1>3, <2>2, RenamedVolume DEF old
  <2>4. Replaced(hs1, handle', p, q)
    BY <1>3 DEF r
  <2>5. /\ HandlesInv' /\ DownInv' /\ PointersOwned'
        /\ Live(r.volume, handle') = Live(r.volume, handle)
    <3>1. \A h \in Handles :
             /\ handle'[h].fh = handle[h].fh
             /\ \/ handle'[h].path = handle[h].path
                \/ handle[h].path \in Paths /\ handle'[h].path \in Paths \cup Hidden
      BY <2>4, HiddenAssumption DEF Replaced
    <3> QED BY <3>1, MovedHandles
  <2>6. Uncollected(r.volume, handle')
    BY <2>3, <2>5 DEF Uncollected
  <2>7. /\ VolumeOK(volume', handle') /\ volume'.files = r.volume.files
        /\ \A x \in r.volume.files : volume'.name[x] = r.volume.name[x]
    BY <2>6, Collecting DEF Live, r
  <2>8. TypeOK'
    BY <2>7 DEF MountInv, TypeOK, VolumeOK, HandleType
  <2>9. \A x \in v1.files : v1.name[x] = ClassOf[q] <=> x = old
    BY <1>1, FindNamed DEF old, Names, NamesDiffer
  <2>10. v1.files \subseteq DOMAIN v1.name
    BY <1>1 DEF Uncollected, Live
  <2>11. \A h \in Handles \ misnamed' : hs1[h].fh = o => hs1[h].path = p
    BY <2>1 DEF o
  <2>12. \A h \in Handles \ misnamed' : hs1[h].fh = old => old \notin v1.files
    BY <1>1 DEF old
  <2>13. Names(r.volume, handle', misnamed', died)
    BY <2>2, <2>3, <2>4, <2>9, <2>10, <2>11, <2>12, RenamedNames
  <2>14. NamesInv'
    BY <2>7, <2>13, SameNames DEF NamesInv
  <2>15. ReadOnlyInv'
    BY <2>3 DEF ReadOnlyInv, IsReadOnly
  <2> QED BY <2>5, <2>8, <2>14, <2>15 DEF MountInv
<1> QED BY <1>2, <1>3

LEMMA RenameStep ==
    ASSUME MountInv, NEW p \in Paths, NEW q \in Paths, Rename(p, q)
    PROVE  MountInv'
<1>1. PICK hidden \in Hidden :
         LET way == IF OpenAt(q) THEN HideNode(q, hidden) ELSE Reply(volume, "ok")
             r == IF way.ret = "ok" THEN RenameCallback(way.volume, p, q) ELSE way
         IN /\ handle' = [h \in Handles |->
                  IF way.ret = "ok" /\ handle[h].path = q THEN [handle[h] EXCEPT !.path = hidden]
                  ELSE IF r.ret = "ok" /\ handle[h].path = p THEN [handle[h] EXCEPT !.path = q]
                  ELSE handle[h]]
            /\ volume' = Collected(r.volume, handle')
  BY DEF Rename
<1> DEFINE way == IF OpenAt(q) THEN HideNode(q, hidden) ELSE Reply(volume, "ok")
           r == IF way.ret = "ok" THEN RenameCallback(way.volume, p, q) ELSE way
           hs1 == Moved(q, hidden)
<1>2. VolumeOK(volume, handle) /\ volume.files \subseteq Objects
  BY TypeParts DEF MountInv, VolumeOK
<1>3. /\ misnamed' = misnamed \cup Misnamed(p) \cup Misnamed(q) /\ misnamed' \subseteq Handles
      /\ Running /\ p # q /\ Find(volume, p) # Null /\ UNCHANGED <<pointers, options, died>>
  BY DEF Rename, Misnamed, MountInv, TypeOK
<1>4. Names(volume, handle, misnamed', died)
  BY <1>3 DEF MountInv, NamesInv, Names, Owned, OnePath
<1>5. /\ hs1 \in [Handles -> HandleType] /\ Replaced(handle, hs1, q, hidden)
      /\ \A h \in Handles : hs1[h].path # q
  BY HiddenAssumption DEF Moved, Replaced, HandleType, MountInv, TypeOK
<1>6. /\ way.ret # "ok" => way.volume = volume /\ OpenAt(q)
      /\ way.ret = "ok" /\ OpenAt(q) =>
            /\ ~IsReadOnly /\ Find(volume, q) \in volume.files
            /\ way.volume.files = volume.files
            /\ way.volume.name = [volume.name EXCEPT ![Find(volume, q)] = ClassOf[hidden]]
            /\ \A x \in volume.files : volume.name[x] # ClassOf[hidden]
      /\ ~OpenAt(q) => way = [volume |-> volume, ret |-> "ok"]
      /\ VolumeOK(way.volume, handle)
  BY <1>2, Hiding DEF Reply
<1>7. /\ handle' = [h \in Handles |->
             IF way.ret = "ok" /\ handle[h].path = q THEN [handle[h] EXCEPT !.path = hidden]
             ELSE IF r.ret = "ok" /\ handle[h].path = p THEN [handle[h] EXCEPT !.path = q]
             ELSE handle[h]]
      /\ volume' = Collected(r.volume, handle')
  BY <1>1
<1>8. CASE way.ret # "ok"
  <2>1. r.ret # "ok" /\ r.volume = volume
    BY <1>6, <1>8
  <2> HIDE DEF r, way
  <2>2. handle' = [h \in Handles |-> handle[h]]
    BY <1>7, <1>8, <2>1
  <2>3. handle' = handle
    BY <2>2 DEF MountInv, TypeOK
  <2>4. volume' = volume
    BY <1>2, <1>7, <2>1, <2>3, CollectingNothing
  <2> QED BY <1>3, <2>3, <2>4, NothingChanged
<1>9. CASE way.ret = "ok"
  <2> DEFINE v1 == way.volume
  <2>1. r = RenameCallback(v1, p, q)
    BY <1>9
  <2>2. handle' = [h \in Handles |->
             IF handle[h].path = q THEN [handle[h] EXCEPT !.path = hidden]
             ELSE IF r.ret = "ok" /\ handle[h].path = p THEN [handle[h] EXCEPT !.path = q]
             ELSE handle[h]]
    <3> HIDE DEF r, way
    <3> QED BY <1>7, <1>9
  <2>3. volume' = Collected(RenameCallback(v1, p, q).volume, handle')
    BY <1>7, <2>1
  <2> HIDE DEF r, way, v1, hs1
  <2>4. handle' \in [Handles -> HandleType]
    BY <2>2 DEF HandleType, MountInv, TypeOK
  <2>5. IF r.ret = "ok" THEN Replaced(hs1, handle', p, q) ELSE handle' = hs1
    <3>1. CASE r.ret = "ok"
      BY <1>3, <2>2, <3>1, HiddenAssumption DEF Replaced, hs1, Moved, MountInv, TypeOK, HandleType
    <3>2. CASE r.ret # "ok"
      BY <2>2, <3>2 DEF hs1, Moved
    <3> QED BY <3>1, <3>2
  <2>6. \A h \in Handles :
           /\ hs1[h].fh = handle[h].fh /\ hs1[h].path # q
           /\ \/ hs1[h].path = handle[h].path
              \/ handle[h].path \in Paths /\ hs1[h].path \in Paths \cup Hidden
    BY <1>5 DEF Replaced
  <2>7. /\ Names(v1, hs1, misnamed', died) /\ VolumeOK(v1, handle)
        /\ IsReadOnly => v1 = volume /\ hs1 = handle
        /\ \A h \in Handles \ misnamed' :
              hs1[h].fh = Find(v1, p) /\ Find(v1, p) # Null => hs1[h].path = p
        /\ \A h \in Handles \ misnamed' : hs1[h].fh = Find(v1, q) => Find(v1, q) = Null
    <3>1. CASE OpenAt(q)
      <4> DEFINE o == Find(volume, q)
      <4>1. /\ ~IsReadOnly /\ o \in volume.files /\ o # Null
            /\ v1.files = volume.files /\ v1.name = [volume.name EXCEPT ![o] = ClassOf[hidden]]
            /\ \A x \in volume.files : volume.name[x] # ClassOf[hidden]
        BY <1>2, <1>6, <1>9, <3>1, EntryAssumption DEF v1
      <4>2. volume.name[o] = ClassOf[q] /\ volume.files \subseteq DOMAIN volume.name
        BY <1>2, <4>1, FindNamed DEF VolumeOK, Live
      <4>3. \A h \in Handles \ misnamed' : handle[h].fh = o => handle[h].path = q
        BY <1>3, <4>1, MarkedMisnamed
      <4> HIDE DEF o
      <4>4. Names(v1, hs1, misnamed', died)
        BY <1>4, <1>5, <3>1, <4>1, <4>2, <4>3, HiddenNames DEF OpenAt
      <4>5. v1.name[o] = ClassOf[hidden] /\ \A x \in v1.files \ {o} : v1.name[x] = volume.name[x]
        BY <4>1, <4>2
      <4>6. Find(v1, q) = Null
        <5>1. \A x \in v1.files : v1.name[x] # ClassOf[q]
          BY <4>1, <4>2, <4>5, HiddenAssumption, <1>4 DEF Names, NamesDiffer
        <5> QED BY <5>1 DEF Find
      <4>7. Find(v1, p) # Null => Find(v1, p) = Find(volume, p) /\ Find(v1, p) # o
        <5> SUFFICES ASSUME Find(v1, p) # Null
                     PROVE  Find(v1, p) = Find(volume, p) /\ Find(v1, p) # o
          OBVIOUS
        <5>1. Find(v1, p) \in v1.files /\ v1.name[Find(v1, p)] = ClassOf[p]
          BY <1>2, <4>1, FindNamed
        <5>2. Find(v1, p) # o /\ volume.name[Find(v1, p)] = ClassOf[p]
          BY <4>5, <5>1, HiddenAssumption
        <5>3. Find(volume, p) \in volume.files /\ volume.name[Find(volume, p)] = ClassOf[p]
          BY <1>2, <1>3, FindNamed
        <5> QED BY <1>4, <4>1, <5>1, <5>2, <5>3 DEF Names, NamesDiffer
      <4>8. \A h \in Handles \ misnamed' :
               hs1[h].fh = Find(v1, p) /\ Find(v1, p) # Null => hs1[h].path = p
        <5> SUFFICES ASSUME NEW h \in Handles \ misnamed', hs1[h].fh = Find(v1, p),
                            Find(v1, p) # Null
                     PROVE  hs1[h].path = p
          OBVIOUS
        <5>1. handle[h].fh = Find(volume, p)
          BY <2>6, <4>7
        <5>2. handle[h].path = p
          BY <1>3, <5>1, MarkedMisnamed
        <5> QED BY <1>3, <1>5, <5>2 DEF Replaced
      <4> QED BY <1>6, <4>1, <4>4, <4>6, <4>8 DEF v1
    <3>2. CASE ~OpenAt(q)
      <4>1. v1 = volume
        BY <1>6, <3>2 DEF v1
      <4>2. hs1 = handle
        BY <3>2 DEF OpenAt, hs1, Moved, MountInv, TypeOK
      <4>3. \A h \in Handles \ misnamed' : handle[h].fh = Find(volume, p) => handle[h].path = p
        BY <1>3, MarkedMisnamed
      <4>4. \A h \in Handles \ misnamed' : handle[h].fh = Find(volume, q) => Find(volume, q) = Null
        BY <1>3, <3>2, MarkedMisnamed DEF OpenAt
      <4> QED BY <1>2, <1>4, <4>1, <4>2, <4>3, <4>4
    <3> QED BY <3>1, <3>2
  <2> QED BY <1>3, <2>1, <2>3, <2>4, <2>5, <2>6, <2>7, RenameOnward
<1> QED BY <1>8, <1>9

LEMMA CloseStep ==
    ASSUME MountInv, NEW h \in Handles, Close(h)
    PROVE  MountInv'
<1> DEFINE p == handle[h].path
           last == p \in Hidden /\ \A g \in Handles \ {h} : handle[g].path # p
           r == IF last THEN UnlinkCallback(volume, p) ELSE Reply(volume, "ok")
           o == Find(volume, p)
<1>1. /\ handle' = [handle EXCEPT ![h] = Closed] /\ pointers' = pointers - 1
      /\ Running /\ UNCHANGED <<options, died>> /\ misnamed' = misnamed \ {h}
      /\ p # Null /\ volume' = Collected(r.volume, handle')
  BY HandleFacts DEF Close, ReleaseCallback, ReleasedirCallback, IsOpen
<1>2. VolumeOK(volume, handle) /\ Uncollected(volume, handle) /\ volume.files \subseteq Objects
  BY TypeParts, OKUncollected DEF MountInv, VolumeOK
<1>3. /\ handle'[h] = Closed /\ handle'[h].path = Null /\ handle'[h].fh = Null
      /\ \A g \in Handles \ {h} : handle'[g] = handle[g]
      /\ handle' \in [Handles -> HandleType]
  BY <1>1, TypeParts DEF MountInv, Closed, HandleType
<1>4. /\ \A v : Live(v, handle') \subseteq Live(v, handle)
      /\ Uncollected(volume, handle')
  <2>1. \A v : Live(v, handle') \subseteq Live(v, handle)
    BY <1>3, EntryAssumption DEF Live
  <2> QED BY <1>2, <2>1 DEF Uncollected
<1>5. HandlesInv' /\ DownInv'
  BY <1>1, <1>3 DEF MountInv, HandlesInv, DownInv, Running
<1>6. PointersOwned'
  <2> DEFINE S == {g \in Handles : handle[g].path # Null}
  <2>1. {g \in Handles : handle'[g].path # Null} = S \ {h} /\ h \in S
    BY <1>1, <1>3
  <2>2. IsFiniteSet(S)
    BY EntryAssumption, FS_Subset
  <2>3. Cardinality(S \ {h}) = Cardinality(S) - 1
    BY <2>1, <2>2, FS_RemoveElement
  <2> QED BY <1>1, <2>1, <2>3 DEF MountInv, PointersOwned, IsOpen
<1>7. /\ OnePath(handle', misnamed') /\ OneHidden(handle')
      /\ \A g \in Handles : handle'[g].path \in Hidden =>
            g # h /\ handle[g].path = handle'[g].path
      /\ \A g \in Handles \ misnamed' : handle'[g].fh \in Objects =>
            /\ g # h /\ g \in Handles \ misnamed /\ handle'[g] = handle[g]
            /\ handle[g].fh \in volume.files /\ volume.name[handle[g].fh] = ClassOf[handle[g].path]
            /\ handle[g].path \in Paths \cup Hidden
  <2>1. \A g \in Handles \ misnamed' : handle'[g].fh \in Objects =>
           g # h /\ g \in Handles \ misnamed /\ handle'[g] = handle[g]
    BY <1>1, <1>3, EntryAssumption
  <2>2. \A g \in Handles : handle'[g].path \in Hidden => g # h /\ handle[g].path = handle'[g].path
    BY <1>3, PathAssumption
  <2>3. OnePath(handle', misnamed') /\ OneHidden(handle')
    BY <2>1, <2>2 DEF MountInv, NamesInv, Names, OnePath, OneHidden
  <2> QED BY <2>1, <2>2, <2>3, HandleFacts DEF MountInv, NamesInv, Names, Owned, Listed
<1>8. /\ Uncollected(r.volume, handle') /\ Names(r.volume, handle', misnamed', died)
      /\ IsReadOnly => r.volume = volume
  <2>1. CASE ~last
    <3>1. r.volume = volume
      BY <2>1 DEF Reply
    <3>2. NamesDiffer(volume) /\ Owned(volume, handle', misnamed') /\ HiddenListed(volume, handle')
      BY <1>7 DEF MountInv, NamesInv, Names, Owned, HiddenListed, Listed
    <3>3. HiddenOpen(volume, handle', died)
      <4> SUFFICES ASSUME NEW x \in volume.files, NEW z \in Hidden,
                          volume.name[x] = ClassOf[z], ~died
                   PROVE  \E g \in Handles : /\ handle'[g].path \in Hidden
                                            /\ volume.name[x] = ClassOf[handle'[g].path]
        BY DEF HiddenOpen
      <4>1. PICK g \in Handles : /\ handle[g].path \in Hidden
                                 /\ volume.name[x] = ClassOf[handle[g].path]
        BY DEF MountInv, NamesInv, Names, HiddenOpen
      <4>2. CASE g # h
        BY <1>3, <4>1, <4>2
      <4>3. CASE g = h
        BY <1>3, <2>1, <4>1, <4>3
      <4> QED BY <4>2, <4>3
    <3> QED BY <1>4, <1>7, <3>1, <3>2, <3>3 DEF Names
  <2>2. CASE last
    <3>1. p \in Hidden /\ \A g \in Handles \ {h} : handle[g].path # p
      BY <2>2
    <3>2. ~IsReadOnly
      BY <3>1 DEF MountInv, ReadOnlyInv, IsReadOnly
    <3>3. o \in volume.files /\ volume.name[o] = ClassOf[p] /\ o # Null
      BY <1>2, <3>1, FindNamed, EntryAssumption
         DEF MountInv, NamesInv, Names, HiddenListed
    <3>4. r = Removed(volume, o)
      BY <2>2, <3>3 DEF UnlinkCallback
    <3> HIDE DEF r, o, p, last
    <3>5. /\ r.volume.files = volume.files \ {o} /\ r.volume.name = volume.name
          /\ Uncollected(r.volume, handle')
      BY <1>4, <3>2, <3>3, <3>4, RemovedVolume
    <3>6. \A g \in Handles \ {h} : handle[g].path \in Paths \cup Hidden =>
             ClassOf[handle[g].path] # ClassOf[p]
      BY <3>1, HiddenAssumption DEF MountInv, NamesInv, Names, OneHidden, p
    <3>7. NamesDiffer(r.volume)
      BY <3>5 DEF MountInv, NamesInv, Names, NamesDiffer
    <3>8. Owned(r.volume, handle', misnamed')
      BY <1>7, <3>3, <3>5, <3>6 DEF Owned, Listed
    <3>9. HiddenListed(r.volume, handle')
      <4> SUFFICES ASSUME NEW g \in Handles, handle'[g].path \in Hidden
                   PROVE  \E x \in r.volume.files : r.volume.name[x] = ClassOf[handle'[g].path]
        BY DEF HiddenListed
      <4>1. g # h /\ handle[g].path = handle'[g].path
        BY <1>7
      <4>2. PICK x \in volume.files : volume.name[x] = ClassOf[handle[g].path]
        BY <4>1 DEF MountInv, NamesInv, Names, HiddenListed
      <4>3. x # o
        BY <3>3, <3>6, <4>1, <4>2
      <4> QED BY <3>5, <4>1, <4>2, <4>3
    <3>10. HiddenOpen(r.volume, handle', died)
      <4> SUFFICES ASSUME NEW x \in r.volume.files, NEW z \in Hidden,
                          r.volume.name[x] = ClassOf[z], ~died
                   PROVE  \E g \in Handles : /\ handle'[g].path \in Hidden
                                            /\ r.volume.name[x] = ClassOf[handle'[g].path]
        BY DEF HiddenOpen
      <4>1. PICK g \in Handles : /\ handle[g].path \in Hidden
                                 /\ volume.name[x] = ClassOf[handle[g].path]
        BY <3>5 DEF MountInv, NamesInv, Names, HiddenOpen
      <4>2. g # h
        BY <3>3, <3>5, <4>1 DEF MountInv, NamesInv, Names, NamesDiffer, p
      <4> QED BY <1>3, <3>5, <4>1, <4>2
    <3> QED BY <1>7, <3>2, <3>5, <3>7, <3>8, <3>9, <3>10 DEF Names
  <2> QED BY <2>1, <2>2
<1> HIDE DEF r
<1>9. /\ VolumeOK(volume', handle') /\ volume'.files = r.volume.files
      /\ \A x \in r.volume.files : volume'.name[x] = r.volume.name[x]
  <2>1. Uncollected(r.volume, handle') /\ volume' = Collected(r.volume, handle')
    BY <1>1, <1>8 DEF r
  <2> QED BY <2>1, Collecting DEF Live
<1>10. TypeOK'
  BY <1>1, <1>3, <1>9 DEF MountInv, TypeOK, VolumeOK, HandleType
<1>11. NamesInv'
  BY <1>1, <1>8, <1>9, SameNames DEF NamesInv
<1>12. ReadOnlyInv'
  <2> SUFFICES ASSUME IsReadOnly
               PROVE  /\ Live(volume', handle') = volume'.files
                      /\ \A g \in Handles : handle'[g].path \notin Hidden
    BY <1>1 DEF ReadOnlyInv, IsReadOnly
  <2>1. /\ Live(volume, handle) = volume.files
        /\ \A g \in Handles : handle[g].path \notin Hidden
    BY DEF MountInv, ReadOnlyInv, IsReadOnly
  <2>2. \A g \in Handles : handle'[g].path \notin Hidden
    BY <1>7, <2>1
  <2>3. volume'.files = volume.files
    BY <1>8, <1>9
  <2> QED BY <1>4, <2>1, <2>2, <2>3 DEF Live
<1> QED BY <1>5, <1>6, <1>10, <1>11, <1>12 DEF MountInv

-----------------------------------------------------------------------------
(* The theorems.                                                            *)

LEMMA MountStep == MountInv /\ [Next]_vars => MountInv'
<1> SUFFICES ASSUME MountInv, [Next]_vars PROVE MountInv'
  OBVIOUS
<1>1. CASE Inquire \/ Unmount \/ Killed
  BY <1>1, InquireStep, UnmountStep, KilledStep
<1>2. CASE \E o \in CommandLines : Start(o)
  BY <1>2, StartStep
<1>3. CASE \E h \in Handles : OpenDirectory(h) \/ Close(h)
  BY <1>3, OpenDirectoryStep, CloseStep
<1>4. CASE \E h \in Handles, p \in Paths : OpenFile(h, p)
  BY <1>4, OpenFileStep
<1>5. CASE \E h \in Handles, n \in 1 .. Space : WriteFile(h, n)
  BY <1>5, WriteFileStep
<1>6. CASE \E p \in Paths : Create(p) \/ RemoveFile(p)
  BY <1>6, CreateStep, RemoveFileStep
<1>7. CASE \E p \in Paths, n \in 0 .. Space : Truncate(p, n)
  BY <1>7, TruncateStep
<1>8. CASE \E p, q \in Paths : Rename(p, q)
  BY <1>8, RenameStep
<1>9. CASE UNCHANGED vars
  BY <1>9, NothingChanged DEF vars, MountInv, TypeOK
<1> QED
  BY <1>1, <1>2, <1>3, <1>4, <1>5, <1>6, <1>7, <1>8, <1>9 DEF Next

\* Whatever programs do with the mounted volume, at all times: every entry the
\* daemon can reach has a name and a size, no more files than the directory
\* holds, and what is open, named and pointed at agrees (MountInv).
THEOREM Invariance == Spec => []MountInv
<1>1. Init => MountInv
  BY InitInv
<1>2. MountInv /\ [Next]_vars => MountInv'
  BY MountStep
<1> QED BY <1>1, <1>2, PTL DEF Spec

\* The types, with the limits on the entries and on the size of each.
THEOREM TypeCorrect == Spec => []TypeOK
<1>1. MountInv => TypeOK
  BY DEF MountInv
<1> QED BY <1>1, Invariance, PTL

\* What fi->fh of an open file points at is an entry of the directory, unless
\* the file was named by two paths.
THEOREM OpenFiles == Spec => []OpenFilesListed
<1>1. MountInv => OpenFilesListed
  <2> SUFFICES ASSUME MountInv, NEW h \in Handles, IsOpen(h), handle[h].fh # Root, h \notin misnamed
               PROVE  Listed(volume, handle[h].fh)
    BY DEF OpenFilesListed
  <2>1. handle[h].fh \in Objects
    BY HandleFacts DEF MountInv, HandlesInv, IsOpen, Closed
  <2> QED BY <2>1 DEF MountInv, NamesInv, Names, Owned
<1> QED BY <1>1, Invariance, PTL

\* Every copy of a pointer that open or opendir makes on the heap belongs to
\* one open file, and release frees it.
THEOREM Pointers == Spec => []PointersOwned
<1>1. MountInv => PointersOwned
  BY DEF MountInv
<1> QED BY <1>1, Invariance, PTL

\* A made-up name stands in the directory only while the removed file is open,
\* as long as the daemon does not die.
THEOREM HiddenFiles == Spec => []HiddenOnlyWhileOpen
<1>1. MountInv => HiddenOnlyWhileOpen
  <2> SUFFICES ASSUME MountInv, NEW o \in volume.files, NEW q \in Hidden,
                      volume.name[o] = ClassOf[q], ~died
               PROVE  \E h \in Handles : handle[h].path \in Hidden
    BY DEF HiddenOnlyWhileOpen
  <2> QED BY DEF MountInv, NamesInv, Names, HiddenOpen
<1> QED BY <1>1, Invariance, PTL

-----------------------------------------------------------------------------
(* A read-only mount.                                                       *)

LEMMA CollectingReadOnly ==
    ASSUME MountInv, IsReadOnly,
           \A h \in Handles : handle'[h].fh = handle[h].fh \/ handle'[h] = Closed
    PROVE  Collected(volume, handle') = volume
<1>1. Live(volume, handle) = volume.files /\ VolumeOK(volume, handle)
  BY TypeParts DEF MountInv, ReadOnlyInv, IsReadOnly
<1>2. Live(volume, handle') = volume.files
  BY <1>1, EntryAssumption DEF Live, Closed
<1>3. VolumeOK(volume, handle')
  BY <1>1, <1>2 DEF VolumeOK
<1> QED BY <1>3, CollectingNothing

LEMMA OutcomeReadOnly ==
    ASSUME MountInv, IsReadOnly, NEW r, r.volume = volume, Outcome(r)
    PROVE  volume' = volume
<1>1. \A h \in Handles : handle'[h].fh = handle[h].fh \/ handle'[h] = Closed
  BY DEF Outcome
<1>2. volume' = Collected(volume, handle')
  BY DEF Outcome
<1> QED BY <1>1, <1>2, CollectingReadOnly

LEMMA RefusedReadOnly ==
    ASSUME IsReadOnly, NEW p, NEW q, NEW o, NEW n, NEW grows
    PROVE  /\ Sized(volume, o, n, grows).volume = volume
           /\ MknodCallback(volume, p).volume = volume
           /\ UnlinkCallback(volume, p).volume = volume
           /\ RenameCallback(volume, p, q).volume = volume
           /\ HideNode(p, q).volume = volume
           /\ TruncateCallback(volume, p, n).volume = volume
<1>1. Sized(volume, o, n, grows).volume = volume
  BY DEF Sized, Reply
<1>2. /\ MknodCallback(volume, p).volume = volume
      /\ UnlinkCallback(volume, p).volume = volume
  BY DEF MknodCallback, UnlinkCallback, Removed, Reply
<1>3. RenameCallback(volume, p, q).volume = volume
  BY DEF RenameCallback, Renamed, Reply
<1>4. HideNode(p, q).volume = volume
  BY <1>3 DEF HideNode, Reply
<1>5. TruncateCallback(volume, p, n).volume = volume
  BY DEF TruncateCallback, Sized, Reply
<1> QED BY <1>1, <1>2, <1>3, <1>4, <1>5

LEMMA ReadOnlyStep == MountInv /\ Next /\ IsReadOnly => volume' = volume
<1> SUFFICES ASSUME MountInv, Next, IsReadOnly PROVE volume' = volume
  OBVIOUS
<1>1. CASE Inquire \/ Unmount \/ \E o \in CommandLines : Start(o)
  BY <1>1 DEF Inquire, Unmount, Start
<1>2. CASE Killed
  BY <1>2, CollectingReadOnly DEF Killed
<1>3. ASSUME NEW h \in Handles, OpenDirectory(h) \/ \E p \in Paths : OpenFile(h, p)
      PROVE  volume' = volume
  BY <1>3 DEF OpenDirectory, OpenFile
<1>4. ASSUME NEW h \in Handles, Close(h) PROVE volume' = volume
  <2>1. handle' = [handle EXCEPT ![h] = Closed]
    BY <1>4 DEF Close, ReleaseCallback, ReleasedirCallback
  <2>2. \A g \in Handles : handle'[g].fh = handle[g].fh \/ handle'[g] = Closed
    BY <2>1 DEF MountInv, TypeOK
  <2>3. volume' = Collected(volume, handle')
    BY <1>4, RefusedReadOnly DEF Close, Reply
  <2> QED BY <2>2, <2>3, CollectingReadOnly
<1>5. ASSUME NEW h \in Handles, NEW n \in 1 .. Space, WriteFile(h, n) PROVE volume' = volume
  <2>1. WriteCallback(h, n).volume = volume
    BY RefusedReadOnly DEF WriteCallback, Reply
  <2> QED BY <1>5, <2>1, OutcomeReadOnly DEF WriteFile
<1>6. ASSUME NEW p \in Paths, Create(p) PROVE volume' = volume
  BY <1>6, RefusedReadOnly, OutcomeReadOnly DEF Create
<1>7. ASSUME NEW p \in Paths, RemoveFile(p) PROVE volume' = volume
  <2>1. CASE Outcome(UnlinkCallback(volume, p))
    BY <2>1, RefusedReadOnly, OutcomeReadOnly
  <2>2. CASE \E q \in Hidden : volume' = HideNode(p, q).volume
    BY <2>2, RefusedReadOnly
  <2> QED BY <1>7, <2>1, <2>2 DEF RemoveFile
<1>8. ASSUME NEW p \in Paths, NEW n \in 0 .. Space, Truncate(p, n) PROVE volume' = volume
  BY <1>8, RefusedReadOnly, OutcomeReadOnly DEF Truncate
<1>9. ASSUME NEW p \in Paths, NEW q \in Paths, Rename(p, q) PROVE volume' = volume
  <2>1. PICK hidden \in Hidden :
           LET way == IF OpenAt(q) THEN HideNode(q, hidden) ELSE Reply(volume, "ok")
               r == IF way.ret = "ok" THEN RenameCallback(way.volume, p, q) ELSE way
           IN /\ handle' = [h \in Handles |->
                    IF way.ret = "ok" /\ handle[h].path = q
                    THEN [handle[h] EXCEPT !.path = hidden]
                    ELSE IF r.ret = "ok" /\ handle[h].path = p
                    THEN [handle[h] EXCEPT !.path = q]
                    ELSE handle[h]]
              /\ volume' = Collected(r.volume, handle')
    BY <1>9 DEF Rename
  <2> DEFINE way == IF OpenAt(q) THEN HideNode(q, hidden) ELSE Reply(volume, "ok")
             r == IF way.ret = "ok" THEN RenameCallback(way.volume, p, q) ELSE way
  <2>2. way.volume = volume
    BY RefusedReadOnly DEF Reply
  <2>3. r.volume = volume
    BY <2>2, RefusedReadOnly
  <2>4. volume' = Collected(volume, handle')
    BY <2>1, <2>3
  <2>5. \A h \in Handles : handle'[h].fh = handle[h].fh
    BY <2>1 DEF MountInv, TypeOK
  <2> QED BY <2>4, <2>5, CollectingReadOnly
<1> QED
  BY <1>1, <1>2, <1>3, <1>4, <1>5, <1>6, <1>7, <1>8, <1>9 DEF Next

\* With the option -r, or with "ro" among the mount options, no call-back
\* changes the files, their names or their sizes, and no entry is dropped.
THEOREM ReadOnly == Spec => ReadOnlyMount
<1>1. MountInv /\ [Next]_vars => [options \cap {"r", "ro"} # {} => volume' = volume]_vars
  BY ReadOnlyStep DEF IsReadOnly
<1> QED BY <1>1, Invariance, PTL DEF Spec, ReadOnlyMount

=============================================================================
