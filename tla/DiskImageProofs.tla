--------------------------- MODULE DiskImageProofs ---------------------------
(***************************************************************************)
(* Images of volumes, for all files, volumes and geometries, and however   *)
(* many programs are run: a program that opens an image finds the volume,  *)
(* and no reader puts more into its buffer than it has room for.           *)
(*                                                                         *)
(* The inductive invariant, DiskInv, says of every file, of what a reader  *)
(* has read of it, of what a program uses and of what is copied so far,    *)
(* that it holds the volume (Holds): its cells are in the places of one of *)
(* the layers Made, and what looks like a label is only in those of its    *)
(* two directories.  That is what makes the guess right (GuessIsRight).    *)
(***************************************************************************)
EXTENDS DiskImage, SequenceTheorems, FiniteSetTheorems, WellFoundedInduction, TLAPS

-----------------------------------------------------------------------------
(* Numbers.                                                                *)

\* A set of numbers that is not empty has a least one.
LEMMA LeastNumber ==
    ASSUME NEW S, S \subseteq Nat, S # {}
    PROVE  \E m \in S : \A k \in S : m <= k
<1> DEFINE R == OpToRel(<, Nat)
<1>1. IsWellFoundedOn(R, Nat)
  BY NatLessThanWellFounded
<1>2. \A m, k \in Nat : k < m => <<k, m>> \in R
  BY DEF OpToRel
<1> HIDE DEF R
<1>3. PICK m \in S : \A k \in S : ~ (<<k, m>> \in R)
  BY <1>1, WFMin
<1>4. \A k \in S : ~ (k < m) /\ k \in Nat /\ m \in Nat
  BY <1>2, <1>3
<1>5. QED
  BY <1>4

\* A set that holds 0, and k + 1 with every k below n, holds every number up to n.
LEMMA InductionUpTo ==
    ASSUME NEW S, NEW n \in Nat, 0 \in S,
           \A k \in 0 .. n - 1 : k \in S => k + 1 \in S
    PROVE  \A k \in 0 .. n : k \in S
<1> SUFFICES ASSUME NEW k \in 0 .. n, k \notin S PROVE FALSE
  OBVIOUS
<1> DEFINE B == {m \in 0 .. n : m \notin S}
<1>1. PICK m \in B : \A l \in B : m <= l
  <2>1. B \subseteq Nat /\ B # {}
    OBVIOUS
  <2> HIDE DEF B
  <2>2. QED
    BY <2>1, LeastNumber
<1>2. m # 0 /\ m - 1 \in 0 .. n - 1 /\ m - 1 \in S
  BY <1>1
<1>3. QED
  BY <1>1, <1>2

-----------------------------------------------------------------------------
(* The sector orders of apple.cc and pdp.cc are maps as SectorIO assumes.  *)

-----------------------------------------------------------------------------
(* The sector orders of apple.cc and pdp.cc are maps as SectorIO assumes.  *)

\* A track is mapped onto itself: a sector stays on its track.
THEOREM AppleTrack ==
    ASSUME NEW n \in Nat
    PROVE  AppleMap(n) \in Nat /\ AppleMap(n) \div 16 = n \div 16
BY SMTT(30) DEF AppleMap, ApplePattern

\* No two sectors are kept in the same place, so that a sector that is written
\* is read again as it was and no other one changes (apple.cc:31-41).
THEOREM AppleInjective ==
    ASSUME NEW m \in Nat, NEW n \in Nat, AppleMap(m) = AppleMap(n)
    PROVE  m = n
BY SMTT(30) DEF AppleMap, ApplePattern

\* The interleave of a PDP-11 track takes no two sectors to one place, whatever
\* the skew of the track.
LEMMA PdpMapSectorInjective ==
    ASSUME NEW track \in Nat, NEW s \in 0 .. 25, NEW t \in 0 .. 25,
           PdpMapSector(track, s) = PdpMapSector(track, t)
    PROVE  s = t
BY SMTT(30) DEF PdpMapSector, PdpPattern

\* A sector stays on its track (pdp.cc:92-106).
THEOREM PdpTrack ==
    ASSUME NEW n \in Nat
    PROVE  PdpMap(n) \in Nat /\ PdpMap(n) \div 26 = n \div 26
<1>1. PdpMapSector(n \div 26, n % 26) \in 0 .. 25
  BY SMTT(30) DEF PdpMapSector, PdpPattern
<1> QED
  BY <1>1, SMTT(30) DEF PdpMap

\* No two sectors are kept in the same place (pdp.cc:50-106).
THEOREM PdpInjective ==
    ASSUME NEW m \in Nat, NEW n \in Nat, PdpMap(m) = PdpMap(n)
    PROVE  m = n
<1>1. m \div 26 = n \div 26
  BY PdpTrack
<1>2. PdpMapSector(m \div 26, m % 26) = PdpMapSector(m \div 26, n % 26)
  <2>1. \A k \in Nat : PdpMapSector(k \div 26, k % 26) \in 0 .. 25
    BY SMTT(30) DEF PdpMapSector, PdpPattern
  <2> QED
    BY <1>1, <2>1, SMTT(30) DEF PdpMap
<1>3. m % 26 = n % 26
  BY <1>2, PdpMapSectorInjective, SMTT(30)
<1> QED
  BY <1>1, <1>3, SMTT(30)

\* The sector orders as maps of a volume of whole tracks.
AppleOrder(tracks) == [s \in 0 .. tracks * 16 - 1 |-> AppleMap(s)]
PdpOrder(tracks) == [s \in 0 .. tracks * 26 - 1 |-> PdpMap(s)]

\* Of any number of whole tracks both orders are permutations of the sectors: what
\* is assumed of Map in SectorIO (apple.cc:31-41, pdp.cc:50-106).
THEOREM OrdersAreMaps ==
    ASSUME NEW tracks \in Nat
    PROVE  /\ LET n == tracks * 16
              IN /\ AppleOrder(tracks) \in [0 .. n - 1 -> 0 .. n - 1]
                 /\ \A s, t \in 0 .. n - 1 :
                       AppleOrder(tracks)[s] = AppleOrder(tracks)[t] => s = t
           /\ LET n == tracks * 26
              IN /\ PdpOrder(tracks) \in [0 .. n - 1 -> 0 .. n - 1]
                 /\ \A s, t \in 0 .. n - 1 :
                       PdpOrder(tracks)[s] = PdpOrder(tracks)[t] => s = t
<1>1. ASSUME NEW n \in Nat, n < tracks * 16 PROVE AppleMap(n) < tracks * 16
  <2>1. PICK m \in Nat : m = AppleMap(n) /\ m \div 16 = n \div 16
    BY AppleTrack
  <2>2. QED
    BY <1>1, <2>1, SMTT(30)
<1>2. ASSUME NEW n \in Nat, n < tracks * 26 PROVE PdpMap(n) < tracks * 26
  <2>1. PICK m \in Nat : m = PdpMap(n) /\ m \div 26 = n \div 26
    BY PdpTrack
  <2>2. QED
    BY <1>2, <2>1, SMTT(30)
<1>3. \A s \in 0 .. tracks * 16 - 1 : AppleMap(s) \in 0 .. tracks * 16 - 1
  BY <1>1, AppleTrack
<1>4. \A s \in 0 .. tracks * 26 - 1 : PdpMap(s) \in 0 .. tracks * 26 - 1
  BY <1>2, PdpTrack
<1>5. \A s, t \in 0 .. tracks * 16 - 1 : AppleMap(s) = AppleMap(t) => s = t
  BY AppleInjective
<1>6. \A s, t \in 0 .. tracks * 26 - 1 : PdpMap(s) = PdpMap(t) => s = t
  BY PdpInjective
<1>7. QED
  BY <1>3, <1>4, <1>5, <1>6 DEF AppleOrder, PdpOrder

-----------------------------------------------------------------------------
(* Places.                                                                 *)

Maps == {"none", "apple", "pdp"}
Layers == [off : Nat, map : Maps]

\* A cell stays on its track.
LEMMA PlaceOnTrack ==
    ASSUME NEW l \in Layers, NEW u \in Nat
    PROVE  /\ Place(l, u) \in Nat /\ l.off <= Place(l, u)
           /\ l.map = "none" => Place(l, u) = l.off + u
           /\ l.map = "apple" => (Place(l, u) - l.off) \div 32 = u \div 32
           /\ l.map = "pdp" => (Place(l, u) - l.off) \div 26 = u \div 26
<1>1. l.off \in Nat /\ l.map \in Maps
  BY DEF Layers
<1>2. CASE l.map = "none"
  BY <1>1, <1>2 DEF Place
<1>3. CASE l.map = "apple"
  <2>1. PICK h \in Nat : h = u \div 2
    BY SMTT(30)
  <2>2. PICK r \in 0 .. 1 : r = u % 2 /\ u = 2 * h + r
    BY <2>1, SMTT(30)
  <2>3. PICK a \in Nat : a = AppleMap(h) /\ a \div 16 = h \div 16
    BY AppleTrack
  <2>4. Place(l, u) = l.off + (2 * a + r)
    BY <1>3, <2>1, <2>2, <2>3 DEF Place
  <2>5. (2 * a + r) \div 32 = u \div 32
    BY <2>2, <2>3, SMTT(30)
  <2>6. Place(l, u) - l.off = 2 * a + r /\ Place(l, u) \in Nat /\ l.off <= Place(l, u)
    BY <1>1, <2>4
  <2>7. QED
    BY <1>3, <2>5, <2>6
<1>4. CASE l.map = "pdp"
  <2>1. PICK a \in Nat : a = PdpMap(u) /\ a \div 26 = u \div 26
    BY PdpTrack
  <2>2. Place(l, u) = l.off + a
    BY <1>4, <2>1 DEF Place
  <2>3. Place(l, u) - l.off = a /\ Place(l, u) \in Nat /\ l.off <= Place(l, u)
    BY <1>1, <2>1, <2>2
  <2>4. QED
    BY <1>4, <2>1, <2>3
<1>5. QED
  BY <1>1, <1>2, <1>3, <1>4 DEF Maps

\* A cell is not far from where it was.
LEMMA PlaceNear ==
    ASSUME NEW l \in Layers, NEW u \in Nat
    PROVE  Place(l, u) < l.off + u + 32
<1>1. PICK o \in Nat : o = l.off
  BY DEF Layers
<1>2. PICK p \in Nat : p = Place(l, u) /\ o <= p
  BY <1>1, PlaceOnTrack
<1>3. PICK d \in Nat : p = o + d
  BY <1>2
<1>4. p - o = d
  BY <1>3
<1>5. \/ p = o + u \/ d \div 32 = u \div 32 \/ d \div 26 = u \div 26
  BY <1>1, <1>2, <1>4, PlaceOnTrack DEF Layers, Maps
<1>6. d \div 32 = u \div 32 => d < u + 32
  BY SMTT(30)
<1>7. d \div 26 = u \div 26 => d < u + 32
  BY SMTT(30)
<1>8. p < o + u + 32
  BY <1>3, <1>5, <1>6, <1>7
<1>9. QED
  BY <1>1, <1>2, <1>8

\* No two cells have one place.
LEMMA PlaceInjective ==
    ASSUME NEW l \in Layers, NEW u \in Nat, NEW w \in Nat, Place(l, u) = Place(l, w)
    PROVE  u = w
<1>1. PICK o \in Nat : o = l.off
  BY DEF Layers
<1>2. CASE l.map = "none"
  BY <1>1, <1>2 DEF Place
<1>3. CASE l.map = "apple"
  <2>1. PICK g, h \in Nat : g = u \div 2 /\ h = w \div 2
    BY SMTT(30)
  <2>2. PICK r, s \in 0 .. 1 : r = u % 2 /\ u = 2 * g + r /\ s = w % 2 /\ w = 2 * h + s
    BY <2>1, SMTT(30)
  <2>3. PICK a, b \in Nat : a = AppleMap(g) /\ b = AppleMap(h)
    BY AppleTrack
  <2>4. o + (2 * a + r) = o + (2 * b + s)
    BY <1>1, <1>3, <2>1, <2>2, <2>3 DEF Place
  <2>5. a = b /\ r = s
    BY <2>4
  <2>6. g = h
    BY <2>3, <2>5, AppleInjective
  <2>7. QED
    BY <2>2, <2>5, <2>6
<1>4. CASE l.map = "pdp"
  <2>1. PICK a, b \in Nat : a = PdpMap(u) /\ b = PdpMap(w)
    BY PdpTrack
  <2>2. o + a = o + b
    BY <1>1, <1>4, <2>1 DEF Place
  <2>3. a = b
    BY <2>2
  <2>4. QED
    BY <2>1, <2>3, PdpInjective
<1>5. QED
  BY <1>2, <1>3, <1>4 DEF Layers, Maps

\* A track has at least one cell.
LEMMA TrackLengths ==
    \A map \in Maps : CellsOnTrack(map) \in {1, 26, 32} /\ CellsOnTrack(map) \in Nat
BY DEF Maps, CellsOnTrack

\* The cells of whole tracks stay within them.
LEMMA WholeTracksStay ==
    ASSUME NEW l \in Layers, NEW n \in Int, NEW u \in WholeTracks(l.map, n)
    PROVE  /\ u \in Nat /\ u < n /\ Place(l, u) < l.off + n
           /\ CellsOnTrack(l.map) <= n
<1>1. PICK o \in Nat : o = l.off
  BY DEF Layers
<1>2. u \in Nat /\ u < n /\ (u \div CellsOnTrack(l.map) + 1) * CellsOnTrack(l.map) <= n
  BY DEF WholeTracks
<1>3. PICK p \in Nat : p = Place(l, u) /\ o <= p
  BY <1>1, <1>2, PlaceOnTrack
<1>4. PICK d \in Nat : p = o + d
  BY <1>3
<1>5. p - o = d
  BY <1>4
<1>6. CASE l.map = "none"
  <2>1. CellsOnTrack(l.map) = 1 /\ p = o + u
    BY <1>1, <1>2, <1>3, <1>6, PlaceOnTrack DEF CellsOnTrack
  <2>2. QED
    BY <1>1, <1>2, <1>3, <2>1
<1>7. CASE l.map = "apple"
  <2>1. CellsOnTrack(l.map) = 32 /\ d \div 32 = u \div 32
    BY <1>1, <1>2, <1>3, <1>5, <1>7, PlaceOnTrack DEF CellsOnTrack
  <2>2. d < n /\ 32 <= n
    BY <1>2, <2>1, SMTT(30)
  <2>3. QED
    BY <1>1, <1>2, <1>3, <1>4, <2>1, <2>2
<1>8. CASE l.map = "pdp"
  <2>1. CellsOnTrack(l.map) = 26 /\ d \div 26 = u \div 26
    BY <1>1, <1>2, <1>3, <1>5, <1>8, PlaceOnTrack DEF CellsOnTrack
  <2>2. d < n /\ 26 <= n
    BY <1>2, <2>1, SMTT(30)
  <2>3. QED
    BY <1>1, <1>2, <1>3, <1>4, <2>1, <2>2
<1>9. QED
  BY <1>6, <1>7, <1>8 DEF Layers, Maps

\* If any cell is on a whole track, those of the first track are.
LEMMA FirstTrackWhole ==
    ASSUME NEW map \in Maps, NEW n \in Int, NEW u \in 0 .. n - 1,
           n >= CellsOnTrack(map), map = "none" \/ u < 26
    PROVE  u \in WholeTracks(map, n)
<1>1. CASE map = "none"
  BY <1>1 DEF WholeTracks, CellsOnTrack
<1>2. CASE map = "apple"
  <2>1. u \div 32 = 0
    BY <1>2, SMTT(30)
  <2>2. QED
    BY <1>2, <2>1 DEF WholeTracks, CellsOnTrack
<1>3. CASE map = "pdp"
  <2>1. u \div 26 = 0
    BY <1>3, SMTT(30)
  <2>2. QED
    BY <1>3, <2>1 DEF WholeTracks, CellsOnTrack
<1>4. QED
  BY <1>1, <1>2, <1>3 DEF Maps

\* The layers that volumes are made with, and where these and the trials before
\* them have the label.
Made == {Layer(0, "none"), Layer(0, "apple"), Layer(PdpTrack0, "pdp"), Layer(0, "pdp")}

\* Where each layer has the cells of the two directories, and the end of the first track.
LEMMA LabelPlaces ==
    /\ AppleMap(4) = 11 /\ AppleMap(12) = 3 /\ PdpMap(8) = 16 /\ PdpMap(24) = 23
    /\ PdpMap(25) = 25 /\ AppleMap(15) = 15
    /\ Place(Layer(0, "none"), 8) = 8 /\ Place(Layer(0, "none"), 24) = 24
    /\ Place(Layer(0, "apple"), 8) = 22 /\ Place(Layer(0, "apple"), 24) = 6
    /\ Place(Layer(26, "none"), 8) = 34
    /\ Place(Layer(26, "pdp"), 8) = 42 /\ Place(Layer(26, "pdp"), 24) = 49
    /\ Place(Layer(0, "pdp"), 8) = 16 /\ Place(Layer(0, "pdp"), 24) = 23
    /\ Place(Layer(0, "apple"), 31) = 31
    /\ Place(Layer(0, "pdp"), 25) = 25 /\ Place(Layer(26, "pdp"), 25) = 51
<1>1. /\ AppleMap(4) = 11 /\ AppleMap(12) = 3 /\ AppleMap(15) = 15
  BY SMTT(30) DEF AppleMap, ApplePattern
<1>2. PdpMap(8) = 16 /\ PdpMap(24) = 23 /\ PdpMap(25) = 25
  <2>1. 8 \div 26 = 0 /\ 24 \div 26 = 0 /\ 25 \div 26 = 0 /\ 8 % 26 = 8 /\ 24 % 26 = 24
        /\ 25 % 26 = 25 /\ 16 % 26 = 16 /\ 23 % 26 = 23 /\ 0 % 13 = 0
    BY SMTT(30)
  <2>2. QED
    BY <2>1 DEF PdpMap, PdpMapSector, PdpPattern
<1>3. 8 \div 2 = 4 /\ 8 % 2 = 0 /\ 24 \div 2 = 12 /\ 24 % 2 = 0 /\ 31 \div 2 = 15 /\ 31 % 2 = 1
  BY SMTT(30)
<1>4. QED
  BY <1>1, <1>2, <1>3 DEF Place, Layer

\* The layers that images are made with.
LEMMA MadeLayers == Made \subseteq Layers /\ \A l \in Made : l.off \in {0, 26}
BY DEF Made, Layers, Layer, Maps, PdpTrack0

-----------------------------------------------------------------------------
(* Cells that are stored through a layer.                                  *)

Cell == {Zero, Junk, Label, Boot} \cup Nat

\* What Max and Min are of a set of numbers.
LEMMA MaxIs ==
    ASSUME NEW b \in Nat, NEW S \in SUBSET (0 .. b), S # {}
    PROVE  Max(S) \in S /\ \A y \in S : y <= Max(S)
<1> DEFINE U == {c \in Nat : \A y \in S : y <= c}
<1>1. U \subseteq Nat /\ b \in U
  OBVIOUS
<1>2. PICK m \in U : \A c \in U : m <= c
  BY <1>1, LeastNumber
<1>3. m \in Nat /\ \A y \in S : y <= m
  OBVIOUS
<1>4. m \in S
  <2> SUFFICES ASSUME m \notin S PROVE FALSE
    OBVIOUS
  <2>1. PICK y \in S : TRUE
    OBVIOUS
  <2>2. m > 0
    BY <1>3, <2>1
  <2>3. m - 1 \in U
    BY <1>3, <2>2
  <2> HIDE DEF U
  <2>4. m <= m - 1
    BY <1>2, <2>3
  <2>5. QED
    BY <1>3, <2>4
<1> HIDE DEF U
<1>5. \E x \in S : \A y \in S : x >= y
  BY <1>3, <1>4
<1>6. Max(S) \in S /\ \A y \in S : Max(S) >= y
  BY <1>5 DEF Max
<1>7. QED
  BY <1>6

LEMMA MinIs ==
    ASSUME NEW S \in SUBSET Nat, S # {}
    PROVE  Min(S) \in S /\ \A y \in S : Min(S) <= y
<1>1. \E x \in S : \A y \in S : x <= y
  BY LeastNumber
<1>2. QED
  BY <1>1 DEF Min

\* What Stored does: the cells get their values, all others stay, and what is between
\* the old end and the new one is zero.
IsStored(r, cells, l, D, value) ==
    /\ Len(cells) <= Len(r)
    /\ \A u \in D : Place(l, u) < Len(r) /\ r[Place(l, u) + 1] = value[u]
    /\ \A p \in 1 .. Len(r) :
          (\A u \in D : Place(l, u) # p - 1) => r[p] = IF p <= Len(cells) THEN cells[p] ELSE Zero
    /\ (\A u \in D : Place(l, u) < Len(cells)) => Len(r) = Len(cells)

\* What Stored does.
LEMMA StoredIs ==
    ASSUME NEW cells \in Seq(Cell), NEW l \in Layers,
           NEW b \in Nat, NEW D \in SUBSET (0 .. b), NEW value \in [D -> Cell],
           NEW r, r = Stored(cells, l, value)
    PROVE  r \in Seq(Cell) /\ IsStored(r, cells, l, D, value)
<1> DEFINE places == {Place(l, u) : u \in D}
           from(p) == CHOOSE u \in D : Place(l, u) = p
           S == {Len(cells)} \cup {p + 1 : p \in places}
           kept(i) == IF i - 1 \in places THEN value[from(i - 1)]
                    ELSE IF i <= Len(cells) THEN cells[i] ELSE Zero
<1>1. DOMAIN value = D
  OBVIOUS
<1>2. r = [i \in 1 .. Max(S) |-> kept(i)]
  BY <1>1 DEF Stored
<1>3. \A u \in D : u \in Nat /\ Place(l, u) \in Nat /\ Place(l, u) < l.off + b + 32
  <2> SUFFICES ASSUME NEW u \in D
               PROVE  u \in Nat /\ Place(l, u) \in Nat /\ Place(l, u) < l.off + b + 32
    OBVIOUS
  <2>1. u \in Nat /\ u <= b
    OBVIOUS
  <2>2. Place(l, u) \in Nat /\ Place(l, u) < l.off + u + 32
    BY <2>1, PlaceOnTrack, PlaceNear
  <2>3. l.off \in Nat
    BY DEF Layers
  <2>4. QED
    BY <2>1, <2>2, <2>3
<1>4. PICK n \in Nat : n = Len(cells)
  OBVIOUS
<1>5. PICK top \in Nat : top = l.off + b + 32 + n
  <2>1. l.off \in Nat
    BY DEF Layers
  <2>2. QED
    BY <1>4, <2>1
<1>6. S \in SUBSET (0 .. top) /\ S # {} /\ n \in S
  <2>1. l.off \in Nat
    BY DEF Layers
  <2>2. \A p \in places : p + 1 \in 0 .. top
    BY <1>3, <1>4, <1>5, <2>1
  <2>3. n \in 0 .. top
    BY <1>4, <1>5, <2>1
  <2> HIDE DEF places
  <2>4. QED
    BY <1>4, <2>2, <2>3
<1>7. PICK m \in S : m = Max(S) /\ \A y \in S : y <= m
  <2> HIDE DEF S
  <2>1. QED
    BY <1>6, MaxIs
<1>8. m \in Nat /\ n <= m /\ r = [i \in 1 .. m |-> kept(i)]
  BY <1>2, <1>4, <1>6, <1>7
<1>9. \A u \in D : /\ Place(l, u) < m
                   /\ \A i \in 1 .. m : i - 1 = Place(l, u) => from(i - 1) = u
  <2> SUFFICES ASSUME NEW u \in D
               PROVE  /\ Place(l, u) < m
                      /\ \A i \in 1 .. m : i - 1 = Place(l, u) => from(i - 1) = u
    OBVIOUS
  <2>1. Place(l, u) + 1 \in S /\ Place(l, u) \in Nat
    BY <1>3
  <2>2. Place(l, u) + 1 <= m
    BY <1>7, <2>1
  <2>3. \A w \in D : Place(l, w) = Place(l, u) => w = u
    BY <1>3, PlaceInjective
  <2>4. ASSUME NEW i \in 1 .. m, i - 1 = Place(l, u) PROVE from(i - 1) = u
    <3>1. \A w \in D : Place(l, w) = i - 1 <=> w = u
      BY <2>3, <2>4
    <3>2. QED
      BY <3>1
  <2>5. QED
    BY <1>8, <2>1, <2>2, <2>4
<1>10. \A p \in places : p \in Nat /\ \E u \in D : p = Place(l, u)
  BY <1>3
<1>11. \A i \in 1 .. m : kept(i) \in Cell
  <2> SUFFICES ASSUME NEW i \in 1 .. m PROVE kept(i) \in Cell
    OBVIOUS
  <2>1. CASE i - 1 \in places
    <3>1. PICK u \in D : i - 1 = Place(l, u)
      BY <2>1
    <3>2. kept(i) = value[u]
      BY <1>9, <2>1, <3>1
    <3>3. QED
      BY <3>2
  <2>2. CASE i - 1 \notin places
    <3>1. Zero \in Cell
      BY DEF Cell
    <3>2. i <= Len(cells) => cells[i] \in Cell
      BY <1>8
    <3>3. QED
      BY <2>2, <3>1, <3>2
  <2>3. QED
    BY <2>1, <2>2
<1> HIDE DEF kept
<1>12. r \in Seq(Cell) /\ Len(r) = m /\ \A i \in 1 .. m : r[i] = kept(i)
  BY <1>8, <1>11
<1>13. ASSUME NEW u \in D
       PROVE  Place(l, u) < Len(r) /\ r[Place(l, u) + 1] = value[u]
  <2>1. Place(l, u) < m /\ Place(l, u) \in Nat /\ m \in Nat
    BY <1>3, <1>8, <1>9
  <2>2. PICK i \in 1 .. m : i = Place(l, u) + 1 /\ i - 1 = Place(l, u)
    BY <2>1
  <2>3. from(i - 1) = u /\ i - 1 \in places
    BY <1>9, <2>2
  <2>4. kept(i) = value[u]
    BY <2>3 DEF kept
  <2>5. QED
    BY <1>12, <2>1, <2>2, <2>4
<1>14. ASSUME NEW p \in 1 .. Len(r), \A u \in D : Place(l, u) # p - 1
       PROVE  r[p] = IF p <= Len(cells) THEN cells[p] ELSE Zero
  <2>1. p - 1 \notin places
    BY <1>10, <1>14
  <2>2. QED
    BY <1>12, <2>1 DEF kept
<1>15. ASSUME \A u \in D : Place(l, u) < Len(cells)
       PROVE  Len(r) = Len(cells)
  <2>1. \A p \in places : p + 1 <= n
    BY <1>3, <1>4, <1>15
  <2> HIDE DEF places
  <2>2. \A y \in S : y <= n
    BY <1>4, <2>1
  <2>3. QED
    BY <1>4, <1>7, <1>8, <1>12, <2>2
<1>16. QED
  BY <1>4, <1>8, <1>12, <1>13, <1>14, <1>15 DEF IsStored

-----------------------------------------------------------------------------
(* What it is for cells to hold a volume.                                  *)

\* A cell that was left out of a .td0 file, which was zero, may be anything.
Stands(x, y) == x = y \/ (x = Junk /\ y = Zero)

Shortest(l) == IF l.map = "none" THEN 20 ELSE l.off + 26

\* The cells c hold the volume v in the places of l, and its label only in those of a
\* directory.
Under(c, l, v) ==
    /\ 8 \in DOMAIN v /\ 9 \in DOMAIN v /\ v[8] = Label
    /\ Shortest(l) <= Len(c)
    /\ \A u \in DOMAIN v : Place(l, u) < Len(c) /\ Stands(c[Place(l, u) + 1], v[u])
    /\ \A p \in 1 .. Len(c) : c[p] = Label => p \in {Place(l, 8) + 1, Place(l, 24) + 1}

\* Nothing is said of a volume without cells.
Holds(c, v) ==
    /\ DOMAIN v \subseteq Nat
    /\ DOMAIN v # {} => \E l \in Made : Under(c, l, v)

\* Any cells hold a volume without cells.
LEMMA NothingHeld == \A c : Holds(c, <<>>)
<1>1. DOMAIN <<>> = {}
  OBVIOUS
<1>2. QED
  BY <1>1 DEF Holds

\* Nothing else looks like the label.
LEMMA LabelFacts ==
    /\ Label # Zero /\ Label # Boot /\ Label # Junk
    /\ \A u \in Nat : u >= 24 => u # Label
    /\ \A x : Stands(x, Label) => x = Label
    /\ \A y : Stands(Label, y) => y = Label
BY VolumesAssumption DEF Stands

-----------------------------------------------------------------------------
(* The guess.                                                              *)

LastTrial == 132

LEMMA Trying == LastTrial \in Nat /\ 5 <= LastTrial
BY DEF LastTrial

LEMMA Joined ==
    ASSUME NEW S, NEW s \in Seq(S), NEW t \in Seq(S), NEW x, x = s \o t
    PROVE  /\ x \in Seq(S) /\ Len(x) = Len(s) + Len(t)
           /\ \A i \in 1 .. Len(s) : x[i] = s[i]
           /\ \A i \in 1 .. Len(t) : x[Len(s) + i] = t[i]
OBVIOUS

\* The layers are tried in this order, and after them those at an offset.
LEMMA TrialsAre ==
    /\ DOMAIN Trials = 1 .. LastTrial /\ \A i \in 1 .. LastTrial : Trials[i] \in Layers
    /\ Trials[1] = Layer(0, "none") /\ Trials[2] = Layer(0, "apple")
    /\ Trials[3] = Layer(26, "none") /\ Trials[4] = Layer(26, "pdp")
    /\ Trials[5] = Layer(0, "pdp")
<1>1. \A n \in Nat, map \in Maps : Layer(n, map) \in Layers
  BY DEF Layer, Layers
<1>2. {"none", "apple", "pdp"} \subseteq Maps
  BY DEF Maps
<1>3. PICK s \in Seq(Layers) :
         /\ s = <<Layer(0, "none"), Layer(0, "apple"), Layer(26, "none"),
                  Layer(26, "pdp"), Layer(0, "pdp")>>
         /\ Len(s) = 5
  <2> DEFINE s == <<Layer(0, "none"), Layer(0, "apple"), Layer(26, "none"),
                    Layer(26, "pdp"), Layer(0, "pdp")>>
  <2>1. s \in Seq(Layers) /\ Len(s) = 5
    BY <1>1, <1>2
  <2>2. QED
    BY <2>1
<1>4. PICK t \in Seq(Layers) : t = [k \in 1 .. 127 |-> Layer(2 * k, "none")] /\ Len(t) = 127
  <2> DEFINE t == [k \in 1 .. 127 |-> Layer(2 * k, "none")]
  <2>1. \A k \in 1 .. 127 : Layer(2 * k, "none") \in Layers
    BY <1>1, <1>2
  <2>2. t \in Seq(Layers) /\ Len(t) = 127
    BY <2>1
  <2>3. QED
    BY <2>2
<1>5. Trials = s \o t
  BY <1>3, <1>4 DEF Trials, PdpTrack0
<1>6. /\ s[1] = Layer(0, "none") /\ s[2] = Layer(0, "apple") /\ s[3] = Layer(26, "none")
      /\ s[4] = Layer(26, "pdp") /\ s[5] = Layer(0, "pdp")
  BY <1>3
<1>7. PICK x : x = s \o t
  OBVIOUS
<1>8. x \in Seq(Layers) /\ Len(x) = LastTrial /\ \A i \in 1 .. 5 : x[i] = s[i]
  <2>1. /\ x \in Seq(Layers) /\ Len(x) = Len(s) + Len(t)
        /\ \A i \in 1 .. Len(s) : x[i] = s[i]
    BY <1>7, Joined
  <2>2. Len(x) = LastTrial
    BY <1>3, <1>4, <2>1 DEF LastTrial
  <2>3. QED
    BY <1>3, <2>1, <2>2
<1>9. DOMAIN x = 1 .. LastTrial /\ \A i \in 1 .. LastTrial : x[i] \in Layers
  BY <1>8, LenProperties
<1>10. Trials = x
  BY <1>5, <1>7
<1> QED
  BY <1>6, <1>8, <1>9, <1>10

\* The guess is the first layer under which there is a label.
LEMMA GuessedIs ==
    ASSUME NEW c, Guesses(c) # {}
    PROVE  /\ Guessed(c) \in 1 .. LastTrial /\ Guessed(c) \in Guesses(c)
           /\ \A j \in Guesses(c) : Guessed(c) <= j
<1>1. Guesses(c) \subseteq 1 .. LastTrial
  BY TrialsAre DEF Guesses
<1>2. \E i \in Guesses(c) : \A j \in Guesses(c) : i <= j
  <2>1. Guesses(c) \subseteq Nat
    BY <1>1
  <2> QED
    BY <2>1, LeastNumber
<1>3. QED
  BY <1>1, <1>2 DEF Guessed

\* The guess is right: no layer that is tried before that of the volume has a label.
LEMMA GuessIsRight ==
    ASSUME NEW c \in Seq(Cell), NEW v, NEW l \in Made, Under(c, l, v)
    PROVE  /\ Guesses(c) # {} /\ Guessed(c) \in 1 .. LastTrial
           /\ Trials[Guessed(c)] = l
<1> DEFINE Signed(i) == HasValidSignature(c, Trials[i])
<1>1. \A i : i \in Guesses(c) <=> i \in 1 .. LastTrial /\ Signed(i)
  BY TrialsAre DEF Guesses
<1>2. Len(c) \in Nat
  OBVIOUS
<1>3. \A i \in 1 .. LastTrial :
         Signed(i) => Place(Trials[i], 8) \in {Place(l, 8), Place(l, 24)}
  <2> SUFFICES ASSUME NEW i \in 1 .. LastTrial, Signed(i)
               PROVE  Place(Trials[i], 8) \in {Place(l, 8), Place(l, 24)}
    OBVIOUS
  <2>1. Trials[i] \in Layers /\ l \in Layers
    BY TrialsAre, MadeLayers
  <2>2. PICK p \in Nat : p = Place(Trials[i], 8)
    BY <2>1, PlaceOnTrack
  <2>3. p < Len(c) /\ c[p + 1] = Label
    BY <2>2 DEF HasValidSignature, Readable, Read
  <2>4. p + 1 \in 1 .. Len(c)
    BY <1>2, <2>3
  <2>5. p + 1 \in {Place(l, 8) + 1, Place(l, 24) + 1}
    BY <2>3, <2>4 DEF Under
  <2>6. Place(l, 8) \in Nat /\ Place(l, 24) \in Nat
    BY <2>1, PlaceOnTrack
  <2>7. QED
    BY <2>2, <2>5, <2>6
<1>4. ASSUME NEW i \in 1 .. LastTrial, Trials[i] = l PROVE Signed(i)
  <2>1. l \in Layers
    BY MadeLayers
  <2>2. PICK p, q \in Nat : p = Place(l, 8) /\ q = Place(l, 9)
    BY <2>1, PlaceOnTrack
  <2>3. p < Len(c) /\ q < Len(c) /\ Stands(c[p + 1], v[8]) /\ v[8] = Label
    BY <2>2 DEF Under
  <2>4. c[p + 1] = Label
    BY <2>3, LabelFacts
  <2>5. QED
    BY <1>4, <2>2, <2>3, <2>4 DEF HasValidSignature, Readable, Read
<1> HIDE DEF Signed
<1>5. PICK i \in {1, 2, 4, 5} : Trials[i] = l
  BY TrialsAre DEF Made, PdpTrack0
<1>6. i \in 1 .. LastTrial /\ i \in Nat /\ i \in Guesses(c)
  <2>1. i \in 1 .. LastTrial /\ i \in Nat
    BY <1>5, Trying
  <2>2. Signed(i)
    BY <1>4, <1>5, <2>1
  <2>3. QED
    BY <1>1, <2>1, <2>2
<1>7. Guesses(c) # {}
  BY <1>6
<1>8. PICK g \in 1 .. LastTrial : g = Guessed(c) /\ g \in Guesses(c) /\ g <= i
  BY <1>6, <1>7, GuessedIs
<1>9. Place(Trials[g], 8) \in {Place(l, 8), Place(l, 24)}
  BY <1>1, <1>3, <1>8
<1>10. g \in 1 .. i
  <2>1. g \in Nat /\ 1 <= g
    BY <1>8, Trying
  <2>2. QED
    BY <1>6, <1>8, <2>1
<1>11. g = i
  <2>1. CASE i = 1
    BY <1>10, <2>1
  <2>2. CASE i = 2
    <3>1. g \in {1, 2}
      BY <1>10, <2>2
    <3>2. Place(Trials[1], 8) = 8 /\ Place(l, 8) = 22 /\ Place(l, 24) = 6
      BY <1>5, <2>2, TrialsAre, LabelPlaces
    <3>3. QED
      BY <1>9, <2>2, <3>1, <3>2
  <2>3. CASE i = 4
    <3>1. g \in {1, 2, 3, 4}
      BY <1>10, <2>3
    <3>2. /\ Place(Trials[1], 8) = 8 /\ Place(Trials[2], 8) = 22 /\ Place(Trials[3], 8) = 34
          /\ Place(l, 8) = 42 /\ Place(l, 24) = 49
      BY <1>5, <2>3, TrialsAre, LabelPlaces
    <3>3. QED
      BY <1>9, <2>3, <3>1, <3>2
  <2>4. CASE i = 5
    <3>1. g \in {1, 2, 3, 4, 5}
      BY <1>10, <2>4
    <3>2. /\ Place(Trials[1], 8) = 8 /\ Place(Trials[2], 8) = 22 /\ Place(Trials[3], 8) = 34
          /\ Place(Trials[4], 8) = 42 /\ Place(l, 8) = 16 /\ Place(l, 24) = 23
      BY <1>5, <2>4, TrialsAre, LabelPlaces
    <3>3. QED
      BY <1>9, <2>4, <3>1, <3>2
  <2>5. QED
    BY <2>1, <2>2, <2>3, <2>4
<1>12. QED
  BY <1>5, <1>7, <1>8, <1>11

-----------------------------------------------------------------------------
(* Sizes.                                                                  *)

LEMMA HintType == \A map \in Maps : Hinted(map) \in {1, 2, 4}
BY DEF Maps, Hinted

LEMMA TriedBpsType ==
    ASSUME NEW i \in 1 .. LastTrial
    PROVE  TriedBps(i) \in {1, 2, 4}
<1> DEFINE S == {Hinted(Trials[k].map) : k \in 1 .. i}
<1>1. \A k \in 1 .. i : Trials[k].map \in Maps
  <2>1. \A k \in 1 .. i : k \in 1 .. LastTrial
    BY Trying
  <2>2. QED
    BY <2>1, TrialsAre DEF Layers
<1>2. \A x \in S : x \in {1, 2, 4}
  BY <1>1, HintType
<1>3. S # {}
  <2>1. 1 \in 1 .. i
    OBVIOUS
  <2> QED
    BY <2>1
<1>4. TriedBps(i) = Min(S)
  BY DEF TriedBps
<1> HIDE DEF S
<1>5. S \in SUBSET Nat
  BY <1>2
<1>6. QED
  BY <1>2, <1>3, <1>4, <1>5, MinIs

\* A layer is long enough for the directory if the image is.
LEMMA LayerSizeIs ==
    ASSUME NEW l \in Layers, NEW n \in Nat, NEW b \in {1, 2, 4}
    PROVE  /\ LayerSize(l, n, b) \in Int
           /\ l.off = 0 => LayerSize(l, n, b) \in Nat
           /\ l \in Made /\ Shortest(l) <= n => 20 <= LayerSize(l, n, b)
<1>1. PICK o \in Nat : o = l.off
  BY DEF Layers
<1>2. PICK h \in {1, 2, 4} : h = Hinted(l.map)
  BY HintType DEF Layers
<1>3. PICK raw \in Nat : /\ raw = n - (n % b) /\ n - 3 <= raw
                         /\ (n >= 20 => raw >= 20) /\ (n >= 32 => raw >= 32)
  BY SMTT(30)
<1>4. LayerSize(l, n, b) = IF o = 0 THEN raw - (raw % h) ELSE (raw - o) - ((raw - o) % 2)
  BY <1>1, <1>2, <1>3 DEF LayerSize
<1>5. CASE o = 0
  <2>1. PICK k \in Nat : k = raw - (raw % h) /\ raw - 3 <= k /\ (raw >= 20 => k >= 20)
    <3>1. /\ raw % 1 = 0 /\ raw % 2 \in {0, 1} /\ raw % 4 \in {0, 1, 2, 3}
          /\ raw - (raw % 2) \in Nat /\ (raw >= 20 => raw - (raw % 2) >= 20)
          /\ raw - (raw % 4) \in Nat /\ (raw >= 20 => raw - (raw % 4) >= 20)
      BY SMTT(30)
    <3>2. QED
      BY <1>2, <3>1
  <2>2. LayerSize(l, n, b) = k
    BY <1>4, <1>5, <2>1
  <2>3. l.map # "none" => Shortest(l) = 26
    BY <1>1, <1>5 DEF Shortest
  <2>4. l.map = "none" => Shortest(l) = 20
    BY DEF Shortest
  <2>5. Shortest(l) <= n => n >= 20
    BY <2>3, <2>4
  <2>6. QED
    BY <1>1, <1>3, <1>5, <2>1, <2>2, <2>5
<1>6. CASE o # 0
  <2>1. PICK d \in Int : d = raw - o
    OBVIOUS
  <2>2. d % 2 \in {0, 1}
    BY SMTT(30)
  <2>3. LayerSize(l, n, b) = d - (d % 2)
    BY <1>4, <1>6, <2>1
  <2>4. l \in Made => l.off = 26 /\ Shortest(l) = 52
    BY <1>1, <1>6, MadeLayers DEF Made, Layer, Shortest, PdpTrack0
  <2>5. l \in Made /\ Shortest(l) <= n => d >= 23
    BY <1>1, <1>3, <2>1, <2>4
  <2>6. LayerSize(l, n, b) \in Int /\ (d >= 23 => LayerSize(l, n, b) >= 22)
    BY <2>2, <2>3
  <2>7. QED
    BY <1>1, <1>6, <2>5, <2>6
<1>7. QED
  BY <1>5, <1>6

-----------------------------------------------------------------------------
(* Sequences of sequences, one behind the other.                           *)

\* A product, for the numbers of the blocks.
LEMMA Product ==
    ASSUME NEW k \in Nat, NEW m \in Nat
    PROVE  m * k \in Nat /\ (m + 1) * k = m * k + k /\ 1 * k = k /\ 0 * k = 0
<1>1. m * k \in Nat
  BY SMTT(30)
<1>2. (m + 1) * k = m * k + k /\ 1 * k = k /\ 0 * k = 0
  BY SMTT(30)
<1>3. QED
  BY <1>1, <1>2

\* A number in a block.
LEMMA InBlock ==
    ASSUME NEW k \in Nat, NEW m \in Nat, NEW s \in 1 .. m, NEW i \in 1 .. k
    PROVE  (s - 1) * k + i \in 1 .. m * k
<1>1. PICK a \in Nat, b \in Nat : s = a + 1 /\ m = s + b /\ a = s - 1
  OBVIOUS
<1>2. m * k = a * k + k + b * k
  <2>1. m = a + 1 + b
    BY <1>1
  <2>2. QED
    BY <2>1, SMTT(30)
<1>3. PICK x \in Nat, y \in Nat : x = a * k /\ y = b * k
  BY Product
<1>4. m * k = x + k + y /\ (s - 1) * k + i = x + i
  BY <1>1, <1>2, <1>3
<1>5. x + i \in 1 .. x + k + y
  OBVIOUS
<1>6. QED
  BY <1>4, <1>5

\* Every number is in one of the blocks.
LEMMA BlockOf ==
    ASSUME NEW k \in Nat, NEW m \in Nat
    PROVE  \A q \in 1 .. m * k : \E s \in 1 .. m, i \in 1 .. k : q = (s - 1) * k + i
<1> DEFINE Q(n) == \A q \in 1 .. n * k : \E s \in 1 .. n, i \in 1 .. k : q = (s - 1) * k + i
           N == {n \in Nat : Q(n)}
<1>1. 0 \in N
  <2>1. 1 .. 0 * k = {}
    BY Product
  <2>2. QED
    BY <2>1
<1>2. ASSUME NEW n \in 0 .. m - 1, n \in N PROVE n + 1 \in N
  <2> SUFFICES ASSUME NEW q \in 1 .. (n + 1) * k
               PROVE  \E s \in 1 .. n + 1, i \in 1 .. k : q = (s - 1) * k + i
    OBVIOUS
  <2>1. PICK x \in Nat : x = n * k /\ (n + 1) * k = x + k
    BY Product
  <2>2. CASE q <= x
    <3>1. q \in 1 .. n * k
      BY <2>1, <2>2
    <3>2. PICK s \in 1 .. n, i \in 1 .. k : q = (s - 1) * k + i
      BY <1>2, <3>1
    <3>3. s \in 1 .. n + 1
      OBVIOUS
    <3>4. QED
      BY <3>2, <3>3
  <2>3. CASE ~ (q <= x)
    <3>1. PICK i \in 1 .. k : q = x + i
      <4>1. q - x \in 1 .. k /\ q = x + (q - x)
        BY <2>1, <2>3
      <4>2. QED
        BY <4>1
    <3>2. n + 1 \in 1 .. n + 1 /\ n + 1 - 1 = n
      OBVIOUS
    <3>3. q = (n + 1 - 1) * k + i
      BY <2>1, <3>1, <3>2
    <3>4. QED
      BY <3>2, <3>3
  <2>4. QED
    BY <2>2, <2>3
<1> HIDE DEF N
<1>3. \A n \in 0 .. m : n \in N
  BY <1>1, <1>2, InductionUpTo
<1>4. m \in N
  BY <1>3
<1>5. QED
  BY <1>4 DEF N

\* The function that FlattenSeq is defined by.
IsFlat(f, ss, m) == f = [i \in 1 .. m |-> IF i = 1 THEN ss[i] ELSE f[i - 1] \o ss[i]]

LEMMA FlatExists ==
    ASSUME NEW ss, NEW n \in Nat
    PROVE  \E f : IsFlat(f, ss, n)
<1> DEFINE N == {m \in Nat : \E f : IsFlat(f, ss, m)}
<1>1. 0 \in N
  <2>1. IsFlat([i \in 1 .. 0 |-> <<>>], ss, 0)
    BY DEF IsFlat
  <2>2. QED
    BY <2>1
<1>2. \A m \in 0 .. n - 1 : m \in N => m + 1 \in N
  <2> SUFFICES ASSUME NEW m \in 0 .. n - 1, NEW f, IsFlat(f, ss, m)
               PROVE  \E g : IsFlat(g, ss, m + 1)
    OBVIOUS
  <2> DEFINE g == [i \in 1 .. m + 1 |-> IF i = 1 THEN ss[i] ELSE f[i - 1] \o ss[i]]
  <2>1. \A i \in 1 .. m : f[i] = IF i = 1 THEN ss[i] ELSE f[i - 1] \o ss[i]
    BY DEF IsFlat
  <2>2. \A i \in 1 .. m : g[i] = f[i]
    BY <2>1
  <2>3. \A i \in 1 .. m + 1 : i # 1 => i - 1 \in 1 .. m
    OBVIOUS
  <2>4. \A i \in 1 .. m + 1 : g[i] = IF i = 1 THEN ss[i] ELSE g[i - 1] \o ss[i]
    BY <2>2, <2>3
  <2>5. g = [i \in 1 .. m + 1 |-> g[i]]
    OBVIOUS
  <2> HIDE DEF g
  <2>6. IsFlat(g, ss, m + 1)
    BY <2>4, <2>5 DEF IsFlat
  <2>7. QED
    BY <2>6
<1> HIDE DEF N
<1>3. n \in N
  BY <1>1, <1>2, InductionUpTo
<1>4. QED
  BY <1>3 DEF N

\* What FlattenSeq does of sequences, one block after the other.
LEMMA FlattenIs ==
    ASSUME NEW A, NEW ss \in Seq(A)
    PROVE  \E f : /\ IsFlat(f, ss, Len(ss))
                  /\ FlattenSeq(ss) = IF Len(ss) = 0 THEN <<>> ELSE f[Len(ss)]
<1>1. FlattenSeq(ss) = IF Len(ss) = 0 THEN ss
                       ELSE (CHOOSE f : IsFlat(f, ss, Len(ss)))[Len(ss)]
  BY Zenon DEF FlattenSeq, IsFlat
<1>2. Len(ss) \in Nat /\ (Len(ss) = 0 => ss = <<>>)
  OBVIOUS
<1>3. PICK f : IsFlat(f, ss, Len(ss))
  BY <1>2, FlatExists
<1>4. QED
  BY <1>1, <1>2, <1>3

LEMMA FlatAt ==
    ASSUME NEW f, NEW ss, NEW n \in Nat, IsFlat(f, ss, n), NEW m \in 0 .. n - 1
    PROVE  f[m + 1] = IF m = 0 THEN ss[1] ELSE f[m] \o ss[m + 1]
<1>1. m + 1 \in 1 .. n /\ m + 1 - 1 = m /\ (m + 1 = 1 <=> m = 0)
  OBVIOUS
<1>2. \A i \in 1 .. n : f[i] = IF i = 1 THEN ss[i] ELSE f[i - 1] \o ss[i]
  BY DEF IsFlat
<1>3. f[m + 1] = IF m + 1 = 1 THEN ss[m + 1] ELSE f[m + 1 - 1] \o ss[m + 1]
  BY <1>1, <1>2
<1>4. QED
  BY <1>1, <1>3

\* What stands in x: the first m of the sequences, all k elements long.
Blocked(x, ss, m, k) ==
    /\ Len(x) = m * k
    /\ \A s \in 1 .. m, i \in 1 .. k : x[(s - 1) * k + i] = ss[s][i]

LEMMA BlockAppended ==
    ASSUME NEW A, NEW k \in Nat, NEW m \in Nat, NEW ss, NEW x \in Seq(A),
           Blocked(x, ss, m, k), ss[m + 1] \in Seq(A), Len(ss[m + 1]) = k,
           NEW y, y = x \o ss[m + 1]
    PROVE  y \in Seq(A) /\ Blocked(y, ss, m + 1, k)
<1>1. PICK z \in Seq(A) : z = ss[m + 1] /\ Len(z) = k
  OBVIOUS
<1>2. y = x \o z
  BY <1>1
<1>3. /\ y \in Seq(A) /\ Len(y) = Len(x) + Len(z)
      /\ \A i \in 1 .. Len(x) : y[i] = x[i]
      /\ \A i \in 1 .. Len(z) : y[Len(x) + i] = z[i]
  BY <1>2, Joined
<1>4. PICK n \in Nat : n = m * k /\ Len(x) = n /\ (m + 1) * k = n + k
  BY Product DEF Blocked
<1>5. ASSUME NEW s \in 1 .. m + 1, NEW i \in 1 .. k
      PROVE  y[(s - 1) * k + i] = ss[s][i]
  <2>1. CASE s <= m
    <3>1. s \in 1 .. m
      BY <2>1
    <3>2. (s - 1) * k + i \in 1 .. n
      BY <1>4, <3>1, InBlock
    <3>3. QED
      BY <1>3, <1>4, <3>1, <3>2 DEF Blocked
  <2>2. CASE s = m + 1
    <3>1. s - 1 = m
      BY <2>2
    <3>2. (s - 1) * k + i = n + i
      BY <1>4, <3>1
    <3>3. QED
      BY <1>1, <1>3, <1>4, <2>2, <3>2
  <2>3. s <= m \/ s = m + 1
    OBVIOUS
  <2>4. QED
    BY <2>1, <2>2, <2>3, Zenon
<1>6. Len(y) = (m + 1) * k
  BY <1>1, <1>3, <1>4
<1>7. QED
  BY <1>3, <1>5, <1>6 DEF Blocked

\* Blocks of one length are one after the other.
LEMMA Blocks ==
    ASSUME NEW A, NEW k \in Nat, NEW ss \in Seq(Seq(A)),
           \A s \in 1 .. Len(ss) : Len(ss[s]) = k
    PROVE  FlattenSeq(ss) \in Seq(A) /\ Blocked(FlattenSeq(ss), ss, Len(ss), k)
<1>1. PICK n \in Nat : n = Len(ss)
  OBVIOUS
<1>2. PICK f : IsFlat(f, ss, n) /\ FlattenSeq(ss) = IF n = 0 THEN <<>> ELSE f[n]
  BY <1>1, FlattenIs
<1> DEFINE x(m) == IF m = 0 THEN <<>> ELSE f[m]
           N == {m \in Nat : x(m) \in Seq(A) /\ Blocked(x(m), ss, m, k)}
<1>3. 0 \in N
  <2>1. Len(<<>>) = 0 * k /\ <<>> \in Seq(A)
    BY Product
  <2>2. QED
    BY <2>1 DEF Blocked
<1>4. ASSUME NEW m \in 0 .. n - 1, m \in N PROVE m + 1 \in N
  <2>1. m \in Nat /\ m + 1 \in 1 .. n /\ m + 1 # 0
    OBVIOUS
  <2>2. ss[m + 1] \in Seq(A) /\ Len(ss[m + 1]) = k
    BY <1>1, <2>1
  <2>3. f[m + 1] = IF m = 0 THEN ss[1] ELSE f[m] \o ss[m + 1]
    BY <1>2, FlatAt
  <2>4. x(m + 1) = x(m) \o ss[m + 1]
    <3>1. m = 0 => x(m) \o ss[m + 1] = ss[1]
      BY <2>2
    <3>2. QED
      BY <2>1, <2>3, <3>1
  <2>5. x(m) \in Seq(A) /\ Blocked(x(m), ss, m, k)
    BY <1>4
  <2> HIDE DEF x
  <2>6. x(m + 1) \in Seq(A) /\ Blocked(x(m + 1), ss, m + 1, k)
    BY <2>1, <2>2, <2>4, <2>5, BlockAppended
  <2>7. QED
    BY <2>1, <2>6
<1>5. n \in N
  <2> HIDE DEF N
  <2>1. \A m \in 0 .. n : m \in N
    BY <1>3, <1>4, InductionUpTo
  <2>2. QED
    BY <2>1
<1>6. x(n) = FlattenSeq(ss)
  BY <1>2
<1>7. QED
  BY <1>1, <1>5, <1>6

\* One sequence, and sequences of one element.
LEMMA FlattenOne ==
    ASSUME NEW A, NEW x \in Seq(A), NEW ss, ss = <<x>>
    PROVE  FlattenSeq(ss) = x
<1>1. PICK k \in Nat : k = Len(x)
  OBVIOUS
<1>2. ss \in Seq(Seq(A)) /\ Len(ss) = 1 /\ ss[1] = x
  OBVIOUS
<1>3. PICK y \in Seq(A) : y = FlattenSeq(ss) /\ Blocked(y, ss, 1, k)
  <2>1. \A s \in 1 .. Len(ss) : Len(ss[s]) = k
    BY <1>1, <1>2
  <2>2. FlattenSeq(ss) \in Seq(A) /\ Blocked(FlattenSeq(ss), ss, 1, k)
    BY <1>2, <2>1, Blocks
  <2>3. QED
    BY <2>2
<1>4. Len(y) = k /\ \A i \in 1 .. k : y[i] = x[i]
  <2>1. Len(y) = k
    BY <1>3, Product DEF Blocked
  <2>2. ASSUME NEW i \in 1 .. k PROVE y[i] = x[i]
    <3>1. y[(1 - 1) * k + i] = ss[1][i]
      BY <1>3 DEF Blocked
    <3>2. (1 - 1) * k + i = i
      BY Product
    <3>3. QED
      BY <1>2, <3>1, <3>2
  <2>3. QED
    BY <2>1, <2>2
<1>5. y = x
  BY <1>1, <1>4, SeqEqual
<1>6. QED
  BY <1>3, <1>5

LEMMA FlattenUnits ==
    ASSUME NEW A, NEW x \in Seq(A), NEW ss, ss = [i \in 1 .. Len(x) |-> <<x[i]>>]
    PROVE  FlattenSeq(ss) = x
<1>1. PICK n \in Nat : n = Len(x)
  OBVIOUS
<1>2. \A i \in 1 .. n : <<x[i]>> \in Seq(A) /\ Len(<<x[i]>>) = 1 /\ <<x[i]>>[1] = x[i]
  BY <1>1
<1>3. /\ ss \in Seq(Seq(A)) /\ Len(ss) = n
      /\ \A i \in 1 .. n : Len(ss[i]) = 1 /\ ss[i][1] = x[i]
  <2>1. ss = [i \in 1 .. n |-> <<x[i]>>]
    BY <1>1
  <2>2. ss \in Seq(Seq(A)) /\ Len(ss) = n
    BY <1>2, <2>1
  <2>3. QED
    BY <1>2, <2>1, <2>2
<1>4. PICK y \in Seq(A) : y = FlattenSeq(ss) /\ Blocked(y, ss, n, 1)
  BY <1>3, Blocks
<1>5. Len(y) = n
  BY <1>4 DEF Blocked
<1>6. ASSUME NEW i \in 1 .. n PROVE y[i] = x[i]
  <2>1. 1 \in 1 .. 1
    OBVIOUS
  <2>2. y[(i - 1) * 1 + 1] = ss[i][1]
    BY <1>4, <2>1 DEF Blocked
  <2>3. (i - 1) * 1 + 1 = i
    OBVIOUS
  <2>4. QED
    BY <1>3, <2>2, <2>3
<1>7. y = x
  BY <1>1, <1>5, <1>6, SeqEqual
<1>8. QED
  BY <1>4, <1>7

-----------------------------------------------------------------------------
(* Disks, and what is read of a file of one.                               *)

\* A quotient and what is left.
LEMMA Division ==
    ASSUME NEW n \in Nat, NEW d \in Nat \ {0}
    PROVE  /\ n \div d \in Nat /\ n % d \in 0 .. d - 1
           /\ n = (n \div d) * d + (n % d)
<1> DEFINE q == n \div d
           r == n % d
<1>1. q \in Int /\ q * d <= n /\ n < (q + 1) * d
  OBVIOUS
<1>2. r \in 0 .. d - 1
  OBVIOUS
<1>3. n = q * d + r
  OBVIOUS
<1> HIDE DEF q, r
<1>4. q >= 0
  <2>1. SUFFICES ASSUME q + 1 <= 0 PROVE FALSE
    BY <1>1
  <2>2. (q + 1) * d <= 0
    BY <1>1, <2>1
  <2>3. (q + 1) * d \in Int
    BY <1>1
  <2>4. QED
    BY <1>1, <2>2, <2>3
<1>5. QED
  BY <1>1, <1>2, <1>3, <1>4 DEF q, r

\* The place among the cells of a disk of the i-th one of a sector.
CellAt(a, b, i, s, k) == (a - 1) * (s * k) + ((b - 1) * k + i)

\* A disk m of t tracks of s sectors of k cells, with the cells c.
Disk(m, c, t, s, k) ==
    /\ m \in Seq(Seq(Seq(Cell))) /\ Len(m) = t
    /\ Len(c) = t * (s * k)
    /\ \A a \in 1 .. t :
          /\ Len(m[a]) = s
          /\ \A b \in 1 .. s : Len(m[a][b]) = k
          /\ \A b \in 1 .. s, i \in 1 .. k : m[a][b][i] = c[CellAt(a, b, i, s, k)]

\* A captured disk has the cells of the file, in tracks of sectors.
LEMMA MediumIs ==
    ASSUME NEW c \in Seq(Cell), NEW geo \in Geometries,
           Len(c) % (geo.sectors * geo.cells) = 0
    PROVE  \E t \in Nat : Disk(MediumOf(c, geo), c, t, geo.sectors, geo.cells)
<1>1. PICK s \in Nat \ {0}, k \in Nat \ {0} : s = geo.sectors /\ k = geo.cells
  BY GeometryAssumption, GuessAssumption
<1>2. PICK p \in Nat \ {0} : p = s * k
  <2>1. s * k \in Nat /\ s * k # 0
    BY SMTT(30)
  <2>2. QED
    BY <2>1
<1>3. PICK n \in Nat : n = Len(c)
  OBVIOUS
<1>4. PICK t \in Nat : t = n \div p /\ n = t * p
  <2>1. n \div p \in Nat /\ n = (n \div p) * p + (n % p)
    BY Division
  <2>2. n % p = 0
    BY <1>1, <1>2, <1>3
  <2>3. (n \div p) * p \in Nat
    BY <2>1, Product
  <2>4. QED
    BY <2>1, <2>2, <2>3
<1> DEFINE cell(a, b, i) == c[(a - 1) * p + (b - 1) * k + i]
           m == [a \in 1 .. t |-> [b \in 1 .. s |-> [i \in 1 .. k |-> cell(a, b, i)]]]
<1>5. MediumOf(c, geo) = m
  BY <1>1, <1>2, <1>3, <1>4 DEF MediumOf
<1>6. ASSUME NEW a \in 1 .. t, NEW b \in 1 .. s, NEW i \in 1 .. k
      PROVE  cell(a, b, i) \in Cell /\ cell(a, b, i) = c[(a - 1) * (s * k) + ((b - 1) * k + i)]
  <2>1. PICK x \in 1 .. p : x = (b - 1) * k + i
    BY <1>2, InBlock
  <2>2. (a - 1) * p + x \in 1 .. t * p
    BY InBlock
  <2>3. PICK y \in Nat : y = (a - 1) * p
    <3>1. a - 1 \in Nat
      OBVIOUS
    <3>2. QED
      BY <3>1, Product
  <2>4. PICK z \in Nat : z = (b - 1) * k
    <3>1. b - 1 \in Nat
      OBVIOUS
    <3>2. QED
      BY <3>1, Product
  <2>5. (a - 1) * p + (b - 1) * k + i = y + x /\ (a - 1) * (s * k) + ((b - 1) * k + i) = y + x
    BY <1>2, <2>1, <2>3, <2>4
  <2>6. y + x \in 1 .. n
    BY <1>4, <2>2, <2>3
  <2>7. c[y + x] \in Cell
    BY <1>3, <2>6
  <2>8. QED
    BY <2>5, <2>7
<1> HIDE DEF cell
<1>7. \A a \in 1 .. t, b \in 1 .. s :
         /\ m[a][b] = [i \in 1 .. k |-> cell(a, b, i)]
         /\ [i \in 1 .. k |-> cell(a, b, i)] \in Seq(Cell)
         /\ Len([i \in 1 .. k |-> cell(a, b, i)]) = k
  BY <1>6
<1>8. \A a \in 1 .. t : m[a] \in Seq(Seq(Cell)) /\ Len(m[a]) = s
  <2> SUFFICES ASSUME NEW a \in 1 .. t PROVE m[a] \in Seq(Seq(Cell)) /\ Len(m[a]) = s
    OBVIOUS
  <2> DEFINE e(b) == [i \in 1 .. k |-> cell(a, b, i)]
  <2>1. \A b \in 1 .. s : e(b) \in Seq(Cell)
    BY <1>7
  <2>2. m[a] = [b \in 1 .. s |-> e(b)]
    OBVIOUS
  <2> HIDE DEF e, m
  <2>3. [b \in 1 .. s |-> e(b)] \in Seq(Seq(Cell)) /\ Len([b \in 1 .. s |-> e(b)]) = s
    BY <2>1
  <2>4. QED
    BY <2>2, <2>3
<1>9. m \in Seq(Seq(Seq(Cell))) /\ Len(m) = t
  <2> DEFINE e(a) == [b \in 1 .. s |-> [i \in 1 .. k |-> cell(a, b, i)]]
  <2>1. \A a \in 1 .. t : e(a) = m[a]
    OBVIOUS
  <2>2. m = [a \in 1 .. t |-> e(a)]
    OBVIOUS
  <2> HIDE DEF e, m
  <2>3. \A a \in 1 .. t : e(a) \in Seq(Seq(Cell))
    BY <1>8, <2>1
  <2>4. [a \in 1 .. t |-> e(a)] \in Seq(Seq(Seq(Cell))) /\ Len([a \in 1 .. t |-> e(a)]) = t
    BY <2>3
  <2>5. QED
    BY <2>2, <2>4
<1>10. \A a \in 1 .. t, b \in 1 .. s, i \in 1 .. k :
          m[a][b][i] = c[CellAt(a, b, i, s, k)]
  <2>1. \A a \in 1 .. t, b \in 1 .. s, i \in 1 .. k : m[a][b][i] = cell(a, b, i)
    OBVIOUS
  <2> HIDE DEF m
  <2>2. QED
    BY <1>6, <2>1 DEF CellAt
<1>11. \A a \in 1 .. t, b \in 1 .. s : Len(m[a][b]) = k
  BY <1>7, Zenon
<1>12. Len(c) = t * (s * k)
  BY <1>2, <1>3, <1>4
<1> HIDE DEF m
<1>13. Disk(m, c, t, s, k)
  BY <1>8, <1>9, <1>10, <1>11, <1>12 DEF Disk
<1>14. QED
  BY <1>1, <1>5, <1>13

-----------------------------------------------------------------------------
(* A record of a sector.                                                   *)

\* A sector that is full of one cell.
LEMMA FillIs ==
    ASSUME NEW x \in Seq(Cell), NEW c \in Fill(x)
    PROVE  /\ c \in Cell /\ x = [i \in 1 .. Len(x) |-> c] /\ Len(x) # 0
<1>1. \A i \in DOMAIN x : x[i] = c
  BY DEF Fill
<1>2. c \in ToSet(x)
  BY DEF Fill
<1>3. PICK i \in DOMAIN x : x[i] = c
  BY <1>2 DEF ToSet
<1>4. QED
  BY <1>1, <1>3

\* Whatever the record of a sector, .imd gives the sector back.
LEMMA ImdDecodes ==
    ASSUME NEW x \in Seq(Cell), NEW r \in ImdRecords(x)
    PROVE  ImdDecoded(r, Len(x)) = x
<1>1. CASE r = [code |-> 1, data |-> x]
  BY <1>1 DEF ImdDecoded
<1>2. ASSUME NEW c \in Fill(x), r = [code |-> 2, fill |-> c]
      PROVE  ImdDecoded(r, Len(x)) = x
  BY <1>2, FillIs DEF ImdDecoded
<1>3. ASSUME NEW c \in Fill(x) \cap {Zero}, r = [code |-> 0]
      PROVE  ImdDecoded(r, Len(x)) = x
  BY <1>3, FillIs DEF ImdDecoded
<1>4. QED
  BY <1>1, <1>2, <1>3 DEF ImdRecords

LEMMA ExpandedOne ==
    ASSUME NEW n \in Nat, NEW p \in Seq(Cell), NEW y \in Seq(Cell), y = Repeated(n, p)
    PROVE  Expanded(<<[n |-> n, pattern |-> p]>>) = y
<1> DEFINE q == <<[n |-> n, pattern |-> p]>>
           e == [i \in DOMAIN q |-> Repeated(q[i].n, q[i].pattern)]
<1>1. DOMAIN q = 1 .. 1 /\ q[1].n = n /\ q[1].pattern = p
  OBVIOUS
<1>2. e = [i \in 1 .. 1 |-> y]
  BY <1>1
<1>3. [i \in 1 .. 1 |-> y] = <<y>>
  OBVIOUS
<1>4. Expanded(q) = FlattenSeq(e)
  BY DEF Expanded
<1> HIDE DEF e
<1>5. e = <<y>>
  BY <1>2, <1>3
<1>6. QED
  BY <1>4, <1>5, FlattenOne

LEMMA RunsExpand ==
    ASSUME NEW x \in Seq(Cell), NEW p \in Runs(x) \cup {<<[n |-> 0, pattern |-> x]>>}
    PROVE  Expanded(p) = x
<1>1. CASE p = <<[n |-> 0, pattern |-> x]>>
  <2>1. Repeated(0, x) = x
    BY DEF Repeated
  <2>2. QED
    BY <1>1, <2>1, ExpandedOne
<1>2. ASSUME NEW c \in Fill(x), p = <<[n |-> Len(x), pattern |-> <<c>>]>>
      PROVE  Expanded(p) = x
  <2>1. c \in Cell /\ x = [i \in 1 .. Len(x) |-> c] /\ Len(x) # 0 /\ Len(x) \in Nat
    BY FillIs
  <2>2. [i \in 1 .. Len(x) |-> <<c>>] = [i \in 1 .. Len(x) |-> <<x[i]>>]
    <3>1. \A i \in 1 .. Len(x) : x[i] = c
      BY <2>1
    <3>2. QED
      BY <3>1
  <2>3. Repeated(Len(x), <<c>>) = FlattenSeq([i \in 1 .. Len(x) |-> <<c>>])
    BY <2>1 DEF Repeated
  <2>4. Repeated(Len(x), <<c>>) = x
    BY <2>2, <2>3, FlattenUnits
  <2>5. <<c>> \in Seq(Cell)
    BY <2>1
  <2>6. QED
    BY <1>2, <2>1, <2>4, <2>5, ExpandedOne
<1>3. ASSUME p = [i \in DOMAIN x |-> [n |-> 1, pattern |-> <<x[i]>>]]
      PROVE  Expanded(p) = x
  <2>1. DOMAIN p = 1 .. Len(x)
    BY <1>3
  <2>2. ASSUME NEW i \in 1 .. Len(x) PROVE Repeated(p[i].n, p[i].pattern) = <<x[i]>>
    <3>1. p[i].n = 1 /\ p[i].pattern = <<x[i]>> /\ x[i] \in Cell
      BY <1>3
    <3>2. <<x[i]>> \in Seq(Cell)
      BY <3>1
    <3>3. [j \in 1 .. 1 |-> <<x[i]>>] = <<<<x[i]>>>>
      OBVIOUS
    <3>4. Repeated(1, <<x[i]>>) = FlattenSeq([j \in 1 .. 1 |-> <<x[i]>>])
      BY DEF Repeated
    <3>5. FlattenSeq([j \in 1 .. 1 |-> <<x[i]>>]) = <<x[i]>>
      BY <3>2, <3>3, FlattenOne
    <3>6. QED
      BY <3>1, <3>4, <3>5
  <2>3. [i \in DOMAIN p |-> Repeated(p[i].n, p[i].pattern)] = [i \in 1 .. Len(x) |-> <<x[i]>>]
    BY <2>1, <2>2
  <2>4. Expanded(p) = FlattenSeq([i \in 1 .. Len(x) |-> <<x[i]>>])
    BY <2>3 DEF Expanded
  <2>5. QED
    BY <2>4, FlattenUnits
<1>4. QED
  BY <1>1, <1>2, <1>3 DEF Runs

\* Whatever the record of a sector, .td0 gives the sector back, or junk for zeros.
LEMMA Td0Decodes ==
    ASSUME NEW x \in Seq(Cell), NEW id, NEW r \in Td0Records(x, id),
           NEW y, y = Td0Decoded(r, Len(x))
    PROVE  /\ y \in Seq(Cell) /\ Len(y) = Len(x)
           /\ \A i \in 1 .. Len(x) : Stands(y[i], x[i])
<1>1. ASSUME y = x
      PROVE  y \in Seq(Cell) /\ Len(y) = Len(x) /\ \A i \in 1 .. Len(x) : Stands(y[i], x[i])
  BY <1>1 DEF Stands
<1>2. CASE r = [flags |-> 0, method |-> 0, data |-> x]
  <2>1. y = x
    BY <1>2 DEF Td0Decoded
  <2>2. QED
    BY <1>1, <2>1
<1>3. ASSUME NEW p \in Runs(x), r = [flags |-> 0, method |-> 1, pieces |-> p]
      PROVE  y = x
  <2>1. y = Expanded(p)
    BY <1>3 DEF Td0Decoded
  <2>2. QED
    BY <2>1, RunsExpand
<1>4. ASSUME NEW p \in Runs(x) \cup {<<[n |-> 0, pattern |-> x]>>},
             r = [flags |-> 0, method |-> 2, pieces |-> p]
      PROVE  y = x
  <2>1. y = Expanded(p)
    BY <1>4 DEF Td0Decoded
  <2>2. QED
    BY <2>1, RunsExpand
<1>5. ASSUME NEW c \in {z \in Fill(x) : z = Zero /\ id \in Skippable}, r = [flags |-> 16]
      PROVE  y \in Seq(Cell) /\ Len(y) = Len(x) /\ \A i \in 1 .. Len(x) : Stands(y[i], x[i])
  <2>1. y = [i \in 1 .. Len(x) |-> Junk]
    BY <1>5 DEF Td0Decoded
  <2>2. x = [i \in 1 .. Len(x) |-> Zero]
    BY FillIs
  <2>3. Junk \in Cell /\ Len(x) \in Nat
    BY DEF Cell
  <2>4. \A i \in 1 .. Len(x) : y[i] = Junk /\ x[i] = Zero
    BY <2>1, <2>2
  <2>5. y \in Seq(Cell) /\ Len(y) = Len(x)
    BY <2>1, <2>3
  <2>6. QED
    BY <2>4, <2>5 DEF Stands
<1>6. QED
  BY <1>1, <1>2, <1>3, <1>4, <1>5 DEF Td0Records

-----------------------------------------------------------------------------
(* Reading a file: what has been read so far is the beginning of the disk.  *)

\* What is assumed of floppy disks of s sectors on a track, of k cells.
Geo(s, k) ==
    /\ s \in Nat \ {0} /\ k \in Nat \ {0} /\ k <= GuessedSize
    /\ \A o \in Orders("imd", s) :
          /\ o \in [1 .. s -> 1 .. s]
          /\ \A id \in 1 .. s : \E j \in 1 .. s : o[j] = id
    /\ \A o \in Orders("td0", s) : o = [j \in 1 .. s |-> j]

LEMMA GeoIs == \A geo \in Geometries : Geo(geo.sectors, geo.cells)
<1> SUFFICES ASSUME NEW geo \in Geometries PROVE Geo(geo.sectors, geo.cells)
  OBVIOUS
<1>1. PICK g \in Nat : g = GuessedSize
  BY GuessAssumption
<1>2. geo.sectors \in Nat \ {0} /\ geo.cells \in 1 .. g
  BY <1>1, GeometryAssumption
<1>3. geo.cells \in Nat \ {0} /\ geo.cells <= GuessedSize
  BY <1>1, <1>2
<1>4. /\ \A o \in Orders("imd", geo.sectors) :
           /\ o \in [1 .. geo.sectors -> 1 .. geo.sectors]
           /\ \A id \in 1 .. geo.sectors : \E j \in 1 .. geo.sectors : o[j] = id
      /\ \A o \in Orders("td0", geo.sectors) : o = [j \in 1 .. geo.sectors |-> j]
  BY GeometryAssumption
<1>5. QED
  BY <1>2, <1>3, <1>4 DEF Geo

\* The sectors of the track that have been read are in their places, in whatever
\* order they are in the file.
ImdAt(t, s, k) ==
    /\ Len(data) = (at.track - 1) * (s * k) /\ size = Len(data)
    /\ at.track <= t =>
          /\ order \in Orders("imd", s)
          /\ placed \in Seq(Seq(Cell)) /\ Len(placed) = s
          /\ \A j \in 1 .. at.sector - 1 : placed[order[j]] = Track[order[j]]

Td0At(t, s, k) ==
    /\ Len(data) = (at.track - 1) * (s * k) + (at.sector - 1) * k
    /\ GuessedSize <= size /\ Len(data) <= size
    /\ at.track <= t => order = [j \in 1 .. s |-> j]
    /\ at.track = t + 1 => at.sector = 1

ReaderInv(c, t, s, k) ==
    /\ Disk(medium, c, t, s, k)
    /\ format \in {"imd", "td0"}
    /\ at \in [track : 1 .. t + 1, sector : 1 .. s + 1]
    /\ data \in Seq(Cell) /\ size \in Nat
    /\ \A i \in 1 .. Len(data) : Stands(data[i], c[i])
    /\ format = "imd" => ImdAt(t, s, k)
    /\ format = "td0" => Td0At(t, s, k)

\* A sector is put where its number says.
LEMMA PlaceOfSector ==
    ASSUME NEW s \in Nat \ {0}, NEW id \in 1 .. s, NEW j
    PROVE  SectorPlace(id, s, j) + 1 = id
<1>1. PICK n \in Nat : n = id + s - 1
  OBVIOUS
<1>2. PICK q \in Nat, r \in 0 .. s - 1 : r = n % s /\ n = q * s + r
  BY Division
<1>3. PICK x \in Nat : x = q * s
  BY Product
<1>4. q = 0 => x = 0
  BY <1>3, Product
<1>5. q >= 2 => x >= s + s
  BY <1>3, SMTT(30)
<1>6. q = 1 => x = s
  BY <1>3, Product
<1>7. n >= s /\ n < s + s /\ n = x + r
  BY <1>1, <1>2, <1>3
<1>8. q = 1
  <2>1. q # 0
    BY <1>4, <1>7
  <2>2. ~ (q >= 2)
    BY <1>5, <1>7
  <2>3. QED
    BY <2>1, <2>2
<1>9. r = id - 1
  BY <1>1, <1>6, <1>7, <1>8
<1>10. QED
  BY <1>1, <1>2, <1>9 DEF SectorPlace

\* Where a reader is that has not read all.
LEMMA OnTrack ==
    ASSUME NEW c, NEW t \in Nat, NEW s \in Nat \ {0}, NEW k \in Nat \ {0}, Geo(s, k), ReaderInv(c, t, s, k),
           at.track <= Len(medium)
    PROVE  /\ at.track \in 1 .. t /\ at.track <= t /\ at.sector \in 1 .. s + 1
           /\ Track \in Seq(Seq(Cell)) /\ Sectors = s
           /\ at = [track |-> at.track, sector |-> at.sector]
           /\ \A b \in 1 .. s : Track[b] \in Seq(Cell) /\ Len(Track[b]) = k
<1>1. Len(medium) = t /\ medium \in Seq(Seq(Seq(Cell)))
  BY DEF ReaderInv, Disk
<1>2. at.track \in 1 .. t + 1 /\ at.sector \in 1 .. s + 1
      /\ at = [track |-> at.track, sector |-> at.sector]
  BY DEF ReaderInv
<1>3. at.track \in 1 .. t
  BY <1>1, <1>2
<1>4. Track \in Seq(Seq(Cell)) /\ Len(Track) = s /\ \A b \in 1 .. s : Len(Track[b]) = k
  BY <1>1, <1>3 DEF Track, ReaderInv, Disk
<1>5. QED
  BY <1>1, <1>2, <1>3, <1>4 DEF Sectors

\* The cells of a track in the order of the disk.
LEMMA CellsOfTrack ==
    ASSUME NEW c, NEW t \in Nat, NEW s \in Nat \ {0}, NEW k \in Nat \ {0},
           ReaderInv(c, t, s, k), at.track \in 1 .. t,
           NEW b \in 1 .. s, NEW i \in 1 .. k
    PROVE  Track[b][i] = c[CellAt(at.track, b, i, s, k)]
BY DEF Track, ReaderInv, Disk

\* A sector of an .imd track is read.
LEMMA ImdRecordStep ==
    ASSUME NEW c, NEW t \in Nat, NEW s \in Nat \ {0}, NEW k \in Nat \ {0}, Geo(s, k), ReaderInv(c, t, s, k),
           ImdReadRecord
    PROVE  ReaderInv(c, t, s, k)'
<1>1. format = "imd" /\ at.track <= Len(medium) /\ at.sector <= Sectors
      /\ UNCHANGED <<format, medium, order, data, size>>
      /\ at' = [at EXCEPT !.sector = @ + 1]
  BY DEF ImdReadRecord
<1>2. /\ at.track \in 1 .. t /\ at.track <= t /\ at.sector \in 1 .. s + 1 /\ Sectors = s
      /\ at = [track |-> at.track, sector |-> at.sector]
      /\ \A b \in 1 .. s : Track[b] \in Seq(Cell) /\ Len(Track[b]) = k
  BY <1>1, OnTrack
<1>3. PICK j \in 1 .. s : j = at.sector
  BY <1>1, <1>2 DEF Geo
<1>4. order \in [1 .. s -> 1 .. s] /\ \A i \in 1 .. s : order[i] \in 1 .. s
  BY <1>1, <1>2 DEF ReaderInv, ImdAt, Geo
<1>5. PICK id \in 1 .. s : id = order[j]
  BY <1>4
<1>6. PICK r \in ImdRecords(Track[id]) :
         placed' = [placed EXCEPT ![SectorPlace(id, s, j - 1) + 1] =
                        ImdDecoded(r, Len(Track[id]))]
  BY <1>2, <1>3, <1>5 DEF ImdReadRecord
<1>7. ImdDecoded(r, Len(Track[id])) = Track[id]
  BY <1>2, ImdDecodes
<1>8. SectorPlace(id, s, j - 1) + 1 = id
  BY PlaceOfSector DEF Geo
<1>9. placed' = [placed EXCEPT ![id] = Track[id]]
  BY <1>6, <1>7, <1>8
<1>10. /\ placed \in Seq(Seq(Cell)) /\ Len(placed) = s
       /\ \A i \in 1 .. j - 1 : placed[order[i]] = Track[order[i]]
  BY <1>1, <1>2, <1>3 DEF ReaderInv, ImdAt
<1>11. /\ placed' \in Seq(Seq(Cell)) /\ Len(placed') = s
       /\ placed'[id] = Track[id] /\ \A b \in 1 .. s : b # id => placed'[b] = placed[b]
  <2>1. Track[id] \in Seq(Cell)
    BY <1>2
  <2>2. QED
    BY <1>9, <1>10, <2>1
<1>12. at' = [track |-> at.track, sector |-> j + 1] /\ j + 1 \in 1 .. s + 1 /\ j \in Nat
  BY <1>1, <1>2, <1>3
<1>13. \A i \in 1 .. j : placed'[order[i]] = Track[order[i]]
  <2> SUFFICES ASSUME NEW i \in 1 .. j PROVE placed'[order[i]] = Track[order[i]]
    OBVIOUS
  <2>1. i \in 1 .. s /\ (i # j => i \in 1 .. j - 1)
    BY <1>12
  <2>2. order[i] \in 1 .. s
    BY <1>4, <2>1
  <2>3. PICK b \in 1 .. s : b = order[i]
    BY <2>2
  <2>4. CASE b = id
    BY <1>11, <2>3, <2>4
  <2>5. CASE b # id
    <3>1. i # j
      BY <1>5, <2>3, <2>5
    <3>2. placed[b] = Track[b]
      BY <1>10, <2>1, <2>3, <3>1
    <3>3. QED
      BY <1>11, <2>3, <2>5, <3>2
  <2>6. QED
    BY <2>4, <2>5
<1>14. Track' = Track /\ at'.track = at.track /\ at'.sector - 1 = j
  BY <1>1, <1>12 DEF Track
<1>15. ImdAt(t, s, k)'
  <2>1. ImdAt(t, s, k)
    BY <1>1 DEF ReaderInv
  <2>2. data' = data /\ size' = size /\ order' = order
    BY <1>1
  <2>3. QED
    BY <1>11, <1>13, <1>14, <1>2, <2>1, <2>2 DEF ImdAt
<1>16. at' \in [track : 1 .. t + 1, sector : 1 .. s + 1]
  BY <1>2, <1>12
<1>17. QED
  BY <1>1, <1>15, <1>16 DEF ReaderInv

LEMMA TrackBegins ==
    ASSUME NEW c, NEW t \in Nat, NEW s \in Nat \ {0}, NEW k \in Nat \ {0}, Geo(s, k), Disk(medium, c, t, s, k),
           NEW a \in 1 .. t + 1, NextTrack(a)
    PROVE  a <= t => /\ order' \in Orders(format, s)
                     /\ placed' \in Seq(Seq(Cell)) /\ Len(placed') = s
<1> SUFFICES ASSUME a <= t
             PROVE  order' \in Orders(format, s) /\ placed' \in Seq(Seq(Cell)) /\ Len(placed') = s
  OBVIOUS
<1>1. a \in 1 .. t /\ Len(medium) = t /\ Len(medium[a]) = s
  BY DEF Disk
<1>2. order' \in Orders(format, s) /\ placed' = [b \in 1 .. s |-> <<>>]
  BY <1>1 DEF NextTrack
<1>3. s \in Nat /\ <<>> \in Seq(Cell)
  BY DEF Geo
<1>4. QED
  BY <1>2, <1>3

\* Some whole sequence y is read after data.
LEMMA Extended ==
    ASSUME NEW c, NEW d \in Seq(Cell), NEW y \in Seq(Cell), NEW e, e = d \o y,
           \A i \in 1 .. Len(d) : Stands(d[i], c[i]),
           \A i \in 1 .. Len(y) : Stands(y[i], c[Len(d) + i])
    PROVE  /\ e \in Seq(Cell) /\ Len(e) = Len(d) + Len(y)
           /\ \A i \in 1 .. Len(e) : Stands(e[i], c[i])
<1>1. /\ e \in Seq(Cell) /\ Len(e) = Len(d) + Len(y)
      /\ \A i \in 1 .. Len(d) : e[i] = d[i]
      /\ \A i \in 1 .. Len(y) : e[Len(d) + i] = y[i]
  BY Joined
<1>2. PICK n \in Nat, m \in Nat : n = Len(d) /\ m = Len(y)
  OBVIOUS
<1>3. ASSUME NEW i \in 1 .. n + m PROVE Stands(e[i], c[i])
  <2>1. CASE i <= n
    <3>1. i \in 1 .. n
      BY <2>1
    <3>2. QED
      BY <1>1, <1>2, <3>1
  <2>2. CASE ~ (i <= n)
    <3>1. PICK q \in 1 .. m : i = n + q
      <4>1. i - n \in 1 .. m /\ i = n + (i - n)
        BY <2>2
      <4>2. QED
        BY <4>1
    <3>2. e[n + q] = y[q] /\ Stands(y[q], c[n + q])
      BY <1>1, <1>2, <3>1
    <3>3. QED
      BY <3>1, <3>2
  <2>3. QED
    BY <2>1, <2>2
<1>4. QED
  BY <1>1, <1>2, <1>3

\* An .imd track is put behind those before it.
LEMMA ImdEndStep ==
    ASSUME NEW c, NEW t \in Nat, NEW s \in Nat \ {0}, NEW k \in Nat \ {0}, Geo(s, k), ReaderInv(c, t, s, k),
           ImdEndTrack
    PROVE  ReaderInv(c, t, s, k)'
<1>1. /\ format = "imd" /\ at.track <= Len(medium) /\ at.sector > Sectors
      /\ data' = data \o FlattenSeq(placed) /\ size' = Len(data')
      /\ at' = [track |-> at.track + 1, sector |-> 1]
      /\ NextTrack(at.track + 1) /\ UNCHANGED <<format, medium>>
  BY DEF ImdEndTrack
<1>2. /\ at.track \in 1 .. t /\ at.track <= t /\ at.sector \in 1 .. s + 1 /\ Sectors = s
      /\ \A b \in 1 .. s : Track[b] \in Seq(Cell) /\ Len(Track[b]) = k
  BY <1>1, OnTrack
<1>3. s \in Nat \ {0} /\ k \in Nat \ {0}
  BY DEF Geo
<1>4. at.sector - 1 = s
  BY <1>1, <1>2, <1>3
<1>5. /\ placed \in Seq(Seq(Cell)) /\ Len(placed) = s
      /\ \A j \in 1 .. s : placed[order[j]] = Track[order[j]]
      /\ order \in Orders("imd", s)
      /\ Len(data) = (at.track - 1) * (s * k)
  BY <1>1, <1>2, <1>4 DEF ReaderInv, ImdAt
<1>6. \A b \in 1 .. s : placed[b] = Track[b]
  <2>1. \A b \in 1 .. s : \E j \in 1 .. s : order[j] = b
    BY <1>5 DEF Geo
  <2>2. ASSUME NEW b \in 1 .. s PROVE placed[b] = Track[b]
    <3>1. PICK j \in 1 .. s : order[j] = b
      BY <2>1
    <3>2. QED
      BY <1>5, <3>1
  <2>3. QED
    BY <2>2
<1>7. PICK y \in Seq(Cell) : y = FlattenSeq(placed) /\ Blocked(y, placed, s, k)
  <2>1. \A b \in 1 .. Len(placed) : Len(placed[b]) = k
    BY <1>2, <1>5, <1>6
  <2>2. FlattenSeq(placed) \in Seq(Cell) /\ Blocked(FlattenSeq(placed), placed, s, k)
    BY <1>3, <1>5, <2>1, Blocks
  <2>3. QED
    BY <2>2
<1>8. PICK n \in Nat : n = (at.track - 1) * (s * k) /\ Len(data) = n
  BY <1>5 DEF ReaderInv
<1>9. PICK p \in Nat : p = s * k /\ Len(y) = p
  BY <1>3, <1>7, Product DEF Blocked
<1>10. ASSUME NEW q \in 1 .. p PROVE Stands(y[q], c[n + q])
  <2>1. PICK b \in 1 .. s, i \in 1 .. k : q = (b - 1) * k + i
    <3>1. q \in 1 .. s * k
      BY <1>9
    <3>2. QED
      BY <3>1, BlockOf, Zenon
  <2>2. y[q] = placed[b][i]
    BY <1>7, <2>1 DEF Blocked
  <2>3. Track[b][i] = c[n + q]
    <3>1. at.track \in 1 .. t /\ b \in 1 .. s /\ i \in 1 .. k
      BY <1>2, <2>1
    <3>2. Track[b][i] = c[CellAt(at.track, b, i, s, k)]
      BY ONLY t \in Nat, s \in Nat \ {0}, k \in Nat \ {0}, ReaderInv(c, t, s, k), <3>1,
         CellsOfTrack
    <3>3. QED
      BY <1>8, <2>1, <3>2 DEF CellAt
  <2>4. QED
    BY <1>6, <2>2, <2>3 DEF Stands
<1>11. data \in Seq(Cell) /\ \A i \in 1 .. Len(data) : Stands(data[i], c[i])
  BY DEF ReaderInv
<1>12. /\ data' \in Seq(Cell) /\ Len(data') = n + p
       /\ \A i \in 1 .. Len(data') : Stands(data'[i], c[i])
  <2>0. PICK d \in Seq(Cell) : d = data
    BY <1>11
  <2>1. PICK e : d = data /\ e = data' /\ e = d \o y
    BY <1>1, <1>7, <2>0
  <2>2. /\ \A i \in 1 .. Len(d) : Stands(d[i], c[i])
        /\ \A i \in 1 .. Len(y) : Stands(y[i], c[Len(d) + i])
    BY <1>8, <1>9, <1>10, <1>11, <2>1
  <2>3. /\ e \in Seq(Cell) /\ Len(e) = Len(d) + Len(y)
        /\ \A i \in 1 .. Len(e) : Stands(e[i], c[i])
    BY ONLY y \in Seq(Cell), <2>0, <2>1, <2>2, Extended
  <2>4. QED
    BY <1>8, <1>9, <2>1, <2>3
<1>13. PICK a \in Nat : a = at.track - 1 /\ at.track = a + 1
  BY <1>2
<1>14. n + p = (at'.track - 1) * (s * k)
  <2>1. (a + 1) * p = a * p + p
    BY Product
  <2>2. at'.track - 1 = a + 1
    BY <1>1, <1>13
  <2>3. QED
    BY <1>8, <1>9, <1>13, <2>1, <2>2
<1>15. at' \in [track : 1 .. t + 1, sector : 1 .. s + 1] /\ at'.sector - 1 = 0
       /\ at'.track = at.track + 1 /\ at.track + 1 \in 1 .. t + 1
  <2>1. PICK x \in 1 .. t : x = at.track
    BY <1>2
  <2>2. at' = [track |-> x + 1, sector |-> 1] /\ x + 1 \in 1 .. t + 1 /\ 1 \in 1 .. s + 1
    BY <1>1, <2>1
  <2>3. QED
    BY <2>1, <2>2
<1>16. at'.track <= t => /\ order' \in Orders("imd", s)
                         /\ placed' \in Seq(Seq(Cell)) /\ Len(placed') = s
  <2>1. Disk(medium, c, t, s, k)
    BY DEF ReaderInv
  <2>2. QED
    BY <1>1, <1>15, <2>1, TrackBegins
<1>17. ImdAt(t, s, k)'
  <2>1. 1 .. at'.sector - 1 = {}
    BY <1>15
  <2>2. Len(data') = (at'.track - 1) * (s * k) /\ size' = Len(data')
    BY <1>1, <1>12, <1>14
  <2>3. QED
    BY <1>16, <2>1, <2>2 DEF ImdAt
<1>18. size' \in Nat
  BY <1>1, <1>12
<1>19. QED
  BY <1>1, <1>12, <1>15, <1>17, <1>18 DEF ReaderInv

\* A sector of a .td0 file is put behind those before it, and fits.
LEMMA Td0SectorStep ==
    ASSUME NEW c, NEW t \in Nat, NEW s \in Nat \ {0}, NEW k \in Nat \ {0}, Geo(s, k),
           ReaderInv(c, t, s, k), Td0ReadSector
    PROVE  ReaderInv(c, t, s, k)'
<1>1. /\ format = "td0" /\ at.track <= Len(medium) /\ at.sector <= Sectors
      /\ size' = Grown(Len(data')) /\ at' = [at EXCEPT !.sector = @ + 1]
      /\ UNCHANGED <<format, medium, order, placed>>
  BY DEF Td0ReadSector
<1>2. /\ at.track \in 1 .. t /\ at.track <= t /\ at.sector \in 1 .. s + 1 /\ Sectors = s
      /\ at = [track |-> at.track, sector |-> at.sector]
      /\ \A b \in 1 .. s : Track[b] \in Seq(Cell) /\ Len(Track[b]) = k
  BY <1>1, OnTrack
<1>3. PICK b \in 1 .. s : b = at.sector
  BY <1>1, <1>2
<1>4. /\ Len(data) = (at.track - 1) * (s * k) + (b - 1) * k
      /\ GuessedSize <= size /\ Len(data) <= size
      /\ order = [j \in 1 .. s |-> j]
  BY <1>1, <1>2, <1>3 DEF ReaderInv, Td0At
<1>5. order[at.sector] = b
  BY <1>3, <1>4
<1>6. PICK r \in Td0Records(Track[b], b) : data' = data \o Td0Decoded(r, Len(Track[b]))
  BY <1>5 DEF Td0ReadSector
<1>7. PICK y \in Seq(Cell) : /\ data' = data \o y /\ Len(y) = k
                            /\ \A i \in 1 .. k : Stands(y[i], Track[b][i])
  <2>1. Track[b] \in Seq(Cell) /\ Len(Track[b]) = k
    BY <1>2, <1>3
  <2>2. PICK y : y = Td0Decoded(r, Len(Track[b]))
    OBVIOUS
  <2>3. /\ y \in Seq(Cell) /\ Len(y) = Len(Track[b])
        /\ \A i \in 1 .. Len(Track[b]) : Stands(y[i], Track[b][i])
    BY <1>6, <2>1, <2>2, Td0Decodes
  <2>4. QED
    BY <1>6, <2>1, <2>2, <2>3
<1>8. PICK a \in Nat, x \in Nat : a = b - 1 /\ x = (at.track - 1) * (s * k)
  <2>1. b - 1 \in Nat /\ at.track - 1 \in Nat
    BY <1>2, <1>3
  <2>4. s * k \in Nat
    BY Product
  <2>2. (at.track - 1) * (s * k) \in Nat
    BY <2>1, <2>4, Product
  <2>3. QED
    BY <2>1, <2>2
<1>9. PICK z \in Nat : z = a * k /\ b * k = z + k
  <2>1. b = a + 1
    BY <1>3, <1>8
  <2>2. QED
    BY <2>1, Product
<1>10. PICK d \in Seq(Cell) : d = data /\ Len(d) = x + z
  BY <1>4, <1>8, <1>9 DEF ReaderInv
<1>11. \A i \in 1 .. k : Stands(y[i], c[Len(d) + i])
  <2> SUFFICES ASSUME NEW i \in 1 .. k PROVE Stands(y[i], c[Len(d) + i])
    OBVIOUS
  <2>1. Track[b][i] = c[CellAt(at.track, b, i, s, k)]
    BY <1>2, <1>3, CellsOfTrack
  <2>2. CellAt(at.track, b, i, s, k) = Len(d) + i
    BY <1>8, <1>9, <1>10 DEF CellAt
  <2>3. QED
    BY <1>7, <2>1, <2>2
<1>12. PICK e : e = data' /\ e = d \o y
  BY <1>7, <1>10
<1>13. /\ e \in Seq(Cell) /\ Len(e) = x + z + k
       /\ \A i \in 1 .. Len(e) : Stands(e[i], c[i])
  <2>1. \A i \in 1 .. Len(d) : Stands(d[i], c[i])
    BY <1>10 DEF ReaderInv
  <2>2. \A i \in 1 .. Len(y) : Stands(y[i], c[Len(d) + i])
    BY <1>7, <1>11
  <2>3. /\ e \in Seq(Cell) /\ Len(e) = Len(d) + Len(y)
        /\ \A i \in 1 .. Len(e) : Stands(e[i], c[i])
    BY ONLY y \in Seq(Cell), d \in Seq(Cell), <1>12, <2>1, <2>2, Extended
  <2>4. QED
    BY <1>7, <1>10, <2>3
<1>14. at' = [track |-> at.track, sector |-> b + 1] /\ b + 1 \in 1 .. s + 1
  <2>1. at' = [track |-> at.track, sector |-> at.sector + 1]
    BY <1>1, <1>2
  <2>2. QED
    BY <1>3, <2>1
<1>15. size' \in Nat /\ GuessedSize <= size' /\ Len(data') <= size'
  <2>1. PICK n \in Nat, g \in Nat : n = size /\ g = GuessedSize /\ g <= n /\ k <= g /\ x + z <= n
    BY <1>4, <1>10, GuessAssumption DEF ReaderInv, Geo
  <2>2. size' = IF x + z + k > n THEN n * 2 ELSE n
    BY <1>1, <1>12, <1>13, <2>1 DEF Grown
  <2>3. QED
    BY <1>12, <1>13, <2>1, <2>2
<1>16. Td0At(t, s, k)'
  <2>1. at'.track = at.track /\ at'.sector - 1 = b /\ at.track # t + 1
    BY <1>2, <1>3, <1>14
  <2>2. Len(data') = (at'.track - 1) * (s * k) + (at'.sector - 1) * k
    BY <1>8, <1>9, <1>12, <1>13, <2>1
  <2>3. QED
    BY <1>1, <1>4, <1>15, <2>1, <2>2 DEF Td0At
<1>17. at' \in [track : 1 .. t + 1, sector : 1 .. s + 1]
  BY <1>2, <1>14
<1>18. data' \in Seq(Cell) /\ \A i \in 1 .. Len(data') : Stands(data'[i], c[i])
  BY <1>12, <1>13
<1>19. QED
  BY <1>1, <1>15, <1>16, <1>17, <1>18 DEF ReaderInv

\* The next .td0 track begins.
LEMMA Td0EndStep ==
    ASSUME NEW c, NEW t \in Nat, NEW s \in Nat \ {0}, NEW k \in Nat \ {0}, Geo(s, k),
           ReaderInv(c, t, s, k), Td0EndTrack
    PROVE  ReaderInv(c, t, s, k)'
<1>1. /\ format = "td0" /\ at.track <= Len(medium) /\ at.sector > Sectors
      /\ at' = [track |-> at.track + 1, sector |-> 1] /\ NextTrack(at.track + 1)
      /\ UNCHANGED <<format, medium, data, size>>
  BY DEF Td0EndTrack
<1>2. /\ at.track \in 1 .. t /\ at.track <= t /\ at.sector \in 1 .. s + 1 /\ Sectors = s
  BY <1>1, OnTrack
<1>3. at.sector - 1 = s
  BY <1>1, <1>2
<1>4. PICK a \in Nat, p \in Nat : a = at.track - 1 /\ at.track = a + 1 /\ p = s * k
  BY <1>2, Product
<1>5. Len(data) = a * p + p /\ GuessedSize <= size /\ Len(data) <= size
  BY <1>1, <1>3, <1>4 DEF ReaderInv, Td0At
<1>6. (a + 1) * p = a * p + p /\ 0 * k = 0 /\ (a + 1) * p \in Nat
  BY Product
<1>7. at'.track - 1 = a + 1 /\ at'.sector = 1 /\ at'.sector - 1 = 0
  BY <1>1, <1>4
<1>8. Len(data') = (at'.track - 1) * (s * k) + (at'.sector - 1) * k
  <2>1. PICK x \in Nat : x = (a + 1) * p /\ Len(data) = x
    BY <1>5, <1>6
  <2>2. (at'.track - 1) * (s * k) = x /\ (at'.sector - 1) * k = 0 /\ Len(data') = x
    BY <1>1, <1>4, <1>6, <1>7, <2>1
  <2>3. QED
    BY <2>2
<1>9. at' \in [track : 1 .. t + 1, sector : 1 .. s + 1] /\ at.track + 1 \in 1 .. t + 1
      /\ at'.track = at.track + 1
  <2>1. PICK x \in 1 .. t : x = at.track
    BY <1>2
  <2>2. at' = [track |-> x + 1, sector |-> 1] /\ x + 1 \in 1 .. t + 1 /\ 1 \in 1 .. s + 1
    BY <1>1, <2>1
  <2>3. QED
    BY <2>1, <2>2
<1>10. at'.track <= t => order' = [j \in 1 .. s |-> j]
  <2>1. Disk(medium, c, t, s, k)
    BY DEF ReaderInv
  <2>2. at'.track <= t => order' \in Orders("td0", s)
    BY <1>1, <1>9, <2>1, TrackBegins
  <2>3. QED
    BY <2>2 DEF Geo
<1>11. Td0At(t, s, k)'
  BY <1>1, <1>5, <1>7, <1>8, <1>10 DEF Td0At
<1>12. QED
  BY <1>1, <1>9, <1>11 DEF ReaderInv

\* Every step of a reader.
LEMMA ReaderStep ==
    ASSUME NEW c, NEW t \in Nat, NEW s \in Nat \ {0}, NEW k \in Nat \ {0}, Geo(s, k),
           ReaderInv(c, t, s, k), ReadStep
    PROVE  ReaderInv(c, t, s, k)'
BY ImdRecordStep, ImdEndStep, Td0SectorStep, Td0EndStep DEF ReadStep

\* A reader begins with nothing.
LEMMA ReaderBegins ==
    ASSUME NEW c, NEW t \in Nat, NEW s \in Nat \ {0}, NEW k \in Nat \ {0}, Geo(s, k),
           NEW m, Disk(m, c, t, s, k), NEW f \in {"imd", "td0"}, BeginRead(f, m)
    PROVE  ReaderInv(c, t, s, k)'
<1>1. /\ format' = f /\ medium' = m /\ data' = <<>>
      /\ size' = IF f = "td0" THEN GuessedSize ELSE 0
      /\ at' = [track |-> 1, sector |-> 1]
      /\ order' \in Orders(f, Len(m[1])) /\ placed' = [b \in 1 .. Len(m[1]) |-> <<>>]
  BY DEF BeginRead
<1>2. 1 <= t => Len(m[1]) = s
  <2>1. 1 <= t => 1 \in 1 .. t
    OBVIOUS
  <2>2. QED
    BY <2>1 DEF Disk
<1>3. at' \in [track : 1 .. t + 1, sector : 1 .. s + 1]
  <2>1. 1 \in 1 .. t + 1 /\ 1 \in 1 .. s + 1
    OBVIOUS
  <2>2. QED
    BY <1>1, <2>1
<1>4. at'.track = 1 /\ at'.sector = 1 /\ at'.track - 1 = 0 /\ at'.sector - 1 = 0
  BY <1>1
<1>5. data' \in Seq(Cell) /\ Len(data') = 0 /\ size' \in Nat /\ 1 .. Len(data') = {}
  BY <1>1, GuessAssumption
<1>6. PICK p \in Nat : p = s * k /\ 0 * p = 0 /\ 0 * k = 0
  BY Product
<1>7. f = "imd" => ImdAt(t, s, k)'
  <2> SUFFICES ASSUME f = "imd" PROVE ImdAt(t, s, k)'
    OBVIOUS
  <2>1. size' = 0
    BY <1>1
  <2>2. 1 <= t => order' \in Orders("imd", s) /\ placed' \in Seq(Seq(Cell)) /\ Len(placed') = s
    <3>1. <<>> \in Seq(Cell)
      OBVIOUS
    <3>2. [b \in 1 .. s |-> <<>>] \in Seq(Seq(Cell)) /\ Len([b \in 1 .. s |-> <<>>]) = s
      BY <3>1
    <3>3. QED
      BY <1>1, <1>2, <3>2
  <2>3. 1 .. at'.sector - 1 = {}
    BY <1>4
  <2>4. Len(data') = (at'.track - 1) * (s * k)
    BY <1>4, <1>5, <1>6
  <2>5. QED
    BY <1>4, <1>5, <2>1, <2>2, <2>3, <2>4 DEF ImdAt
<1>8. f = "td0" => Td0At(t, s, k)'
  <2> SUFFICES ASSUME f = "td0" PROVE Td0At(t, s, k)'
    OBVIOUS
  <2>1. size' = GuessedSize /\ GuessedSize \in Nat /\ GuessedSize <= size'
    BY <1>1, GuessAssumption
  <2>2. 1 <= t => order' = [j \in 1 .. s |-> j]
    BY <1>1, <1>2 DEF Geo
  <2>3. Len(data') = (at'.track - 1) * (s * k) + (at'.sector - 1) * k
    BY <1>4, <1>5, <1>6
  <2>4. QED
    BY <1>4, <1>5, <2>1, <2>2, <2>3 DEF Td0At
<1>9. \A i \in 1 .. Len(data') : Stands(data'[i], c[i])
  BY <1>5
<1>10. QED
  BY <1>1, <1>3, <1>5, <1>7, <1>8, <1>9 DEF ReaderInv

\* When all has been read, the cells are those of the disk.
LEMMA ReaderEnds ==
    ASSUME NEW c, NEW t \in Nat, NEW s \in Nat \ {0}, NEW k \in Nat \ {0},
           ReaderInv(c, t, s, k), AllRead
    PROVE  /\ data \in Seq(Cell) /\ Len(data) = Len(c)
           /\ \A i \in 1 .. Len(data) : Stands(data[i], c[i])
<1>1. Len(medium) = t /\ Len(c) = t * (s * k)
  BY DEF ReaderInv, Disk
<1>2. at.track = t + 1 /\ at.track - 1 = t
  <2>1. at.track \in 1 .. t + 1
    BY DEF ReaderInv
  <2>2. at.track > t
    BY <1>1 DEF AllRead
  <2>3. QED
    BY <2>1, <2>2
<1>3. Len(data) = t * (s * k)
  <2>1. format = "imd" => Len(data) = t * (s * k)
    BY <1>2 DEF ReaderInv, ImdAt
  <2>2. PICK x \in Nat : x = t * (s * k)
    BY Product
  <2>3. format = "td0" => Len(data) = x + 0 * k
    <3>1. format = "td0" => at.sector - 1 = 0
      BY <1>2 DEF ReaderInv, Td0At
    <3>2. QED
      BY <1>2, <2>2, <3>1 DEF ReaderInv, Td0At
  <2>4. 0 * k = 0
    BY Product
  <2>5. QED
    BY <2>1, <2>2, <2>3, <2>4 DEF ReaderInv
<1>4. QED
  BY <1>1, <1>3 DEF ReaderInv

LEMMA ReaderFits ==
    ASSUME NEW c, NEW t \in Nat, NEW s \in Nat \ {0}, NEW k \in Nat \ {0},
           ReaderInv(c, t, s, k)
    PROVE  data \in Seq(Cell) /\ size \in Nat /\ Len(data) <= size
<1>1. data \in Seq(Cell) /\ size \in Nat /\ format \in {"imd", "td0"}
  BY DEF ReaderInv
<1>2. Len(data) <= size
  BY <1>1 DEF ReaderInv, ImdAt, Td0At
<1>3. QED
  BY <1>1, <1>2

-----------------------------------------------------------------------------
(* What the programs make holds what it is to hold.                        *)

LEMMA StandsAgain ==
    ASSUME NEW x, NEW y, NEW z, Stands(x, y), Stands(y, z)
    PROVE  Stands(x, z)
BY DEF Stands

LEMMA MadePlaces ==
    ASSUME NEW l \in Made
    PROVE  l \in Layers /\ \A u \in Nat : Place(l, u) \in Nat
BY MadeLayers, PlaceOnTrack

\* A reader gives a volume back.
LEMMA ReadHolds ==
    ASSUME NEW c \in Seq(Cell), NEW d \in Seq(Cell), NEW v, Holds(c, v), Len(d) = Len(c),
           \A i \in 1 .. Len(d) : Stands(d[i], c[i])
    PROVE  Holds(d, v)
<1>1. DOMAIN v \subseteq Nat
  BY DEF Holds
<1>2. ASSUME NEW l \in Made, Under(c, l, v) PROVE Under(d, l, v)
  <2>1. \A u \in DOMAIN v : Place(l, u) < Len(d) /\ Stands(d[Place(l, u) + 1], v[u])
    <3> SUFFICES ASSUME NEW u \in DOMAIN v
                 PROVE  Place(l, u) < Len(d) /\ Stands(d[Place(l, u) + 1], v[u])
      OBVIOUS
    <3>1. PICK p \in Nat : p = Place(l, u)
      BY <1>1, MadePlaces
    <3>2. p < Len(c) /\ Stands(c[p + 1], v[u])
      BY <1>2, <3>1 DEF Under
    <3>3. p + 1 \in 1 .. Len(d)
      BY <3>2
    <3>4. QED
      BY <3>1, <3>2, <3>3, StandsAgain
  <2>2. ASSUME NEW p \in 1 .. Len(d), d[p] = Label
        PROVE  p \in {Place(l, 8) + 1, Place(l, 24) + 1}
    <3>1. c[p] = Label
      BY <2>2, LabelFacts
    <3>2. QED
      BY <1>2, <3>1 DEF Under
  <2>3. QED
    BY <1>2, <2>1, <2>2 DEF Under
<1>3. QED
  BY <1>1, <1>2 DEF Holds

\* The volumes that are there at first.
FirstVolume(n) == [u \in 0 .. n - 1 |-> IF u = 8 THEN Label ELSE IF u < 24 THEN Zero ELSE u]
InOrder(v, n) == [i \in 1 .. n |-> v[i - 1]]

LEMMA FirstHolds ==
    ASSUME NEW n \in Existing, NEW v, v = FirstVolume(n), NEW c, c = InOrder(v, n)
    PROVE  c \in Seq(Cell) /\ Holds(c, v)
<1>0. /\ v = [u \in 0 .. n - 1 |-> IF u = 8 THEN Label ELSE IF u < 24 THEN Zero ELSE u]
      /\ c = [i \in 1 .. n |-> v[i - 1]]
  BY DEF FirstVolume, InOrder
<1>1. n \in Nat /\ n >= 24
  BY VolumesAssumption
<1>2. \A u \in 0 .. n - 1 : v[u] \in Cell
  BY <1>0, <1>1 DEF Cell
<1>3. \A i \in 1 .. n : i - 1 \in 0 .. n - 1 /\ c[i] = v[i - 1]
  BY <1>0, <1>1
<1>4. \A i \in 1 .. n : v[i - 1] \in Cell
  BY <1>2, <1>3
<1>5. c \in Seq(Cell) /\ Len(c) = n
  BY <1>0, <1>1, <1>4
<1>6. PICK l \in Made : l = Layer(0, "none")
  BY DEF Made
<1>7. l.off = 0 /\ l.map = "none" /\ \A u \in Nat : Place(l, u) = u
  BY <1>6 DEF Layer, Place
<1>8. 8 \in DOMAIN v /\ 9 \in DOMAIN v /\ v[8] = Label /\ DOMAIN v = 0 .. n - 1
  BY <1>0, <1>1
<1>9. ASSUME NEW p \in 1 .. n, c[p] = Label PROVE p = 9
  <2>1. v[p - 1] = IF p - 1 = 8 THEN Label ELSE IF p - 1 < 24 THEN Zero ELSE p - 1
    BY <1>0, <1>3
  <2>2. p - 1 >= 24 => p - 1 # Label
    BY LabelFacts
  <2>3. QED
    BY <1>3, <1>9, <2>1, <2>2, LabelFacts
<1>10. \A u \in DOMAIN v : Place(l, u) < Len(c) /\ Stands(c[Place(l, u) + 1], v[u])
  <2> SUFFICES ASSUME NEW u \in 0 .. n - 1
               PROVE  Place(l, u) < Len(c) /\ Stands(c[Place(l, u) + 1], v[u])
    BY <1>8
  <2>1. u + 1 \in 1 .. n /\ u + 1 - 1 = u /\ u < n
    BY <1>1
  <2>2. c[u + 1] = v[u]
    BY <1>3, <2>1
  <2>3. QED
    <3>1. Place(l, u) = u
      BY <1>7, <2>1
    <3>2. QED
      BY <1>5, <2>1, <2>2, <3>1 DEF Stands
<1>11. Under(c, l, v)
  <2>1. Shortest(l) <= Len(c)
    BY <1>1, <1>5, <1>7 DEF Shortest
  <2>2. \A p \in 1 .. Len(c) : c[p] = Label => p \in {Place(l, 8) + 1, Place(l, 24) + 1}
    <3>1. Place(l, 8) = 8
      BY <1>6, LabelPlaces
    <3>2. \A p \in 1 .. n : c[p] = Label => p = Place(l, 8) + 1
      BY <1>9, <3>1
    <3>3. QED
      BY <1>5, <3>2
  <2>3. QED
    BY <1>8, <1>10, <2>1, <2>2 DEF Under
<1>12. DOMAIN v \subseteq Nat
  BY <1>1, <1>8
<1>13. QED
  BY <1>5, <1>6, <1>11, <1>12 DEF Holds

\* Where a map has cells 8 and 9 on whole tracks.
LEMMA LabelIsWhole ==
    ASSUME NEW map \in Maps, NEW n \in Int, n >= 20, n >= CellsOnTrack(map)
    PROVE  8 \in WholeTracks(map, n) /\ 9 \in WholeTracks(map, n)
<1>1. 8 \in 0 .. n - 1 /\ 9 \in 0 .. n - 1 /\ 8 < 26 /\ 9 < 26
  OBVIOUS
<1>2. QED
  BY <1>1, FirstTrackWhole

\* A volume of nothing but a label, of which some cells are written to the image.
Empty(v, n, written) ==
    /\ v[8] = Label
    /\ \A u \in 0 .. n - 1 : /\ v[u] \in Cell
                             /\ v[u] = Label => u = 8 \/ u = 24
                             /\ u \notin written => v[u] = Zero

Blank(z, n) == z \in Seq(Cell) /\ Len(z) = n /\ \A i \in 1 .. n : z[i] = Zero

\* What mkfs writes.
LEMMA EmptyIs ==
    ASSUME NEW twin \in BOOLEAN, NEW boot \in BOOLEAN, NEW n \in Nat, n >= 32,
           NEW written,
           written = (8 .. (IF twin THEN 39 ELSE 23)) \cup IF boot THEN 0 .. 7 ELSE {}
    PROVE  Empty(EmptyVolume(n, twin, boot), n, written)
<1>1. PICK v : v = EmptyVolume(n, twin, boot)
  OBVIOUS
<1>2. \A u \in 0 .. n - 1 :
         v[u] = CASE u = 8 \/ (twin /\ u = 24) -> Label
                  [] boot /\ u < 8 -> Boot
                  [] OTHER -> Zero
  BY <1>1 DEF EmptyVolume
<1>3. v[8] = Label
  <2>1. 8 \in 0 .. n - 1
    OBVIOUS
  <2>2. QED
    BY <1>2, <2>1
<1>4. ASSUME NEW u \in 0 .. n - 1
      PROVE  /\ v[u] \in Cell
             /\ v[u] = Label => u = 8 \/ u = 24
             /\ u \notin written => v[u] = Zero
  <2>1. v[u] = CASE u = 8 \/ (twin /\ u = 24) -> Label
                 [] boot /\ u < 8 -> Boot
                 [] OTHER -> Zero
    BY <1>2
  <2>2. v[u] \in {Label, Boot, Zero} /\ (v[u] = Label => u = 8 \/ u = 24)
    BY <2>1, LabelFacts
  <2>3. u = 8 \/ (twin /\ u = 24) => u \in written
    OBVIOUS
  <2>4. boot /\ u < 8 => u \in written
    OBVIOUS
  <2>5. u \notin written => v[u] = Zero
    BY <2>1, <2>3, <2>4
  <2>6. QED
    BY <2>2, <2>5 DEF Cell
<1>5. Empty(v, n, written)
  BY <1>3, <1>4 DEF Empty
<1>6. QED
  BY <1>1, <1>5

\* What mkfs has written holds the empty volume.
LEMMA EmptyHolds ==
    ASSUME NEW l \in Made, l.off = 0, NEW n \in Nat, n >= 32,
           NEW written \in SUBSET (0 .. 39), written \subseteq 0 .. n - 1,
           NEW v, Empty(v, n, written),
           NEW z, Blank(z, n), NEW value, value = [u \in written |-> v[u]],
           NEW c, c = Stored(z, l, value),
           NEW w, w = [u \in WholeTracks(l.map, n) |-> v[u]]
    PROVE  c \in Seq(Cell) /\ Holds(c, w)
<1>1. l \in Layers /\ l.map \in Maps
  BY MadeLayers DEF Layers
<1>2. value \in [written -> Cell] /\ \A u \in written : value[u] = v[u]
  BY DEF Empty
<1>3. z \in Seq(Cell) /\ 39 \in Nat
  BY DEF Blank
<1>4. c \in Seq(Cell) /\ IsStored(c, z, l, written, value)
  BY ONLY <1>1, <1>2, <1>3, written \in SUBSET (0 .. 39), c = Stored(z, l, value), StoredIs
<1>5. PICK len \in Nat : len = Len(c) /\ n <= len
  <2>1. Len(c) \in Nat
    BY ONLY <1>4
  <2>2. n <= Len(c)
    BY <1>4 DEF IsStored, Blank
  <2>3. QED
    BY <2>1, <2>2
<1>6. ASSUME NEW p \in 1 .. len, \A u \in written : Place(l, u) # p - 1
      PROVE  c[p] = Zero
  <2>1. c[p] = IF p <= Len(z) THEN z[p] ELSE Zero
    BY <1>4, <1>5, <1>6 DEF IsStored
  <2>2. p <= n => p \in 1 .. n
    BY <1>5
  <2>3. QED
    BY <2>1, <2>2 DEF Blank
<1>7. ASSUME NEW u \in written
      PROVE  Place(l, u) < len /\ c[Place(l, u) + 1] = v[u]
  BY <1>2, <1>4, <1>5 DEF IsStored
<1>8. ASSUME NEW u \in WholeTracks(l.map, n)
      PROVE  Place(l, u) < len /\ Stands(c[Place(l, u) + 1], v[u])
  <2>1. u \in Nat /\ u < n /\ Place(l, u) < n
    <3>1. n \in Int
      OBVIOUS
    <3>2. u \in Nat /\ u < n /\ Place(l, u) < l.off + n
      BY <1>1, <3>1, WholeTracksStay
    <3>3. QED
      BY <3>2
  <2>2. PICK p \in Nat : p = Place(l, u) /\ p < n
    BY <1>1, <2>1, PlaceOnTrack
  <2>6. p + 1 \in 1 .. len /\ p < len
    BY <1>5, <2>2
  <2>3. CASE u \in written
    BY <1>7, <2>2, <2>3, <2>6 DEF Stands
  <2>4. CASE u \notin written
    <3>1. v[u] = Zero
      BY <2>1, <2>4 DEF Empty
    <3>2. \A x \in written : Place(l, x) # p + 1 - 1
      <4> SUFFICES ASSUME NEW x \in written, Place(l, x) = p PROVE FALSE
        BY <2>2
      <4>1. x \in Nat
        OBVIOUS
      <4>2. x = u
        BY <1>1, <2>1, <2>2, <4>1, PlaceInjective
      <4>3. QED
        BY <2>4, <4>2
    <3>3. c[p + 1] = Zero
      BY <1>6, <2>6, <3>2
    <3>4. QED
      BY <2>2, <2>6, <3>1, <3>3 DEF Stands
  <2>5. QED
    BY <2>3, <2>4
<1>9. ASSUME NEW p \in 1 .. len, c[p] = Label
      PROVE  p \in {Place(l, 8) + 1, Place(l, 24) + 1}
  <2>1. PICK u \in written : Place(l, u) = p - 1
    BY <1>6, <1>9, LabelFacts
  <2>2. u \in Nat /\ u \in 0 .. n - 1
    BY <2>1
  <2>3. PICK q \in Nat : q = Place(l, u)
    BY <1>1, <2>2, PlaceOnTrack
  <2>4. p = q + 1
    BY <2>1, <2>3
  <2>5. c[q + 1] = v[u]
    BY <1>7, <2>1, <2>3
  <2>6. u = 8 \/ u = 24
    BY <1>9, <2>2, <2>4, <2>5 DEF Empty
  <2>7. QED
    BY <2>3, <2>4, <2>6
<1>10. DOMAIN w = WholeTracks(l.map, n) /\ \A u \in DOMAIN w : w[u] = v[u]
  OBVIOUS
<1>11. 8 \in DOMAIN w /\ 9 \in DOMAIN w
  <2>1. CellsOnTrack(l.map) \in {1, 26, 32}
    BY <1>1, TrackLengths
  <2>2. n \in Int /\ n >= 20 /\ n >= CellsOnTrack(l.map)
    BY <2>1
  <2>3. QED
    BY <1>1, <1>10, <2>2, LabelIsWhole
<1>12. Shortest(l) <= len /\ w[8] = Label
  BY <1>5, <1>10, <1>11 DEF Shortest, Empty
<1>13. Under(c, l, w)
  BY <1>5, <1>8, <1>9, <1>10, <1>11, <1>12 DEF Under
<1>14. DOMAIN w \subseteq Nat
  BY <1>10 DEF WholeTracks
<1>15. QED
  BY <1>4, <1>13, <1>14 DEF Holds

\* Files that are written on a mounted volume.
LEMMA FillHolds ==
    ASSUME NEW c \in Seq(Cell), NEW v, DOMAIN v \subseteq Nat, NEW l \in Made, Under(c, l, v),
           NEW b \in Nat, NEW us \in SUBSET (40 .. b), \A u \in us : Place(l, u) < Len(c),
           NEW d, d = Stored(c, l, [u \in us |-> u]),
           NEW w, w = [u \in DOMAIN v |-> IF u \in us THEN u ELSE v[u]]
    PROVE  Under(d, l, w)
<1>1. l \in Layers
  BY MadeLayers
<1>2. PICK value \in [us -> Cell] : /\ value = [u \in us |-> u]
                                    /\ \A u \in us : value[u] = u
  <2>1. \A u \in us : u \in Cell
    BY DEF Cell
  <2>2. [u \in us |-> u] \in [us -> Cell]
    BY <2>1
  <2>3. QED
    BY <2>2
<1>3. us \in SUBSET (0 .. b) /\ us \subseteq Nat /\ \A u \in us : u >= 40
  OBVIOUS
<1>4. d \in Seq(Cell) /\ IsStored(d, c, l, us, value)
  <2>1. d = Stored(c, l, value)
    BY <1>2
  <2>2. QED
    BY <1>1, <1>2, <1>3, <2>1, StoredIs
<1>5. PICK n \in Nat : n = Len(c) /\ n = Len(d)
  <2>1. Len(d) = Len(c)
    BY <1>4 DEF IsStored
  <2>2. Len(c) \in Nat
    BY ONLY c \in Seq(Cell)
  <2>3. QED
    BY <2>1, <2>2
<1>6. ASSUME NEW p \in 1 .. n, \A u \in us : Place(l, u) # p - 1 PROVE d[p] = c[p]
  BY <1>4, <1>5, <1>6 DEF IsStored
<1>7. ASSUME NEW u \in DOMAIN v
      PROVE  Place(l, u) < n /\ Stands(d[Place(l, u) + 1], w[u])
  <2>1. PICK p \in Nat : p = Place(l, u) /\ u \in Nat
    BY <1>1, PlaceOnTrack
  <2>2. p < n /\ Stands(c[p + 1], v[u]) /\ p + 1 \in 1 .. n
    BY <1>5, <2>1 DEF Under
  <2>3. CASE u \in us
    BY <1>2, <1>4, <2>1, <2>2, <2>3 DEF Stands, IsStored
  <2>4. CASE u \notin us
    <3>1. \A x \in us : Place(l, x) # p + 1 - 1
      <4> SUFFICES ASSUME NEW x \in us, Place(l, x) = p PROVE FALSE
        BY <2>1
      <4>1. x \in Nat
        BY <1>3
      <4>2. x = u
        BY <1>1, <2>1, <4>1, PlaceInjective
      <4>3. QED
        BY <2>4, <4>2
    <3>2. d[p + 1] = c[p + 1]
      BY <1>6, <2>2, <3>1
    <3>3. QED
      BY <2>1, <2>2, <2>4, <3>2
  <2>5. QED
    BY <2>3, <2>4
<1>8. ASSUME NEW p \in 1 .. n, d[p] = Label
      PROVE  p \in {Place(l, 8) + 1, Place(l, 24) + 1}
  <2>1. CASE \A u \in us : Place(l, u) # p - 1
    <3>1. c[p] = Label
      BY <1>6, <1>8, <2>1
    <3>2. QED
      BY <1>5, <3>1 DEF Under
  <2>2. ASSUME NEW u \in us, Place(l, u) = p - 1 PROVE FALSE
    <3>1. PICK q \in Nat : q = Place(l, u) /\ p = q + 1
      BY <1>1, <1>3, <2>2, PlaceOnTrack
    <3>2. d[p] = u
      BY <1>2, <1>4, <2>2, <3>1 DEF IsStored
    <3>3. u \in Nat /\ u >= 24
      BY <1>3
    <3>4. QED
      BY <1>8, <3>2, <3>3, LabelFacts
  <2>3. QED
    BY <2>1, <2>2
<1>9. /\ 8 \in DOMAIN w /\ 9 \in DOMAIN w /\ w[8] = Label /\ DOMAIN w = DOMAIN v
      /\ Shortest(l) <= Len(d)
  <2>1. 8 \in DOMAIN v /\ 9 \in DOMAIN v /\ v[8] = Label /\ Shortest(l) <= Len(c)
    BY DEF Under
  <2>2. 8 \notin us
    BY <1>3
  <2>3. QED
    BY <1>5, <2>1, <2>2
<1>10. QED
  BY <1>5, <1>7, <1>8, <1>9 DEF Under

\* The first n cells read through a layer are in o where the other layer has them,
\* and nothing else is.
Copied(o, cells, layer, out, n) ==
    /\ \A u \in 0 .. n - 1 :
          /\ Readable(cells, layer, u)
          /\ Place(out, u) < Len(o) /\ o[Place(out, u) + 1] = Read(cells, layer, u)
    /\ \A p \in 1 .. Len(o) : (\A u \in 0 .. n - 1 : Place(out, u) # p - 1) => o[p] = Zero

LEMMA NothingCopied ==
    ASSUME NEW cells, NEW layer, NEW out
    PROVE  Copied(<<>>, cells, layer, out, 0)
<1>1. 0 .. 0 - 1 = {} /\ 1 .. Len(<<>>) = {}
  OBVIOUS
<1>2. QED
  BY <1>1 DEF Copied

LEMMA ReadIsCell ==
    ASSUME NEW c \in Seq(Cell), NEW l \in Layers, NEW u \in Nat, Readable(c, l, u)
    PROVE  Read(c, l, u) \in Cell
<1>1. PICK p \in Nat : p = Place(l, u)
  BY PlaceOnTrack
<1>2. p + 1 \in 1 .. Len(c)
  BY <1>1 DEF Readable
<1>3. QED
  BY <1>1, <1>2 DEF Read

\* The next chunk is copied.
LEMMA CopyMore ==
    ASSUME NEW o \in Seq(Cell), NEW cells \in Seq(Cell), NEW layer \in Layers,
           NEW out \in Layers, NEW n \in Nat, NEW m \in Nat, n <= m,
           Copied(o, cells, layer, out, n),
           \A u \in n .. m - 1 : Readable(cells, layer, u),
           NEW d, d = Stored(o, out, [u \in n .. m - 1 |-> Read(cells, layer, u)])
    PROVE  d \in Seq(Cell) /\ Copied(d, cells, layer, out, m)
<1>1. PICK us \in SUBSET (0 .. m) : us = n .. m - 1
  OBVIOUS
<1>2. PICK value \in [us -> Cell] : value = [u \in us |-> Read(cells, layer, u)]
  <2>1. \A u \in us : Read(cells, layer, u) \in Cell
    BY <1>1, ReadIsCell
  <2>2. [u \in us |-> Read(cells, layer, u)] \in [us -> Cell]
    BY ONLY <2>1
  <2>3. QED
    BY <2>2
<1>3. d \in Seq(Cell) /\ IsStored(d, o, out, us, value)
  <2>1. d = Stored(o, out, value)
    BY <1>1, <1>2
  <2>2. QED
    BY ONLY <1>1, <1>2, <2>1, o \in Seq(Cell), out \in Layers, m \in Nat, StoredIs
<1>4. PICK k \in Nat, len \in Nat : k = Len(o) /\ len = Len(d) /\ k <= len
  <2>1. Len(o) \in Nat /\ Len(d) \in Nat
    BY ONLY <1>3, o \in Seq(Cell)
  <2>2. QED
    BY <1>3, <2>1 DEF IsStored
<1>5. \A u \in us : Place(out, u) < len /\ d[Place(out, u) + 1] = Read(cells, layer, u)
  BY <1>2, <1>3, <1>4 DEF IsStored
<1>6. \A p \in 1 .. len : (\A u \in us : Place(out, u) # p - 1) =>
                             d[p] = IF p <= k THEN o[p] ELSE Zero
  BY <1>3, <1>4 DEF IsStored
<1>7. ASSUME NEW u \in 0 .. m - 1
      PROVE  /\ Readable(cells, layer, u)
             /\ Place(out, u) < len /\ d[Place(out, u) + 1] = Read(cells, layer, u)
  <2>1. CASE u \in us
    BY <1>1, <1>5, <2>1
  <2>2. CASE u \notin us
    <3>1. u \in 0 .. n - 1 /\ u \in Nat
      BY <1>1, <2>2
    <3>2. PICK p \in Nat : p = Place(out, u)
      BY <3>1, PlaceOnTrack
    <3>3. Readable(cells, layer, u) /\ p < k /\ o[p + 1] = Read(cells, layer, u)
      BY <1>4, <3>1, <3>2 DEF Copied
    <3>4. \A x \in us : Place(out, x) # p + 1 - 1
      <4> SUFFICES ASSUME NEW x \in us, Place(out, x) = p PROVE FALSE
        BY <3>2
      <4>1. x \in Nat
        BY <1>1
      <4>2. x = u
        BY <3>1, <3>2, <4>1, PlaceInjective
      <4>3. QED
        BY <2>2, <4>2
    <3>5. p + 1 \in 1 .. len /\ p + 1 <= k /\ p < len
      BY <1>4, <3>3
    <3>6. d[p + 1] = o[p + 1]
      BY <1>6, <3>4, <3>5
    <3>7. QED
      BY <3>2, <3>3, <3>5, <3>6
  <2>3. QED
    BY <2>1, <2>2
<1>8. ASSUME NEW p \in 1 .. len, \A u \in 0 .. m - 1 : Place(out, u) # p - 1
      PROVE  d[p] = Zero
  <2>1. \A u \in us : u \in 0 .. m - 1
    BY <1>1
  <2>2. d[p] = IF p <= k THEN o[p] ELSE Zero
    BY <1>6, <1>8, <2>1
  <2>3. p <= k => o[p] = Zero
    <3>1. p <= k => p \in 1 .. Len(o)
      BY <1>4
    <3>2. \A u \in 0 .. n - 1 : u \in 0 .. m - 1
      OBVIOUS
    <3>3. QED
      BY <1>8, <3>1, <3>2 DEF Copied
  <2>4. QED
    BY <2>2, <2>3
<1>9. Copied(d, cells, layer, out, m)
  BY <1>4, <1>7, <1>8 DEF Copied
<1>10. QED
  BY <1>3, <1>9

\* A volume that is in its cells as it is has no map.
LEMMA PlainIsNone ==
    ASSUME NEW c \in Seq(Cell), NEW v, DOMAIN v \subseteq Nat, NEW l \in Made, Under(c, l, v),
           \A u \in DOMAIN v : c[u + 1] = v[u]
    PROVE  l = Layer(0, "none")
<1>1. PICK n \in Nat : n = Len(c)
  BY ONLY c \in Seq(Cell)
<1>2. c[9] = Label /\ Shortest(l) <= n
  <2>1. 8 \in DOMAIN v /\ v[8] = Label /\ Shortest(l) <= Len(c)
    BY DEF Under
  <2>2. c[8 + 1] = Label
    BY <2>1
  <2>3. QED
    BY <1>1, <2>1, <2>2
<1>3. 9 \in 1 .. Len(c)
  <2>1. Shortest(l) >= 20
    BY DEF Made, Layer, Shortest, PdpTrack0
  <2>2. Shortest(l) \in Nat
    BY DEF Made, Layer, Shortest, PdpTrack0
  <2>3. QED
    BY <1>1, <1>2, <2>1, <2>2
<1>4. 9 \in {Place(l, 8) + 1, Place(l, 24) + 1}
  BY <1>2, <1>3 DEF Under
<1>5. l # Layer(0, "apple")
  BY <1>4, LabelPlaces
<1>6. l # Layer(PdpTrack0, "pdp")
  BY <1>4, LabelPlaces DEF PdpTrack0
<1>7. l # Layer(0, "pdp")
  BY <1>4, LabelPlaces
<1>8. QED
  BY <1>5, <1>6, <1>7 DEF Made

\* A copy that is complete.
LEMMA CopyHolds ==
    ASSUME NEW o \in Seq(Cell), NEW cells \in Seq(Cell), NEW v, DOMAIN v \subseteq Nat,
           NEW layer \in Made, Under(cells, layer, v),
           NEW out \in Made, NEW n \in Nat, NEW m \in Int, 20 <= m, m <= n,
           Copied(o, cells, layer, out, n),
           NEW w, w = [u \in DOMAIN v \cap WholeTracks(out.map, m) |-> v[u]]
    PROVE  Holds(o, w)
<1>1. /\ DOMAIN w = DOMAIN v \cap WholeTracks(out.map, m)
      /\ \A u \in DOMAIN w : w[u] = v[u] /\ u \in DOMAIN v /\ u \in WholeTracks(out.map, m)
  OBVIOUS
<1>2. DOMAIN w \subseteq Nat
  BY <1>1
<1>3. SUFFICES ASSUME DOMAIN w # {} PROVE Under(o, out, w)
  BY <1>2 DEF Holds
<1>4. out \in Layers /\ out.map \in Maps /\ layer \in Layers
  BY MadeLayers DEF Layers
<1>5. CellsOnTrack(out.map) <= m
  <2>1. PICK u \in WholeTracks(out.map, m) : TRUE
    BY <1>1, <1>3
  <2>2. QED
    BY <1>4, <2>1, WholeTracksStay
<1>6. CellsOnTrack(out.map) \in {1, 26, 32}
  BY <1>4, TrackLengths
<1>7. 8 \in WholeTracks(out.map, m) /\ 9 \in WholeTracks(out.map, m)
  <2>1. m >= CellsOnTrack(out.map) /\ m >= 20
    BY <1>5, <1>6
  <2>2. QED
    BY <1>4, <2>1, LabelIsWhole
<1>8. 8 \in DOMAIN w /\ 9 \in DOMAIN w /\ w[8] = Label
  <2>1. 8 \in DOMAIN v /\ 9 \in DOMAIN v /\ v[8] = Label
    BY DEF Under
  <2>2. 8 \in DOMAIN w /\ 9 \in DOMAIN w
    BY <1>1, <1>7, <2>1
  <2>3. QED
    BY <1>1, <2>1, <2>2
<1>9. PICK len \in Nat : len = Len(o)
  BY ONLY o \in Seq(Cell)
<1>10. PICK src \in Nat : src = Len(cells)
  BY ONLY cells \in Seq(Cell)
<1>11. ASSUME NEW u \in 0 .. n - 1
       PROVE  \E p \in Nat, q \in Nat : /\ p = Place(out, u) /\ q = Place(layer, u)
                                        /\ p < len /\ q < src /\ o[p + 1] = cells[q + 1]
  <2>1. u \in Nat
    OBVIOUS
  <2>2. PICK p \in Nat, q \in Nat : p = Place(out, u) /\ q = Place(layer, u)
    BY <1>4, <2>1, PlaceOnTrack
  <2>3. QED
    BY <1>9, <1>10, <2>2 DEF Copied, Readable, Read
<1>12. ASSUME NEW u \in DOMAIN w
       PROVE  Place(out, u) < len /\ Stands(o[Place(out, u) + 1], w[u])
  <2>1. u \in WholeTracks(out.map, m) /\ u \in DOMAIN v /\ w[u] = v[u]
    BY <1>1
  <2>2. u \in Nat /\ u < m
    BY <1>4, <2>1, WholeTracksStay
  <2>3. u \in 0 .. n - 1
    BY <2>2
  <2>4. PICK p \in Nat, q \in Nat : /\ p = Place(out, u) /\ q = Place(layer, u)
                                    /\ p < len /\ q < src /\ o[p + 1] = cells[q + 1]
    BY <1>11, <2>3
  <2>5. Stands(cells[q + 1], v[u])
    BY <2>1, <2>4 DEF Under
  <2>6. QED
    BY <2>1, <2>4, <2>5
<1>13. ASSUME NEW p \in 1 .. len, o[p] = Label
       PROVE  p \in {Place(out, 8) + 1, Place(out, 24) + 1}
  <2>1. PICK u \in 0 .. n - 1 : Place(out, u) = p - 1
    BY <1>9, <1>13, LabelFacts DEF Copied
  <2>2. PICK q \in Nat, r \in Nat : /\ q = Place(out, u) /\ r = Place(layer, u)
                                    /\ q < len /\ r < src /\ o[q + 1] = cells[r + 1]
    BY <1>11, <2>1
  <2>3. p = q + 1 /\ r + 1 \in 1 .. Len(cells)
    BY <1>10, <2>1, <2>2
  <2>4. r + 1 \in {Place(layer, 8) + 1, Place(layer, 24) + 1}
    BY <1>13, <2>2, <2>3 DEF Under
  <2>5. PICK a \in Nat, b \in Nat : a = Place(layer, 8) /\ b = Place(layer, 24)
    BY <1>4, PlaceOnTrack
  <2>6. r = a \/ r = b
    BY <2>4, <2>5
  <2>7. u = 8 \/ u = 24
    <3>1. u \in Nat
      BY <2>1
    <3>2. r = a => u = 8
      BY <1>4, <2>2, <2>5, <3>1, PlaceInjective
    <3>3. r = b => u = 24
      BY <1>4, <2>2, <2>5, <3>1, PlaceInjective
    <3>4. QED
      BY <2>6, <3>2, <3>3
  <2>8. QED
    BY <2>2, <2>3, <2>7
<1>14. Shortest(out) <= len
  <2>1. CASE out.map = "none"
    <3>1. out = Layer(0, "none")
      BY <2>1 DEF Made, Layer
    <3>2. 19 \in 0 .. n - 1 /\ 19 \in Nat
      OBVIOUS
    <3>3. Place(out, 19) = 19
      BY <3>1 DEF Layer, Place
    <3>4. 19 < len
      BY <1>11, <3>2, <3>3
    <3>5. QED
      BY <2>1, <3>4 DEF Shortest
  <2>2. CASE out.map = "apple"
    <3>1. out = Layer(0, "apple")
      BY <2>2 DEF Made, Layer
    <3>2. CellsOnTrack(out.map) = 32
      BY <2>2 DEF CellsOnTrack
    <3>3. 31 \in 0 .. n - 1
      BY <1>5, <3>2
    <3>4. 31 < len
      BY <1>11, <3>1, <3>3, LabelPlaces
    <3>5. QED
      BY <2>2, <3>1, <3>4 DEF Shortest, Layer
  <2>3. CASE out.map = "pdp"
    <3>1. out = Layer(26, "pdp") \/ out = Layer(0, "pdp")
      BY <2>3 DEF Made, Layer, PdpTrack0
    <3>2. CellsOnTrack(out.map) = 26
      BY <2>3 DEF CellsOnTrack
    <3>3. 25 \in 0 .. n - 1
      BY <1>5, <3>2
    <3>4. Place(out, 25) < len
      BY <1>11, <3>3
    <3>5. Place(out, 25) = out.off + 25
      BY <3>1, LabelPlaces DEF Layer
    <3>6. out.off \in {0, 26}
      BY MadeLayers
    <3>7. QED
      BY <2>3, <3>4, <3>5, <3>6 DEF Shortest
  <2>4. QED
    BY <1>4, <2>1, <2>2, <2>3 DEF Maps
<1>15. QED
  BY <1>8, <1>9, <1>12, <1>13, <1>14 DEF Under

-----------------------------------------------------------------------------
(* The invariant.                                                          *)

Kinds == {"imd", "td0", "TD0"}

ImageOf(kind, c, geo) == [kind |-> kind, medium |-> MediumOf(c, geo)]

\* A file holds the volume it is to hold, as it is or as an image of a disk that does.
FileHolds(d, v) ==
    \/ d = None /\ DOMAIN v = {}
    \/ \E c \in Seq(Cell) : d = Plain(c) /\ Holds(c, v)
    \/ \E kind \in Kinds, c \in Seq(Cell), geo \in Geometries :
          /\ d = ImageOf(kind, c, geo) /\ Len(c) % (geo.sectors * geo.cells) = 0
          /\ Holds(c, v)

FilesInv ==
    /\ DOMAIN disk = Files /\ DOMAIN vol = Files
    /\ \A f \in Files : FileHolds(disk[f], vol[f])

BufferInv == data \in Seq(Cell) /\ size \in Nat /\ Len(data) <= size

\* What a program is asked to do.  A volume that is not under a map stands in the
\* file as it is.
Asked(f, prog, args) ==
    /\ f \in Files /\ prog \in {"mount", "encode", "decode"}
    /\ prog # "mount" =>
          /\ args.out \in Files /\ args.out # f
          /\ disk[args.out].kind \in {"none", "plain"}
    /\ prog = "encode" =>
          /\ args.type \in Maps
          /\ ~args.mapped =>
                /\ disk[f].kind = "plain"
                /\ \A u \in DOMAIN vol[f] : disk[f].cells[u + 1] = vol[f][u]

ArgsInv == Asked(job.file, job.prog, job.args)

\* A new file is not there before the copy begins.
New(prog, args) == prog # "mount" /\ args.fresh => disk[args.out].kind = "none"
NewInv == New(job.prog, job.args)

ReadInv ==
    /\ disk[job.file].kind # "plain"
    /\ \E c \in Seq(Cell), t \in Nat, s \in Nat \ {0}, k \in Nat \ {0} :
          Geo(s, k) /\ ReaderInv(c, t, s, k) /\ Holds(c, vol[job.file])

CellsInv ==
    /\ job.cells \in Seq(Cell) /\ Holds(job.cells, vol[job.file])
    /\ disk[job.file].kind = "plain" => job.cells = disk[job.file].cells

\* The layer is that of the volume, unless there is none or it is being encoded.
LayerInv ==
    /\ job.layer \in Layers /\ job.size \in Int
    /\ job.prog = "encode" => job.layer = Layer(0, "none")
    /\ DOMAIN vol[job.file] # {} =>
          /\ 20 <= job.size
          /\ job.prog # "encode" => /\ job.layer \in Made
                                    /\ Under(job.cells, job.layer, vol[job.file])

\* What of the copy is made.
OutInv ==
    /\ job.prog # "mount" /\ job.address \in Nat
    /\ job.args.fresh =>
          /\ disk[job.args.out].cells \in Seq(Cell)
          /\ Copied(disk[job.args.out].cells, job.cells, job.layer, OutLayer, job.address)
          /\ job.address > 0 => disk[job.args.out].kind = "plain"

\* All that a program that has a layer keeps.
At(pc, j) ==
    [pc |-> pc, prog |-> j.prog, file |-> j.file, args |-> j.args,
     cells |-> j.cells, layer |-> j.layer, size |-> j.size, address |-> j.address]

JobInv ==
    /\ job.pc \in {"idle", "read", "guess", "use", "copy", "refused"}
    /\ job.pc = "read" => ArgsInv /\ NewInv /\ ReadInv
    /\ job.pc = "guess" => ArgsInv /\ NewInv /\ CellsInv
    /\ job.pc = "use" => /\ job = At("use", job) /\ ArgsInv /\ CellsInv /\ LayerInv
                         /\ job.prog = "mount"
    /\ job.pc = "copy" => job = At("copy", job) /\ ArgsInv /\ CellsInv /\ LayerInv /\ OutInv
    /\ job.pc = "refused" => DOMAIN vol[job.file] = {}

DiskInv == FilesInv /\ BufferInv /\ JobInv

LEMMA IdleJob ==
    ASSUME job' = Idle
    PROVE  JobInv'
BY DEF JobInv, Idle

\* One file changes.
LEMMA FileChanges ==
    ASSUME FilesInv, NEW f \in Files, DOMAIN disk' = Files, DOMAIN vol' = Files,
           \A g \in Files \ {f} : disk'[g] = disk[g] /\ vol'[g] = vol[g],
           FileHolds(disk'[f], vol'[f])
    PROVE  FilesInv'
<1>1. ASSUME NEW g \in Files PROVE FileHolds(disk'[g], vol'[g])
  <2>1. CASE g = f
    BY <2>1
  <2>2. CASE g # f
    BY <2>2 DEF FilesInv
  <2>3. QED
    BY <2>1, <2>2
<1>2. QED
  BY <1>1 DEF FilesInv

\* A file that is no image.
LEMMA PlainFile ==
    ASSUME NEW d, NEW v, FileHolds(d, v), d.kind = "plain"
    PROVE  d = Plain(d.cells) /\ d.cells \in Seq(Cell) /\ Holds(d.cells, v)
<1>1. d # None
  BY DEF None
<1>2. ASSUME NEW kind \in Kinds, NEW c, NEW geo, d = ImageOf(kind, c, geo)
      PROVE  FALSE
  BY <1>2 DEF ImageOf, Kinds
<1>3. PICK c \in Seq(Cell) : d = Plain(c) /\ Holds(c, v)
  BY <1>1, <1>2 DEF FileHolds
<1>4. d.cells = c
  BY <1>3 DEF Plain
<1>5. QED
  BY <1>3, <1>4

\* A file that is not there.
LEMMA NoFile ==
    ASSUME NEW d, NEW v, FileHolds(d, v), d.kind = "none"
    PROVE  d = None /\ d.cells = <<>> /\ DOMAIN v = {}
<1>1. ASSUME NEW kind \in Kinds, NEW c, NEW geo, d = ImageOf(kind, c, geo)
      PROVE  FALSE
  BY <1>1 DEF ImageOf, Kinds
<1>2. ASSUME NEW c, d = Plain(c) PROVE FALSE
  BY <1>2 DEF Plain
<1>3. d = None /\ DOMAIN v = {}
  BY <1>1, <1>2 DEF FileHolds
<1>4. QED
  BY <1>3 DEF None

\* A file that is an image is one of a disk that holds the volume.
LEMMA ImageHeld ==
    ASSUME NEW d, NEW v, FileHolds(d, v), d.kind \in Kinds
    PROVE  \E c \in Seq(Cell), t \in Nat, s \in Nat \ {0}, k \in Nat \ {0} :
              Geo(s, k) /\ Disk(d.medium, c, t, s, k) /\ Holds(c, v)
<1>1. d # None
  BY DEF None, Kinds
<1>2. ASSUME NEW c, d = Plain(c) PROVE FALSE
  BY <1>2 DEF Plain, Kinds
<1>3. PICK kind \in Kinds, c \in Seq(Cell), geo \in Geometries :
          /\ d = ImageOf(kind, c, geo) /\ Len(c) % (geo.sectors * geo.cells) = 0
          /\ Holds(c, v)
  BY <1>1, <1>2 DEF FileHolds
<1>4. d.medium = MediumOf(c, geo)
  BY <1>3 DEF ImageOf
<1>5. PICK t \in Nat : Disk(MediumOf(c, geo), c, t, geo.sectors, geo.cells)
  BY <1>3, MediumIs
<1>6. Geo(geo.sectors, geo.cells)
  BY <1>3, GeoIs
<1>7. geo.sectors \in Nat \ {0} /\ geo.cells \in Nat \ {0}
  BY <1>6 DEF Geo
<1>8. QED
  BY <1>3, <1>4, <1>5, <1>6, <1>7

LEMMA PlainHolds ==
    ASSUME NEW c \in Seq(Cell), NEW v, Holds(c, v)
    PROVE  FileHolds(Plain(c), v)
BY DEF FileHolds

LEMMA PlainIs == \A c : Plain(c).kind = "plain" /\ Plain(c).cells = c
BY DEF Plain

-----------------------------------------------------------------------------
(* At first.                                                               *)

\* One volume is there.
LEMMA InitInv == DiskInit => DiskInv
<1> SUFFICES ASSUME DiskInit PROVE DiskInv
  OBVIOUS
<1>1. PICK f \in Files, n \in Existing :
        LET v == [u \in 0 .. n - 1 |-> IF u = 8 THEN Label ELSE IF u < 24 THEN Zero ELSE u]
        IN /\ disk = [g \in Files |-> IF g = f THEN Plain([i \in 1 .. n |-> v[i - 1]]) ELSE None]
           /\ vol = [g \in Files |-> IF g = f THEN v ELSE <<>>]
  BY DEF DiskInit
<1>2. PICK v : v = [u \in 0 .. n - 1 |-> IF u = 8 THEN Label ELSE IF u < 24 THEN Zero ELSE u]
  OBVIOUS
<1>3. PICK c : c = [i \in 1 .. n |-> v[i - 1]]
  OBVIOUS
<1>4. /\ disk = [g \in Files |-> IF g = f THEN Plain(c) ELSE None]
      /\ vol = [g \in Files |-> IF g = f THEN v ELSE <<>>]
  BY <1>1, <1>2, <1>3
<1>5. FileHolds(Plain(c), v)
  <2>1. c \in Seq(Cell) /\ Holds(c, v)
    <3>1. n \in Existing
      BY <1>1
    <3>2. v = FirstVolume(n)
      BY <1>2 DEF FirstVolume
    <3>3. c = InOrder(v, n)
      BY <1>3 DEF InOrder
    <3>4. QED
      BY ONLY <3>1, <3>2, <3>3, FirstHolds
  <2>2. QED
    BY <2>1, PlainHolds
<1>6. FileHolds(None, <<>>)
  <2>1. DOMAIN <<>> = {}
    OBVIOUS
  <2>2. QED
    BY <2>1 DEF FileHolds
<1>7. FilesInv
  BY <1>4, <1>5, <1>6 DEF FilesInv
<1>8. BufferInv
  <2>1. data = <<>> /\ size = 0
    BY DEF DiskInit, Init
  <2>2. <<>> \in Seq(Cell) /\ Len(<<>>) = 0
    OBVIOUS
  <2>3. QED
    BY ONLY <2>1, <2>2 DEF BufferInv
<1>9. JobInv
  BY DEF DiskInit, JobInv, Idle
<1>10. QED
  BY <1>7, <1>8, <1>9 DEF DiskInv

-----------------------------------------------------------------------------
(* The programs that make files.                                           *)

\* ucsdpsys_mkfs.
LEMMA MkfsStep ==
    ASSUME DiskInv, NEW f \in Files, NEW type \in Maps, NEW tracks \in MkfsTracks,
           NEW twin \in BOOLEAN, NEW boot \in BOOLEAN, Mkfs(f, type, tracks, twin, boot)
    PROVE  DiskInv'
<1>1. PICK n : n = 32 * tracks
  OBVIOUS
<1>2. PICK v : v = EmptyVolume(n, twin, boot)
  OBVIOUS
<1>3. PICK dir : dir = 8 .. (IF twin THEN 39 ELSE 23)
  OBVIOUS
<1>4. PICK written : written = dir \cup IF boot THEN 0 .. 7 ELSE {}
  OBVIOUS
<1>5. PICK z : z = [i \in 1 .. n |-> Zero]
  OBVIOUS
<1>6. PICK value : value = [u \in written |-> v[u]]
  OBVIOUS
<1>7. PICK c : c = Stored(z, Layer(0, type), value)
  OBVIOUS
<1>8. PICK w : w = [u \in WholeTracks(type, n) |-> v[u]]
  OBVIOUS
<1>9. /\ dir \subseteq 0 .. n - 1
      /\ disk' = [disk EXCEPT ![f] = Plain(c)]
      /\ vol' = [vol EXCEPT ![f] = w]
      /\ job = Idle /\ job' = job /\ UNCHANGED <<data, size>>
  BY <1>1, <1>2, <1>3, <1>4, <1>5, <1>6, <1>7, <1>8 DEF Mkfs, CanRun, reader
<1>10. n \in Nat /\ n >= 32
  <2>1. tracks \in Nat
    BY VolumesAssumption
  <2>2. 23 \in dir
    BY <1>3
  <2>3. 23 \in 0 .. n - 1
    BY <1>9, <2>2
  <2>4. QED
    BY <1>1, <2>1, <2>3
<1>11. written \in SUBSET (0 .. 39) /\ written \subseteq 0 .. n - 1
  <2>1. dir \subseteq 0 .. 39 /\ 0 .. 7 \subseteq 0 .. 39 /\ 0 .. 7 \subseteq 0 .. n - 1
    BY <1>3, <1>10
  <2>2. QED
    BY <1>4, <1>9, <2>1
<1>12. Empty(v, n, written)
  BY <1>2, <1>3, <1>4, <1>10, EmptyIs
<1>13. Blank(z, n)
  BY <1>5, <1>10 DEF Blank, Cell
<1>14. PICK l \in Made : l = Layer(0, type) /\ l.off = 0 /\ l.map = type
  BY DEF Made, Maps, Layer
<1>15. c \in Seq(Cell) /\ Holds(c, w)
  <2>1. c = Stored(z, l, value) /\ w = [u \in WholeTracks(l.map, n) |-> v[u]]
    BY <1>7, <1>8, <1>14
  <2>2. QED
    BY <1>6, <1>10, <1>11, <1>12, <1>13, <1>14, <2>1, EmptyHolds
<1>16. FilesInv'
  <2>1. FilesInv
    BY DEF DiskInv
  <2>2. /\ DOMAIN disk' = Files /\ DOMAIN vol' = Files
        /\ \A g \in Files \ {f} : disk'[g] = disk[g] /\ vol'[g] = vol[g]
        /\ disk'[f] = Plain(c) /\ vol'[f] = w
    BY <1>9, <2>1 DEF FilesInv
  <2>3. FileHolds(disk'[f], vol'[f])
    BY <1>15, <2>2, PlainHolds
  <2>4. QED
    BY <2>1, <2>2, <2>3, FileChanges
<1>17. JobInv'
  BY <1>9, IdleJob
<1>18. BufferInv'
  BY <1>9 DEF DiskInv, BufferInv
<1>19. QED
  BY <1>16, <1>17, <1>18 DEF DiskInv

\* An imaging program.
LEMMA CaptureStep ==
    ASSUME DiskInv, NEW f \in Files, NEW g \in Files, NEW kind \in Kinds,
           NEW geo \in Geometries, Capture(f, g, kind, geo)
    PROVE  DiskInv'
<1>1. /\ f # g /\ disk[f].kind = "plain"
      /\ Len(disk[f].cells) % (geo.sectors * geo.cells) = 0
      /\ disk' = [disk EXCEPT ![g] = [kind |-> kind, medium |-> MediumOf(disk[f].cells, geo)]]
      /\ vol' = [vol EXCEPT ![g] = vol[f]]
      /\ job = Idle /\ job' = job /\ UNCHANGED <<data, size>>
  BY DEF Capture, CanRun, reader
<1>2. FilesInv
  BY DEF DiskInv
<1>3. PICK c \in Seq(Cell) : c = disk[f].cells /\ Holds(c, vol[f])
  <2>1. FileHolds(disk[f], vol[f])
    BY <1>2 DEF FilesInv
  <2>2. QED
    BY <1>1, <2>1, PlainFile
<1>4. FilesInv'
  <2>1. /\ DOMAIN disk' = Files /\ DOMAIN vol' = Files
        /\ \A h \in Files \ {g} : disk'[h] = disk[h] /\ vol'[h] = vol[h]
        /\ disk'[g] = ImageOf(kind, c, geo) /\ vol'[g] = vol[f]
    BY <1>1, <1>2, <1>3 DEF FilesInv, ImageOf
  <2>2. FileHolds(ImageOf(kind, c, geo), vol[f])
    BY <1>1, <1>3 DEF FileHolds
  <2>3. QED
    BY <1>2, <2>1, <2>2, FileChanges
<1>5. JobInv'
  BY <1>1, IdleJob
<1>6. BufferInv'
  BY <1>1 DEF DiskInv, BufferInv
<1>7. QED
  BY <1>4, <1>5, <1>6 DEF DiskInv

-----------------------------------------------------------------------------
(* A file is opened.                                                       *)

\* Nothing need be said of what a file holds.
LEMMA Emptied ==
    ASSUME NEW d, NEW v, FileHolds(d, v), NEW w, DOMAIN w = {}
    PROVE  FileHolds(d, w)
<1>1. \A c : Holds(c, w)
  BY DEF Holds
<1>2. QED
  BY <1>1 DEF FileHolds

LEMMA FitsNext ==
    ASSUME NEW c, NEW t, NEW s, NEW k, ReaderInv(c, t, s, k)'
    PROVE  BufferInv'
<1>1. data' \in Seq(Cell) /\ size' \in Nat /\ (size' = Len(data') \/ Len(data') <= size')
  BY DEF ReaderInv, ImdAt, Td0At
<1>2. QED
  BY <1>1 DEF BufferInv

\* A file is opened, to be read or used as it is.
LEMMA OpenStep ==
    ASSUME DiskInv, NEW f, NEW prog, NEW args, Asked(f, prog, args), New(prog, args),
           Open(f, prog, args)
    PROVE  DiskInv'
<1>1. job = Idle /\ disk' = disk /\ vol' = vol /\ f \in Files
  BY DEF Open, CanRun, Asked
<1>2. FilesInv /\ FilesInv'
  BY <1>1 DEF DiskInv, FilesInv
<1>3. FileHolds(disk[f], vol[f])
  BY <1>1, <1>2 DEF FilesInv
<1>4. CASE /\ disk[f].kind = "plain"
           /\ job' = [pc |-> "guess", prog |-> prog, file |-> f, args |-> args,
                      cells |-> disk[f].cells]
           /\ UNCHANGED reader
  <2>1. /\ job'.pc = "guess" /\ job'.prog = prog /\ job'.file = f /\ job'.args = args
        /\ job'.cells = disk[f].cells
    BY <1>4
  <2>2. ArgsInv' /\ NewInv'
    BY <1>1, <2>1 DEF ArgsInv, NewInv, Asked, New
  <2>3. CellsInv'
    BY <1>1, <1>3, <1>4, <2>1, PlainFile DEF CellsInv
  <2>4. JobInv'
    BY <2>1, <2>2, <2>3 DEF JobInv
  <2>5. BufferInv'
    BY <1>4 DEF DiskInv, BufferInv, reader
  <2>6. QED
    BY <1>2, <2>4, <2>5 DEF DiskInv
<1>5. CASE /\ disk[f].kind \in {"imd", "td0"}
           /\ job' = [pc |-> "read", prog |-> prog, file |-> f, args |-> args]
           /\ BeginRead(disk[f].kind, disk[f].medium)
  <2>1. /\ job'.pc = "read" /\ job'.prog = prog /\ job'.file = f /\ job'.args = args
    BY <1>5
  <2>2. ArgsInv' /\ NewInv'
    BY <1>1, <2>1 DEF ArgsInv, NewInv, Asked, New
  <2>3. PICK c \in Seq(Cell), t \in Nat, s \in Nat \ {0}, k \in Nat \ {0} :
                Geo(s, k) /\ Disk(disk[f].medium, c, t, s, k) /\ Holds(c, vol[f])
    <3>1. disk[f].kind \in Kinds
      BY <1>5 DEF Kinds
    <3>2. QED
      BY <1>3, <3>1, ImageHeld
  <2>4. ReaderInv(c, t, s, k)'
    BY <1>5, <2>3, ReaderBegins
  <2>5. BufferInv'
    BY <2>4, FitsNext
  <2>6. ReadInv'
    <3>1. disk'[job'.file].kind # "plain" /\ Holds(c, vol'[job'.file])
      BY <1>1, <1>5, <2>1, <2>3
    <3>2. QED
      BY <2>3, <2>4, <3>1 DEF ReadInv
  <2>7. JobInv'
    BY <2>1, <2>2, <2>6 DEF JobInv
  <2>8. QED
    BY <1>2, <2>5, <2>7 DEF DiskInv
<1>6. QED
  BY <1>4, <1>5 DEF Open, ImdCandidate, Td0Candidate, Td0Accepted

LEMMA OpenDiesStep ==
    ASSUME DiskInv, NEW f, NEW prog, NEW args, OpenDies(f, prog, args)
    PROVE  DiskInv'
<1>1. job = Idle /\ job' = job /\ UNCHANGED <<data, size, disk, vol>>
  BY DEF OpenDies, CanRun, reader
<1>2. JobInv'
  BY <1>1, IdleJob
<1>3. FilesInv' /\ BufferInv'
  BY <1>1 DEF DiskInv, FilesInv, BufferInv
<1>4. QED
  BY <1>2, <1>3 DEF DiskInv

LEMMA MountStep ==
    ASSUME DiskInv, NEW f \in Files, NEW ro \in BOOLEAN,
           Open(f, "mount", [ro |-> ro]) \/ OpenDies(f, "mount", [ro |-> ro])
    PROVE  DiskInv'
<1>1. Asked(f, "mount", [ro |-> ro]) /\ New("mount", [ro |-> ro])
  BY DEF Asked, New
<1>2. QED
  BY <1>1, OpenStep, OpenDiesStep

\* ucsdpsys_interleave begins.
LEMMA InterleaverStep ==
    ASSUME DiskInv, NEW f \in Files, NEW g \in Files, NEW prog \in {"encode", "decode"},
           NEW type, prog = "encode" => type \in Maps, Interleaver(f, g, prog, type)
    PROVE  DiskInv'
<1>1. PICK args : args = [ro |-> TRUE, out |-> g, type |-> type,
                          fresh |-> disk[g].kind = "none", mapped |-> Mapped(f)]
  OBVIOUS
<1>2. /\ f # g /\ disk[g].kind \in {"none", "plain"}
      /\ Open(f, prog, args) \/ OpenDies(f, prog, args)
  BY <1>1 DEF Interleaver
<1>3. /\ args.out = g /\ args.type = type /\ args.fresh = (disk[g].kind = "none")
      /\ args.mapped = Mapped(f)
  BY <1>1
<1>4. ~args.mapped => /\ disk[f].kind = "plain"
                      /\ \A u \in DOMAIN vol[f] : disk[f].cells[u + 1] = vol[f][u]
  BY <1>3 DEF Mapped
<1>5. Asked(f, prog, args)
  BY <1>2, <1>3, <1>4 DEF Asked
<1>6. New(prog, args)
  BY <1>3 DEF New
<1>7. QED
  BY <1>2, <1>5, <1>6, OpenStep, OpenDiesStep

-----------------------------------------------------------------------------
(* An image is read.                                                       *)

\* A record of an image is read.
LEMMA ReadImageStep ==
    ASSUME DiskInv, ReadImage
    PROVE  DiskInv'
<1>1. job.pc = "read" /\ ReadStep /\ disk' = disk /\ vol' = vol /\ job' = job
  BY DEF ReadImage
<1>2. ArgsInv /\ NewInv /\ ReadInv
  BY <1>1 DEF DiskInv, JobInv
<1>3. PICK c \in Seq(Cell), t \in Nat, s \in Nat \ {0}, k \in Nat \ {0} :
          Geo(s, k) /\ ReaderInv(c, t, s, k) /\ Holds(c, vol[job.file])
  BY <1>2 DEF ReadInv
<1>4. ReaderInv(c, t, s, k)'
  BY <1>1, <1>3, ReaderStep
<1>5. BufferInv'
  BY <1>4, FitsNext
<1>6. ReadInv'
  <2>1. disk'[job'.file].kind # "plain" /\ Holds(c, vol'[job'.file])
    BY <1>1, <1>2, <1>3 DEF ReadInv
  <2>2. QED
    BY <1>3, <1>4, <2>1 DEF ReadInv
<1>7. ArgsInv' /\ NewInv'
  BY <1>1, <1>2 DEF ArgsInv, NewInv, Asked, New
<1>8. JobInv'
  BY <1>1, <1>6, <1>7 DEF JobInv
<1>9. FilesInv'
  BY <1>1 DEF DiskInv, FilesInv
<1>10. QED
  BY <1>5, <1>8, <1>9 DEF DiskInv

\* An image has been read.
LEMMA ImageReadStep ==
    ASSUME DiskInv, ImageRead
    PROVE  DiskInv'
<1>1. /\ job.pc = "read" /\ AllRead /\ data' = data /\ size' = Len(data)
      /\ disk' = disk /\ vol' = vol
      /\ job' = [pc |-> "guess", prog |-> job.prog, file |-> job.file, args |-> job.args,
                 cells |-> data]
  BY DEF ImageRead, EndRead
<1>2. ArgsInv /\ NewInv /\ ReadInv
  BY <1>1 DEF DiskInv, JobInv
<1>3. PICK c \in Seq(Cell), t \in Nat, s \in Nat \ {0}, k \in Nat \ {0} :
          Geo(s, k) /\ ReaderInv(c, t, s, k) /\ Holds(c, vol[job.file])
  BY <1>2 DEF ReadInv
<1>4. /\ data \in Seq(Cell) /\ Len(data) = Len(c)
      /\ \A i \in 1 .. Len(data) : Stands(data[i], c[i])
  BY <1>1, <1>3, ReaderEnds
<1>5. Holds(data, vol[job.file])
  BY <1>3, <1>4, ReadHolds
<1>6. /\ job'.pc = "guess" /\ job'.prog = job.prog /\ job'.file = job.file
      /\ job'.args = job.args /\ job'.cells = data
  BY <1>1
<1>7. ArgsInv' /\ NewInv'
  BY <1>1, <1>2, <1>6 DEF ArgsInv, NewInv, Asked, New
<1>8. CellsInv'
  BY <1>1, <1>2, <1>4, <1>5, <1>6 DEF CellsInv, ReadInv
<1>9. JobInv'
  BY <1>6, <1>7, <1>8 DEF JobInv
<1>10. FilesInv'
  BY <1>1 DEF DiskInv, FilesInv
<1>11. BufferInv'
  <2>1. Len(data) \in Nat /\ Len(data) <= Len(data)
    BY <1>4
  <2>2. QED
    BY <1>1, <1>4, <2>1 DEF BufferInv
<1>12. QED
  BY <1>9, <1>10, <1>11 DEF DiskInv

-----------------------------------------------------------------------------
(* The layer is guessed.                                                   *)

\* A layer is used.
LEMMA UseStep ==
    ASSUME DiskInv, job.pc = "guess", NEW l \in Layers, NEW b \in {1, 2, 4}, Use(l, b),
           disk' = disk, vol' = vol, data' = data, size' = size,
           job.prog = "encode" => l = Layer(0, "none"),
           DOMAIN vol[job.file] # {} =>
              /\ l \in Made /\ Shortest(l) <= Len(job.cells)
              /\ job.prog # "encode" => Under(job.cells, l, vol[job.file])
    PROVE  DiskInv'
<1>1. ArgsInv /\ NewInv /\ CellsInv /\ FilesInv
  BY DEF DiskInv, JobInv
<1>2. PICK pc : pc = IF job.prog = "mount" THEN "use" ELSE "copy"
  OBVIOUS
<1>3. PICK sz : sz = LayerSize(l, Len(job.cells), b)
  OBVIOUS
<1>4. job' = [pc |-> pc, prog |-> job.prog, file |-> job.file, args |-> job.args,
              cells |-> job.cells, layer |-> l, size |-> sz, address |-> 0]
  BY <1>2, <1>3 DEF Use
<1>5. /\ job'.pc = pc /\ job'.prog = job.prog /\ job'.file = job.file
      /\ job'.args = job.args /\ job'.cells = job.cells /\ job'.layer = l
      /\ job'.size = sz /\ job'.address = 0
  BY ONLY <1>4
<1>6. job' = At(pc, job')
  BY ONLY <1>4, <1>5 DEF At
<1>7. sz \in Int /\ (l \in Made /\ Shortest(l) <= Len(job.cells) => 20 <= sz)
  <2>1. Len(job.cells) \in Nat
    BY <1>1 DEF CellsInv
  <2>2. QED
    BY <1>3, <2>1, LayerSizeIs
<1>8. ArgsInv'
  BY <1>1, <1>5 DEF ArgsInv, Asked
<1>9. CellsInv'
  BY <1>1, <1>5 DEF CellsInv
<1>10. LayerInv'
  BY <1>5, <1>7 DEF LayerInv
<1>11. ASSUME job.prog # "mount" PROVE OutInv'
  <2>1. job'.prog # "mount" /\ job'.address \in Nat /\ ~(job'.address > 0)
    BY <1>5, <1>11
  <2>2. ASSUME job.args.fresh
        PROVE  /\ disk[job.args.out].cells \in Seq(Cell)
               /\ \A o : Copied(disk[job.args.out].cells, job.cells, l, o, 0)
    <3>1. disk[job.args.out].kind = "none" /\ FileHolds(disk[job.args.out], vol[job.args.out])
      BY <1>1, <1>11, <2>2 DEF NewInv, New, ArgsInv, Asked, FilesInv
    <3>2. disk[job.args.out].cells = <<>>
      BY <3>1, NoFile
    <3>3. QED
      BY <3>2, NothingCopied
  <2>3. job'.args.fresh =>
          /\ disk'[job'.args.out].cells \in Seq(Cell)
          /\ Copied(disk'[job'.args.out].cells, job'.cells, job'.layer, OutLayer', job'.address)
    BY <1>5, <2>2
  <2>4. QED
    BY <2>1, <2>3 DEF OutInv
<1>12. JobInv'
  <2>1. CASE job.prog = "mount"
    <3>1. job' = At("use", job') /\ job'.pc = "use" /\ job'.prog = "mount"
      BY <1>2, <1>5, <1>6, <2>1
    <3>2. QED
      BY <1>8, <1>9, <1>10, <3>1 DEF JobInv
  <2>2. CASE job.prog # "mount"
    <3>1. job' = At("copy", job') /\ job'.pc = "copy"
      BY <1>2, <1>5, <1>6, <2>2
    <3>2. QED
      BY <1>8, <1>9, <1>10, <1>11, <2>2, <3>1 DEF JobInv
  <2>3. QED
    BY <2>1, <2>2
<1>13. FilesInv' /\ BufferInv'
  BY DEF DiskInv, FilesInv, BufferInv
<1>14. QED
  BY <1>12, <1>13 DEF DiskInv

\* The layer of the volume is guessed, or there is no volume.
LEMMA GuessStep ==
    ASSUME DiskInv, Guess
    PROVE  DiskInv'
<1>1. /\ job.pc = "guess" /\ job.prog \in {"mount", "decode"}
      /\ disk' = disk /\ vol' = vol /\ data' = data /\ size' = size
  BY DEF Guess, reader
<1>2. CellsInv
  BY <1>1 DEF DiskInv, JobInv
<1>3. /\ job.cells \in Seq(Cell) /\ DOMAIN vol[job.file] \subseteq Nat
      /\ DOMAIN vol[job.file] # {} =>
            \E l \in Made : Under(job.cells, l, vol[job.file])
  BY <1>2 DEF CellsInv, Holds
<1>4. ASSUME DOMAIN vol[job.file] # {}
      PROVE  /\ Guesses(job.cells) # {}
             /\ Trials[Guessed(job.cells)] \in Made
             /\ Under(job.cells, Trials[Guessed(job.cells)], vol[job.file])
  BY <1>3, <1>4, GuessIsRight
<1>5. CASE Guesses(job.cells) # {}
  <2>1. PICK i \in 1 .. LastTrial : i = Guessed(job.cells)
    BY <1>5, GuessedIs
  <2>2. PICK l \in Layers : l = Trials[i]
    BY <2>1, TrialsAre
  <2>3. PICK b \in {1, 2, 4} : b = TriedBps(i)
    BY <2>1, TriedBpsType
  <2>4. Use(l, b)
    BY <1>5, <2>1, <2>2, <2>3 DEF Guess
  <2>5. DOMAIN vol[job.file] # {} =>
              /\ l \in Made /\ Shortest(l) <= Len(job.cells)
              /\ job.prog # "encode" => Under(job.cells, l, vol[job.file])
    BY <1>4, <2>1, <2>2 DEF Under
  <2>6. QED
    BY <1>1, <2>2, <2>3, <2>4, <2>5, UseStep
<1>6. CASE Guesses(job.cells) = {}
  <2>1. job' = [pc |-> "refused", prog |-> job.prog, file |-> job.file]
    BY <1>6 DEF Guess
  <2>2. job'.pc = "refused" /\ DOMAIN vol'[job'.file] = {}
    BY <1>1, <1>4, <1>6, <2>1
  <2>3. JobInv'
    BY <2>2 DEF JobInv
  <2>4. FilesInv' /\ BufferInv'
    BY <1>1 DEF DiskInv, FilesInv, BufferInv
  <2>5. QED
    BY <2>3, <2>4 DEF DiskInv
<1>7. QED
  BY <1>5, <1>6

\* No layer is looked for.
LEMMA NoGuessStep ==
    ASSUME DiskInv, NoGuess
    PROVE  DiskInv'
<1>1. /\ job.pc = "guess" /\ job.prog = "encode"
      /\ disk' = disk /\ vol' = vol /\ data' = data /\ size' = size
      /\ Use(Layer(0, "none"), 4)
  BY DEF NoGuess, reader
<1>2. CellsInv
  BY <1>1 DEF DiskInv, JobInv
<1>3. PICK l \in Made : l = Layer(0, "none")
  BY DEF Made
<1>4. l \in Layers /\ Shortest(l) = 20
  <2>1. l.map = "none"
    BY <1>3 DEF Layer
  <2>2. QED
    BY <2>1, MadeLayers DEF Shortest
<1>5. ASSUME DOMAIN vol[job.file] # {} PROVE Shortest(l) <= Len(job.cells)
  <2>1. PICK m \in Made : Under(job.cells, m, vol[job.file])
    BY <1>2, <1>5 DEF CellsInv, Holds
  <2>2. m.off \in Nat /\ Len(job.cells) \in Nat
    BY <1>2, MadeLayers DEF CellsInv
  <2>3. Shortest(m) <= Len(job.cells)
    BY <2>1 DEF Under
  <2>4. 20 <= Shortest(m) /\ Shortest(m) \in Nat
    BY <2>2 DEF Shortest
  <2>5. QED
    BY <1>4, <2>2, <2>3, <2>4
<1>6. QED
  BY <1>1, <1>3, <1>4, <1>5, UseStep

-----------------------------------------------------------------------------
(* The volume is used.                                                     *)

\* A volume is filled with files.
LEMMA FillStep ==
    ASSUME DiskInv, FillVolume
    PROVE  DiskInv'
<1>1. PICK us : us = {u \in 40 .. job.size - 1 : Readable(job.cells, job.layer, u)}
  OBVIOUS
<1>2. PICK f : f = job.file
  OBVIOUS
<1>3. PICK v : v = vol[f]
  OBVIOUS
<1>4. PICK d : d = Stored(job.cells, job.layer, [u \in us |-> u])
  OBVIOUS
<1>5. PICK w : w = [u \in DOMAIN v |-> IF u \in us THEN u ELSE v[u]]
  OBVIOUS
<1>6. /\ job.pc = "use" /\ disk[f].kind = "plain"
      /\ job' = [job EXCEPT !.cells = d]
      /\ disk' = [disk EXCEPT ![f] = Plain(d)]
      /\ vol' = [vol EXCEPT ![f] = w]
      /\ data' = data /\ size' = size
  BY <1>1, <1>2, <1>3, <1>4, <1>5 DEF FillVolume, reader
<1>7. /\ job = At("use", job) /\ ArgsInv /\ CellsInv /\ LayerInv /\ job.prog = "mount"
      /\ FilesInv
  BY <1>6 DEF DiskInv, JobInv
<1>8. f \in Files /\ DOMAIN disk = Files /\ DOMAIN vol = Files
  BY <1>2, <1>7 DEF ArgsInv, Asked, FilesInv
<1>9. disk'[f] = Plain(d) /\ vol'[f] = w
  BY <1>6, <1>8
<1>10. PICK n \in Nat : 40 .. job.size - 1 \subseteq 40 .. n
  <2>1. job.size \in Int
    BY <1>7 DEF LayerInv
  <2>2. PICK n \in Nat : n = IF job.size > 0 THEN job.size ELSE 0
    BY <2>1
  <2>3. QED
    BY <2>1, <2>2
<1>11. us \in SUBSET (40 .. n) /\ \A u \in us : Place(job.layer, u) < Len(job.cells)
  BY <1>1, <1>10 DEF Readable
<1>12. d \in Seq(Cell)
  <2>1. us \in SUBSET (0 .. n)
    BY <1>11
  <2>2. [u \in us |-> u] \in [us -> Cell]
    BY <2>1 DEF Cell
  <2>3. job.cells \in Seq(Cell) /\ job.layer \in Layers
    BY <1>7 DEF CellsInv, LayerInv
  <2>4. QED
    BY <1>4, <2>1, <2>2, <2>3, StoredIs
<1>13. DOMAIN v \subseteq Nat /\ DOMAIN w = DOMAIN v
  BY <1>2, <1>3, <1>5, <1>7 DEF CellsInv, Holds
<1>14. ASSUME DOMAIN v # {}
       PROVE  20 <= job.size /\ job.layer \in Made /\ Under(d, job.layer, w)
  <2>1. 20 <= job.size /\ job.layer \in Made /\ Under(job.cells, job.layer, v)
    BY <1>2, <1>3, <1>7, <1>14 DEF LayerInv
  <2>2. job.cells \in Seq(Cell)
    BY <1>7 DEF CellsInv
  <2>3. QED
    BY <1>4, <1>5, <1>11, <1>13, <2>1, <2>2, FillHolds
<1>15. Holds(d, w)
  BY <1>13, <1>14 DEF Holds
<1>16. FilesInv'
  <2>1. /\ DOMAIN disk' = Files /\ DOMAIN vol' = Files
        /\ \A g \in Files \ {f} : disk'[g] = disk[g] /\ vol'[g] = vol[g]
    BY <1>6, <1>8
  <2>2. FileHolds(disk'[f], vol'[f])
    BY <1>9, <1>12, <1>15, PlainHolds
  <2>3. QED
    BY <1>7, <1>8, <2>1, <2>2, FileChanges
<1>17. job' = [pc |-> "use", prog |-> job.prog, file |-> job.file, args |-> job.args,
               cells |-> d, layer |-> job.layer, size |-> job.size, address |-> job.address]
  BY <1>6, <1>7 DEF At
<1>18. /\ job'.pc = "use" /\ job'.prog = job.prog /\ job'.file = f
       /\ job'.args = job.args /\ job'.cells = d /\ job'.layer = job.layer
       /\ job'.size = job.size /\ job'.address = job.address
  BY ONLY <1>2, <1>17
<1>19. job' = At("use", job')
  BY ONLY <1>2, <1>17, <1>18 DEF At
<1>20. ArgsInv'
  BY <1>7, <1>8, <1>18 DEF ArgsInv, Asked
<1>21. CellsInv'
  BY <1>9, <1>12, <1>15, <1>18, PlainIs DEF CellsInv
<1>22. LayerInv'
  BY <1>7, <1>9, <1>13, <1>14, <1>18 DEF LayerInv
<1>23. JobInv'
  BY <1>7, <1>18, <1>19, <1>20, <1>21, <1>22 DEF JobInv
<1>24. BufferInv'
  BY <1>6 DEF DiskInv, BufferInv
<1>25. QED
  BY <1>16, <1>23, <1>24 DEF DiskInv

LEMMA CloseStep ==
    ASSUME DiskInv, Close
    PROVE  DiskInv'
<1>1. job' = Idle /\ UNCHANGED <<data, size, disk, vol>>
  BY DEF Close, reader
<1>2. JobInv'
  BY <1>1, IdleJob
<1>3. FilesInv' /\ BufferInv'
  BY <1>1 DEF DiskInv, FilesInv, BufferInv
<1>4. QED
  BY <1>2, <1>3 DEF DiskInv

-----------------------------------------------------------------------------
(* A copy is made.                                                         *)

\* A copy is made with one of the layers of images.
LEMMA OutLayerMade ==
    ASSUME ArgsInv
    PROVE  OutLayer \in Made
BY DEF OutLayer, Made, Filter, PdpTrack0, Maps, ArgsInv, Asked, Layer

\* A chunk is copied, or the program dies.
LEMMA CopyStep ==
    ASSUME DiskInv, CopyChunk
    PROVE  DiskInv'
<1>1. PICK m : m = IF job.address + Chunk > job.size THEN job.size ELSE job.address + Chunk
  OBVIOUS
<1>2. PICK us : us = job.address .. m - 1
  OBVIOUS
<1>3. PICK g : g = job.args.out
  OBVIOUS
<1>4. /\ job.pc = "copy" /\ job.address < job.size
      /\ \/ /\ \A u \in us : Readable(job.cells, job.layer, u)
            /\ disk' = [disk EXCEPT ![g] =
                  Plain(Stored(@.cells, OutLayer, [u \in us |-> Read(job.cells, job.layer, u)]))]
            /\ job' = [job EXCEPT !.address = m]
         \/ job' = Idle /\ disk' = disk
      /\ vol' = [vol EXCEPT ![g] = <<>>]
      /\ data' = data /\ size' = size
  BY <1>1, <1>2, <1>3 DEF CopyChunk, reader
<1>5. /\ job = At("copy", job) /\ ArgsInv /\ CellsInv /\ LayerInv /\ OutInv
      /\ FilesInv
  BY <1>4 DEF DiskInv, JobInv
<1>6. /\ DOMAIN disk = Files /\ DOMAIN vol = Files
      /\ g \in Files /\ g # job.file /\ disk[g].kind \in {"none", "plain"}
      /\ FileHolds(disk[g], vol[g]) /\ job.prog # "mount"
  BY <1>3, <1>5 DEF ArgsInv, Asked, FilesInv, OutInv
<1>7. /\ DOMAIN disk' = Files /\ DOMAIN vol' = Files
      /\ \A h \in Files \ {g} : disk'[h] = disk[h] /\ vol'[h] = vol[h]
      /\ vol'[g] = <<>>
  BY <1>4, <1>6
<1>8. DOMAIN <<>> = {}
  OBVIOUS
<1>9. CASE job' = Idle /\ disk' = disk
  <2>1. FileHolds(disk'[g], vol'[g])
    BY <1>6, <1>7, <1>8, <1>9, Emptied
  <2>2. FilesInv'
    BY <1>5, <1>6, <1>7, <2>1, FileChanges
  <2>3. JobInv' /\ BufferInv'
    BY <1>4, <1>9, IdleJob DEF DiskInv, BufferInv
  <2>4. QED
    BY <2>2, <2>3 DEF DiskInv
<1>10. CASE /\ \A u \in us : Readable(job.cells, job.layer, u)
            /\ disk' = [disk EXCEPT ![g] =
                  Plain(Stored(@.cells, OutLayer, [u \in us |-> Read(job.cells, job.layer, u)]))]
            /\ job' = [job EXCEPT !.address = m]
  <2>1. PICK d : d = Stored(disk[g].cells, OutLayer,
                            [u \in us |-> Read(job.cells, job.layer, u)])
    OBVIOUS
  <2>2. disk'[g] = Plain(d)
    BY <1>6, <1>10, <2>1
  <2>3. disk[g].cells \in Seq(Cell)
    <3>1. CASE disk[g].kind = "none"
      <4>1. disk[g].cells = <<>>
        BY <1>6, <3>1, NoFile
      <4>2. <<>> \in Seq(Cell)
        OBVIOUS
      <4>3. QED
        BY <4>1, <4>2
    <3>2. CASE disk[g].kind = "plain"
      BY <1>6, <3>2, PlainFile
    <3>3. QED
      BY <1>6, <3>1, <3>2
  <2>4. /\ job.address \in Nat /\ m \in Nat /\ job.address <= m /\ m > 0
    <3>1. job.address \in Nat /\ job.size \in Int /\ Chunk \in Nat \ {0}
      BY <1>5, VolumesAssumption DEF OutInv, LayerInv
    <3>2. QED
      BY <1>1, <1>4, <3>1
  <2>5. OutLayer \in Layers /\ job.layer \in Layers /\ job.cells \in Seq(Cell)
    BY <1>5, OutLayerMade, MadeLayers DEF LayerInv, CellsInv
  <2>6. d \in Seq(Cell)
    <3>1. us \in SUBSET (0 .. m)
      BY <1>2, <2>4
    <3>2. [u \in us |-> Read(job.cells, job.layer, u)] \in [us -> Cell]
      <4>1. ASSUME NEW u \in us PROVE Read(job.cells, job.layer, u) \in Cell
        <5>1. u \in Nat /\ Readable(job.cells, job.layer, u)
          BY <1>10, <3>1
        <5>2. QED
          BY <2>5, <5>1, ReadIsCell
      <4>2. QED
        BY <4>1
    <3>3. QED
      BY <2>1, <2>3, <2>4, <2>5, <3>1, <3>2, StoredIs
  <2>7. ASSUME job.args.fresh
        PROVE  Copied(d, job.cells, job.layer, OutLayer, m)
    <3>1. Copied(disk[g].cells, job.cells, job.layer, OutLayer, job.address)
      BY <1>3, <1>5, <2>7 DEF OutInv
    <3>2. QED
      BY <1>2, <1>10, <2>1, <2>3, <2>4, <2>5, <3>1, CopyMore
  <2>8. FilesInv'
    <3>1. FileHolds(disk'[g], vol'[g])
      BY <1>7, <2>2, <2>6, NothingHeld, PlainHolds
    <3>2. QED
      BY <1>5, <1>6, <1>7, <3>1, FileChanges
  <2>9. job' = [pc |-> "copy", prog |-> job.prog, file |-> job.file, args |-> job.args,
                cells |-> job.cells, layer |-> job.layer, size |-> job.size, address |-> m]
    BY <1>5, <1>10 DEF At
  <2>10. /\ job'.pc = "copy" /\ job'.prog = job.prog /\ job'.file = job.file
         /\ job'.args = job.args /\ job'.cells = job.cells /\ job'.layer = job.layer
         /\ job'.size = job.size /\ job'.address = m
    BY ONLY <2>9
  <2>11. job' = At("copy", job')
    BY ONLY <2>9, <2>10 DEF At
  <2>12. disk'[job.file] = disk[job.file] /\ vol'[job.file] = vol[job.file]
    BY <1>5, <1>6, <1>7 DEF ArgsInv, Asked
  <2>13. ArgsInv'
    <3>1. disk'[g].kind = "plain"
      BY <2>2, PlainIs
    <3>2. QED
      BY <1>3, <1>5, <2>10, <2>12, <3>1 DEF ArgsInv, Asked
  <2>14. CellsInv'
    BY <1>5, <2>10, <2>12 DEF CellsInv
  <2>15. LayerInv'
    BY <1>5, <2>10, <2>12 DEF LayerInv
  <2>16. OutInv'
    <3>1. OutLayer' = OutLayer
      BY <2>10 DEF OutLayer
    <3>2. disk'[g].kind = "plain" /\ disk'[g].cells = d
      BY <2>2, PlainIs
    <3>3. job.args.fresh =>
            /\ disk'[g].cells \in Seq(Cell)
            /\ Copied(disk'[g].cells, job.cells, job.layer, OutLayer', m)
      BY <2>6, <2>7, <3>1, <3>2
    <3>4. QED
      BY <1>3, <1>6, <2>4, <2>10, <3>2, <3>3 DEF OutInv
  <2>17. JobInv'
    BY <2>10, <2>11, <2>13, <2>14, <2>15, <2>16 DEF JobInv
  <2>18. BufferInv'
    BY <1>4 DEF DiskInv, BufferInv
  <2>19. QED
    BY <2>8, <2>17, <2>18 DEF DiskInv
<1>11. QED
  BY <1>4, <1>9, <1>10

\* A copy is done.
LEMMA CopyDoneStep ==
    ASSUME DiskInv, CopyDone
    PROVE  DiskInv'
<1>1. PICK g : g = job.args.out
  OBVIOUS
<1>2. PICK f : f = job.file
  OBVIOUS
<1>3. PICK v : v = vol[f]
  OBVIOUS
<1>4. PICK w : w = [u \in DOMAIN v \cap WholeTracks(OutLayer.map, job.size) |-> v[u]]
  OBVIOUS
<1>5. /\ job.pc = "copy" /\ job.address >= job.size /\ job' = Idle /\ disk' = disk
      /\ vol' = [vol EXCEPT ![g] = IF job.args.fresh /\ (job.prog = "decode" \/ ~job.args.mapped)
                                   THEN w ELSE <<>>]
      /\ data' = data /\ size' = size
  BY <1>1, <1>2, <1>3, <1>4 DEF CopyDone, reader
<1>6. ArgsInv /\ CellsInv /\ LayerInv /\ OutInv /\ FilesInv
  BY <1>5 DEF DiskInv, JobInv
<1>7. /\ DOMAIN disk = Files /\ DOMAIN vol = Files /\ g \in Files
      /\ FileHolds(disk[g], vol[g])
      /\ job.prog \in {"encode", "decode"}
  BY <1>1, <1>6 DEF ArgsInv, Asked, FilesInv, OutInv
<1>8. ASSUME job.args.fresh, job.prog = "decode" \/ ~job.args.mapped, DOMAIN v # {}
      PROVE  FileHolds(disk[g], w)
  <2>1. job.cells \in Seq(Cell) /\ Holds(job.cells, v) /\ 20 <= job.size
        /\ job.size \in Int /\ job.address \in Nat /\ DOMAIN v \subseteq Nat
    BY <1>2, <1>3, <1>6, <1>8 DEF CellsInv, LayerInv, OutInv, Holds
  <2>2. /\ disk[g].cells \in Seq(Cell) /\ disk[g].kind = "plain"
        /\ Copied(disk[g].cells, job.cells, job.layer, OutLayer, job.address)
    BY <1>1, <1>5, <1>6, <1>8, <2>1 DEF OutInv
  <2>3. job.layer \in Made /\ Under(job.cells, job.layer, v)
    <3>1. CASE job.prog = "decode"
      BY <1>2, <1>3, <1>6, <1>8, <3>1 DEF LayerInv
    <3>2. CASE job.prog = "encode"
      <4>1. PICK l \in Made : Under(job.cells, l, v)
        BY <1>8, <2>1 DEF Holds
      <4>2. ~job.args.mapped
        BY <1>8, <3>2
      <4>3. /\ disk[f].kind = "plain"
            /\ \A u \in DOMAIN v : disk[f].cells[u + 1] = v[u]
        BY <1>2, <1>3, <1>6, <3>2, <4>2 DEF ArgsInv, Asked
      <4>4. job.cells = disk[f].cells
        BY <1>2, <1>6, <4>3 DEF CellsInv
      <4>5. l = Layer(0, "none")
        BY <2>1, <4>1, <4>3, <4>4, PlainIsNone
      <4>6. job.layer = Layer(0, "none")
        BY <1>6, <3>2 DEF LayerInv
      <4>7. QED
        BY <4>1, <4>5, <4>6
    <3>3. QED
      BY <1>7, <3>1, <3>2
  <2>4. Holds(disk[g].cells, w)
    BY <1>4, <1>5, <1>6, <2>1, <2>2, <2>3, OutLayerMade, CopyHolds
  <2>5. disk[g] = Plain(disk[g].cells)
    BY <1>7, <2>2, PlainFile
  <2>6. QED
    BY <2>2, <2>4, <2>5, PlainHolds
<1>9. FileHolds(disk'[g], vol'[g])
  <2>1. vol'[g] = IF job.args.fresh /\ (job.prog = "decode" \/ ~job.args.mapped)
                  THEN w ELSE <<>>
    BY <1>5, <1>7
  <2>2. DOMAIN <<>> = {} /\ (DOMAIN v = {} => DOMAIN w = {})
    BY <1>4
  <2>3. QED
    BY <1>5, <1>7, <1>8, <2>1, <2>2, Emptied
<1>10. FilesInv'
  <2>1. /\ DOMAIN disk' = Files /\ DOMAIN vol' = Files
        /\ \A h \in Files \ {g} : disk'[h] = disk[h] /\ vol'[h] = vol[h]
    BY <1>5, <1>7
  <2>2. QED
    BY <1>6, <1>7, <1>9, <2>1, FileChanges
<1>11. JobInv' /\ BufferInv'
  BY <1>5, IdleJob DEF DiskInv, BufferInv
<1>12. QED
  BY <1>10, <1>11 DEF DiskInv

-----------------------------------------------------------------------------
(* Whatever is run.                                                        *)

\* Every step preserves the invariant.
LEMMA DiskStep ==
    ASSUME DiskInv, [DiskNext]_allvars
    PROVE  DiskInv'
<1>1. ASSUME NEW f \in Files, NEW type \in {"none", "apple", "pdp"}, NEW tracks \in MkfsTracks,
             NEW twin \in BOOLEAN, NEW boot \in BOOLEAN, Mkfs(f, type, tracks, twin, boot)
      PROVE  DiskInv'
  BY <1>1, MkfsStep DEF Maps
<1>2. ASSUME NEW f \in Files, NEW g \in Files, NEW kind \in {"imd", "td0", "TD0"},
             NEW geo \in Geometries, Capture(f, g, kind, geo)
      PROVE  DiskInv'
  BY <1>2, CaptureStep DEF Kinds
<1>3. ASSUME NEW f \in Files, NEW ro \in BOOLEAN,
             Open(f, "mount", [ro |-> ro]) \/ OpenDies(f, "mount", [ro |-> ro])
      PROVE  DiskInv'
  BY <1>3, MountStep
<1>4. ASSUME NEW f \in Files, NEW g \in Files, NEW type \in {"none", "apple", "pdp"},
             Interleaver(f, g, "encode", type)
      PROVE  DiskInv'
  BY <1>4, InterleaverStep DEF Maps
<1>5. ASSUME NEW f \in Files, NEW g \in Files, Interleaver(f, g, "decode", "guess")
      PROVE  DiskInv'
  BY <1>5, InterleaverStep
<1>6. CASE ReadImage
  BY <1>6, ReadImageStep
<1>7. CASE ImageRead
  BY <1>7, ImageReadStep
<1>8. CASE Guess
  BY <1>8, GuessStep
<1>9. CASE NoGuess
  BY <1>9, NoGuessStep
<1>10. CASE FillVolume
  BY <1>10, FillStep
<1>11. CASE CopyChunk
  BY <1>11, CopyStep
<1>12. CASE CopyDone
  BY <1>12, CopyDoneStep
<1>13. CASE Close
  BY <1>13, CloseStep
<1>14. CASE UNCHANGED allvars
  <2>1. UNCHANGED <<data, size, disk, vol, job, order, placed, at, format, medium>>
    BY <1>14 DEF allvars, reader
  <2>2. QED
    BY <2>1 DEF DiskInv, FilesInv, BufferInv, JobInv, ArgsInv, NewInv, Asked, New, ReadInv,
       ReaderInv, ImdAt, Td0At, Track, CellsInv, LayerInv, OutInv, OutLayer
<1>15. QED
  BY ONLY [DiskNext]_allvars, <1>1, <1>2, <1>3, <1>4, <1>5, <1>6, <1>7, <1>8, <1>9, <1>10,
     <1>11, <1>12, <1>13, <1>14, Zenon DEF DiskNext

\* Every file holds the volume that it is to hold, under one of the layers that an image
\* is made with, and what a program has read of it does as well.
THEOREM FilesHold == DiskSpec => []DiskInv
<1>1. DiskInit => DiskInv
  BY InitInv
<1>2. DiskInv /\ [DiskNext]_allvars => DiskInv'
  BY DiskStep
<1>3. QED
  BY <1>1, <1>2, PTL DEF DiskSpec

\* A program that opens an image finds the volume, however the image was made.
THEOREM VolumesAreFound == DiskSpec => []OpensAsMade
<1>1. DiskInv => OpensAsMade
  <2> SUFFICES ASSUME DiskInv PROVE OpensAsMade
    OBVIOUS
  <2>1. ASSUME job.pc = "use", NEW u \in DOMAIN vol[job.file]
        PROVE  /\ Readable(job.cells, job.layer, u)
               /\ Read(job.cells, job.layer, u) \in {vol[job.file][u], Junk}
    <3>1. LayerInv /\ job.prog = "mount"
      BY <2>1 DEF DiskInv, JobInv
    <3>2. Under(job.cells, job.layer, vol[job.file])
      BY <2>1, <3>1 DEF LayerInv
    <3>3. /\ Place(job.layer, u) < Len(job.cells)
          /\ Stands(job.cells[Place(job.layer, u) + 1], vol[job.file][u])
      BY <2>1, <3>2 DEF Under
    <3>4. QED
      BY <3>3 DEF Stands, Readable, Read
  <2>2. job.pc = "refused" => DOMAIN vol[job.file] = {}
    BY DEF DiskInv, JobInv
  <2>3. QED
    BY <2>1, <2>2 DEF OpensAsMade
<1>2. QED
  BY <1>1, FilesHold, PTL

\* The buffer of a reader is as long as what was put into it.
THEOREM BufferIsEnough == DiskSpec => []BufferSuffices
<1>1. DiskInv => BufferSuffices
  BY DEF DiskInv, BufferInv, BufferSuffices
<1>2. QED
  BY <1>1, FilesHold, PTL

=============================================================================
