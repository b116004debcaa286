--------------------------- MODULE SectorIOProofs ---------------------------
(***************************************************************************)
(* The sector loops implement the array of bytes their callers rely on,    *)
(* for every sector size, every interleave map and every range.            *)
(***************************************************************************)
EXTENDS SectorIO, TLAPS

\* Why the mapping holds: at every sector of a call the bytes dealt with so far are
\* those of the abstract device, and the next sector is where they end.  relocate
\* has not yet overwritten the sector it reads next, whichever way the ranges
\* overlap (relocate.cc, write.cc, read.cc).
CallInv ==
    /\ disk \in [Sector -> [Index -> Byte]]
    /\ was \in [0 .. Size - 1 -> Byte]
    /\ secnum \in Nat /\ remainder \in Index /\ nbytes \in Nat
    /\ ret = "busy" =>
          LET done == call.n - nbytes
          IN /\ call \in Device!Calls
             /\ nbytes <= call.n
             /\ View = Device!After(call, was, done)
             /\ out = IF call.kind = "read"
                      THEN [i \in 0 .. done - 1 |-> was[call.at + i]] ELSE Empty
             /\ ~Finished => secnum * SectorSize + remainder = call.at + done
             /\ call.kind = "relocate" =>
                   /\ remainder = 0 /\ nbytes % SectorSize = 0
                   /\ nbytes > 0 => call.at # call.from
             /\ partial # Empty =>
                   call.kind # "read" /\ ~Finished /\ partial = disk[Map[Source]]

-----------------------------------------------------------------------------
(* Bytes and sectors.                                                      *)

LEMMA SizeFacts ==
    /\ SectorSize \in Nat /\ SectorSize > 0
    /\ Sectors \in Nat /\ Sectors > 0 /\ Size \in Nat
    /\ Size = Sectors * SectorSize
BY SizeAssumption DEF Size

\* Every address is a byte of one sector.
LEMMA AddrParts ==
    ASSUME NEW a \in 0 .. Size - 1
    PROVE  /\ a \div SectorSize \in Sector /\ a % SectorSize \in Index
           /\ (a \div SectorSize) * SectorSize + (a % SectorSize) = a
<1> DEFINE q == a \div SectorSize
           r == a % SectorSize
<1>1. /\ SectorSize \in Nat /\ SectorSize > 0 /\ Sectors \in Nat /\ Size \in Nat
      /\ Size = Sectors * SectorSize /\ a \in Nat /\ a < Size
  BY SizeFacts
<1>2. /\ q \in Int /\ q * SectorSize <= a /\ a < (q + 1) * SectorSize
      /\ r \in 0 .. SectorSize - 1 /\ a = q * SectorSize + r
  <2>1. q \in Int /\ q * SectorSize <= a /\ a < (q + 1) * SectorSize
    BY <1>1
  <2>2. r \in 0 .. SectorSize - 1 /\ a = q * SectorSize + r
    BY <1>1
  <2>3. QED
    BY <2>1, <2>2
<1> HIDE DEF q, r
<1>3. q >= 0
  <2> SUFFICES ASSUME q <= -1 PROVE FALSE
    BY <1>2
  <2>1. (q + 1) * SectorSize <= 0 * SectorSize
    BY <1>1, <1>2
  <2>2. QED
    BY <1>1, <1>2, <2>1
<1>4. q < Sectors
  <2> SUFFICES ASSUME q >= Sectors PROVE FALSE
    BY <1>1, <1>2
  <2>1. q * SectorSize >= Sectors * SectorSize
    BY <1>1, <1>2
  <2>2. QED
    BY <1>1, <1>2, <2>1
<1>5. q \in Sector /\ r \in Index /\ q * SectorSize + r = a
  BY <1>1, <1>2, <1>3, <1>4 DEF Sector, Index
<1>6. QED
  BY <1>5 DEF q, r

\* A byte of a sector has one address.
LEMMA AddrOf ==
    ASSUME NEW s \in Sector, NEW i \in Index
    PROVE  /\ s * SectorSize + i \in 0 .. Size - 1
           /\ (s * SectorSize + i) \div SectorSize = s
           /\ (s * SectorSize + i) % SectorSize = i
<1> DEFINE a == s * SectorSize + i
<1>1. /\ SectorSize \in Nat /\ SectorSize > 0 /\ Sectors \in Nat /\ Size \in Nat
      /\ Size = Sectors * SectorSize
      /\ s \in Nat /\ s + 1 <= Sectors /\ i \in Nat /\ i < SectorSize
  BY SizeFacts DEF Sector, Index
<1>2. s * SectorSize \in Nat /\ (s + 1) * SectorSize = s * SectorSize + SectorSize
      /\ (s + 1) * SectorSize <= Sectors * SectorSize
  BY <1>1
<1>3. a \in 0 .. Size - 1
  BY <1>1, <1>2
<1> HIDE DEF a
<1> DEFINE q == a \div SectorSize
           r == a % SectorSize
<1>4. /\ q \in Sector /\ r \in Index /\ q * SectorSize + r = a
  BY <1>3, AddrParts
<1> HIDE DEF q, r
<1>5. q \in Nat /\ r \in Nat /\ r < SectorSize /\ a = s * SectorSize + i
  BY <1>1, <1>4 DEF Sector, Index, a
<1>6. q = s
  <2>1. CASE q < s
    <3>1. (q + 1) * SectorSize <= s * SectorSize
      BY <1>1, <1>5, <2>1
    <3>2. QED
      BY <1>1, <1>4, <1>5, <3>1
  <2>2. CASE s < q
    <3>1. (s + 1) * SectorSize <= q * SectorSize
      BY <1>1, <1>5, <2>2
    <3>2. QED
      BY <1>1, <1>2, <1>4, <1>5, <3>1
  <2>3. QED
    BY <1>1, <1>5, <2>1, <2>2
<1>7. r = i
  BY <1>1, <1>2, <1>4, <1>5, <1>6
<1>8. QED
  BY <1>3, <1>6, <1>7 DEF q, r, a

\* A number of bytes that is a number of sectors.
LEMMA Units ==
    ASSUME NEW x \in Nat, x % SectorSize = 0
    PROVE  x \div SectorSize \in Nat /\ x = (x \div SectorSize) * SectorSize
<1> DEFINE q == x \div SectorSize
<1>1. SectorSize \in Nat /\ SectorSize > 0
  BY SizeFacts
<1>2. q \in Int /\ x = q * SectorSize /\ x < (q + 1) * SectorSize
  BY <1>1
<1> HIDE DEF q
<1>3. q >= 0
  <2> SUFFICES ASSUME q <= -1 PROVE FALSE
    BY <1>2
  <2>1. (q + 1) * SectorSize <= 0 * SectorSize
    BY <1>1, <1>2
  <2>2. QED
    BY <1>1, <1>2, <2>1
<1>4. QED
  BY <1>2, <1>3 DEF q

LEMMA UnitsOf ==
    ASSUME NEW q \in Int
    PROVE  (q * SectorSize) % SectorSize = 0 /\ (q * SectorSize) \div SectorSize = q
<1> DEFINE a == q * SectorSize
           p == a \div SectorSize
           r == a % SectorSize
<1>1. SectorSize \in Nat /\ SectorSize > 0 /\ a \in Int
  BY SizeFacts
<1> HIDE DEF a
<1>2. p \in Int /\ r \in 0 .. SectorSize - 1 /\ a = p * SectorSize + r
  BY <1>1
<1> HIDE DEF p, r
<1>3. a = q * SectorSize
  BY DEF a
<1>4. p = q
  <2>1. CASE p < q
    <3>1. (p + 1) * SectorSize <= q * SectorSize
      BY <1>1, <1>2, <2>1
    <3>2. QED
      BY <1>1, <1>2, <1>3, <3>1
  <2>2. CASE q < p
    <3>1. (q + 1) * SectorSize <= p * SectorSize
      BY <1>1, <1>2, <2>2
    <3>2. QED
      BY <1>1, <1>2, <1>3, <3>1
  <2>3. QED
    BY <1>2, <2>1, <2>2
<1>5. r = 0
  BY <1>1, <1>2, <1>3, <1>4
<1>6. QED
  BY <1>4, <1>5 DEF p, r, a

\* The byte seen in a sector.
LEMMA SeenAt ==
    ASSUME NEW d, NEW s \in Sector, NEW i \in Index
    PROVE  Seen(d)[s * SectorSize + i] = d[Map[s]][i]
<1> DEFINE a == s * SectorSize + i
<1>1. a \in 0 .. Size - 1 /\ a \div SectorSize = s /\ a % SectorSize = i
  BY AddrOf
<1> HIDE DEF a
<1>2. Seen(d)[a] = d[Map[s]][i]
  BY <1>1 DEF Seen
<1>3. QED
  BY <1>2 DEF a

\* Two media that agree on all sectors are the same to callers.
LEMMA SameBytes ==
    ASSUME NEW u, NEW w,
           \A s \in Sector, i \in Index : u[s * SectorSize + i] = w[s * SectorSize + i]
    PROVE  \A a \in 0 .. Size - 1 : u[a] = w[a]
<1>1. ASSUME NEW a \in 0 .. Size - 1 PROVE u[a] = w[a]
  <2> DEFINE q == a \div SectorSize
             r == a % SectorSize
  <2>1. q \in Sector /\ r \in Index /\ q * SectorSize + r = a
    BY AddrParts
  <2> HIDE DEF q, r
  <2>2. u[q * SectorSize + r] = w[q * SectorSize + r]
    BY <2>1
  <2>3. QED
    BY <2>1, <2>2
<1>2. QED
  BY <1>1

-----------------------------------------------------------------------------
(* Calls.                                                                  *)

LEMMA CallFacts ==
    ASSUME NEW c \in Device!Calls
    PROVE  /\ c.kind \in {"read", "write", "zero", "relocate"}
           /\ c.at \in 0 .. Size - 1 /\ c.n \in Nat /\ c.at + c.n <= Size /\ c.from \in Nat
           /\ c.kind = "write" => c.data \in [0 .. Size - 1 -> Byte]
           /\ c.kind = "relocate" =>
                 /\ c.from + c.n <= Size
                 /\ c.at % SectorSize = 0 /\ c.from % SectorSize = 0 /\ c.n % SectorSize = 0
<1>1. Size \in Nat
  BY SizeFacts
<1>2. CASE c \in Device!Reads
  BY <1>1, <1>2 DEF Device!Reads, Device!Ranges, Device!Addr
<1>3. CASE c \in Device!Writes
  BY <1>1, <1>3, ContentsAssumption DEF Device!Writes, Device!Ranges, Device!Addr
<1>4. CASE c \in Device!Zeros
  BY <1>1, <1>4 DEF Device!Zeros, Device!Ranges, Device!Addr
<1>5. CASE c \in Device!Moves /\ c.from + c.n <= Size
  BY <1>1, <1>5 DEF Device!Moves, Device!Units, Device!Ranges, Device!Addr
<1>6. QED
  BY <1>2, <1>3, <1>4, <1>5 DEF Device!Calls

\* The loop is at a sector of the medium, and at the byte where the range goes on.
LEMMA BusyFacts ==
    ASSUME CallInv, Busy
    PROVE  /\ call \in Device!Calls
           /\ call.n - nbytes \in Nat /\ call.n - nbytes + Psize <= call.n
           /\ secnum \in Sector /\ remainder \in Index
           /\ secnum * SectorSize + remainder = call.at + (call.n - nbytes)
           /\ Psize \in Nat /\ Psize <= nbytes /\ remainder + Psize <= SectorSize
           /\ Psize = nbytes \/ remainder + Psize = SectorSize
<1> DEFINE done == call.n - nbytes
           x == secnum * SectorSize
<1>1. /\ call \in Device!Calls /\ nbytes \in Nat /\ nbytes <= call.n
      /\ secnum \in Nat /\ remainder \in Index
      /\ x + remainder = call.at + done /\ (nbytes # 0 \/ remainder # 0)
  BY DEF CallInv, Busy, Finished
<1>2. /\ SectorSize \in Nat /\ SectorSize > 0 /\ Sectors \in Nat
      /\ Size = Sectors * SectorSize /\ Size \in Nat
  BY SizeFacts
<1>3. call.n \in Nat /\ call.at \in Nat /\ call.at + call.n <= Size
  BY <1>1, <1>2, CallFacts
<1>4. remainder \in Nat /\ remainder < SectorSize
  BY <1>1, <1>2 DEF Index
<1>5. /\ Psize \in Nat /\ Psize <= nbytes /\ remainder + Psize <= SectorSize
      /\ Psize = nbytes \/ remainder + Psize = SectorSize
  BY <1>1, <1>2, <1>4 DEF Psize
<1>6. done \in Nat /\ done + Psize <= call.n
  BY <1>1, <1>3, <1>5
<1>7. secnum \in Sector
  <2>1. x \in Nat /\ x < Size
    BY <1>1, <1>2, <1>3, <1>4
  <2> HIDE DEF x
  <2>2. CASE secnum >= Sectors
    <3>1. secnum * SectorSize >= Sectors * SectorSize
      BY <1>1, <1>2, <2>2
    <3>2. QED
      BY <1>2, <2>1, <3>1 DEF x
  <2>3. QED
    BY <1>1, <1>2, <2>2 DEF Sector
<1>8. QED
  BY <1>1, <1>5, <1>6, <1>7

\* relocate copies one whole sector to the place that corresponds to it, the first
\* one left, or the last one when the range is moved upwards.
LEMMA RelocateFacts ==
    ASSUME CallInv, Busy, call.kind = "relocate"
    PROVE  /\ remainder = 0 /\ Psize = SectorSize /\ nbytes % SectorSize = 0
           /\ Source \in Sector /\ Target \in Sector
           /\ Target * SectorSize =
                 call.at + IF Upwards THEN nbytes - SectorSize ELSE call.n - nbytes
           /\ Source * SectorSize =
                 call.from + IF Upwards THEN nbytes - SectorSize ELSE call.n - nbytes
           /\ call.at # call.from
<1>1. /\ SectorSize \in Nat /\ SectorSize > 0 /\ Sectors \in Nat
      /\ Size = Sectors * SectorSize /\ Size \in Nat
  BY SizeFacts
<1>2. /\ call \in Device!Calls /\ nbytes \in Nat /\ nbytes <= call.n
      /\ remainder = 0 /\ nbytes % SectorSize = 0 /\ nbytes > 0
      /\ secnum * SectorSize = call.at + (call.n - nbytes)
      /\ secnum \in Sector /\ call.at # call.from
  <2>1. /\ call \in Device!Calls /\ nbytes \in Nat /\ nbytes <= call.n
        /\ remainder = 0 /\ nbytes % SectorSize = 0 /\ nbytes > 0 /\ secnum \in Nat
        /\ secnum * SectorSize + remainder = call.at + (call.n - nbytes)
        /\ call.at # call.from
    BY DEF CallInv, Busy, Finished
  <2>2. secnum * SectorSize \in Int
    BY <1>1, <2>1
  <2>3. QED
    BY <2>1, <2>2, BusyFacts
<1>3. /\ call.at \in Nat /\ call.n \in Nat /\ call.from \in Nat
      /\ call.at + call.n <= Size /\ call.from + call.n <= Size
      /\ call.at % SectorSize = 0 /\ call.from % SectorSize = 0 /\ call.n % SectorSize = 0
  BY <1>1, <1>2, CallFacts
<1> DEFINE at == call.at \div SectorSize
           from == call.from \div SectorSize
           n == call.n \div SectorSize
           b == nbytes \div SectorSize
<1>4. /\ at \in Nat /\ call.at = at * SectorSize
      /\ from \in Nat /\ call.from = from * SectorSize
      /\ n \in Nat /\ call.n = n * SectorSize
      /\ b \in Nat /\ nbytes = b * SectorSize
  BY <1>2, <1>3, Units
<1>5. (call.n - nbytes) \div SectorSize = n - b
  <2> HIDE DEF n, b
  <2>1. call.n - nbytes = (n - b) * SectorSize
    BY <1>1, <1>4
  <2>2. n - b \in Int
    BY <1>4
  <2>3. QED
    BY <2>1, <2>2, UnitsOf
<1>6. Source = from + IF Upwards THEN b - 1 ELSE n - b
  BY <1>5 DEF Source
<1>7. Target = IF Upwards THEN at + b - 1 ELSE secnum
  BY DEF Target
<1> HIDE DEF at, from, n, b
<1>8. b >= 1 /\ b <= n
  <2>1. b >= 1
    BY <1>1, <1>2, <1>4
  <2>2. CASE b > n
    <3>1. (n + 1) * SectorSize <= b * SectorSize
      BY <1>1, <1>4, <2>2
    <3>2. QED
      BY <1>1, <1>2, <1>4, <3>1
  <2>3. QED
    BY <1>4, <2>1, <2>2
<1>9. ASSUME NEW k \in Nat, NEW y \in Nat, y + call.n <= Size, k * SectorSize < y + call.n
      PROVE  k \in Sector
  <2>1. k * SectorSize < Sectors * SectorSize
    BY <1>1, <1>3, <1>9
  <2>2. CASE k >= Sectors
    <3>1. k * SectorSize >= Sectors * SectorSize
      BY <1>1, <2>2
    <3>2. QED
      BY <1>1, <2>1, <3>1
  <2>3. QED
    BY <1>1, <2>2 DEF Sector
<1>10. Psize = SectorSize /\ nbytes >= SectorSize
  <2>1. 1 * SectorSize <= b * SectorSize
    BY <1>1, <1>4, <1>8
  <2>2. nbytes >= SectorSize
    BY <1>1, <1>2, <1>4, <2>1
  <2>3. QED
    BY <1>1, <1>2, <2>2 DEF Psize
<1> DEFINE k == IF Upwards THEN b - 1 ELSE n - b
<1>11. k \in Nat /\ k * SectorSize = IF Upwards THEN nbytes - SectorSize ELSE call.n - nbytes
  BY <1>1, <1>4, <1>8
<1>12. k * SectorSize < call.n /\ k * SectorSize \in Nat
  BY <1>1, <1>2, <1>3, <1>10, <1>11
<1>13. Source = from + k
  BY <1>6
<1>14. CASE Upwards
  <2>1. Target = at + k
    BY <1>4, <1>7, <1>8, <1>14
  <2> HIDE DEF k
  <2>2. /\ Target * SectorSize = call.at + k * SectorSize
        /\ Source * SectorSize = call.from + k * SectorSize
        /\ Target \in Nat /\ Source \in Nat
    BY <1>1, <1>4, <1>11, <1>13, <2>1
  <2>3. Source \in Sector
    BY <1>3, <1>9, <1>12, <2>2
  <2>4. Target \in Sector
    BY <1>3, <1>9, <1>12, <2>2
  <2>5. QED
    BY <1>2, <1>10, <1>11, <2>2, <2>3, <2>4
<1>15. CASE ~Upwards
  <2>1. Target = secnum /\ Target * SectorSize = call.at + k * SectorSize
    BY <1>2, <1>7, <1>11, <1>15
  <2> HIDE DEF k
  <2>2. Source * SectorSize = call.from + k * SectorSize /\ Source \in Nat
    BY <1>1, <1>4, <1>11, <1>13
  <2>3. Source \in Sector
    BY <1>3, <1>9, <1>12, <2>2
  <2>4. QED
    BY <1>2, <1>10, <1>11, <2>1, <2>2, <2>3
<1>16. QED
  BY <1>14, <1>15

-----------------------------------------------------------------------------
(* One sector written.                                                     *)

\* Which bytes a call has dealt with, sector by sector: t is the sector it writes,
\* lo .. hi - 1 are the bytes of it that are in the range.
LEMMA ReachedIn ==
    ASSUME NEW s \in Sector, NEW i \in Index, NEW t \in Sector,
           NEW lo \in Nat, NEW hi \in Nat, lo <= hi, hi <= SectorSize
    PROVE  s * SectorSize + i \in t * SectorSize + lo .. t * SectorSize + hi - 1
             <=> s = t /\ i \in lo .. hi - 1
<1>1. /\ SectorSize \in Nat /\ SectorSize > 0 /\ s \in Nat /\ t \in Nat
      /\ i \in Nat /\ i < SectorSize
  BY SizeFacts DEF Sector, Index
<1> DEFINE x == s * SectorSize
           y == t * SectorSize
<1>2. x \in Nat /\ y \in Nat
  BY <1>1
<1>3. CASE s = t
  BY <1>1, <1>2, <1>3
<1>4. CASE s < t
  <2>1. (s + 1) * SectorSize <= t * SectorSize
    BY <1>1, <1>4
  <2>2. x + SectorSize <= y
    BY <1>1, <2>1
  <2> HIDE DEF x, y
  <2>3. x + i < y
    BY <1>1, <1>2, <2>2
  <2>4. QED
    BY <1>1, <1>2, <1>4, <2>3 DEF x, y
<1>5. CASE t < s
  <2>1. (t + 1) * SectorSize <= s * SectorSize
    BY <1>1, <1>5
  <2>2. y + SectorSize <= x
    BY <1>1, <2>1
  <2> HIDE DEF x, y
  <2>3. y + hi <= x + i
    BY <1>1, <1>2, <2>2
  <2>4. QED
    BY <1>1, <1>2, <1>5, <2>3 DEF x, y
<1>6. QED
  BY <1>1, <1>3, <1>4, <1>5

\* The bytes of the abstract device, byte by byte.
LEMMA AfterAt ==
    ASSUME NEW c, NEW u, NEW m, NEW a \in 0 .. Size - 1
    PROVE  Device!After(c, u, m)[a]
             = IF Device!Reached(c, a, m) THEN Device!Wanted(c, u, a) ELSE u[a]
BY DEF Device!After, Device!Addr

\* write and write_zero.
LEMMA PatchStep ==
    ASSUME CallInv, Busy, call.kind \in {"write", "zero"}, Whole \/ partial # Empty
    PROVE  /\ Written \in [Sector -> [Index -> Byte]]
           /\ Seen(Written) = Device!After(call, was, call.n - nbytes + Psize)
<1> DEFINE done == call.n - nbytes
           t == secnum
           x == secnum * SectorSize
           rem == remainder
           p == Psize
<1>1. /\ disk \in [Sector -> [Index -> Byte]] /\ was \in [0 .. Size - 1 -> Byte]
      /\ View = Device!After(call, was, done)
      /\ partial # Empty => partial = disk[Map[Source]]
  BY DEF CallInv, Busy
<1>2. /\ call \in Device!Calls /\ done \in Nat /\ done + p <= call.n
      /\ t \in Sector /\ rem \in Index
      /\ x + rem = call.at + done
      /\ p \in Nat /\ rem + p <= SectorSize
  BY BusyFacts
<1>3. /\ SectorSize \in Nat /\ SectorSize > 0 /\ Size \in Nat
      /\ call.at \in Nat /\ call.n \in Nat /\ call.at + call.n <= Size
      /\ rem \in Nat /\ t \in Nat /\ x \in Nat /\ nbytes \in Nat
      /\ call.kind = "write" => call.data \in [0 .. Size - 1 -> Byte]
  <2>1. SectorSize \in Nat /\ SectorSize > 0 /\ Size \in Nat
    BY SizeFacts
  <2>2. /\ call.at \in Nat /\ call.n \in Nat /\ call.at + call.n <= Size
        /\ call.kind = "write" => call.data \in [0 .. Size - 1 -> Byte]
    BY <1>2, <2>1, CallFacts
  <2>3. rem \in Nat /\ t \in Nat /\ x \in Nat
    BY <1>2, <2>1 DEF Index, Sector
  <2>4. nbytes \in Nat
    BY DEF CallInv
  <2>5. QED
    BY <2>1, <2>2, <2>3, <2>4
<1>4. Source = t /\ Target = t /\ Written = [disk EXCEPT ![Map[t]] = Patched]
  BY DEF Source, Target, Upwards, Written
<1>5. ASSUME NEW i \in Index, i \notin rem .. rem + p - 1
      PROVE  partial[i] = disk[Map[t]][i] /\ disk[Map[t]][i] \in Byte
  <2>1. ~Whole
    BY <1>3, <1>5 DEF Whole, Psize, Index
  <2>2. Map[t] \in Sector
    BY <1>2, MapAssumption
  <2>3. QED
    BY <1>1, <1>4, <2>1, <2>2
<1>13. x = t * SectorSize
  OBVIOUS
<1> HIDE DEF done, t, x, rem, p
<1>6. ASSUME NEW i \in Index, i \in rem .. rem + p - 1
      PROVE  /\ x + i - call.at = done + i - rem
             /\ done + i - rem \in 0 .. Size - 1
  <2>1. i \in Nat /\ i >= rem /\ i < rem + p
    BY <1>2, <1>3, <1>6 DEF Index
  <2>2. /\ x + rem = call.at + done /\ done + p <= call.n /\ call.at + call.n <= Size
        /\ x \in Nat /\ rem \in Nat /\ done \in Nat /\ p \in Nat
        /\ call.at \in Nat /\ call.n \in Nat /\ Size \in Nat
    BY <1>2, <1>3
  <2>3. QED
    BY <2>1, <2>2
<1>7. \A i \in Index : Patched[i] = IF i \in rem .. rem + p - 1
                            THEN (IF call.kind = "zero" THEN Zero
                                  ELSE call.data[done + i - rem])
                            ELSE partial[i]
  BY DEF Patched, done, rem, p
<1>8. Patched \in [Index -> Byte]
  <2>1. \A i \in Index : Patched[i] \in Byte
    BY <1>3, <1>5, <1>6, <1>7, ContentsAssumption
  <2>2. Patched = [i \in Index |-> Patched[i]]
    BY DEF Patched
  <2>3. QED
    BY <2>1, <2>2
<1>9. /\ Written \in [Sector -> [Index -> Byte]]
      /\ \A s \in Sector, i \in Index : Seen(Written)[s * SectorSize + i]
            = IF s = t THEN Patched[i] ELSE Seen(disk)[s * SectorSize + i]
  <2> DEFINE y == Patched
             f == [disk EXCEPT ![Map[t]] = y]
  <2>1. y \in [Index -> Byte] /\ Written = f
    BY <1>4, <1>8
  <2> HIDE DEF y
  <2>2. f = [disk EXCEPT ![Map[t]] = y]
    OBVIOUS
  <2> HIDE DEF f
  <2>3. /\ f \in [Sector -> [Index -> Byte]]
        /\ \A s \in Sector : f[Map[s]] = IF s = t THEN y ELSE disk[Map[s]]
    BY <1>1, <1>2, <2>1, <2>2, MapAssumption
  <2>4. \A s \in Sector, i \in Index : Seen(f)[s * SectorSize + i]
              = IF s = t THEN y[i] ELSE Seen(disk)[s * SectorSize + i]
    <3> SUFFICES ASSUME NEW s \in Sector, NEW i \in Index
                 PROVE  Seen(f)[s * SectorSize + i]
                          = IF s = t THEN y[i] ELSE Seen(disk)[s * SectorSize + i]
      OBVIOUS
    <3>1. Seen(f)[s * SectorSize + i] = f[Map[s]][i]
      BY SeenAt
    <3>2. Seen(disk)[s * SectorSize + i] = disk[Map[s]][i]
      BY SeenAt
    <3>3. QED
      BY <2>3, <3>1, <3>2
  <2>5. QED
    BY <2>1, <2>3, <2>4 DEF y
<1>10. ASSUME NEW s \in Sector, NEW i \in Index
       PROVE  Seen(Written)[s * SectorSize + i]
                = Device!After(call, was, done + p)[s * SectorSize + i]
  <2> DEFINE a == s * SectorSize + i
  <2>1. a \in 0 .. Size - 1
    BY AddrOf
  <2>2. Seen(disk)[a] = Device!After(call, was, done)[a]
    BY <1>1 DEF View
  <2>3. /\ Device!Reached(call, a, done) <=> a \in call.at .. call.at + done - 1
        /\ Device!Reached(call, a, done + p) <=> a \in call.at .. call.at + (done + p) - 1
    BY DEF Device!Reached
  <2>4. a \in call.at + done .. call.at + (done + p) - 1
           <=> s = t /\ i \in rem .. rem + p - 1
    <3> DEFINE hi == rem + p
    <3>1. hi \in Nat /\ rem <= hi /\ hi <= SectorSize
      BY <1>2, <1>3
    <3>2. x + hi = call.at + (done + p)
      <4>1. x \in Int /\ rem \in Int /\ p \in Int /\ call.at \in Int /\ done \in Int
        BY <1>2, <1>3
      <4>2. x + rem = call.at + done
        BY <1>2
      <4>3. x + (rem + p) = call.at + (done + p)
        BY <4>1, <4>2
      <4>4. QED
        BY <4>3 DEF hi
    <3> HIDE DEF hi
    <3>3. a \in t * SectorSize + rem .. t * SectorSize + hi - 1
             <=> s = t /\ i \in rem .. hi - 1
      <4>1. /\ s \in Sector /\ i \in Index /\ t \in Sector
            /\ rem \in Nat /\ hi \in Nat /\ rem <= hi /\ hi <= SectorSize
        BY <1>2, <1>3, <3>1
      <4>2. s * SectorSize + i \in t * SectorSize + rem .. t * SectorSize + hi - 1
               <=> s = t /\ i \in rem .. hi - 1
        BY <4>1, ReachedIn
      <4>3. QED
        BY <4>2
    <3>4. a \in x + rem .. x + hi - 1 <=> s = t /\ i \in rem .. hi - 1
      BY <1>13, <3>3
    <3> HIDE DEF a
    <3>5. QED
      <4>1. x + rem = call.at + done /\ x \in Nat /\ rem \in Nat /\ done \in Nat
            /\ call.at \in Nat /\ p \in Nat
        BY <1>2, <1>3
      <4>2. x + hi - 1 = call.at + (done + p) - 1
        BY <3>1, <3>2, <4>1
      <4>3. i \in rem .. hi - 1 <=> i \in rem .. rem + p - 1
        <5>1. i \in Nat
          BY <1>3 DEF Index
        <5>2. QED
          BY <4>1, <5>1 DEF hi
      <4>4. QED
        BY <3>4, <4>1, <4>2, <4>3
  <2> HIDE DEF a
  <2>5. Device!Reached(call, a, done + p)
           <=> Device!Reached(call, a, done) \/ (s = t /\ i \in rem .. rem + p - 1)
    <3>1. a \in Int /\ done <= done + p
      BY <1>2, <1>3, <2>1
    <3>2. QED
      BY <1>2, <1>3, <2>3, <2>4, <3>1
  <2>6. CASE s = t /\ i \in rem .. rem + p - 1
    <3>1. a - call.at = done + i - rem
      <4>1. x + i - call.at = done + i - rem
        BY <1>6, <2>6
      <4>2. a = x + i
        BY <1>13, <2>6 DEF a
      <4>3. x \in Nat /\ i \in Nat /\ call.at \in Nat /\ rem \in Nat /\ done \in Nat
        BY <1>2, <1>3 DEF Index
      <4>4. QED
        BY <4>1, <4>2, <4>3
    <3>2. Device!Wanted(call, was, a)
            = IF call.kind = "zero" THEN Zero ELSE call.data[done + i - rem]
      BY <3>1 DEF Device!Wanted
    <3>3. Seen(Written)[a] = Patched[i]
      BY <1>9, <2>6 DEF a
    <3>4. QED
      BY <1>7, <2>1, <2>5, <2>6, <3>2, <3>3, AfterAt DEF a
  <2>7. CASE ~(s = t /\ i \in rem .. rem + p - 1)
    <3>1. Seen(Written)[a] = Seen(disk)[a]
      <4>1. CASE s = t
        <5>1. Patched[i] = disk[Map[t]][i]
          BY <1>5, <1>7, <2>7, <4>1
        <5>2. Seen(disk)[a] = disk[Map[t]][i]
          BY <4>1, SeenAt DEF a
        <5>3. QED
          BY <1>9, <4>1, <5>1, <5>2 DEF a
      <4>2. CASE s # t
        BY <1>9, <4>2 DEF a
      <4>3. QED
        BY <4>1, <4>2
    <3>2. QED
      BY <2>1, <2>2, <2>5, <2>7, <3>1, AfterAt DEF a
  <2>8. QED
    BY <2>6, <2>7 DEF a
<1>11. Seen(Written) = Device!After(call, was, done + p)
  <2> DEFINE u == Seen(Written)
             w == Device!After(call, was, done + p)
  <2>1. u = [a \in 0 .. Size - 1 |-> u[a]]
    BY DEF Seen
  <2>2. w = [a \in 0 .. Size - 1 |-> w[a]]
    BY DEF Device!After, Device!Addr
  <2>3. \A s \in Sector, i \in Index : u[s * SectorSize + i] = w[s * SectorSize + i]
    BY <1>10
  <2> HIDE DEF u, w
  <2>4. \A a \in 0 .. Size - 1 : u[a] = w[a]
    BY <2>3, SameBytes
  <2>5. u = w
    BY <2>1, <2>2, <2>4
  <2>6. QED
    BY <2>5 DEF u, w
<1>14. QED
  BY <1>9, <1>11 DEF done, p

\* relocate: the sector that is copied still has the bytes it had when the call was
\* made, also where the two ranges overlap.
LEMMA RelocateStep ==
    ASSUME CallInv, Busy, call.kind = "relocate", partial # Empty
    PROVE  /\ Written \in [Sector -> [Index -> Byte]]
           /\ Seen(Written) = Device!After(call, was, call.n - nbytes + Psize)
<1> DEFINE done == call.n - nbytes
           at == call.at
           from == call.from
           n == call.n
           t == Target
           u == Source
           x == Target * SectorSize
           y == Source * SectorSize
           o == IF Upwards THEN nbytes - SectorSize ELSE done
<1>1. /\ disk \in [Sector -> [Index -> Byte]] /\ was \in [0 .. Size - 1 -> Byte]
      /\ View = Device!After(call, was, done)
      /\ partial = disk[Map[u]]
  BY DEF CallInv, Busy
<1>2. /\ call \in Device!Calls /\ done \in Nat /\ done + Psize <= n
  BY BusyFacts
<1>3. /\ Psize = SectorSize /\ u \in Sector /\ t \in Sector /\ at # from
      /\ x = at + o /\ y = from + o
  BY RelocateFacts
<1>4. /\ SectorSize \in Nat /\ SectorSize > 0 /\ Size \in Nat
      /\ at \in Nat /\ from \in Nat /\ n \in Nat
      /\ at + n <= Size /\ from + n <= Size
  <2>1. SectorSize \in Nat /\ SectorSize > 0 /\ Size \in Nat
    BY SizeFacts
  <2>2. QED
    BY <1>2, <2>1, CallFacts
<1>5. nbytes \in Nat /\ done = n - nbytes /\ nbytes >= SectorSize
  <2>1. nbytes \in Nat
    BY DEF CallInv
  <2>2. QED
    BY <1>2, <1>3, <1>4, <2>1
<1>6. o \in Nat
  BY <1>2, <1>4, <1>5
<1>7. Upwards <=> at > from
  BY DEF Upwards
<1>8. ASSUME NEW a, NEW m
      PROVE  Device!Reached(call, a, m)
               <=> IF Upwards THEN a \in at + n - m .. at + n - 1 ELSE a \in at .. at + m - 1
  BY DEF Device!Reached, Upwards
<1>9. ASSUME NEW a PROVE Device!Wanted(call, was, a) = was[a - at + from]
  BY DEF Device!Wanted
<1>10. x = t * SectorSize /\ y = u * SectorSize
  OBVIOUS
<1>11. o = IF Upwards THEN nbytes - SectorSize ELSE done
  OBVIOUS
<1> HIDE DEF done, at, from, n, t, u, x, y, o
<1>12. /\ Written \in [Sector -> [Index -> Byte]]
       /\ \A s \in Sector : Written[Map[s]] = IF s = t THEN partial ELSE disk[Map[s]]
  <2>1. Written = [disk EXCEPT ![Map[t]] = partial]
    BY DEF Written, t
  <2>2. Map[t] \in Sector /\ partial \in [Index -> Byte]
    BY <1>1, <1>3, MapAssumption
  <2>3. QED
    BY <1>1, <1>3, <2>1, <2>2, MapAssumption
\* Where sector t and the sector that is copied there lie in their ranges.
<1>13. ASSUME NEW s \in Sector, NEW i \in Index
       PROVE  s * SectorSize + i \in x .. x + SectorSize - 1 <=> s = t
  <2>1. /\ 0 \in Nat /\ SectorSize \in Nat /\ 0 <= SectorSize /\ SectorSize <= SectorSize
    BY <1>4
  <2>2. s * SectorSize + i \in t * SectorSize + 0 .. t * SectorSize + SectorSize - 1
           <=> s = t /\ i \in 0 .. SectorSize - 1
    BY <1>3, <2>1, ReachedIn
  <2>3. t * SectorSize \in Int /\ x = t * SectorSize
    BY <1>3, <1>4, <1>10 DEF Sector
  <2>4. t * SectorSize + 0 = x
    BY <2>3
  <2>5. i \in 0 .. SectorSize - 1
    BY DEF Index
  <2>6. QED
    BY <2>2, <2>3, <2>4, <2>5
<1>14. ASSUME NEW a \in Int
       PROVE  Device!Reached(call, a, done + SectorSize)
                <=> Device!Reached(call, a, done) \/ a \in x .. x + SectorSize - 1
  <2>1. CASE Upwards
    <3>1. x = at + (nbytes - SectorSize)
      BY <1>3, <1>11, <2>1
    <3>2. /\ Device!Reached(call, a, done + SectorSize)
                <=> a \in at + n - (done + SectorSize) .. at + n - 1
          /\ Device!Reached(call, a, done) <=> a \in at + n - done .. at + n - 1
      BY <1>8, <2>1
    <3>3. /\ at + n - (done + SectorSize) = x /\ at + n - done = x + SectorSize
          /\ x \in Int /\ x + SectorSize <= at + n
      BY <1>2, <1>4, <1>5, <3>1
    <3>4. QED
      BY <1>4, <3>2, <3>3
  <2>2. CASE ~Upwards
    <3>1. x = at + done
      BY <1>3, <1>11, <2>2
    <3>2. /\ Device!Reached(call, a, done + SectorSize)
                <=> a \in at .. at + (done + SectorSize) - 1
          /\ Device!Reached(call, a, done) <=> a \in at .. at + done - 1
      BY <1>8, <2>2
    <3>3. QED
      BY <1>2, <1>4, <3>1, <3>2
  <2>3. QED
    BY <2>1, <2>2
<1>15. ASSUME NEW i \in Index
       PROVE  /\ y + i \in 0 .. Size - 1 /\ y + i = (x + i) - at + from
              /\ ~Device!Reached(call, y + i, done)
  <2>1. i \in Nat /\ i < SectorSize /\ x \in Nat /\ y \in Nat
    BY <1>3, <1>4, <1>6 DEF Index
  <2>2. y + i \in 0 .. Size - 1
    BY <1>3, <1>10, AddrOf
  <2>3. y + i = (x + i) - at + from
    BY <1>3, <1>4, <1>6, <2>1
  <2>4. CASE Upwards
    <3>1. y = from + (nbytes - SectorSize) /\ from < at
      BY <1>3, <1>4, <1>7, <1>11, <2>4
    <3>2. y + i < at + n - done
      BY <1>2, <1>4, <1>5, <2>1, <3>1
    <3>3. Device!Reached(call, y + i, done) <=> y + i \in at + n - done .. at + n - 1
      BY <1>8, <2>4
    <3>4. y + i \in Int /\ at + n - done \in Int /\ at + n - 1 \in Int
      BY <1>2, <1>4, <2>1
    <3>5. QED
      BY <2>2, <2>3, <3>2, <3>3, <3>4
  <2>5. CASE ~Upwards
    <3>1. y = from + done /\ at < from
      BY <1>3, <1>4, <1>7, <1>11, <2>5
    <3>2. y + i > at + done - 1
      BY <1>2, <1>4, <2>1, <3>1
    <3>3. Device!Reached(call, y + i, done) <=> y + i \in at .. at + done - 1
      BY <1>8, <2>5
    <3>4. y + i \in Int /\ at + done - 1 \in Int
      BY <1>2, <1>4, <2>1
    <3>5. QED
      BY <1>4, <2>2, <2>3, <3>2, <3>3, <3>4
  <2>6. QED
    BY <2>4, <2>5
<1>16. ASSUME NEW s \in Sector, NEW i \in Index
       PROVE  Seen(Written)[s * SectorSize + i]
                = Device!After(call, was, done + SectorSize)[s * SectorSize + i]
  <2> DEFINE a == s * SectorSize + i
             w == Written
  <2>1. a \in 0 .. Size - 1
    BY AddrOf
  <2>2. Seen(disk)[a] = Device!After(call, was, done)[a]
    BY <1>1 DEF View
  <2>3. Seen(w)[a] = w[Map[s]][i] /\ Seen(disk)[a] = disk[Map[s]][i]
    BY SeenAt
  <2>4. a \in x .. x + SectorSize - 1 <=> s = t
    BY <1>13
  <2>5. s = t => a = x + i
    BY <1>10
  <2> HIDE DEF a, w
  <2>6. Device!Reached(call, a, done + SectorSize) <=> Device!Reached(call, a, done) \/ s = t
    <3>1. a \in Int
      BY <1>4, <2>1
    <3>2. QED
      BY <1>14, <2>4, <3>1
  <2>7. CASE s = t
    <3> DEFINE b == y + i
    <3>1. b \in 0 .. Size - 1 /\ ~Device!Reached(call, b, done) /\ b = a - at + from
      BY <1>15, <2>5, <2>7
    <3>2. Seen(disk)[b] = disk[Map[u]][i]
      <4>1. Seen(disk)[u * SectorSize + i] = disk[Map[u]][i]
        BY <1>3, SeenAt
      <4>2. QED
        BY <1>10, <4>1
    <3> HIDE DEF b
    <3>3. Seen(disk)[b] = was[b]
      <4>1. Seen(disk)[b] = Device!After(call, was, done)[b]
        BY <1>1 DEF View
      <4>2. QED
        BY <3>1, <4>1, AfterAt
    <3>4. Seen(w)[a] = was[b]
      BY <1>1, <1>12, <2>3, <2>7, <3>2, <3>3 DEF w
    <3>5. Device!After(call, was, done + SectorSize)[a] = was[b]
      BY <1>9, <2>1, <2>6, <2>7, <3>1, AfterAt
    <3>6. QED
      BY <3>4, <3>5 DEF a, w
  <2>8. CASE s # t
    <3>1. Seen(w)[a] = Seen(disk)[a]
      BY <1>12, <2>3, <2>8 DEF w
    <3>2. Device!After(call, was, done + SectorSize)[a] = Device!After(call, was, done)[a]
      BY <2>1, <2>6, <2>8, AfterAt
    <3>3. QED
      BY <2>2, <3>1, <3>2 DEF a, w
  <2>9. QED
    BY <2>7, <2>8
<1>17. Seen(Written) = Device!After(call, was, done + SectorSize)
  <2> DEFINE v == Seen(Written)
             w == Device!After(call, was, done + SectorSize)
  <2>1. v = [a \in 0 .. Size - 1 |-> v[a]]
    BY DEF Seen
  <2>2. w = [a \in 0 .. Size - 1 |-> w[a]]
    BY DEF Device!After, Device!Addr
  <2>3. \A s \in Sector, i \in Index : v[s * SectorSize + i] = w[s * SectorSize + i]
    BY <1>16
  <2> HIDE DEF v, w
  <2>4. \A a \in 0 .. Size - 1 : v[a] = w[a]
    BY <2>3, SameBytes
  <2>5. v = w
    BY <2>1, <2>2, <2>4
  <2>6. QED
    BY <2>5 DEF v, w
<1>18. QED
  BY <1>3, <1>12, <1>17 DEF done

\* One write_sector takes the medium to the next stage of the call.
LEMMA WriteStep ==
    ASSUME CallInv, Busy, call.kind # "read", Whole \/ partial # Empty
    PROVE  /\ Written \in [Sector -> [Index -> Byte]]
           /\ Seen(Written) = Device!After(call, was, call.n - nbytes + Psize)
<1>1. CASE call.kind = "relocate"
  BY <1>1, RelocateStep DEF Whole
<1>2. CASE call.kind # "relocate"
  <2>1. call.kind \in {"write", "zero"}
    BY <1>2, BusyFacts, CallFacts
  <2>2. QED
    BY <2>1, PatchStep
<1>3. QED
  BY <1>1, <1>2

-----------------------------------------------------------------------------
(* The steps.                                                              *)

LEMMA InitCall == Init => CallInv
<1> SUFFICES ASSUME Init PROVE CallInv
  OBVIOUS
<1>1. disk \in [Sector -> [Index -> Byte]]
  BY ContentsAssumption DEF Init
<1>2. was \in [0 .. Size - 1 -> Byte]
  <2>1. \A a \in 0 .. Size - 1 : disk[Map[a \div SectorSize]][a % SectorSize] \in Byte
    BY <1>1, AddrParts, MapAssumption
  <2>2. QED
    BY <2>1 DEF Init, View, Seen
<1>3. 0 \in Index
  BY SizeFacts DEF Index
<1>4. QED
  BY <1>1, <1>2, <1>3 DEF Init, CallInv

\* A call starts at the first byte of its range; nothing of it is done.
LEMMA BeginCall ==
    ASSUME CallInv, NEW c \in Device!Calls, Begin(c)
    PROVE  CallInv'
<1>1. /\ disk' = disk /\ disk \in [Sector -> [Index -> Byte]] /\ call' = c
      /\ was' = View /\ ret' = "busy" /\ out' = Empty /\ partial' = Empty
      /\ secnum' = c.at \div SectorSize /\ remainder' = c.at % SectorSize
      /\ nbytes' = IF c.kind = "relocate" /\ c.at = c.from THEN 0 ELSE c.n
  BY DEF Begin, CallInv
<1>2. /\ c.at \in 0 .. Size - 1 /\ c.n \in Nat
      /\ c.kind = "relocate" => c.at % SectorSize = 0 /\ c.n % SectorSize = 0
  BY CallFacts
<1>3. /\ secnum' \in Sector /\ remainder' \in Index
      /\ secnum' * SectorSize + remainder' = c.at
  BY <1>1, <1>2, AddrParts
<1>4. was' \in [0 .. Size - 1 -> Byte]
  <2>1. \A a \in 0 .. Size - 1 : disk[Map[a \div SectorSize]][a % SectorSize] \in Byte
    BY <1>1, AddrParts, MapAssumption
  <2>2. QED
    BY <1>1, <2>1 DEF View, Seen
<1>5. nbytes' \in Nat /\ nbytes' <= c.n
  BY <1>1, <1>2
<1>6. View' = Device!After(c, was', c.n - nbytes')
  <2>1. View' = was' /\ was' = [a \in 0 .. Size - 1 |-> was'[a]]
    BY <1>1 DEF View, Seen
  <2>2. ASSUME NEW a \in 0 .. Size - 1
        PROVE  was'[a] = Device!After(c, was', c.n - nbytes')[a]
    <3>1. Size \in Nat /\ a \in Nat
      BY SizeFacts
    <3>2. CASE c.kind = "relocate" /\ c.at = c.from
      <4>1. a - c.at + c.from = a
        BY <1>2, <3>1, <3>2
      <4>2. Device!Wanted(c, was', a) = was'[a]
        BY <3>2, <4>1 DEF Device!Wanted
      <4>3. QED
        BY <4>2, AfterAt
    <3>3. CASE ~(c.kind = "relocate" /\ c.at = c.from)
      <4>1. c.n - nbytes' = 0
        BY <1>1, <1>2, <3>3
      <4>2. ~Device!Reached(c, a, 0)
        BY <1>2, <3>1 DEF Device!Reached
      <4>3. QED
        BY <4>1, <4>2, AfterAt
    <3>4. QED
      BY <3>2, <3>3
  <2>3. Device!After(c, was', c.n - nbytes')
          = [a \in 0 .. Size - 1 |-> Device!After(c, was', c.n - nbytes')[a]]
    BY DEF Device!After, Device!Addr
  <2>4. QED
    BY <2>1, <2>2, <2>3
<1>7. out' = IF c.kind = "read" THEN [i \in 0 .. c.n - nbytes' - 1 |-> was'[c.at + i]]
             ELSE Empty
  <2>1. c.kind = "read" => 0 .. c.n - nbytes' - 1 = {}
    BY <1>1, <1>2
  <2>2. QED
    BY <1>1, <2>1 DEF Empty
<1>8. ~Finished' => secnum' * SectorSize + remainder' = c.at + (c.n - nbytes')
  <2>1. CASE c.kind = "relocate" /\ c.at = c.from
    <3>1. nbytes' = 0 /\ remainder' = 0
      BY <1>1, <1>2, <2>1
    <3>2. QED
      BY <3>1 DEF Finished
  <2>2. CASE ~(c.kind = "relocate" /\ c.at = c.from)
    <3>1. nbytes' = c.n
      BY <1>1, <2>2
    <3>2. c.n - nbytes' = 0 /\ c.at \in Int
      BY <1>2, <3>1
    <3>3. c.at + (c.n - nbytes') = c.at
      BY <3>2
    <3>4. QED
      BY <1>3, <3>3
  <2>3. QED
    BY <2>1, <2>2
<1>9. c.kind = "relocate" =>
         /\ remainder' = 0 /\ nbytes' % SectorSize = 0
         /\ nbytes' > 0 => c.at # c.from
  <2>1. 0 % SectorSize = 0
    BY SizeFacts
  <2>2. QED
    BY <1>1, <1>2, <2>1
<1>10. secnum' \in Nat
  BY <1>3, SizeFacts DEF Sector
<1>11. QED
  BY <1>1, <1>3, <1>4, <1>5, <1>6, <1>7, <1>8, <1>9, <1>10 DEF CallInv

\* The loop goes on where the sector ends, or has come to the end of the range.
LEMMA AdvanceCall ==
    ASSUME CallInv, Busy, Advance, UNCHANGED <<call, was>>
    PROVE  /\ was' \in [0 .. Size - 1 -> Byte]
           /\ secnum' \in Nat /\ remainder' \in Index /\ nbytes' \in Nat
           /\ call' \in Device!Calls /\ nbytes' <= call'.n
           /\ call'.n - nbytes' = call.n - nbytes + Psize
           /\ ~Finished' => secnum' * SectorSize + remainder' = call'.at + (call'.n - nbytes')
           /\ call'.kind = "relocate" =>
                 /\ remainder' = 0 /\ nbytes' % SectorSize = 0
                 /\ nbytes' > 0 => call'.at # call'.from
           /\ partial' = Empty
<1> DEFINE x == secnum * SectorSize
<1>1. /\ secnum' = secnum + 1 /\ remainder' = 0 /\ nbytes' = nbytes - Psize
      /\ partial' = Empty /\ call' = call /\ was' = was
  BY DEF Advance
<1>2. was \in [0 .. Size - 1 -> Byte] /\ nbytes \in Nat /\ nbytes <= call.n
  BY DEF CallInv, Busy
<1>3. /\ call \in Device!Calls /\ secnum \in Sector /\ remainder \in Index
      /\ x + remainder = call.at + (call.n - nbytes)
      /\ Psize \in Nat /\ Psize <= nbytes
      /\ Psize = nbytes \/ remainder + Psize = SectorSize
  BY BusyFacts
<1>4. /\ SectorSize \in Nat /\ SectorSize > 0 /\ secnum \in Nat /\ remainder \in Nat /\ x \in Nat
  BY <1>3, SizeFacts DEF Sector, Index
<1>5. call.n \in Nat /\ call.at \in Nat
  BY <1>3, SizeFacts, CallFacts
<1>6. secnum' * SectorSize = x + SectorSize
  BY <1>1, <1>4
<1> DEFINE z == secnum' * SectorSize
<1> HIDE DEF x, z
<1>7. ASSUME ~Finished' PROVE z + remainder' = call'.at + (call'.n - nbytes')
  <2>1. nbytes' # 0
    BY <1>1, <1>7 DEF Finished
  <2>2. remainder + Psize = SectorSize
    BY <1>1, <1>2, <1>3, <2>1
  <2>3. z = x + SectorSize
    BY <1>6 DEF z
  <2>4. x + SectorSize = call.at + (call.n - (nbytes - Psize))
    <3>1. /\ x \in Nat /\ remainder \in Nat /\ SectorSize \in Nat /\ Psize \in Nat
          /\ call.n \in Nat /\ call.at \in Nat /\ nbytes \in Nat
          /\ x + remainder = call.at + (call.n - nbytes)
      BY <1>2, <1>3, <1>4, <1>5
    <3>2. QED
      BY <2>2, <3>1
  <2>5. z + remainder' = x + SectorSize
    BY <1>1, <1>4, <2>3
  <2>6. QED
    BY <1>1, <2>4, <2>5
<1>8. ASSUME call.kind = "relocate"
      PROVE  nbytes' % SectorSize = 0 /\ call.at # call.from
  <2>1. Psize = SectorSize /\ nbytes % SectorSize = 0 /\ call.at # call.from
    BY <1>8, RelocateFacts
  <2> DEFINE b == nbytes \div SectorSize
  <2>2. b \in Nat /\ nbytes = b * SectorSize
    BY <1>2, <2>1, Units
  <2> HIDE DEF b
  <2>3. nbytes' = (b - 1) * SectorSize /\ b - 1 \in Int
    BY <1>1, <1>4, <2>1, <2>2
  <2>4. nbytes' % SectorSize = 0
    BY <2>3, UnitsOf
  <2>5. QED
    BY <2>1, <2>4
<1>9. 0 \in Index
  BY <1>4 DEF Index
<1>10. nbytes' \in Nat /\ nbytes' <= call'.n /\ call'.n - nbytes' = call.n - nbytes + Psize
  BY <1>1, <1>2, <1>3, <1>5
<1>11. QED
  BY <1>1, <1>2, <1>3, <1>4, <1>7, <1>8, <1>9, <1>10 DEF z

\* A read changes nothing, and the caller gets the bytes one sector at a time.
LEMMA ReadCall ==
    ASSUME CallInv, ReadSector
    PROVE  CallInv'
<1> DEFINE done == call.n - nbytes
           p == Psize
           rem == remainder
           at == call.at
           x == secnum * SectorSize
<1>1. /\ Busy /\ call.kind = "read" /\ Advance
      /\ UNCHANGED <<disk, call, was, ret>>
      /\ out' = [i \in 0 .. done + p - 1 |->
                    IF i < done THEN out[i] ELSE disk[Map[secnum]][rem + i - done]]
  BY DEF ReadSector
<1>2. /\ disk \in [Sector -> [Index -> Byte]] /\ was \in [0 .. Size - 1 -> Byte]
      /\ View = Device!After(call, was, done)
      /\ out = [i \in 0 .. done - 1 |-> was[at + i]]
  BY <1>1 DEF CallInv, Busy
<1>3. View = was
  <2>1. \A a \in 0 .. Size - 1 : Device!After(call, was, done)[a] = was[a]
    BY <1>1, AfterAt DEF Device!Wanted
  <2>2. Device!After(call, was, done) = [a \in 0 .. Size - 1 |-> Device!After(call, was, done)[a]]
    BY DEF Device!After, Device!Addr
  <2>3. QED
    BY <1>2, <2>1, <2>2
<1>4. /\ call \in Device!Calls /\ done \in Nat /\ secnum \in Sector /\ rem \in Index
      /\ x + rem = at + done /\ p \in Nat /\ rem + p <= SectorSize
  BY <1>1, BusyFacts
<1>5. at \in Nat /\ rem \in Nat /\ x \in Nat /\ SectorSize \in Nat /\ x = secnum * SectorSize
  BY <1>4, SizeFacts, CallFacts DEF Sector, Index
<1>6. out' = [i \in 0 .. done + p - 1 |-> was[at + i]]
  <2> HIDE DEF done, p, rem, at, x
  <2>1. ASSUME NEW i \in 0 .. done + p - 1
        PROVE  (IF i < done THEN out[i] ELSE disk[Map[secnum]][rem + i - done]) = was[at + i]
    <3>1. i \in Nat /\ i < done + p
      BY <1>4, <2>1
    <3>2. CASE i < done
      <4>1. i \in 0 .. done - 1
        BY <1>4, <3>1, <3>2
      <4>2. QED
        BY <1>2, <3>2, <4>1
    <3>3. CASE ~(i < done)
      <4> DEFINE k == rem + i - done
      <4>1. k \in Index /\ k \in Nat
        BY <1>4, <1>5, <3>1, <3>3 DEF Index
      <4>2. x + k = at + i
        BY <1>4, <1>5, <3>1
      <4> HIDE DEF k
      <4>3. Seen(disk)[secnum * SectorSize + k] = disk[Map[secnum]][k]
        BY <1>4, <4>1, SeenAt
      <4>4. was[at + i] = disk[Map[secnum]][k]
        BY <1>3, <1>5, <4>2, <4>3 DEF View
      <4>5. QED
        BY <3>3, <4>4 DEF k
    <3>4. QED
      BY <3>2, <3>3
  <2>2. QED
    BY <1>1, <2>1
<1>7. /\ secnum' \in Nat /\ remainder' \in Index /\ nbytes' \in Nat
      /\ nbytes' <= call'.n
      /\ call'.n - nbytes' = done + p
      /\ ~Finished' => secnum' * SectorSize + remainder' = call'.at + (call'.n - nbytes')
      /\ partial' = Empty
  BY <1>1, AdvanceCall
<1>8. View' = Device!After(call, was, done + p)
  <2>1. \A a \in 0 .. Size - 1 : Device!After(call, was, done + p)[a] = was[a]
    BY <1>1, AfterAt DEF Device!Wanted
  <2>2. Device!After(call, was, done + p)
          = [a \in 0 .. Size - 1 |-> Device!After(call, was, done + p)[a]]
    BY DEF Device!After, Device!Addr
  <2>3. View' = was
    BY <1>1, <1>3 DEF View
  <2>4. QED
    BY <1>2, <2>1, <2>2, <2>3
<1>9. /\ disk' \in [Sector -> [Index -> Byte]] /\ was' \in [0 .. Size - 1 -> Byte]
      /\ call' \in Device!Calls /\ call'.kind = "read"
  BY <1>1, <1>2, <1>4
<1> HIDE DEF done, p
<1>10. /\ View' = Device!After(call', was', call'.n - nbytes')
      /\ out' = [i \in 0 .. call'.n - nbytes' - 1 |-> was'[call'.at + i]]
  <2>1. call' = call /\ was' = was /\ call'.n - nbytes' = done + p
    BY <1>1, <1>7
  <2>2. View' = Device!After(call', was', call'.n - nbytes')
    BY <1>8, <2>1
  <2> DEFINE Bytes(w, c, m) == [i \in 0 .. m - 1 |-> w[c.at + i]]
  <2>3. out' = Bytes(was, call, done + p)
    <3>1. done + (p - 1) = (done + p) - 1
      BY <1>4
    <3>2. QED
      BY <1>6, <3>1 DEF at
  <2> HIDE DEF Bytes
  <2>4. out' = Bytes(was', call', call'.n - nbytes')
    BY <2>1, <2>3
  <2>5. QED
    BY <2>2, <2>4 DEF Bytes
<1>11. QED
  BY <1>7, <1>9, <1>10 DEF CallInv

LEMMA WriteCall ==
    ASSUME CallInv, WriteSector
    PROVE  /\ CallInv'
           /\ View' = Device!After(call, was, call.n - nbytes + Psize)
<1> DEFINE done == call.n - nbytes + Psize
<1>1. /\ Busy /\ call.kind # "read" /\ (Whole \/ partial # Empty) /\ disk' = Written /\ Advance
      /\ UNCHANGED <<call, was, ret, out>>
  BY DEF WriteSector
<1>2. disk' \in [Sector -> [Index -> Byte]] /\ View' = Device!After(call, was, done)
  BY <1>1, WriteStep DEF View
<1>3. /\ was' \in [0 .. Size - 1 -> Byte]
      /\ secnum' \in Nat /\ remainder' \in Index /\ nbytes' \in Nat
      /\ call' \in Device!Calls /\ nbytes' <= call'.n
      /\ call'.n - nbytes' = done
      /\ ~Finished' => secnum' * SectorSize + remainder' = call'.at + (call'.n - nbytes')
      /\ call'.kind = "relocate" =>
            /\ remainder' = 0 /\ nbytes' % SectorSize = 0
            /\ nbytes' > 0 => call'.at # call'.from
      /\ partial' = Empty
  BY <1>1, AdvanceCall
<1>4. out' = Empty /\ call'.kind # "read"
  BY <1>1 DEF CallInv, Busy
<1> HIDE DEF done
<1>5. View' = Device!After(call', was', call'.n - nbytes')
  BY <1>1, <1>2, <1>3
<1>6. CallInv'
  BY <1>2, <1>3, <1>4, <1>5 DEF CallInv
<1>7. QED
  BY <1>2, <1>6 DEF done

LEMMA NextCall == CallInv /\ [Next]_vars => CallInv'
<1> SUFFICES ASSUME CallInv, [Next]_vars PROVE CallInv'
  OBVIOUS
<1>1. CASE FetchSector
  <2>1. /\ Busy /\ call.kind # "read" /\ partial' = disk[Map[Source]]
        /\ UNCHANGED <<disk, call, was, ret, out, secnum, remainder, nbytes>>
    BY <1>1 DEF FetchSector
  <2>2. View' = View /\ Source' = Source /\ Finished' = Finished /\ ~Finished
    BY <2>1 DEF View, Source, Upwards, Finished, Busy
  <2>3. QED
    BY <2>1, <2>2 DEF CallInv
<1>2. CASE Return \/ Fail
  <2>1. /\ ret' # "busy" /\ UNCHANGED <<was, secnum, remainder, nbytes>>
    BY <1>2 DEF Return, Fail
  <2>2. disk' \in [Sector -> [Index -> Byte]]
    BY <1>2, WriteStep DEF Return, Fail, CallInv
  <2>3. QED
    BY <2>1, <2>2 DEF CallInv
<1>3. CASE UNCHANGED vars
  <2>1. UNCHANGED <<disk, call, was, ret, out, secnum, remainder, nbytes, partial>>
    BY <1>3 DEF vars
  <2>2. View' = View /\ Source' = Source /\ Finished' = Finished
    BY <2>1 DEF View, Source, Upwards, Finished
  <2>3. QED
    BY <2>1, <2>2 DEF CallInv
<1>4. QED
  BY <1>1, <1>2, <1>3, BeginCall, ReadCall, WriteCall DEF Next

\* At every sector the bytes dealt with are those of the abstract device
\* (read.cc, write.cc, write_zero.cc, relocate.cc).
THEOREM Calls == Spec => []CallInv
<1>1. QED
  BY InitCall, NextCall, PTL DEF Spec

-----------------------------------------------------------------------------
(* The sector loops implement ByteDevice.                                  *)

LEMMA InitDevice == Init => Device!Init
<1> SUFFICES ASSUME Init PROVE Device!Init
  OBVIOUS
<1>1. View \in {Seen(d) : d \in Medium}
  BY DEF Init, View
<1>2. Empty = Device!Nothing
  BY DEF Empty, Device!Nothing
<1>3. QED
  BY <1>1, <1>2 DEF Init, Device!Init, Empty

\* A call is made, a sector is read or written, the call returns or fails.
LEMMA NextDevice ==
    ASSUME CallInv, [Next]_vars
    PROVE  [Device!Next]_(Device!vars)
<1> DEFINE done == call.n - nbytes
<1>1. CASE \E c \in Device!Calls : Begin(c)
  <2>1. PICK c \in Device!Calls : Begin(c)
    BY <1>1
  <2>2. View' = View
    BY <2>1 DEF Begin, View
  <2>3. Device!Begin(c)
    BY <2>1, <2>2 DEF Begin, Device!Begin, Device!Nothing
  <2>4. QED
    BY <2>3 DEF Device!Next
<1>2. CASE ReadSector \/ FetchSector
  <2>1. UNCHANGED <<disk, call, was, ret>> /\ ret # "ok"
    BY <1>2 DEF ReadSector, FetchSector, Busy
  <2>2. View' = View
    BY <2>1 DEF View
  <2>3. QED
    BY <2>1, <2>2 DEF Device!vars
<1>3. CASE WriteSector
  <2>1. Busy /\ UNCHANGED <<call, was, ret>> /\ ret = "busy"
    BY <1>3 DEF WriteSector, Busy
  <2>2. done + Psize \in 0 .. call.n
    <3>1. /\ call \in Device!Calls /\ done \in Nat /\ Psize \in Nat /\ done + Psize <= call.n
      BY <2>1, BusyFacts
    <3>2. call.n \in Nat
      BY <3>1, CallFacts
    <3> HIDE DEF done
    <3>3. QED
      BY <3>1, <3>2
  <2>3. View' = Device!After(call, was, done + Psize)
    BY <1>3, WriteCall
  <2>4. Device!Proceed
    BY <2>1, <2>2, <2>3 DEF Device!Proceed
  <2>5. QED
    BY <2>4 DEF Device!Next
<1>4. CASE Return
  <2>1. /\ ret = "busy" /\ nbytes = 0 /\ ret' = "ok"
        /\ UNCHANGED <<disk, call, was, out>>
    BY <1>4 DEF Return, Finished
  <2>2. /\ call \in Device!Calls /\ View = Device!After(call, was, done)
        /\ out = IF call.kind = "read" THEN [i \in 0 .. done - 1 |-> was[call.at + i]] ELSE Empty
    BY <2>1 DEF CallInv
  <2>3. done = call.n
    <3>1. call.n \in Nat
      BY <2>2, CallFacts
    <3>2. QED
      BY <2>1, <3>1
  <2>4. View' = Device!After(call, was, call.n)
    BY <2>1, <2>2, <2>3 DEF View
  <2>5. out' = IF call.kind = "read" THEN [i \in 0 .. call.n - 1 |-> was[call.at + i]]
               ELSE Device!Nothing
    <3> HIDE DEF done
    <3>1. QED
      BY <2>1, <2>2, <2>3 DEF Empty, Device!Nothing
  <2>6. Device!Succeed
    BY <2>1, <2>4, <2>5 DEF Device!Succeed
  <2>7. QED
    BY <2>6 DEF Device!Next
<1>5. CASE Fail
  <2>1. /\ Busy /\ ret = "busy" /\ ret' = "EIO" /\ UNCHANGED <<call, was>>
        /\ disk' = disk \/ (call.kind # "read" /\ (Whole \/ partial # Empty) /\ disk' = Written)
    BY <1>5 DEF Fail, Busy
  <2>2. /\ call \in Device!Calls /\ done \in Nat /\ Psize \in Nat /\ done + Psize <= call.n
    BY <2>1, BusyFacts
  <2>3. call.n \in Nat
    BY <2>2, CallFacts
  <2>4. done \in 0 .. call.n /\ done + Psize \in 0 .. call.n
    <3> HIDE DEF done
    <3>1. QED
      BY <2>2, <2>3
  <2>5. \E m \in 0 .. call.n : View' = Device!After(call, was, m)
    <3>1. CASE disk' = disk
      <4>1. View' = Device!After(call, was, done)
        BY <2>1, <3>1 DEF View, CallInv
      <4>2. QED
        BY <2>4, <4>1
    <3>2. CASE call.kind # "read" /\ (Whole \/ partial # Empty) /\ disk' = Written
      <4>1. View' = Device!After(call, was, done + Psize)
        BY <2>1, <3>2, WriteStep DEF View
      <4>2. QED
        BY <2>4, <4>1
    <3>3. QED
      BY <2>1, <3>1, <3>2
  <2>6. Device!Error
    BY <2>1, <2>5 DEF Device!Error
  <2>7. QED
    BY <2>6 DEF Device!Next
<1>6. CASE UNCHANGED vars
  BY <1>6 DEF vars, View, Device!vars
<1>7. QED
  BY <1>1, <1>2, <1>3, <1>4, <1>5, <1>6 DEF Next

\* read, write, write_zero and relocate_bytes are calls on an array of bytes
\* (read.cc, write.cc, write_zero.cc, relocate.cc).
THEOREM Implements == Spec => ImplementsByteDevice
<1>1. QED
  BY InitDevice, NextDevice, Calls, PTL DEF Spec, ImplementsByteDevice, Device!Spec

=============================================================================
