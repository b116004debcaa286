----------------------------- MODULE Interleave -----------------------------
(***************************************************************************)
(* The order of the sectors on the medium: sector_io_apple and             *)
(* sector_io_pdp.  A map takes the number of a sector, as its callers      *)
(* count, to the number of the sector that holds it.  The maps are pure    *)
(* functions, and what matters of them is proved in DiskImageProofs.       *)
(***************************************************************************)
EXTENDS Integers

\* Apple ][ Pascal: sixteen sectors of 256 bytes on a track.
ApplePattern(s) == IF s \in {0, 15} THEN s ELSE 15 - s

AppleMap(n) == (n - (n % 16)) + ApplePattern(n % 16)

\* PDP-11: 26 sectors of 128 bytes on a track, the even ones first, and each
\* track skewed by 6 against the one before it.
PdpPattern(s) == IF s < 13 THEN 2 * s ELSE 2 * s - 25

PdpMapSector(track, s) == (PdpPattern(s) + (track % 13) * 6) % 26

PdpMap(n) == (n \div 26) * 26 + PdpMapSector(n \div 26, n % 26)

=============================================================================
