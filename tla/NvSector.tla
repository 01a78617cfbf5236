------------------------------- MODULE NvSector -------------------------------
(***************************************************************************)
(* The two flash sectors of an NV module (proj/drivers/nv.c): both kinds   *)
(* of module, items and frame counter, write one sector until it is full   *)
(* and continue in the other.  The header of a sector holds a flag and a   *)
(* 2-bit sequence number under a CRC; a header whose programming was       *)
(* interrupted ("torn") fails the CRC.                                     *)
(*                                                                         *)
(* Retiring a sector programs its flag from 0x7A7A ("valid") to 0x5050     *)
(* ("invalid").  Of the values in between, only 0x5A5A ("plain") is        *)
(* accepted: it is NV_SECTOR_VALID, the flag of a header without a CRC.    *)
(* (A header that lacks the top bits of its flag, 0xFAFA, is programmed    *)
(* again before it is used: it is one whose programming was complete.)     *)
(***************************************************************************)
EXTENDS Integers

CONSTANT
  RetireTears   (* an interrupted retirement may leave the flag "plain"    *)

ASSUME RetireTearsAssumption == RetireTears \in BOOLEAN

Sector == 0..1
Flags  == {"idle", "valid", "torn", "invalid"} \cup {f \in {"plain"} : RetireTears}

ValidSects(sc) == {s \in Sector : sc[s].flag \in {"valid", "plain"}}

(* The headers nv_sector_read retires: SECT_VALID_CHECK looks at the flag  *)
(* alone, so a torn header is retired too.                                 *)
HasValidFlag(h) == h.flag \in {"valid", "plain", "torn"}

(* Of two valid sectors the newer has the larger sequence number, except   *)
(* across the wrap 3 -> 0, which shows as a difference other than 1.  A    *)
(* sector without a CRC is taken without a comparison when it is the       *)
(* second, and counts as number 0 when it is the first.                    *)
SectVN(sc) ==
  LET a == sc[0].seq
      b == sc[1].seq
      sectPrev == IF sc[0].flag = "valid" THEN a ELSE 0
      hi == IF sectPrev > b THEN sectPrev ELSE b
      lo == IF sectPrev > b THEN b ELSE sectPrev
  IN  CASE ValidSects(sc) = Sector /\ sc[1].flag = "valid" ->
             IF hi - lo = 1 THEN hi ELSE lo
        [] ValidSects(sc) = {0} -> a
        [] OTHER                -> b

(* The sector nv_sector_read selects: the low bit of the sequence number.  *)
nv_sector_read(sc) == SectVN(sc) % 2

(* Mutants: the number is not masked, it is not advanced.                  *)
NextSeq_Unmasked(q) == q + 1
NextSeq_Same(q) == q

NextSeq(q) == (q + 1) % 4

(* Retiring sector s was interrupted half-way.  (A header that was itself  *)
(* torn is taken to be retired or not.)                                    *)
RetirementTorn(sc, s, after) ==
  /\ RetireTears
  /\ sc[s].flag = "valid"
  /\ after = [sc EXCEPT ![s].flag = "plain"]
=============================================================================
