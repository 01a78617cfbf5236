------------------------ MODULE RcFrameCounter_proofs ------------------------
(***************************************************************************)
(* Proofs about the frame counter, for every sector size, threshold and    *)
(* number of frames between two idle passes.                               *)
(*                                                                         *)
(* The inductive invariant has three parts.  Layout says what the sectors  *)
(* hold between two calls; Plan what they hold at each step of the call in *)
(* progress, hence that the sector read changes only at the header write;  *)
(* Margins bounds the counter in RAM and the counters on the air by the    *)
(* counter the log holds.  Margins needs that no write was read back wrong *)
(* (fails = 0), the other two hold always.                                 *)
(*                                                                         *)
(* The proofs are about a flash in which an interrupted retirement leaves  *)
(* the flag as it was or as it should be (~RetireTears): a sector brought  *)
(* back by a flag without a CRC is left to the model checker.              *)
(***************************************************************************)
EXTENDS RcFrameCounter, TLAPS

Valid(s) == sect[s].flag = "valid"
Cur == nv_sector_read(sect)
Moves == op.copy \/ op.force

(* The parity of its sequence number tells where a sector is, so that two  *)
(* valid sectors are never an even distance apart; a valid sector is       *)
(* neither empty nor more than full.                                       *)
Layout ==
  /\ ~RetireTears
  /\ \A s \in Sector :
    Valid(s) => sect[s].seq % 2 = s /\ Len(sect[s].words) \in 1..Cap

(* The call reads `old', and `to' is the sector it writes. *)
FromOld ==
  /\ Valid(op.old)
  /\ Cur = op.old
  /\ Moves => op.to = 1 - op.old /\ op.seq = NextSeq(sect[op.old].seq)
  /\ ~Moves => op.to = op.old /\ Len(sect[op.old].words) < Cap
  /\ ~(op.copy /\ op.force)

FromNothing ==
  /\ ValidSects(sect) = {}
  /\ op.to = 0 /\ op.seq = 0
  /\ ~Moves

Plan ==
  CASE op.step = "none"   -> TRUE
    [] op.step = "format" -> FromNothing
    [] op.step = "stale"  -> FromOld
    [] op.step = "erase"  -> FromOld /\ Moves /\ ~Valid(op.to)
    [] op.step = "last"   -> /\ FromOld /\ op.copy /\ ~Valid(op.to)
                             /\ sect[op.to].words = <<>>
    [] op.step = "new"    -> \/ /\ FromNothing /\ sect[op.to].words = <<>>
                             \/ /\ FromOld /\ ~Valid(1 - op.old)
                                /\ op.copy => Len(sect[op.to].words) = 1
                                /\ op.force => sect[op.to].words = <<>>
    [] op.step = "header" -> /\ \/ FromNothing
                                \/ FromOld /\ Moves /\ ~Valid(op.to)
                             /\ Len(sect[op.to].words) = IF op.copy THEN 2 ELSE 1
                             /\ sect[op.to].words[Len(sect[op.to].words)] = op.val
    [] op.step = "retire" -> /\ Moves /\ op.to = 1 - op.old
                             /\ Valid(op.old) /\ Valid(op.to)
                             /\ Cur = op.to
                             /\ Len(sect[op.to].words) \in 1..2
                             /\ sect[op.to].words[Len(sect[op.to].words)] = op.val

CurSuspect == ValidSects(sect) # {} /\ Suspect(sect[Cur].words)

NvMargins ==
  /\ Stored >= saved
  /\ op.step # "none" =>
       /\ op.val >= Stored
       /\ op.force => op.val = Stored
       /\ ~op.force => op.val <= Stored + 2 * Thres
       /\ CurSuspect <=> op.force /\ op.step # "retire"

AppMargins ==
  /\ ~paired => used = 0
  /\ used <= Stored + Thres + Burst
  /\ CASE pc = "off"        -> op.step = "none"
       [] pc = "powerOn"    -> /\ cnt = PowerOnCount /\ used <= cnt + Burst
                               /\ inFlash = 0
                               /\ op.step # "none" => op.force
       [] pc = "run"        -> inFlash = 0 \/ (inFlash = Stored /\ op.step = "none")
       [] pc = "idle"       -> /\ op.step = "none"
                               /\ \/ inFlash = Stored
                                  \/ inFlash = 0 /\ ValidSects(sect) = {}
       [] pc = "idleReload" -> IF op.step = "none"
                               THEN ValidSects(sect) # {} /\ cnt <= Stored
                               ELSE op.val = cnt
       [] pc = "deep"       -> /\ op.step = "none" /\ inFlash = 0
                               /\ areg <= Stored + Thres + sent
                               /\ used <= areg + Burst
  /\ pc \in {"run", "idle", "idleReload"} => /\ cnt <= Stored + Thres + sent
                                             /\ used <= cnt + Burst
  /\ pc # "off" /\ op.step = "none" => ~CurSuspect

FlashInv == NvTypeOK /\ Layout /\ Plan /\ (fails = 0 => NvMargins)
IInv == TypeOK /\ FlashInv /\ (fails = 0 => AppMargins)

-----------------------------------------------------------------------------
(* Which sector is read. *)

(* No flag is without a CRC, so that the sequence numbers decide.          *)
LEMMA NoPlain ==
  ASSUME ~RetireTears, NEW sc \in Sectors
  PROVE  /\ \A s \in Sector : sc[s].flag # "plain"
         /\ ValidSects(sc) = {s \in Sector : sc[s].flag = "valid"}
         /\ SectVN(sc) = CASE ValidSects(sc) = Sector ->
                                IF sc[0].seq > sc[1].seq
                                THEN IF sc[0].seq - sc[1].seq = 1 THEN sc[0].seq ELSE sc[1].seq
                                ELSE IF sc[1].seq - sc[0].seq = 1 THEN sc[1].seq ELSE sc[0].seq
                           [] ValidSects(sc) = {0} -> sc[0].seq
                           [] OTHER -> sc[1].seq
<1>1. \A s \in Sector : sc[s].flag # "plain"
  BY DEF Sectors, Content, Flags
<1>2. ValidSects(sc) = {s \in Sector : sc[s].flag = "valid"}
  BY <1>1 DEF ValidSects
<1>3. ValidSects(sc) = Sector => sc[0].flag = "valid" /\ sc[1].flag = "valid"
  BY <1>2 DEF Sector
<1> QED
  BY <1>1, <1>2, <1>3 DEF SectVN

(* A lone valid sector is read. *)
LEMMA ReadOne ==
  ASSUME ~RetireTears, NEW sc \in Sectors, NEW k \in Sector,
         sc[k].flag = "valid", sc[k].seq % 2 = k, sc[1 - k].flag # "valid"
  PROVE  ValidSects(sc) = {k} /\ nv_sector_read(sc) = k
<1>1. k = 0 \/ k = 1
  BY DEF Sector
<1>4. ValidSects(sc) = {k}
  BY <1>1, NoPlain DEF Sector
<1>5. SectVN(sc) = sc[k].seq
  <2>1. 1 - k \in Sector /\ 1 - k \notin ValidSects(sc)
    BY <1>1, <1>4 DEF Sector
  <2>2. ValidSects(sc) # Sector /\ (ValidSects(sc) = {0} <=> k = 0)
    BY <1>1, <1>4, <2>1
  <2> QED
    BY <1>1, <2>2, NoPlain
<1> QED
  BY <1>4, <1>5 DEF nv_sector_read

(* Of two valid sectors the one with the next sequence number is read,     *)
(* also when that number has wrapped.                                      *)
LEMMA ReadTwo ==
  ASSUME ~RetireTears, NEW sc \in Sectors, NEW k \in Sector,
         sc[k].flag = "valid", sc[1 - k].flag = "valid",
         sc[1 - k].seq % 2 = 1 - k, sc[k].seq = NextSeq(sc[1 - k].seq)
  PROVE  /\ ValidSects(sc) = Sector
         /\ nv_sector_read(sc) = k
         /\ sc[k].seq % 2 = k
<1> DEFINE q == sc[1 - k].seq
<1>1. (k = 0 \/ k = 1) /\ 1 - k \in Sector
  BY DEF Sector
<1>2. q \in 0..3
  BY <1>1 DEF Sectors, Content, Flags
<1>3. ValidSects(sc) = Sector
  BY <1>1, NoPlain DEF Sector
<1>4. SectVN(sc) = NextSeq(q)
  <2>1. CASE k = 0
    <3>1. q = 1 \/ q = 3
      BY <1>2, <2>1
    <3> QED
      BY <1>3, <2>1, <3>1, NoPlain DEF NextSeq
  <2>2. CASE k = 1
    <3>1. q = 0 \/ q = 2
      BY <1>2, <2>2
    <3> QED
      BY <1>3, <2>2, <3>1, NoPlain DEF NextSeq
  <2> QED
    BY <1>1, <2>1, <2>2
<1>5. NextSeq(q) % 2 = k
  BY <1>1, <1>2 DEF NextSeq
<1> QED
  BY <1>3, <1>4, <1>5 DEF nv_sector_read

(* The sector read is a valid one. *)
LEMMA ReadValid ==
  ASSUME ~RetireTears, NEW sc \in Sectors, ValidSects(sc) # {},
         \A s \in Sector : sc[s].flag = "valid" => sc[s].seq % 2 = s
  PROVE  nv_sector_read(sc) \in ValidSects(sc)
<1>1. sc[0].seq \in 0..3 /\ sc[1].seq \in 0..3
  BY DEF Sectors, Content, Flags, Sector
<1>2. CASE ValidSects(sc) = Sector
  <2>1. SectVN(sc) \in 0..3
    BY <1>1, <1>2, NoPlain
  <2> QED
    BY <1>2, <2>1 DEF nv_sector_read, Sector
<1>3. CASE ValidSects(sc) # Sector
  <2>1. PICK k \in Sector : sc[k].flag = "valid"
    BY NoPlain
  <2>2. sc[1 - k].flag # "valid"
    BY <1>3, <2>1, NoPlain DEF Sector
  <2> QED
    BY <2>1, <2>2, ReadOne
<1> QED
  BY <1>2, <1>3

-----------------------------------------------------------------------------
(* What the flash operations do to the counter the log holds. *)

LEMMA OtherSector ==
  \A s \in Sector : 1 - s \in Sector /\ 1 - s # s /\ 1 - (1 - s) = s
    /\ \A t \in Sector : t = s \/ t = 1 - s
BY DEF Sector

(* Writing the sector that is not read changes nothing. *)
LEMMA OldKept ==
  ASSUME sect \in Sectors, sect' \in Sectors, Layout,
         NEW k \in Sector, Valid(k), Cur = k,
         sect'[k] = sect[k], sect'[1 - k].flag # "valid"
  PROVE  /\ ValidSects(sect') = {k} /\ Cur' = k /\ Layout'
         /\ Stored' = Stored /\ (CurSuspect' <=> CurSuspect)
<1>1. sect'[k].flag = "valid" /\ sect'[k].seq % 2 = k
  BY DEF Valid, Layout
<1>2. ValidSects(sect') = {k} /\ nv_sector_read(sect') = k
  BY <1>1, ReadOne DEF Layout
<1>3. Layout'
  <2> SUFFICES ASSUME NEW s \in Sector, sect'[s].flag = "valid"
               PROVE  sect'[s].seq % 2 = s /\ Len(sect'[s].words) \in 1..Cap
    BY DEF Layout, Valid
  <2>1. s = k
    BY OtherSector
  <2> QED
    BY <2>1 DEF Layout, Valid
<1>4. ValidSects(sect) # {}
  BY DEF Valid, ValidSects
<1> QED
  BY <1>2, <1>3, <1>4 DEF Stored, CurSuspect, Cur, nv_nwkFrameCountFromFlash

(* A word appended to the sector that is read. *)
LEMMA WordAppended ==
  ASSUME sect \in Sectors, sect' \in Sectors, Layout,
         NEW k \in Sector, Valid(k), ~Valid(1 - k), Cur = k,
         Len(sect[k].words) < Cap, NEW v \in Nat,
         sect' = AppendWord(k, v)
  PROVE  /\ ValidSects(sect') = {k} /\ Cur' = k /\ Layout'
         /\ ~CurSuspect /\ v >= Stored =>
              /\ Stored' >= Stored
              /\ v <= Stored + 2 * Thres => Stored' = v /\ ~CurSuspect'
<1> DEFINE w == sect[k].words
           n == Len(w)
<1>1. w \in Seq(Nat) /\ n \in 1..Cap /\ n \in Nat
  BY DEF Sectors, Content, Flags, Layout, Valid
<1>2. /\ sect'[k].flag = "valid" /\ sect'[k].seq = sect[k].seq
      /\ sect'[k].words = Append(w, v) /\ sect'[1 - k] = sect[1 - k]
  BY OtherSector DEF AppendWord, Sectors, Content, Flags, Valid
<1>3. sect'[k].seq % 2 = k
  BY <1>2 DEF Layout, Valid
<1>4. ValidSects(sect') = {k} /\ nv_sector_read(sect') = k
  BY <1>2, <1>3, OtherSector, ReadOne DEF Valid, Layout
<1>5. Len(sect'[k].words) = n + 1
  BY <1>1, <1>2
<1>6. Layout'
  <2> SUFFICES ASSUME NEW s \in Sector, sect'[s].flag = "valid"
               PROVE  sect'[s].seq % 2 = s /\ Len(sect'[s].words) \in 1..Cap
    BY DEF Layout, Valid
  <2>1. s = k
    BY <1>2, OtherSector DEF Valid
  <2> QED
    BY <1>1, <1>3, <1>5, <2>1, CapAssumption
<1>7. ASSUME ~CurSuspect, v >= Stored
      PROVE  /\ Stored' >= Stored
             /\ v <= Stored + 2 * Thres => Stored' = v /\ ~CurSuspect'
  <2>1. ValidSects(sect) # {}
    BY DEF Valid, ValidSects
  <2>2. Stored = w[n] /\ w[n] \in Nat
    BY <1>1, <1>7, <2>1 DEF Stored, CurSuspect, Cur, nv_nwkFrameCountFromFlash
  <2> DEFINE u == Append(w, v)
  <2>3. Len(u) = n + 1 /\ u[n + 1] = v /\ u[n] = w[n]
    BY <1>1
  <2>4. Suspect(u) => v - w[n] > 2 * Thres
    BY <1>7, <2>2, <2>3, <1>1 DEF Suspect
  <2>5. Stored' = IF Suspect(u) THEN w[n] + Thres ELSE v
    <3>1. Stored' = nv_nwkFrameCountFromFlash(sect')
      BY <1>4 DEF Stored
    <3> QED
      BY <1>1, <1>2, <1>4, <2>3, <3>1 DEF nv_nwkFrameCountFromFlash
  <2>6. CurSuspect' <=> Suspect(u)
    BY <1>2, <1>4 DEF CurSuspect, Cur
  <2> QED
    BY <1>7, <2>2, <2>4, <2>5, <2>6, ThresAssumption
<1> QED
  BY <1>4, <1>6, <1>7 DEF Cur

(* A header written beside an older valid one: the new sector is read. *)
LEMMA HeaderSwitches ==
  ASSUME sect \in Sectors, sect' \in Sectors, Layout,
         NEW k \in Sector, Valid(1 - k), ~Valid(k),
         Len(sect[k].words) \in 1..2,
         sect' = [sect EXCEPT ![k].flag = "valid",
                              ![k].seq = NextSeq(sect[1 - k].seq)]
  PROVE  /\ ValidSects(sect') = Sector /\ Cur' = k /\ Layout'
         /\ Stored' = sect[k].words[Len(sect[k].words)] /\ ~CurSuspect'
<1>1. /\ sect'[k].flag = "valid" /\ sect'[k].seq = NextSeq(sect[1 - k].seq)
      /\ sect'[k].words = sect[k].words /\ sect'[1 - k] = sect[1 - k]
  BY OtherSector DEF Sectors, Content, Flags
<1>2. sect'[1 - k].flag = "valid" /\ sect'[1 - k].seq % 2 = 1 - k
  BY <1>1, OtherSector DEF Valid, Layout
<1>3. /\ ValidSects(sect') = Sector /\ nv_sector_read(sect') = k
      /\ sect'[k].seq % 2 = k
  BY <1>1, <1>2, ReadTwo DEF Layout
<1>4. Layout'
  <2> SUFFICES ASSUME NEW s \in Sector, sect'[s].flag = "valid"
               PROVE  sect'[s].seq % 2 = s /\ Len(sect'[s].words) \in 1..Cap
    BY DEF Layout, Valid
  <2>1. CASE s = k
    <3>1. Len(sect'[k].words) \in 1..2
      BY <1>1
    <3>2. 1..2 \subseteq 1..Cap
      BY CapAssumption
    <3> QED
      BY <1>3, <2>1, <3>1, <3>2
  <2>2. CASE s = 1 - k
    BY <1>1, <1>2, <2>2 DEF Layout, Valid
  <2> QED
    BY <2>1, <2>2, OtherSector
<1>5. ~Suspect(sect'[k].words)
  BY <1>1 DEF Suspect
<1> QED
  BY <1>1, <1>3, <1>4, <1>5 DEF Stored, CurSuspect, Cur, nv_nwkFrameCountFromFlash, Sector

(* With no valid sector a load finds nothing. *)
LEMMA NothingStored ==
  ASSUME ~RetireTears, ValidSects(sect) = {}
  PROVE  Stored = 1 /\ ~CurSuspect /\ (\A s \in Sector : ~Valid(s)) /\ Layout
BY DEF Stored, NWK_FRAME_COUNTER_DEFAULT_VALUE, CurSuspect, ValidSects, Valid, Layout

-----------------------------------------------------------------------------
(* The flash operations of a call preserve the invariant. *)

(* What the application relies on while a call is in progress. *)
Effect ==
  fails' = 0 => /\ fails = 0
                /\ Stored' >= Stored
                /\ op.force => Stored' = Stored
                /\ op'.step = "none" => /\ ValidSects(sect') # {} /\ ~CurSuspect'
                                        /\ Stored' = op.val
                /\ op'.step # "none" => op'.force = op.force /\ op'.val = op.val

LEMMA GotoOp ==
  ASSUME op \in Ops, NEW st \in Steps, Goto(st)
  PROVE  /\ op' \in Ops /\ op'.step = st /\ op'.val = op.val /\ op'.to = op.to
         /\ op'.seq = op.seq /\ op'.old = op.old
         /\ op'.copy = op.copy /\ op'.force = op.force
BY DEF Ops, Goto

(* Changing one field of a sector. *)
LEMMA SectorChange ==
  ASSUME sect \in Sectors, NEW t \in Sector, NEW r \in Content,
         sect' = [sect EXCEPT ![t] = r]
  PROVE  sect' \in Sectors /\ sect'[1 - t] = sect[1 - t] /\ sect'[t] = r
BY OtherSector DEF Sectors

LEMMA FlagChange ==
  ASSUME sect \in Sectors, NEW t \in Sector, NEW f \in {"torn", "invalid"},
         sect' = [sect EXCEPT ![t].flag = f]
  PROVE  sect' \in Sectors /\ sect'[1 - t] = sect[1 - t] /\ sect'[t].flag = f
<1> DEFINE r == [sect[t] EXCEPT !.flag = f]
<1>1. sect[t] \in Content
  BY DEF Sectors
<1>2. r \in Content /\ r.flag = f
  BY <1>1 DEF Content, Flags
<1> QED
  BY <1>2, SectorChange

LEMMA WordChange ==
  ASSUME sect \in Sectors, NEW t \in Sector, NEW v \in Nat,
         sect' = AppendWord(t, v)
  PROVE  /\ sect' \in Sectors /\ sect'[1 - t] = sect[1 - t]
         /\ sect'[t].flag = sect[t].flag
         /\ sect'[t].words = Append(sect[t].words, v)
<1> DEFINE u == Append(sect[t].words, v)
           r == [sect[t] EXCEPT !.words = u]
<1>1. sect[t] \in Content
  BY DEF Sectors
<1>2. u \in Seq(Nat)
  BY <1>1 DEF Content, Flags
<1> HIDE DEF u
<1>3. r \in Content /\ r.flag = sect[t].flag /\ r.words = u
  BY <1>1, <1>2 DEF Content, Flags
<1>4. sect' = [sect EXCEPT ![t] = r]
  BY DEF AppendWord, u
<1> QED
  BY <1>3, <1>4, SectorChange DEF u

(* A load from well-formed sectors gives a number. *)
LEMMA LoadNat ==
  ASSUME ~RetireTears, NEW sc \in Sectors, ValidSects(sc) # {},
         \A s \in Sector : sc[s].flag = "valid" =>
           sc[s].seq % 2 = s /\ Len(sc[s].words) \in 1..Cap
  PROVE  nv_nwkFrameCountFromFlash(sc) \in Nat
<1> DEFINE k == nv_sector_read(sc)
           w == sc[k].words
           n == Len(w)
<1>1. k \in Sector /\ sc[k].flag = "valid"
  BY ReadValid, NoPlain
<1>2. w \in Seq(Nat) /\ n \in 1..Cap
  BY <1>1 DEF Sectors, Content, Flags
<1>3. w[n] \in Nat /\ (n > 2 => w[n - 1] + Thres \in Nat)
  <2>1. w[n] \in Nat
    BY <1>2
  <2>2. n > 2 => w[n - 1] \in Nat
    BY <1>2
  <2>3. \A x \in Nat : x + Thres \in Nat
    BY ThresAssumption
  <2> QED
    BY <2>1, <2>2, <2>3
<1>4. nv_nwkFrameCountFromFlash(sc) = IF Suspect(w) THEN w[n - 1] + Thres ELSE w[n]
  BY DEF nv_nwkFrameCountFromFlash
<1> QED
  BY <1>3, <1>4 DEF Suspect

LEMMA StoredNat ==
  /\ sect \in Sectors /\ Layout => Stored \in Nat
  /\ sect' \in Sectors /\ Layout' => Stored' \in Nat
BY LoadNat DEF Stored, NWK_FRAME_COUNTER_DEFAULT_VALUE, Layout, Valid

LEMMA NoOpType == NoOp \in Ops /\ NoOp.step = "none"
BY DEF NoOp, Ops, Steps, Sector

(* A step that leaves the sector read alone: only Plan' is left to show. *)
LEMMA BesideStep ==
  ASSUME FlashInv, FromOld, op.step \notin {"none", "retire"},
         NEW st \in Steps \ {"none", "retire"}, Goto(st),
         UNCHANGED <<saved, fails>>, sect' \in Sectors,
         sect'[op.old] = sect[op.old], sect'[1 - op.old].flag # "valid"
  PROVE  /\ NvTypeOK' /\ Layout' /\ (fails' = 0 => NvMargins') /\ Effect
         /\ FromOld' /\ ~Valid(1 - op.old)'
         /\ op'.step = st /\ op'.val = op.val /\ op'.to = op.to /\ op'.old = op.old
         /\ op'.copy = op.copy /\ op'.force = op.force
<1> DEFINE k == op.old
<1>1. sect \in Sectors /\ op \in Ops /\ k \in Sector /\ st \in Steps
  BY DEF FlashInv, NvTypeOK, Ops
<1>2. Layout /\ Valid(k) /\ Cur = k
  BY DEF FlashInv, FromOld
<1>3. /\ op' \in Ops /\ op'.step = st /\ op'.val = op.val /\ op'.to = op.to
      /\ op'.seq = op.seq /\ op'.old = op.old
      /\ op'.copy = op.copy /\ op'.force = op.force
  BY <1>1, GotoOp
<1>4. /\ ValidSects(sect') = {k} /\ Cur' = k /\ Layout'
      /\ Stored' = Stored /\ (CurSuspect' <=> CurSuspect)
  BY <1>1, <1>2, OldKept
<1>5. FromOld' /\ ~Valid(1 - k)'
  BY <1>3, <1>4 DEF FromOld, Valid, Moves
<1>6. fails' = 0 => NvMargins'
  BY <1>3, <1>4 DEF FlashInv, NvMargins
<1>7. NvTypeOK'
  BY <1>3 DEF FlashInv, NvTypeOK
<1>8. Effect
  BY <1>1, <1>2, <1>3, <1>4, StoredNat DEF Effect
<1> QED
  BY <1>3, <1>4, <1>5, <1>6, <1>7, <1>8

LEMMA StaleStep ==
  ASSUME FlashInv, InvalidateStale
  PROVE  FlashInv' /\ Effect
<1> DEFINE st == IF op.copy \/ op.force THEN "erase" ELSE "new"
           k == op.old
<1>1. sect \in Sectors /\ op \in Ops /\ k \in Sector /\ st \in Steps \ {"none", "retire"}
  BY DEF FlashInv, NvTypeOK, Ops, Steps
<1>2. /\ op.step = "stale" /\ FromOld /\ Cur = k
      /\ Goto(st) /\ UNCHANGED <<saved, fails>>
  BY DEF FlashInv, InvalidateStale, Plan, FromOld
<1>3. sect' = IF sect[1 - k].flag \in {"valid", "plain", "torn"}
              THEN [sect EXCEPT ![1 - k].flag = "invalid"] ELSE sect
  BY <1>2 DEF InvalidateStale, Cur, HasValidFlag
<1>4. sect' \in Sectors /\ sect'[k] = sect[k] /\ sect'[1 - k].flag # "valid"
  <2>1. CASE sect[1 - k].flag \in {"valid", "plain", "torn"}
    <3>1. sect' = [sect EXCEPT ![1 - k].flag = "invalid"] /\ 1 - k \in Sector
      BY <1>1, <1>3, <2>1, OtherSector
    <3>2. 1 - (1 - k) = k
      BY <1>1, OtherSector
    <3> QED
      BY <1>1, <3>1, <3>2, FlagChange
  <2>2. CASE sect[1 - k].flag \notin {"valid", "plain", "torn"}
    BY <1>1, <1>3, <2>2, OtherSector
  <2> QED
    BY <2>1, <2>2
<1>5. /\ NvTypeOK' /\ Layout' /\ (fails' = 0 => NvMargins') /\ Effect
      /\ FromOld' /\ ~Valid(1 - k)'
      /\ op'.step = st /\ op'.val = op.val /\ op'.to = op.to /\ op'.old = k
      /\ op'.copy = op.copy /\ op'.force = op.force
  BY <1>1, <1>2, <1>4, BesideStep
<1>6. Plan'
  <2>1. CASE Moves
    BY <1>2, <1>5, <2>1 DEF Plan, Moves, FromOld
  <2>2. CASE ~Moves
    BY <1>2, <1>5, <2>2 DEF Plan, Moves, FromOld
  <2> QED
    BY <2>1, <2>2
<1> QED
  BY <1>5, <1>6 DEF FlashInv

LEMMA EraseStep ==
  ASSUME FlashInv, EraseTarget
  PROVE  FlashInv' /\ Effect
<1> DEFINE st == IF op.copy THEN "last" ELSE "new"
           k == op.old
<1>1. sect \in Sectors /\ op \in Ops /\ k \in Sector /\ st \in Steps \ {"none", "retire"}
  BY DEF FlashInv, NvTypeOK, Ops, Steps
<1>2. /\ op.step = "erase" /\ FromOld /\ Moves /\ ~Valid(op.to) /\ op.to = 1 - k
      /\ Goto(st) /\ UNCHANGED <<saved, fails>>
  BY DEF FlashInv, EraseTarget, Plan, FromOld
<1>3. Erased \in Content /\ Erased.flag # "valid" /\ Erased.words = <<>>
  BY DEF Erased, Content, Flags
<1>4. /\ sect' \in Sectors /\ sect'[k] = sect[k] /\ sect'[1 - k].flag # "valid"
      /\ sect'[1 - k].words = <<>>
  <2>1. sect' = [sect EXCEPT ![1 - k] = Erased] /\ 1 - k \in Sector
    BY <1>1, <1>2, OtherSector DEF EraseTarget
  <2>2. 1 - (1 - k) = k
    BY <1>1, OtherSector
  <2>3. sect' \in Sectors /\ sect'[1 - (1 - k)] = sect[1 - (1 - k)] /\ sect'[1 - k] = Erased
    BY <1>1, <1>3, <2>1, SectorChange
  <2> QED
    BY <1>3, <2>2, <2>3
<1>5. /\ NvTypeOK' /\ Layout' /\ (fails' = 0 => NvMargins') /\ Effect
      /\ FromOld' /\ ~Valid(1 - k)'
      /\ op'.step = st /\ op'.val = op.val /\ op'.to = op.to /\ op'.old = k
      /\ op'.copy = op.copy /\ op'.force = op.force
  BY <1>1, <1>2, <1>4, BesideStep
<1>6. Plan'
  BY <1>2, <1>4, <1>5 DEF Plan, Moves, FromOld, Valid
<1> QED
  BY <1>5, <1>6 DEF FlashInv

LEMMA CopyStep ==
  ASSUME FlashInv, CopyLast
  PROVE  FlashInv' /\ Effect
<1> DEFINE k == op.old
           w == sect[k].words
<1>1. sect \in Sectors /\ op \in Ops /\ k \in Sector /\ "new" \in Steps \ {"none", "retire"}
  BY DEF FlashInv, NvTypeOK, Ops, Steps
<1>2. /\ op.step = "last" /\ FromOld /\ op.copy /\ ~Valid(op.to) /\ op.to = 1 - k
      /\ sect[op.to].words = <<>> /\ Valid(k)
      /\ Goto("new") /\ UNCHANGED <<saved, fails>>
  BY DEF FlashInv, CopyLast, Plan, FromOld, Moves
<1>3. w[Len(w)] \in Nat
  BY <1>1, <1>2 DEF FlashInv, Layout, Sectors, Content, Flags
<1>4. /\ sect' \in Sectors /\ sect'[k] = sect[k] /\ sect'[1 - k].flag # "valid"
      /\ sect'[1 - k].words = Append(<<>>, w[Len(w)])
  <2>1. sect' = AppendWord(1 - k, w[Len(w)]) /\ 1 - k \in Sector
    BY <1>1, <1>2, OtherSector DEF CopyLast
  <2>2. 1 - (1 - k) = k
    BY <1>1, OtherSector
  <2>3. /\ sect' \in Sectors /\ sect'[1 - (1 - k)] = sect[1 - (1 - k)]
        /\ sect'[1 - k].flag = sect[1 - k].flag
        /\ sect'[1 - k].words = Append(sect[1 - k].words, w[Len(w)])
    BY <1>1, <1>3, <2>1, WordChange
  <2> QED
    BY <1>2, <2>2, <2>3 DEF Valid
<1>5. /\ NvTypeOK' /\ Layout' /\ (fails' = 0 => NvMargins') /\ Effect
      /\ FromOld' /\ ~Valid(1 - k)'
      /\ op'.step = "new" /\ op'.val = op.val /\ op'.to = op.to /\ op'.old = k
      /\ op'.copy = op.copy /\ op'.force = op.force
  BY <1>1, <1>2, <1>4, BesideStep
<1>6. Len(sect'[1 - k].words) = 1
  BY <1>3, <1>4
<1>7. Plan'
  BY <1>2, <1>5, <1>6 DEF Plan, FromOld
<1> QED
  BY <1>5, <1>7 DEF FlashInv

(* A step between two states in which no sector is valid. *)
LEMMA NothingStep ==
  ASSUME FlashInv, FromNothing, op.step \notin {"none", "retire"},
         NEW st \in Steps \ {"none", "retire"}, Goto(st),
         UNCHANGED <<saved, fails>>, sect' \in Sectors, ValidSects(sect') = {}
  PROVE  /\ NvTypeOK' /\ Layout' /\ (fails' = 0 => NvMargins') /\ Effect
         /\ FromNothing'
         /\ op'.step = st /\ op'.val = op.val /\ op'.to = op.to
         /\ op'.copy = op.copy /\ op'.force = op.force
<1>1. op \in Ops /\ ValidSects(sect) = {} /\ st \in Steps /\ ~RetireTears
  BY DEF FlashInv, NvTypeOK, FromNothing, Layout
<1>2. /\ op' \in Ops /\ op'.step = st /\ op'.val = op.val /\ op'.to = op.to
      /\ op'.seq = op.seq /\ op'.copy = op.copy /\ op'.force = op.force
  BY <1>1, GotoOp
<1>3. Stored = 1 /\ ~CurSuspect
  BY <1>1, NothingStored
<1>4. Stored' = 1 /\ ~CurSuspect' /\ Layout'
  BY <1>1 DEF Stored, NWK_FRAME_COUNTER_DEFAULT_VALUE, CurSuspect, ValidSects, Valid, Layout
<1>5. FromNothing'
  BY <1>2 DEF FromNothing, Moves
<1>6. fails' = 0 => NvMargins'
  BY <1>2, <1>3, <1>4 DEF FlashInv, NvMargins
<1>7. NvTypeOK'
  BY <1>2 DEF FlashInv, NvTypeOK
<1>8. Effect
  BY <1>1, <1>2, <1>3, <1>4 DEF Effect
<1> QED
  BY <1>2, <1>4, <1>5, <1>6, <1>7, <1>8

LEMMA FormatStep ==
  ASSUME FlashInv, EraseAll
  PROVE  FlashInv' /\ Effect
<1>1. /\ op.step = "format" /\ FromNothing /\ op.to = 0
      /\ Goto("new") /\ UNCHANGED <<saved, fails>>
      /\ "new" \in Steps \ {"none", "retire"}
  BY DEF FlashInv, EraseAll, Plan, FromNothing, Steps
<1>2. Erased \in Content /\ Erased.flag = "idle" /\ Erased.words = <<>>
  BY DEF Erased, Content, Flags
<1>3. sect' \in Sectors /\ ValidSects(sect') = {} /\ sect'[0].words = <<>>
  BY <1>2 DEF EraseAll, Sectors, ValidSects, Sector
<1>4. /\ NvTypeOK' /\ Layout' /\ (fails' = 0 => NvMargins') /\ Effect
      /\ FromNothing'
      /\ op'.step = "new" /\ op'.val = op.val /\ op'.to = 0
      /\ op'.copy = op.copy /\ op'.force = op.force
  BY <1>1, <1>3, NothingStep
<1>5. Plan'
  BY <1>3, <1>4 DEF Plan
<1> QED
  BY <1>4, <1>5 DEF FlashInv

(* A completed call: the log holds the value saved. *)
LEMMA DoneStep ==
  ASSUME FlashInv, op \in Ops, Done, sect' \in Sectors, Layout',
         ValidSects(sect') # {},
         fails = 0 => Stored' = op.val /\ ~CurSuspect' /\ Stored' >= Stored,
         fails = 0 => op.val >= Stored /\ (op.force => op.val = Stored)
  PROVE  FlashInv' /\ Effect
<1>1. op' = NoOp /\ op' \in Ops /\ op'.step = "none" /\ fails' = fails
  BY NoOpType DEF Done
<1>2. saved \in Nat /\ op.val \in Nat /\ saved' = IF op.val > saved THEN op.val ELSE saved
  BY DEF FlashInv, NvTypeOK, Ops, Done
<1>3. NvTypeOK'
  BY <1>1, <1>2 DEF FlashInv, NvTypeOK
<1>4. Plan'
  BY <1>1 DEF Plan
<1>5. ASSUME fails' = 0 PROVE NvMargins'
  <2>1. Stored >= saved /\ Stored' = op.val /\ op.val >= Stored
    BY <1>1, <1>5 DEF FlashInv, NvMargins
  <2>2. Stored' >= saved'
    BY <1>2, <2>1, StoredNat DEF FlashInv, NvTypeOK
  <2> QED
    BY <1>1, <2>2 DEF NvMargins
<1>6. Effect
  BY <1>1 DEF Effect
<1> QED
  BY <1>3, <1>4, <1>5, <1>6 DEF FlashInv

LEMMA WriteStep ==
  ASSUME FlashInv, WriteCount
  PROVE  FlashInv' /\ Effect
<1> DEFINE t == op.to
           w == sect[t].words
           k == op.old
<1>1. /\ sect \in Sectors /\ op \in Ops /\ t \in Sector /\ k \in Sector
      /\ op.val \in Nat /\ w \in Seq(Nat) /\ Layout
      /\ "header" \in Steps \ {"none", "retire"}
  BY DEF FlashInv, NvTypeOK, Ops, Steps, Sectors, Content, Flags
<1>2. op.step = "new" /\ sect' = AppendWord(t, op.val)
  BY DEF WriteCount
<1>3. /\ sect' \in Sectors /\ sect'[1 - t] = sect[1 - t]
      /\ sect'[t].flag = sect[t].flag /\ sect'[t].words = Append(w, op.val)
  BY <1>1, <1>2, WordChange
<1>4. Len(w) \in Nat /\ Len(Append(w, op.val)) = Len(w) + 1
      /\ Append(w, op.val)[Len(w) + 1] = op.val
  BY <1>1
<1>5. CASE FromNothing /\ w = <<>>
  <2>1. Goto("header") /\ UNCHANGED <<saved, fails>> /\ ~op.copy /\ t = 0
    BY <1>5 DEF WriteCount, FromNothing, Moves
  <2>2. ValidSects(sect') = {}
    <3>1. sect[t].flag # "valid" /\ sect[1 - t].flag # "valid"
      BY <1>1, <1>5, OtherSector DEF FromNothing, ValidSects
    <3>2. \A s \in Sector : sect'[s].flag # "valid"
      BY <1>1, <1>3, <3>1, OtherSector
    <3>3. ~RetireTears
      BY <1>1 DEF Layout
    <3> QED
      BY <1>3, <3>2, <3>3, NoPlain
  <2>3. /\ NvTypeOK' /\ Layout' /\ (fails' = 0 => NvMargins') /\ Effect
        /\ FromNothing'
        /\ op'.step = "header" /\ op'.val = op.val /\ op'.to = t
        /\ op'.copy = op.copy /\ op'.force = op.force
    BY <1>1, <1>2, <1>3, <1>5, <2>1, <2>2, NothingStep
  <2>4. Len(sect'[t].words) = 1 /\ sect'[t].words[1] = op.val
    BY <1>3, <1>4, <1>5
  <2>5. Plan'
    BY <2>1, <2>3, <2>4 DEF Plan
  <2> QED
    BY <2>3, <2>5 DEF FlashInv
<1>6. CASE FromOld /\ ~Moves /\ ~Valid(1 - k)
  <2>1. Valid(k) /\ Cur = k /\ t = k /\ Len(sect[k].words) < Cap
    BY <1>6 DEF FromOld
  <2>2. w # <<>> /\ ~op.copy
    BY <1>1, <1>6, <2>1 DEF Layout, Moves
  <2>3. Done
    BY <2>2 DEF WriteCount
  <2>4. /\ ValidSects(sect') = {k} /\ Cur' = k /\ Layout'
        /\ ~CurSuspect /\ op.val >= Stored =>
             /\ Stored' >= Stored
             /\ op.val <= Stored + 2 * Thres => Stored' = op.val /\ ~CurSuspect'
    BY <1>1, <1>2, <1>3, <1>6, <2>1, WordAppended
  <2>5. fails = 0 => /\ op.val >= Stored /\ ~op.force
                     /\ op.val <= Stored + 2 * Thres /\ ~CurSuspect
    BY <1>2, <1>6 DEF FlashInv, NvMargins, Moves
  <2> QED
    BY <1>1, <1>3, <2>3, <2>4, <2>5, DoneStep
<1>7. CASE /\ FromOld /\ Moves /\ ~Valid(1 - k)
           /\ op.copy => Len(w) = 1
           /\ op.force => w = <<>>
  <2>1. Valid(k) /\ t = 1 - k /\ ~(op.copy /\ op.force) /\ 1 - t = k
    BY <1>1, <1>7, OtherSector DEF FromOld
  <2>2. op.copy \/ w = <<>>
    BY <1>7 DEF Moves
  <2>3. Goto("header") /\ UNCHANGED <<saved, fails>>
    BY <2>2 DEF WriteCount
  <2>4. /\ NvTypeOK' /\ Layout' /\ (fails' = 0 => NvMargins') /\ Effect
        /\ FromOld' /\ ~Valid(1 - k)'
        /\ op'.step = "header" /\ op'.val = op.val /\ op'.to = t /\ op'.old = k
        /\ op'.copy = op.copy /\ op'.force = op.force
    BY <1>1, <1>2, <1>3, <1>7, <2>1, <2>3, BesideStep DEF Valid
  <2>5. /\ Len(sect'[t].words) = IF op.copy THEN 2 ELSE 1
        /\ sect'[t].words[Len(sect'[t].words)] = op.val
    <3>1. Len(w) = IF op.copy THEN 1 ELSE 0
      BY <1>7, <2>2
    <3>2. /\ Len(sect'[t].words) = Len(w) + 1
          /\ sect'[t].words[Len(w) + 1] = op.val
      BY <1>3, <1>4
    <3> QED
      BY <3>1, <3>2
  <2>6. Plan'
    BY <1>7, <2>1, <2>4, <2>5 DEF Plan, Moves
  <2> QED
    BY <2>4, <2>6 DEF FlashInv
<1>8. \/ FromNothing /\ w = <<>>
      \/ /\ FromOld /\ ~Valid(1 - k)
         /\ op.copy => Len(w) = 1
         /\ op.force => w = <<>>
  BY <1>2 DEF FlashInv, Plan
<1> QED
  BY <1>5, <1>6, <1>7, <1>8

LEMMA HeaderStep ==
  ASSUME FlashInv, WriteHeader
  PROVE  FlashInv' /\ Effect
<1> DEFINE t == op.to
           w == sect[t].words
           k == op.old
           r == [sect[t] EXCEPT !.flag = "valid", !.seq = op.seq]
<1>1. /\ sect \in Sectors /\ op \in Ops /\ t \in Sector /\ k \in Sector
      /\ op.val \in Nat /\ op.seq \in 0..3 /\ sect[t] \in Content /\ Layout
      /\ "retire" \in Steps
  BY DEF FlashInv, NvTypeOK, Ops, Steps, Sectors
<1>2. /\ op.step = "header"
      /\ sect' = [sect EXCEPT ![t].flag = "valid", ![t].seq = op.seq]
  BY DEF WriteHeader
<1>3. r \in Content /\ r.flag = "valid" /\ r.seq = op.seq /\ r.words = w
  BY <1>1 DEF Content, Flags
<1>4. sect' \in Sectors /\ sect'[1 - t] = sect[1 - t] /\ sect'[t] = r
  <2>1. sect' = [sect EXCEPT ![t] = r]
    BY <1>2
  <2> QED
    BY <1>1, <1>3, <2>1, SectorChange
<1>5. /\ FromNothing \/ (FromOld /\ Moves /\ ~Valid(t))
      /\ Len(w) = IF op.copy THEN 2 ELSE 1
      /\ w[Len(w)] = op.val
  BY <1>2 DEF FlashInv, Plan
<1>6. fails = 0 => /\ op.val >= Stored
                   /\ op.force => op.val = Stored
  BY <1>2 DEF FlashInv, NvMargins
<1>0. ~RetireTears
  BY <1>1 DEF Layout
<1> HIDE DEF r
<1>7. CASE FromNothing
  <2>1. Done /\ Len(w) = 1 /\ ~op.copy
    BY <1>5, <1>7 DEF WriteHeader, FromNothing, Moves
  <2>2. t = 0 /\ op.seq = 0 /\ sect[1 - t].flag # "valid"
    BY <1>1, <1>7, OtherSector DEF FromNothing, ValidSects
  <2>3. ValidSects(sect') = {t} /\ nv_sector_read(sect') = t
    BY <1>0, <1>1, <1>3, <1>4, <2>2, ReadOne
  <2>4. Layout'
    <3> SUFFICES ASSUME NEW s \in Sector, sect'[s].flag = "valid"
                 PROVE  sect'[s].seq % 2 = s /\ Len(sect'[s].words) \in 1..Cap
      BY <1>0 DEF Layout, Valid
    <3>1. s = t
      BY <2>3 DEF ValidSects
    <3>2. 1 \in 1..Cap
      BY CapAssumption
    <3>3. sect'[t].seq = 0 /\ sect'[t].words = w
      BY <1>3, <1>4, <2>2
    <3>4. 0 % 2 = 0
      OBVIOUS
    <3> QED
      BY <2>1, <2>2, <3>1, <3>2, <3>3, <3>4
  <2>5. Stored' = op.val /\ ~CurSuspect'
    <3>1. ~Suspect(w)
      BY <2>1 DEF Suspect
    <3> QED
      BY <1>3, <1>4, <1>5, <2>3, <3>1
      DEF Stored, CurSuspect, Cur, nv_nwkFrameCountFromFlash
  <2> QED
    BY <1>1, <1>4, <1>6, <2>1, <2>3, <2>4, <2>5, DoneStep
<1>8. CASE FromOld /\ Moves /\ ~Valid(t)
  <2>1. /\ Goto("retire") /\ UNCHANGED <<saved, fails>>
        /\ t = 1 - k /\ k = 1 - t /\ Valid(k) /\ op.seq = NextSeq(sect[k].seq)
    BY <1>1, <1>8, OtherSector DEF WriteHeader, FromOld, Moves
  <2>2. sect' = [sect EXCEPT ![t].flag = "valid",
                             ![t].seq = NextSeq(sect[1 - t].seq)]
    BY <1>2, <2>1
  <2>3. /\ ValidSects(sect') = Sector /\ Cur' = t /\ Layout'
        /\ Stored' = w[Len(w)] /\ ~CurSuspect'
    <3>1. Len(w) \in 1..2
      BY <1>5
    <3>2. Valid(1 - t)
      BY <2>1
    <3> QED
      BY <1>1, <1>4, <1>8, <2>2, <3>1, <3>2, HeaderSwitches
  <2>4. /\ op' \in Ops /\ op'.step = "retire" /\ op'.val = op.val /\ op'.to = t
        /\ op'.old = k /\ op'.copy = op.copy /\ op'.force = op.force
    BY <1>1, <2>1, GotoOp
  <2>5. NvTypeOK'
    BY <1>4, <2>1, <2>4 DEF FlashInv, NvTypeOK
  <2>6. Plan'
    <3>1. sect'[k].flag = "valid" /\ sect'[t].flag = "valid"
      BY <1>3, <1>4, <2>1 DEF Valid
    <3>2. sect'[t].words = w /\ Len(w) \in 1..2
      BY <1>3, <1>4, <1>5
    <3> QED
      BY <1>5, <1>8, <2>1, <2>3, <2>4, <3>1, <3>2 DEF Plan, Moves, Valid
  <2>7. ASSUME fails' = 0 PROVE NvMargins'
    <3>1. Stored' = op.val /\ op.val >= Stored /\ Stored >= saved
      BY <1>5, <1>6, <2>1, <2>3, <2>7 DEF FlashInv, NvMargins
    <3> QED
      BY <1>1, <2>1, <2>3, <2>4, <2>7, <3>1, StoredNat, ThresAssumption
      DEF NvMargins, FlashInv, NvTypeOK
  <2>8. Effect
    BY <1>5, <1>6, <2>1, <2>3, <2>4 DEF Effect
  <2> QED
    BY <2>3, <2>5, <2>6, <2>7, <2>8 DEF FlashInv
<1> QED
  BY <1>5, <1>7, <1>8

LEMMA RetireStep ==
  ASSUME FlashInv, RetireOld
  PROVE  FlashInv' /\ Effect
<1> DEFINE k == op.to
           w == sect[k].words
<1>1. /\ sect \in Sectors /\ op \in Ops /\ k \in Sector /\ op.old \in Sector
      /\ op.val \in Nat /\ Layout
  BY DEF FlashInv, NvTypeOK, Ops
<1>2. /\ op.step = "retire" /\ Done
      /\ sect' = [sect EXCEPT ![op.old].flag = "invalid"]
  BY DEF RetireOld
<1>3. /\ k = 1 - op.old /\ op.old = 1 - k /\ Valid(k) /\ Cur = k
      /\ Len(w) \in 1..2 /\ w[Len(w)] = op.val
  BY <1>1, <1>2, OtherSector DEF FlashInv, Plan
<1>4. sect' \in Sectors /\ sect'[k] = sect[k] /\ sect'[1 - k].flag # "valid"
  <2>1. /\ sect' \in Sectors /\ sect'[1 - op.old] = sect[1 - op.old]
        /\ sect'[op.old].flag = "invalid"
    BY <1>1, <1>2, FlagChange
  <2> QED
    BY <1>3, <2>1
<1>5. /\ ValidSects(sect') = {k} /\ Layout'
      /\ Stored' = Stored /\ (CurSuspect' <=> CurSuspect)
  BY <1>1, <1>3, <1>4, OldKept
<1>6. Stored = op.val /\ ~CurSuspect
  <2>1. ~Suspect(w)
    BY <1>3 DEF Suspect
  <2>2. ValidSects(sect) # {}
    BY <1>1, <1>3 DEF Valid, ValidSects
  <2> QED
    BY <1>3, <2>1, <2>2 DEF Stored, CurSuspect, Cur, nv_nwkFrameCountFromFlash
<1>7. Stored' = op.val /\ ~CurSuspect' /\ Stored' >= Stored /\ op.val >= Stored
  BY <1>1, <1>5, <1>6
<1> QED
  BY <1>1, <1>2, <1>4, <1>5, <1>6, <1>7, DoneStep

(* An interrupted operation leaves the headers of the valid sectors alone  *)
(* and at most one more word, no smaller than the one intended.            *)
LEMMA InterruptedLeaves ==
  ASSUME FlashInv, Interrupted
  PROVE  /\ sect' \in Sectors /\ Layout'
         /\ fails = 0 => Stored' >= Stored
<1> DEFINE t == op.to
           k == op.old
<1>1. /\ sect \in Sectors /\ op \in Ops /\ t \in Sector /\ k \in Sector
      /\ op.val \in Nat /\ Layout /\ Stored \in Nat
  BY StoredNat DEF FlashInv, NvTypeOK, Ops
<1>2. op.step \in {"last", "new", "header"} /\ ~RetireTears
  BY DEF Interrupted, FlashInv, Layout
<1>3. CASE op.step = "new" /\ FromOld /\ ~Moves
  <2>1. PICK d \in Excess : sect' = AppendWord(t, op.val + d)
    BY <1>3 DEF Interrupted
  <2>2. d \in Nat /\ op.val + d \in Nat
    BY <1>1, ExcessAssumption
  <2>3. Valid(k) /\ Cur = k /\ t = k /\ Len(sect[k].words) < Cap
    BY <1>3 DEF FromOld
  <2>4. ~FromNothing
    BY <1>1, <2>3 DEF FromNothing, ValidSects, Valid
  <2>5. ~Valid(1 - k)
    BY <1>3, <2>4 DEF FlashInv, Plan
  <2>6. sect' \in Sectors
    BY <1>1, <2>1, <2>2, WordChange
  <2>7. /\ Layout'
        /\ ~CurSuspect /\ op.val + d >= Stored => Stored' >= Stored
    BY <1>1, <2>1, <2>2, <2>3, <2>5, <2>6, WordAppended
  <2>8. fails = 0 => ~CurSuspect /\ op.val + d >= Stored
    BY <1>1, <1>3, <2>2 DEF FlashInv, NvMargins, Moves
  <2> QED
    BY <2>6, <2>7, <2>8
<1>4. CASE ~(op.step = "new" /\ FromOld /\ ~Moves)
  <2>1. \/ FromNothing
        \/ FromOld /\ ~Valid(t) /\ t = 1 - k
    <3>1. Plan
      BY DEF FlashInv
    <3>2. CASE op.step = "last"
      BY <3>1, <3>2 DEF Plan, FromOld, Moves
    <3>3. CASE op.step = "new"
      BY <1>4, <3>1, <3>3 DEF Plan, FromOld
    <3>4. CASE op.step = "header"
      BY <3>1, <3>4 DEF Plan, FromOld
    <3> QED
      BY <1>2, <3>2, <3>3, <3>4
  <2>2. sect[t].flag # "valid"
    BY <1>1, <2>1 DEF FromNothing, ValidSects, Valid
  <2>3. sect' \in Sectors /\ sect'[1 - t] = sect[1 - t] /\ sect'[t].flag # "valid"
    <3>1. CASE op.step = "last"
      <4> DEFINE w == sect[k].words
      <4>1. PICK d \in Excess : sect' = AppendWord(t, w[Len(w)] + d)
        BY <3>1 DEF Interrupted
      <4>2. w \in Seq(Nat) /\ Len(w) \in 1..Cap
        BY <1>1, <3>1 DEF FlashInv, Plan, FromOld, Layout, Sectors, Content, Flags
      <4>3. w[Len(w)] + d \in Nat
        <5>1. w[Len(w)] \in Nat /\ d \in Nat
          BY <4>2, ExcessAssumption
        <5> QED
          BY <5>1
      <4> QED
        BY <1>1, <2>2, <4>1, <4>3, WordChange
    <3>2. CASE op.step = "new"
      <4>1. PICK d \in Excess : sect' = AppendWord(t, op.val + d)
        BY <3>2 DEF Interrupted
      <4>2. op.val + d \in Nat
        BY <1>1, ExcessAssumption
      <4> QED
        BY <1>1, <2>2, <4>1, <4>2, WordChange
    <3>3. CASE op.step = "header"
      <4>1. sect' = [sect EXCEPT ![t].flag = "torn"]
        BY <3>3 DEF Interrupted
      <4> QED
        BY <1>1, <4>1, FlagChange
    <3> QED
      BY <1>2, <3>1, <3>2, <3>3
  <2>4. CASE FromNothing
    <3>1. \A s \in Sector : sect'[s].flag # "valid"
      BY <1>1, <2>3, <2>4, OtherSector DEF FromNothing, ValidSects
    <3>2. ValidSects(sect') = {} /\ Layout'
      BY <1>2, <2>3, <3>1, NoPlain DEF Layout, Valid
    <3>3. Stored' = 1 /\ Stored = 1
      BY <2>4, <3>2 DEF Stored, FromNothing, NWK_FRAME_COUNTER_DEFAULT_VALUE
    <3> QED
      BY <2>3, <3>2, <3>3
  <2>5. CASE FromOld /\ ~Valid(t) /\ t = 1 - k
    <3>1. Valid(k) /\ Cur = k /\ 1 - t = k
      BY <1>1, <2>5, OtherSector DEF FromOld
    <3>2. Layout' /\ Stored' = Stored
      BY <1>1, <2>3, <2>5, <3>1, OldKept
    <3> QED
      BY <1>1, <2>3, <3>2
  <2> QED
    BY <2>1, <2>4, <2>5
<1> QED
  BY <1>3, <1>4

(* No retirement leaves a flag that is accepted.                           *)
LEMMA NoHalf ==
  ASSUME FlashInv
  PROVE  ~HalfRetired
BY DEF FlashInv, Layout, HalfRetired, RetirementTorn

LEMMA FailStep ==
  ASSUME FlashInv, WriteFails
  PROVE  FlashInv' /\ fails' # 0
<1>1. /\ sect' = sect \/ Interrupted
      /\ op' = NoOp /\ fails < MaxFails
      /\ fails' = fails + 1 /\ saved' = saved
  BY NoHalf DEF WriteFails, Fault
<1>2. sect' \in Sectors /\ Layout'
  <2>1. CASE sect' = sect
    BY <2>1 DEF FlashInv, NvTypeOK, Layout, Valid
  <2>2. CASE Interrupted
    BY <2>2, InterruptedLeaves
  <2> QED
    BY <1>1, <2>1, <2>2
<1>3. NvTypeOK' /\ fails' # 0
  BY <1>1, <1>2, NoOpType, MaxFailsAssumption DEF FlashInv, NvTypeOK
<1>4. Plan'
  BY <1>1, NoOpType DEF Plan
<1> QED
  BY <1>2, <1>3, <1>4 DEF FlashInv

LEMMA FlashStepInv ==
  ASSUME FlashInv, NvStep
  PROVE  FlashInv' /\ Effect
<1>1. CASE InvalidateStale
  BY <1>1, StaleStep
<1>2. CASE EraseAll
  BY <1>2, FormatStep
<1>3. CASE EraseTarget
  BY <1>3, EraseStep
<1>4. CASE CopyLast
  BY <1>4, CopyStep
<1>5. CASE WriteCount
  BY <1>5, WriteStep
<1>6. CASE WriteHeader
  BY <1>6, HeaderStep
<1>7. CASE RetireOld
  BY <1>7, RetireStep
<1>8. CASE WriteFails
  BY <1>8, FailStep DEF Effect
<1> QED
  BY <1>1, <1>2, <1>3, <1>4, <1>5, <1>6, <1>7, <1>8 DEF NvStep

-----------------------------------------------------------------------------
(* The calls the application starts. *)

LEMMA SectSame ==
  ASSUME sect' = sect
  PROVE  /\ Stored' = Stored /\ (CurSuspect' <=> CurSuspect)
         /\ ValidSects(sect') = ValidSects(sect)
         /\ (Layout' <=> Layout) /\ Cur' = Cur
BY DEF Stored, CurSuspect, Cur, Layout, Valid

LEMMA CurValid ==
  ASSUME FlashInv, ValidSects(sect) # {}
  PROVE  /\ Cur \in Sector /\ Valid(Cur)
         /\ sect[Cur].seq \in 0..3 /\ NextSeq(sect[Cur].seq) \in 0..3
         /\ sect[Cur].words \in Seq(Nat) /\ Len(sect[Cur].words) \in 1..Cap
<1>1. Cur \in Sector /\ Valid(Cur)
  BY ReadValid, NoPlain DEF FlashInv, NvTypeOK, Layout, Valid, Cur
<1>2. sect[Cur] \in Content /\ Len(sect[Cur].words) \in 1..Cap
  BY <1>1 DEF FlashInv, NvTypeOK, Sectors, Layout
<1> QED
  BY <1>1, <1>2 DEF Content, Flags, NextSeq

LEMMA SaveStarts ==
  ASSUME FlashInv, NEW v \in Nat, op' = SaveOp(sect, v),
         UNCHANGED <<sect, saved, fails>>,
         fails = 0 => ~CurSuspect /\ v >= Stored /\ v <= Stored + 2 * Thres
  PROVE  FlashInv' /\ op'.step # "none" /\ ~op'.force /\ op'.val = v
<1>1. /\ Stored' = Stored /\ (CurSuspect' <=> CurSuspect)
      /\ ValidSects(sect') = ValidSects(sect) /\ Layout' /\ Cur' = Cur
  BY SectSame DEF FlashInv
<1>2. /\ op' \in Ops /\ op'.step \in {"format", "stale"}
      /\ op'.val = v /\ ~op'.force /\ Plan'
  <2>1. CASE ValidSects(sect) = {}
    <3>1. op' = [step |-> "format", val |-> v, to |-> 0, seq |-> 0, old |-> 0,
                 copy |-> FALSE, force |-> FALSE]
      BY <2>1 DEF SaveOp, NoOp
    <3>2. /\ op' \in Ops /\ op'.step = "format" /\ op'.val = v /\ ~op'.force
          /\ ~op'.copy /\ op'.to = 0 /\ op'.seq = 0
      BY <3>1 DEF Ops, Steps, Sector
    <3>3. Plan'
      BY <1>1, <2>1, <3>2 DEF Plan, FromNothing, Moves
    <3> QED
      BY <3>2, <3>3
  <2>2. CASE ValidSects(sect) # {}
    <3> PICK k \in Sector : k = Cur
      BY <2>2, CurValid
    <3> DEFINE full == Len(sect[k].words) = Cap
    <3>1. /\ sect[k].flag = "valid" /\ sect[k].seq \in 0..3
          /\ NextSeq(sect[k].seq) \in 0..3 /\ Len(sect[k].words) \in 1..Cap
      BY <2>2, CurValid DEF Valid
    <3>2. op' = [step |-> "stale", val |-> v, old |-> k, copy |-> full,
                 to |-> IF full THEN 1 - k ELSE k,
                 seq |-> IF full THEN NextSeq(sect[k].seq) ELSE sect[k].seq,
                 force |-> FALSE]
      BY <2>2 DEF SaveOp, Cur
    <3>3. /\ op'.step = "stale" /\ op'.val = v /\ op'.old = k /\ op'.copy = full
          /\ op'.force = FALSE
          /\ op'.to = IF full THEN 1 - k ELSE k
          /\ op'.seq = IF full THEN NextSeq(sect[k].seq) ELSE sect[k].seq
      BY <3>2
    <3>4. op' \in Ops
      BY <3>1, <3>2, OtherSector DEF Ops, Steps
    <3>5. sect'[k].flag = "valid" /\ sect'[k] = sect[k] /\ Cur' = k
      BY <1>1, <3>1
    <3>6. FromOld'
      <4>1. CASE full
        BY <3>3, <3>5, <4>1 DEF FromOld, Moves, Valid
      <4>2. CASE ~full
        <5>1. Len(sect'[k].words) < Cap
          BY <3>1, <3>5, <4>2, CapAssumption
        <5> QED
          BY <3>3, <3>5, <4>2, <5>1 DEF FromOld, Moves, Valid
      <4> QED
        BY <4>1, <4>2
    <3>7. Plan'
      BY <3>3, <3>6 DEF Plan
    <3> QED
      BY <3>3, <3>4, <3>7
  <2> QED
    BY <2>1, <2>2
<1>3. fails' = 0 => NvMargins'
  BY <1>1, <1>2 DEF FlashInv, NvMargins
<1>4. NvTypeOK'
  BY <1>2 DEF FlashInv, NvTypeOK
<1> QED
  BY <1>1, <1>2, <1>3, <1>4 DEF FlashInv

LEMMA LoadStarts ==
  ASSUME FlashInv, NwkLoad
  PROVE  /\ FlashInv' /\ Stored' = Stored /\ fails' = fails
         /\ (CurSuspect' <=> CurSuspect) /\ ValidSects(sect') = ValidSects(sect)
         /\ op'.step = "none" => ~CurSuspect
         /\ op'.step # "none" => op'.force /\ CurSuspect
<1>1. op' = LoadOp(sect) /\ UNCHANGED <<sect, saved, fails>>
  BY DEF NwkLoad
<1>2. /\ Stored' = Stored /\ (CurSuspect' <=> CurSuspect)
      /\ ValidSects(sect') = ValidSects(sect) /\ Layout' /\ Cur' = Cur
  BY <1>1, SectSame DEF FlashInv
<1>3. NeedsBackoff(sect) <=> CurSuspect
  BY DEF NeedsBackoff, CurSuspect, Cur
<1>4. CASE ~CurSuspect
  <2>1. op' = NoOp /\ op' \in Ops /\ op'.step = "none"
    BY <1>1, <1>3, <1>4, NoOpType DEF LoadOp
  <2>2. NvTypeOK' /\ Plan' /\ (fails' = 0 => NvMargins')
    BY <1>1, <1>2, <2>1 DEF FlashInv, NvTypeOK, Plan, NvMargins
  <2> QED
    BY <1>1, <1>2, <1>4, <2>1, <2>2 DEF FlashInv
<1>5. CASE CurSuspect
  <2> DEFINE k == Cur
  <2>1. /\ ValidSects(sect) # {} /\ k \in Sector /\ Valid(k) /\ sect[k].seq \in 0..3
        /\ NextSeq(sect[k].seq) \in 0..3
    BY <1>5, CurValid DEF CurSuspect
  <2>2. Stored \in Nat /\ nv_nwkFrameCountFromFlash(sect) = Stored
    BY <2>1, StoredNat DEF Stored, FlashInv, NvTypeOK
  <2>3. op' = [step |-> "stale", val |-> Stored, to |-> 1 - k,
               seq |-> NextSeq(sect[k].seq), old |-> k, copy |-> FALSE, force |-> TRUE]
    BY <1>1, <1>3, <1>5, <2>2 DEF LoadOp, BackoffOp, Cur
  <2>4. /\ op'.step = "stale" /\ op'.val = Stored /\ op'.to = 1 - k /\ op'.old = k
        /\ op'.seq = NextSeq(sect[k].seq) /\ op'.copy = FALSE /\ op'.force = TRUE
    BY <2>3
  <2>5. op' \in Ops
    BY <2>1, <2>2, <2>3, OtherSector DEF Ops, Steps
  <2>6. Plan'
    <3>1. sect'[k] = sect[k]
      BY <1>1
    <3> QED
      BY <1>2, <2>1, <2>4, <3>1 DEF Plan, FromOld, Moves, Valid
  <2>7. fails' = 0 => NvMargins'
    BY <1>1, <1>2, <1>5, <2>2, <2>4 DEF FlashInv, NvMargins
  <2>8. NvTypeOK'
    BY <1>1, <2>5 DEF FlashInv, NvTypeOK
  <2> QED
    BY <1>1, <1>2, <1>5, <2>4, <2>6, <2>7, <2>8 DEF FlashInv
<1> QED
  BY <1>4, <1>5

-----------------------------------------------------------------------------
(* The steps of the application. *)

AppTypes ==
  /\ pc \in {"off", "powerOn", "run", "idle", "idleReload", "deep"}
  /\ cnt \in Nat /\ inFlash \in Nat /\ areg \in Nat /\ paired \in BOOLEAN
  /\ sent \in 0..Burst /\ used \in Nat

LEMMA Numbers ==
  ASSUME IInv
  PROVE  /\ Stored \in Nat /\ Thres \in Nat /\ Thres >= 1
         /\ Burst \in Nat /\ 1 <= Burst /\ Burst <= Thres
         /\ 0 \in 0..Burst /\ AppTypes /\ ~RetireTears
         /\ PowerOnCount \in Nat /\ PowerOnCount <= Stored + Thres
BY StoredNat, ThresAssumption, BurstAssumption
DEF IInv, FlashInv, NvTypeOK, TypeOK, AppTypes, PowerOnCount, Layout

LEMMA SameFlash ==
  ASSUME FlashInv, UNCHANGED nvVars
  PROVE  /\ FlashInv' /\ Stored' = Stored /\ (CurSuspect' <=> CurSuspect)
         /\ ValidSects(sect') = ValidSects(sect)
         /\ op' = op /\ fails' = fails
BY SectSame
DEF nvVars, FlashInv, NvTypeOK, Plan, FromOld, FromNothing, Moves, Valid, NvMargins

LEMMA PowerOnStep ==
  ASSUME IInv, PowerOn
  PROVE  IInv'
<1>1. FlashInv' /\ AppTypes'
  BY LoadStarts, Numbers DEF PowerOn, PowerOnCount, AppTypes, IInv
<1>2. ASSUME fails' = 0 PROVE AppMargins'
  BY <1>2, LoadStarts, Numbers DEF PowerOn, PowerOnCount, AppTypes, AppMargins, IInv
<1> QED
  BY <1>1, <1>2 DEF IInv, TypeOK, FlashInv, AppTypes

LEMMA CountUpdateStep ==
  ASSUME IInv, nwk_frameCountUpdate
  PROVE  IInv'
<1>1. AppTypes'
  BY Numbers DEF nwk_frameCountUpdate, AppTypes
<1>2. fails = 0 => /\ ~CurSuspect /\ cnt = PowerOnCount /\ used <= cnt + Burst
                   /\ used <= Stored + Thres + Burst /\ inFlash = 0
                   /\ ~paired => used = 0
  BY DEF nwk_frameCountUpdate, IInv, AppMargins
<1>3. CASE paired /\ op' = SaveOp(sect, cnt)
  <2>0. PowerOnCount = Stored + Thres
    BY <1>3 DEF PowerOnCount
  <2>1. FlashInv' /\ op'.step # "none"
    BY <1>2, <1>3, <2>0, Numbers, SaveStarts DEF nwk_frameCountUpdate, IInv, AppTypes
  <2>2. Stored' = Stored /\ fails' = fails
    BY SectSame DEF nwk_frameCountUpdate
  <2>3. ASSUME fails' = 0 PROVE AppMargins'
    BY <1>2, <2>0, <2>1, <2>2, <2>3, Numbers DEF nwk_frameCountUpdate, AppTypes, AppMargins
  <2> QED
    BY <1>1, <2>1, <2>3 DEF IInv, TypeOK, FlashInv, AppTypes
<1>4. CASE op' = NoOp
  <2>1. /\ Stored' = Stored /\ fails' = fails /\ (CurSuspect' <=> CurSuspect)
        /\ ValidSects(sect') = ValidSects(sect) /\ Layout'
        /\ saved' = saved /\ sect' = sect
    BY SectSame DEF nwk_frameCountUpdate, IInv, FlashInv
  <2>2. NvTypeOK' /\ Plan' /\ (fails' = 0 => NvMargins')
    BY <1>4, <2>1, NoOpType DEF IInv, FlashInv, NvTypeOK, Plan, NvMargins
  <2>3. ASSUME fails' = 0 PROVE AppMargins'
    BY <1>2, <1>4, <2>1, <2>3, NoOpType, Numbers
    DEF nwk_frameCountUpdate, AppTypes, AppMargins
  <2> QED
    BY <1>1, <2>1, <2>2, <2>3 DEF IInv, TypeOK, FlashInv, AppTypes
<1> QED
  BY <1>3, <1>4 DEF nwk_frameCountUpdate

(* The steps that leave the flash and the call in progress alone. *)
LEMMA RamStep ==
  ASSUME IInv, Pair \/ Unpair \/ SendFrame \/ IdleNoSave \/ DeepSleep
  PROVE  IInv'
<1>1. UNCHANGED nvVars
  BY DEF Pair, Unpair, SendFrame, IdleNoSave, DeepSleep
<1>2. /\ FlashInv' /\ Stored' = Stored /\ (CurSuspect' <=> CurSuspect)
      /\ ValidSects(sect') = ValidSects(sect) /\ op' = op /\ fails' = fails
  BY <1>1, SameFlash DEF IInv
<1>3. CASE SendFrame
  <2>1. AppTypes'
    BY <1>3, Numbers DEF SendFrame, AppTypes
  <2>2. ASSUME fails' = 0 PROVE AppMargins'
    BY <1>2, <1>3, <2>2, Numbers DEF SendFrame, AppTypes, AppMargins, IInv
  <2> QED
    BY <1>2, <2>1, <2>2 DEF IInv, TypeOK, FlashInv, AppTypes
<1>4. CASE IdleNoSave
  <2>1. AppTypes'
    BY <1>4, Numbers DEF IdleNoSave, AppTypes
  <2>2. ASSUME fails' = 0 PROVE AppMargins'
    <3>1. inFlash <= Stored
      BY <1>2, <1>4, <2>2, Numbers DEF IdleNoSave, AppMargins, IInv
    <3>2. cnt <= Stored + Thres
      BY <1>4, <3>1, Numbers DEF IdleNoSave, AppTypes
    <3> QED
      BY <1>2, <1>4, <2>2, <3>2, Numbers DEF IdleNoSave, AppTypes, AppMargins, IInv
  <2> QED
    BY <1>2, <2>1, <2>2 DEF IInv, TypeOK, FlashInv, AppTypes
<1>5. CASE DeepSleep
  <2>1. AppTypes'
    BY <1>5, Numbers DEF DeepSleep, AppTypes
  <2>2. ASSUME fails' = 0 PROVE AppMargins'
    BY <1>2, <1>5, <2>2, Numbers DEF DeepSleep, AppTypes, AppMargins, IInv
  <2> QED
    BY <1>2, <2>1, <2>2 DEF IInv, TypeOK, FlashInv, AppTypes
<1>6. CASE Pair
  <2>1. AppTypes'
    BY <1>6, Numbers DEF Pair, AppTypes
  <2>2. ASSUME fails' = 0 PROVE AppMargins'
    BY <1>2, <1>6, <2>2, Numbers DEF Pair, AppTypes, AppMargins, IInv
  <2> QED
    BY <1>2, <2>1, <2>2 DEF IInv, TypeOK, FlashInv, AppTypes
<1>7. CASE Unpair
  <2>1. AppTypes'
    BY <1>7, Numbers DEF Unpair, AppTypes
  <2>2. ASSUME fails' = 0 PROVE AppMargins'
    BY <1>2, <1>7, <2>2, Numbers DEF Unpair, AppTypes, AppMargins, IInv
  <2> QED
    BY <1>2, <2>1, <2>2 DEF IInv, TypeOK, FlashInv, AppTypes
<1> QED
  BY <1>3, <1>4, <1>5, <1>6, <1>7

LEMMA IdleLoadStep ==
  ASSUME IInv, IdleLoad
  PROVE  IInv'
<1>1. CASE inFlash = 0
  <2>1. NwkLoad /\ inFlash' = IF ValidSects(sect) = {} THEN 0 ELSE Stored
    BY <1>1 DEF IdleLoad
  <2>2. FlashInv' /\ AppTypes'
    BY <2>1, LoadStarts, Numbers DEF IdleLoad, AppTypes, IInv
  <2>3. ASSUME fails' = 0 PROVE AppMargins'
    BY <2>1, <2>3, LoadStarts, Numbers DEF IdleLoad, AppTypes, AppMargins, IInv
  <2> QED
    BY <2>2, <2>3 DEF IInv, TypeOK, FlashInv, AppTypes
<1>2. CASE inFlash # 0
  <2>1. UNCHANGED nvVars /\ AppTypes'
    BY <1>2, Numbers DEF IdleLoad, AppTypes
  <2>2. FlashInv'
    BY <2>1, SameFlash DEF IInv
  <2>3. ASSUME fails' = 0 PROVE AppMargins'
    BY <1>2, <2>1, <2>3, SameFlash, Numbers DEF IdleLoad, AppTypes, AppMargins, IInv
  <2> QED
    BY <2>1, <2>2, <2>3 DEF IInv, TypeOK, FlashInv, AppTypes
<1> QED
  BY <1>1, <1>2

LEMMA IdleSaveStep ==
  ASSUME IInv, IdleSave
  PROVE  IInv'
<1>1. AppTypes' /\ Stored' = Stored /\ fails' = fails
  BY Numbers, SectSame DEF IdleSave, AppTypes
<1>2. fails = 0 => /\ ~CurSuspect /\ cnt <= Stored + Thres + sent
                   /\ used <= cnt + Burst /\ used <= Stored + Thres + Burst
                   /\ cnt >= Stored /\ (~paired => used = 0)
  <2> SUFFICES ASSUME fails = 0
               PROVE  /\ ~CurSuspect /\ cnt <= Stored + Thres + sent
                      /\ used <= cnt + Burst /\ used <= Stored + Thres + Burst
                      /\ cnt >= Stored /\ (~paired => used = 0)
    OBVIOUS
  <2>1. Stored = 1 \/ inFlash = Stored
    BY NothingStored, Numbers DEF IdleSave, IInv, AppMargins
  <2>2. cnt >= Stored
    BY <2>1, Numbers DEF IdleSave, AppTypes
  <2> QED
    BY <2>2 DEF IdleSave, IInv, AppMargins
<1>3. FlashInv' /\ op'.step # "none" /\ op'.val = cnt
  BY <1>2, Numbers, SaveStarts DEF IdleSave, IInv, AppTypes
<1>4. ASSUME fails' = 0 PROVE AppMargins'
  BY <1>1, <1>2, <1>3, <1>4, Numbers DEF IdleSave, AppTypes, AppMargins
<1> QED
  BY <1>1, <1>3, <1>4 DEF IInv, TypeOK, FlashInv, AppTypes

LEMMA IdleReloadStep ==
  ASSUME IInv, IdleReload
  PROVE  IInv'
<1>1. FlashInv' /\ AppTypes'
  BY LoadStarts, Numbers DEF IdleReload, AppTypes, IInv
<1>2. ASSUME fails' = 0 PROVE AppMargins'
  <2>1. /\ ~CurSuspect /\ ValidSects(sect) # {} /\ fails = 0
        /\ cnt <= Stored /\ used <= cnt + Burst
        /\ used <= Stored + Thres + Burst
    BY <1>2 DEF IdleReload, NwkLoad, IInv, AppMargins
  <2> QED
    BY <1>2, <2>1, LoadStarts, Numbers DEF IdleReload, AppTypes, AppMargins, IInv
<1> QED
  BY <1>1, <1>2 DEF IInv, TypeOK, FlashInv, AppTypes

LEMMA DeepWakeStep ==
  ASSUME IInv, DeepWake
  PROVE  IInv'
<1>1. FlashInv' /\ AppTypes'
  BY LoadStarts, Numbers DEF DeepWake, AppTypes, IInv
<1>2. ASSUME fails' = 0 PROVE AppMargins'
  BY <1>2, LoadStarts, Numbers DEF DeepWake, AppTypes, AppMargins, IInv
<1> QED
  BY <1>1, <1>2 DEF IInv, TypeOK, FlashInv, AppTypes

(* Power is lost: whatever the call in progress was doing. *)
LEMMA PowerLossStep ==
  ASSUME IInv, PowerLoss
  PROVE  IInv'
<1>1. /\ op' = NoOp /\ op' \in Ops /\ op'.step = "none"
      /\ saved' = saved /\ fails' = fails
      /\ sect' = sect \/ Interrupted
  BY NoHalf, NoOpType DEF PowerLoss, NvPowerLoss, IInv
<1>2. AppTypes'
  BY Numbers DEF PowerLoss, AppTypes
<1>3. /\ sect' \in Sectors /\ Layout'
      /\ fails = 0 => Stored' >= Stored
  <2>1. CASE sect' = sect
    BY <2>1, SectSame, Numbers DEF IInv, FlashInv, NvTypeOK
  <2>2. CASE Interrupted
    BY <2>2, InterruptedLeaves DEF IInv
  <2> QED
    BY <1>1, <2>1, <2>2
<1>4. NvTypeOK' /\ Plan'
  BY <1>1, <1>3 DEF IInv, FlashInv, NvTypeOK, Plan
<1>5. ASSUME fails' = 0 PROVE NvMargins' /\ AppMargins'
  <2>1. Stored' >= Stored /\ Stored >= saved /\ used <= Stored + Thres + Burst
    BY <1>1, <1>3, <1>5 DEF IInv, FlashInv, NvMargins, AppMargins
  <2>2. Stored' \in Nat
    BY <1>3, StoredNat
  <2>3. Stored' >= saved' /\ used' <= Stored' + Thres + Burst
    BY <1>1, <2>1, <2>2, Numbers DEF PowerLoss, AppTypes, IInv, FlashInv, NvTypeOK
  <2>4. ~paired' => used' = 0
    BY <1>1, <1>5 DEF PowerLoss, IInv, AppMargins
  <2> QED
    BY <1>1, <2>3, <2>4 DEF PowerLoss, NvMargins, AppMargins
<1> QED
  BY <1>2, <1>3, <1>4, <1>5 DEF IInv, TypeOK, FlashInv, AppTypes

LEMMA FlashStepStep ==
  ASSUME IInv, FlashStep
  PROVE  IInv'
<1>1. FlashInv' /\ Effect /\ UNCHANGED appVars
  BY FlashStepInv DEF FlashStep, IInv
<1>2. AppTypes'
  BY <1>1, Numbers DEF appVars, AppTypes
<1>3. op.step # "none"
  BY DEF FlashStep, NvStep, InvalidateStale, EraseAll, EraseTarget, CopyLast,
         WriteCount, WriteHeader, RetireOld, WriteFails, Interrupted
<1>4. ASSUME fails' = 0 PROVE AppMargins'
  <2>1. /\ fails = 0 /\ Stored' >= Stored /\ (op.force => Stored' = Stored)
        /\ op'.step = "none" => /\ ValidSects(sect') # {} /\ ~CurSuspect'
                                /\ Stored' = op.val
        /\ op'.step # "none" => op'.force = op.force /\ op'.val = op.val
    BY <1>1, <1>4 DEF Effect
  <2>2. Stored \in Nat /\ Stored' \in Nat
    BY <1>1, StoredNat DEF IInv, FlashInv, NvTypeOK
  <2>3. UNCHANGED <<pc, cnt, inFlash, areg, paired, sent, used>>
    BY <1>1 DEF appVars
  <2>4. pc \in {"powerOn", "run", "idleReload"} /\ AppMargins
    BY <1>3, <2>1, Numbers DEF AppTypes, AppMargins, IInv
  <2>5. CASE pc = "powerOn"
    BY <1>3, <2>1, <2>2, <2>3, <2>4, <2>5, Numbers DEF AppTypes, AppMargins, PowerOnCount
  <2>6. CASE pc = "run"
    BY <1>3, <2>1, <2>2, <2>3, <2>4, <2>6, Numbers DEF AppTypes, AppMargins
  <2>7. CASE pc = "idleReload"
    BY <1>3, <2>1, <2>2, <2>3, <2>4, <2>7, Numbers DEF AppTypes, AppMargins
  <2> QED
    BY <2>4, <2>5, <2>6, <2>7
<1> QED
  BY <1>1, <1>2, <1>4 DEF IInv, TypeOK, FlashInv, AppTypes

-----------------------------------------------------------------------------
(* The theorems. *)

LEMMA InitIInv ==
  ASSUME ~RetireTears
  PROVE  Init => IInv
<1> SUFFICES ASSUME Init PROVE IInv
  OBVIOUS
<1>1. /\ op = NoOp /\ saved = 0 /\ fails = 0
  BY DEF Init, NvInit, Erased
<1>2. ValidSects(sect) = {} /\ Stored = 1 /\ ~CurSuspect /\ Layout
  <2>1. ValidSects(sect) = {}
    BY DEF Init, NvInit, Erased, ValidSects
  <2> QED
    BY <2>1, NothingStored
<1>3. sect \in Sectors
  <2>1. Erased \in Content
    BY DEF Erased, Content, Flags
  <2> QED
    BY <2>1 DEF Init, NvInit, Sectors
<1>4. NvTypeOK /\ Plan
  BY <1>1, <1>3, NoOpType, MaxFailsAssumption DEF NvTypeOK, Plan
<1>5. NvMargins
  BY <1>1, <1>2, NoOpType DEF NvMargins
<1>6. AppTypes
  <2>1. 0 \in Nat /\ 0 \in 0..Burst
    BY ThresAssumption, BurstAssumption
  <2> QED
    BY <2>1 DEF Init, AppTypes
<1>7. used <= Stored + Thres + Burst
  BY <1>2, ThresAssumption, BurstAssumption DEF Init
<1>8. AppMargins
  BY <1>1, <1>7, NoOpType DEF Init, AppMargins
<1> QED
  BY <1>2, <1>4, <1>5, <1>6, <1>8 DEF IInv, TypeOK, FlashInv, AppTypes

LEMMA NextIInv == IInv /\ [Next]_vars => IInv'
<1> SUFFICES ASSUME IInv, [Next]_vars PROVE IInv'
  OBVIOUS
<1>1. CASE PowerOn
  BY <1>1, PowerOnStep
<1>2. CASE nwk_frameCountUpdate
  BY <1>2, CountUpdateStep
<1>3. CASE Pair \/ Unpair \/ SendFrame \/ IdleNoSave \/ DeepSleep
  BY <1>3, RamStep
<1>4. CASE IdleLoad
  BY <1>4, IdleLoadStep
<1>5. CASE IdleSave
  BY <1>5, IdleSaveStep
<1>6. CASE IdleReload
  BY <1>6, IdleReloadStep
<1>7. CASE DeepWake
  BY <1>7, DeepWakeStep
<1>8. CASE PowerLoss
  BY <1>8, PowerLossStep
<1>9. CASE FlashStep
  BY <1>9, FlashStepStep
<1>10. CASE UNCHANGED vars
  <2>1. FlashInv' /\ Stored' = Stored /\ (CurSuspect' <=> CurSuspect)
        /\ ValidSects(sect') = ValidSects(sect) /\ op' = op /\ fails' = fails
    BY <1>10, SameFlash DEF vars, IInv
  <2>2. AppTypes'
    BY <1>10, Numbers DEF vars, appVars, AppTypes
  <2>3. fails' = 0 => AppMargins'
    BY <1>10, <2>1 DEF vars, appVars, AppMargins, IInv, PowerOnCount
  <2> QED
    BY <2>1, <2>2, <2>3 DEF IInv, TypeOK, FlashInv, AppTypes
<1> QED
  BY <1>1, <1>2, <1>3, <1>4, <1>5, <1>6, <1>7, <1>8, <1>9, <1>10 DEF Next

(* The inductive invariant holds in every reachable state. *)
THEOREM Invariance ==
  ASSUME ~RetireTears
  PROVE  Spec => []IInv
BY InitIInv, NextIInv, PTL DEF Spec

(* Every variable keeps its type: in particular no load reads an empty     *)
(* sector, and no sequence number leaves its two bits.                     *)
THEOREM TypeCorrect ==
  ASSUME ~RetireTears
  PROVE  Spec => []TypeOK
<1>1. IInv => TypeOK
  BY DEF IInv
<1> QED
  BY <1>1, Invariance, PTL

(* Wherever the supply fails in a save or in a backoff, the next load      *)
(* gives at least the last counter saved, as long as flash programming     *)
(* reads back what was written.                                            *)
THEOREM NoRollbackTheorem ==
  ASSUME ~RetireTears
  PROVE  Spec => [](fails = 0 => NoRollback)
<1>1. IInv => (fails = 0 => NoRollback)
  BY DEF IInv, FlashInv, NvMargins, NoRollback
<1> QED
  BY <1>1, Invariance, PTL

(* A power cycle repeats at most Burst counters already put on the air, as *)
(* long as flash programming reads back what was written.                  *)
THEOREM ReuseBounded ==
  ASSUME ~RetireTears
  PROVE  Spec => [](fails = 0 => ReuseAtMostBurst)
<1>1. IInv => (fails = 0 => ReuseAtMostBurst)
  <2> SUFFICES ASSUME IInv, fails = 0 PROVE ReuseAtMostBurst
    OBVIOUS
  <2>1. /\ cnt \in Nat /\ used \in Nat /\ Burst \in Nat
        /\ cnt + Burst + fails * (Thres + Burst) = cnt + Burst
    <3>1. fails * (Thres + Burst) = 0
      BY Numbers
    <3> QED
      BY <3>1, Numbers DEF IInv, AppTypes
  <2> QED
    BY <2>1 DEF IInv, AppMargins, ReuseAtMostBurst
<1> QED
  BY <1>1, Invariance, PTL

(* No step of a save, of a backoff or of a power failure lowers the        *)
(* counter the log holds, when no write reads back wrong.                  *)
THEOREM Monotone ==
  ASSUME ~RetireTears, MaxFails = 0
  PROVE  Spec => StoredNeverDecreases
<1>1. IInv /\ IInv' /\ [Next]_vars => [Stored' >= Stored]_sect
  <2> SUFFICES ASSUME IInv, IInv', [Next]_vars PROVE [Stored' >= Stored]_sect
    OBVIOUS
  <2>1. fails = 0 /\ fails' = 0
    BY MaxFailsAssumption DEF IInv, FlashInv, NvTypeOK
  <2>2. CASE FlashStep
    BY <2>1, <2>2, FlashStepInv DEF FlashStep, Effect, IInv
  <2>3. CASE PowerLoss
    BY <2>1, <2>3, InterruptedLeaves, NoHalf DEF PowerLoss, NvPowerLoss, IInv
  <2>4. CASE ~FlashStep /\ ~PowerLoss
    <3>1. sect' = sect
      BY <2>4 DEF Next, vars, nvVars, PowerOn, nwk_frameCountUpdate, Pair, Unpair, SendFrame,
                  IdleLoad, IdleSave, IdleNoSave, IdleReload, DeepSleep, DeepWake,
                  NwkLoad
    <3> QED
      BY <3>1
  <2> QED
    BY <2>2, <2>3, <2>4
<1> QED
  BY <1>1, Invariance, PTL DEF Spec, StoredNeverDecreases
=============================================================================
