------------------------------- MODULE NvItems -------------------------------
(***************************************************************************)
(* The items of an NV module (proj/drivers/nv.c): nv_flashWriteNew,        *)
(* nv_flashReadNew and nv_resetModule.                                     *)
(*                                                                         *)
(* A sector is a header, an index of IdxNum entries and Space bytes of     *)
(* items.  A write appends an index entry in state "op", the item with a   *)
(* header of its own, then makes the entry "valid" and the one it replaces *)
(* "invalid".  When the sector is full the valid items are copied to the   *)
(* other one, which becomes the sector read by the write of its header.    *)
(* The caller blocks until the write returns, so that the only concurrency *)
(* is the supply's: it may fail before, in or after each flash operation.  *)
(*                                                                         *)
(* All callers in the repository write single items (`single' = 1) of one  *)
(* length per item identifier, which a sector has room for.                *)
(***************************************************************************)
EXTENDS NvSector, Sequences, FiniteSetsExt

CONSTANTS
  Ids, Vals,
  None,           (* no value                                              *)
  Total,          (* bytes of each item with its header: ITEM_TOTAL_LEN    *)
  Space,          (* bytes for items in a sector                           *)
  IdxNum,         (* MODULE_IDX_NUM                                        *)
  CrcCoversState, (* the CRC of an index entry covers its state: on B92    *)
                  (* and TL321X, where usedState is not its last byte      *)
  HeaderTears     (* an item header whose programming is interrupted may   *)
                  (* have its flag and not its checksum                    *)

ASSUME ItemsAssumption ==
  /\ None \notin Vals
  /\ Space \in Nat
  /\ Total \in [Ids -> 1..Space]
  /\ IdxNum \in Nat \ {0}
  /\ CrcCoversState \in BOOLEAN
  /\ HeaderTears \in BOOLEAN

VARIABLES
  sect,     (* the two sectors                                             *)
  op,       (* the call in progress and how far it is                      *)
  res,      (* what the last call returned                                 *)
  kept      (* history: duplicates were copied for want of a buffer        *)

vars == <<sect, op, res, kept>>

Entry  == [st : {"torn", "op", "valid", "invalid"}, id : Ids, ofs : 0..Space,
           hdr : {"none", "torn", "whole"}, val : Vals \cup {None}]
Erased == [flag |-> "idle", seq |-> 0, idx |-> <<>>]
NoOp   == [step |-> "none"]

Init ==
  /\ sect = [s \in Sector |-> Erased]
  /\ op = NoOp
  /\ res = "none"
  /\ kept = FALSE

-----------------------------------------------------------------------------
(* Sizes are bytes; items start at multiples of four. *)

Up4(n) == 4 * ((n + 3) \div 4)
Fits(ofs, size) == ofs < Space /\ Space - ofs >= size   (* ITEM_OFT_CHECK *)

LastEntry(e) == e[Len(e)]

(* nv_index_read: the last valid entry of the item, or 0.                  *)
Newest(e, i) ==
  LET at == {n \in DOMAIN e : e[n].st = "valid" /\ e[n].id = i}
  IN  IF at = {} THEN 0 ELSE Max(at)

nv_flashReadNew(sc, i) ==
  LET e == sc[nv_sector_read(sc)].idx
  IN  IF ValidSects(sc) = {} \/ Newest(e, i) = 0 THEN None
                                                 ELSE e[Newest(e, i)].val

(* The item's header is there and the CRC of the entry, which was taken in *)
(* state "valid", does not match.                                          *)
CrcFails(x) ==
  \/ x.hdr = "torn"
  \/ x.hdr = "whole" /\ CrcCoversState /\ x.st # "valid"

NeedsChange_NoTorn(e, i) == (* mutant: the last entry is not checked *)
  /\ e # <<>>
  /\ \/ Len(e) = IdxNum
     \/ LastEntry(e).ofs + Total[LastEntry(e).id] + Total[i] > Space

(* A new entry needs a sector change: the index or the sector is full, or  *)
(* the last entry was left half programmed.                                *)
NeedsChange(e, i) ==
  /\ e # <<>>
  /\ \/ Len(e) = IdxNum
     \/ LastEntry(e).ofs + Total[LastEntry(e).id] + Total[i] > Space
     \/ LastEntry(e).st = "torn"

(* Where the next entry's item starts; -1 when the last entry is refused.  *)
NextOfs(e) ==
  IF e = <<>> THEN 0
  ELSE LET x == LastEntry(e)
       IN  IF CrcFails(x) \/ x.st = "torn" THEN -1 ELSE Up4(x.ofs + Total[x.id])

Duplicates_Newer(e) == (* mutant: the newer of the two *)
  {n \in DOMAIN e : e[n].st = "valid"
                    /\ \E m \in 1..(n - 1) : e[m].st = "valid" /\ e[m].id = e[n].id}
Duplicates(e) == {n \in DOMAIN e : e[n].st = "valid" /\ n < Newest(e, e[n].id)}

Live_WithOld(e, i) == (* mutant: the item's old version is copied too *)
  {n \in DOMAIN e : e[n].st = "valid"}

(* What a sector change copies: the valid entries but the item's own.      *)
Live(e, i) == {n \in DOMAIN e : e[n].st = "valid" /\ e[n].id # i}

Used(e) == IF e = <<>> THEN 0 ELSE Up4(LastEntry(e).ofs + Total[LastEntry(e).id])

-----------------------------------------------------------------------------
(* The steps of nv_flashWriteNew. *)

Goto(step) == op' = [op EXCEPT !.step = step]
Return(r)  == op' = NoOp /\ res' = r

nv_flashWriteNew(i, v) ==
  /\ op.step = "none"
  /\ op' = [step |-> "sector", id |-> i, val |-> v,
            to |-> 0, seq |-> 0, old |-> 0, chg |-> FALSE, pos |-> 0, del |-> 0]
  /\ res' = "none"
  /\ UNCHANGED <<sect, kept>>

(* nv_sector_read(1, ..) finds no sector: the first one is erased.         *)
FormatFirst ==
  /\ op.step = "sector"
  /\ ValidSects(sect) = {}
  /\ sect' = [sect EXCEPT ![0] = Erased]
  /\ Goto("index")
  /\ UNCHANGED <<res, kept>>

(* It retires a valid sector that is not the newest; then the search of    *)
(* the index decides whether the sector must be changed.                   *)
ChooseSector ==
  /\ op.step = "sector"
  /\ ValidSects(sect) # {}
  /\ LET k   == nv_sector_read(sect)
         chg == NeedsChange(sect[k].idx, op.id)
     IN  /\ sect' = [sect EXCEPT ![1 - k].flag = IF HasValidFlag(sect[1 - k])
                                                 THEN "invalid" ELSE @]
         /\ op' = [op EXCEPT !.step = IF chg THEN "erase" ELSE "index",
                             !.old = k, !.to = IF chg THEN 1 - k ELSE k,
                             !.seq = IF chg THEN NextSeq(sect[k].seq) ELSE sect[k].seq,
                             !.chg = chg]
  /\ UNCHANGED <<res, kept>>

EraseOther_InUse == (* mutant: the sector read is erased *)
  /\ op.step = "erase"
  /\ sect' = [sect EXCEPT ![op.old] = Erased]
  /\ Goto("dedupe")
  /\ UNCHANGED <<res, kept>>

EraseOther ==
  /\ op.step = "erase"
  /\ sect' = [sect EXCEPT ![op.to] = Erased]
  /\ Goto("dedupe")
  /\ UNCHANGED <<res, kept>>

(* nv_exceptionDataHandler: the older of two valid entries of an item is   *)
(* deleted, the last one in the index first.                               *)
DeleteDuplicate ==
  /\ op.step = "dedupe"
  /\ LET d == Duplicates(sect[op.old].idx)
     IN  /\ d # {}
         /\ sect' = [sect EXCEPT ![op.old].idx[Max(d)].st = "invalid"]
  /\ UNCHANGED <<op, res, kept>>

DedupeDone ==
  /\ op.step = "dedupe"
  /\ Duplicates(sect[op.old].idx) = {}
  /\ Goto("copy")
  /\ UNCHANGED <<sect, res, kept>>

(* Its table is an event buffer; without one nothing is deleted.           *)
NoBuffer ==
  /\ op.step = "dedupe"
  /\ kept' = TRUE
  /\ Goto("copy")
  /\ UNCHANGED <<sect, res>>

(* The entries of the old index after op.pos that are still to be copied.  *)
ToCopy == {n \in Live(sect[op.old].idx, op.id) : n > op.pos}

(* An item is packed behind the ones copied before.                        *)
CopyItem ==
  /\ op.step = "copy"
  /\ ToCopy # {}
  /\ LET n == Min(ToCopy)
     IN  /\ sect' = [sect EXCEPT ![op.to].idx =
                       Append(@, [sect[op.old].idx[n] EXCEPT !.ofs = NextOfs(sect[op.to].idx)])]
         /\ op' = [op EXCEPT !.pos = n]
  /\ UNCHANGED <<res, kept>>

CopyDone ==
  /\ op.step = "copy"
  /\ ToCopy = {}
  /\ LET e == sect[op.to].idx
     IN  \/ /\ Len(e) < IdxNum /\ Used(e) + Total[op.id] <= Space
            /\ Goto("index") /\ res' = res
         \/ /\ Len(e) = IdxNum \/ Used(e) + Total[op.id] > Space
            /\ Return("notEnough")
  /\ UNCHANGED <<sect, kept>>

NewEntry(i, st) ==
  [st |-> st, id |-> i, ofs |-> NextOfs(sect[op.to].idx), hdr |-> "none", val |-> None]

AppendEntry(st) == [sect EXCEPT ![op.to].idx = Append(@, NewEntry(op.id, st))]

CanAppend ==
  LET ofs == NextOfs(sect[op.to].idx) IN ofs >= 0 /\ Fits(ofs, Total[op.id])

(* nv_write_item: the entry, after a check of the one before it.           *)
WriteIndex ==
  /\ op.step = "index"
  /\ CanAppend
  /\ sect' = AppendEntry("op")
  /\ op' = [op EXCEPT !.step = "item", !.del = Newest(sect[op.to].idx, op.id)]
  /\ UNCHANGED <<res, kept>>

RefuseIndex ==
  /\ op.step = "index"
  /\ ~CanAppend
  /\ Return("checkError")
  /\ UNCHANGED <<sect, kept>>

SetLast(x) == [sect EXCEPT ![op.to].idx[Len(sect[op.to].idx)] = x]

WriteItem ==
  /\ op.step = "item"
  /\ sect' = SetLast([LastEntry(sect[op.to].idx) EXCEPT !.hdr = "whole", !.val = op.val])
  /\ Goto("state")
  /\ UNCHANGED <<res, kept>>

HasHeader == op.to \in ValidSects(sect)

WriteState ==
  /\ op.step = "state"
  /\ sect' = SetLast([LastEntry(sect[op.to].idx) EXCEPT !.st = "valid"])
  /\ \/ op.del # 0 /\ Goto("dup") /\ res' = res
     \/ op.del = 0 /\ ~HasHeader /\ Goto("header") /\ res' = res
     \/ op.del = 0 /\ HasHeader /\ Return("ok")
  /\ UNCHANGED kept

(* The entry replaced.  (It is in the sector read: no copy was made of it.) *)
DeleteOld ==
  /\ op.step = "dup"
  /\ sect' = [sect EXCEPT ![op.to].idx[op.del].st = "invalid"]
  /\ Return("ok")
  /\ UNCHANGED kept

WriteHeader ==
  /\ op.step = "header"
  /\ sect' = [sect EXCEPT ![op.to].flag = "valid", ![op.to].seq = op.seq]
  /\ \/ op.chg /\ Goto("retire") /\ res' = res
     \/ ~op.chg /\ Return("ok")
  /\ UNCHANGED kept

RetireOld ==
  /\ op.step = "retire"
  /\ sect' = [sect EXCEPT ![op.old].flag = "invalid"]
  /\ Return("ok")
  /\ UNCHANGED kept

(* The module is erased, one sector after the other: by the callers of a   *)
(* write that returned an error (save_appInfo), and by a factory reset.    *)
nv_resetModule ==
  /\ op.step = "none"
  /\ op' = [step |-> "reset", to |-> 0]
  /\ res' = "none"
  /\ UNCHANGED <<sect, kept>>

ResetSector ==
  /\ op.step = "reset"
  /\ sect' = [sect EXCEPT ![op.to] = Erased]
  /\ \/ op.to = 0 /\ op' = [op EXCEPT !.to = 1] /\ res' = res
     \/ op.to = 1 /\ Return("ok")
  /\ UNCHANGED kept

(* The supply fails before or in the operation in progress.  A half        *)
(* programmed item is never read, its entry stays "op"; but the next write *)
(* checks its header.                                                      *)
Interrupted ==
  \/ /\ op.step = "sector" /\ ValidSects(sect) # {}
     /\ RetirementTorn(sect, 1 - nv_sector_read(sect), sect')
  \/ op.step = "index" /\ CanAppend /\ sect' = AppendEntry("torn")
  \/ /\ op.step = "item" /\ HeaderTears
     /\ sect' = SetLast([LastEntry(sect[op.to].idx) EXCEPT !.hdr = "torn"])
  \/ op.step = "header" /\ sect' = [sect EXCEPT ![op.to].flag = "torn"]
  \/ op.step = "retire" /\ RetirementTorn(sect, op.old, sect')

PowerLoss ==
  /\ UNCHANGED sect \/ Interrupted
  /\ op' = NoOp
  /\ res' = "none"
  /\ UNCHANGED kept

Next ==
  \/ \E i \in Ids, v \in Vals : nv_flashWriteNew(i, v)
  \/ FormatFirst
  \/ ChooseSector
  \/ EraseOther
  \/ DeleteDuplicate
  \/ DedupeDone
  \/ NoBuffer
  \/ CopyItem
  \/ CopyDone
  \/ WriteIndex
  \/ RefuseIndex
  \/ WriteItem
  \/ WriteState
  \/ DeleteOld
  \/ WriteHeader
  \/ RetireOld
  \/ nv_resetModule
  \/ ResetSector
  \/ PowerLoss

Spec == Init /\ [][Next]_vars

-----------------------------------------------------------------------------
(* Properties. *)

TypeOK ==
  /\ sect \in [Sector -> [flag : Flags, seq : 0..3, idx : Seq(Entry)]]
  /\ op.step \in {"none", "sector", "erase", "dedupe", "copy", "index", "item",
                  "state", "dup", "header", "retire", "reset"}
  /\ res \in {"none", "ok", "notEnough", "checkError"}
  /\ kept \in BOOLEAN

(* The module implements the dictionary: whatever operation the supply     *)
(* fails in, every item reads as its last value written, or as the value   *)
(* being written; a full sector, a sector change and duplicates left by an *)
(* earlier failure lose no item and bring none back.  A reset that finds   *)
(* two valid sectors, and erases the newer first, does; and a power        *)
(* failure that leaves the flag of a retired sector accepted without a CRC *)
(* takes back the write that changed the sector, but nothing else.         *)
Store == INSTANCE AtomicStore WITH
  kv   <- [i \in Ids |-> nv_flashReadNew(sect, i)],
  call <- CASE op.step = "none"  -> [kind |-> "none"]
            [] op.step = "reset" -> [kind |-> "reset"]
            [] OTHER             -> [kind |-> "write", id |-> op.id, val |-> op.val],
  res  <- IF res \in {"notEnough", "checkError"} THEN "error" ELSE res,
  CrashReverts <- RetireTears
StoreSpec == Store!Spec

(* "sector is full, and then need write in the another sector" (nv.c:725): *)
(* a write that finds a sector in any state a failure may leave it in is   *)
(* not refused; a sector that takes no entry is changed.                   *)
WriteNotRefused == res # "checkError"

(* A write that finds no room is right: the other items the module holds,  *)
(* each once, and the new one do not fit in a sector.  Entries a failure   *)
(* left behind and duplicates take no room, unless a sector change had no  *)
(* buffer to find them.                                                    *)
RoomFor(i) ==
  LET live == {j \in Ids \ {i} : nv_flashReadNew(sect, j) # None}
  IN  /\ Cardinality(live) < IdxNum
      /\ MapThenSumSet(LAMBDA j : Up4(Total[j]), live) + Total[i] <= Space

NotEnoughOnlyWhenFull ==
  [][res' = "notEnough" /\ res # "notEnough" /\ ~kept => ~RoomFor(op.id)]_vars
=============================================================================
