---------------------------- MODULE NvFrameCount ----------------------------
(***************************************************************************)
(* The flash log of the network frame counter: module                      *)
(* DS_NWK_FRAMECOUNT_MODULE of proj/drivers/nv.c.                          *)
(*                                                                         *)
(* Two flash sectors are used in turn.  A sector is a 4-byte header (a     *)
(* flag and a 2-bit sequence number under a CRC) followed by an            *)
(* append-only run of 32-bit words; the last word is the counter.  A save  *)
(* is a chain of flash operations and the supply may fail before, in or    *)
(* after each of them, so `op' records how far the call in progress is.    *)
(* Every action below is one flash operation.                              *)
(*                                                                         *)
(* Programming flash only clears bits: a word whose programming was        *)
(* interrupted is a bitwise superset of the intended one, hence larger.    *)
(***************************************************************************)
EXTENDS NvSector, Sequences

CONSTANTS
  Cap,      (* words a sector holds: FRAMECOUNT_NUM_PER_SECT (1023)         *)
  Thres,    (* UPDATE_FRAMECOUNT_THRES (1024)                               *)
  Excess,   (* by how much an interrupted word may exceed the intended one *)
  MaxFails  (* bound on `fails'                                            *)

ASSUME CapAssumption == Cap \in Nat /\ Cap >= 2
ASSUME ThresAssumption == Thres \in Nat \ {0}
ASSUME ExcessAssumption == Excess \subseteq Nat \ {0}
ASSUME MaxFailsAssumption == MaxFails \in Nat

VARIABLES
  sect,     (* the two sectors: header flag, sequence number, words        *)
  op,       (* the flash call in progress                                  *)
  saved,    (* history: the largest counter a completed save stored        *)
  fails     (* history: how many writes were read back wrong, or           *)
            (* retirements left with a flag that is accepted               *)

nvVars == <<sect, op, saved, fails>>

Steps == {"none", "stale", "format", "erase", "last", "new", "header", "retire"}

Erased == [flag |-> "idle", seq |-> 0, words |-> <<>>]
NoOp   == [step |-> "none", val |-> 0, to |-> 0, seq |-> 0, old |-> 0,
           copy |-> FALSE, force |-> FALSE]

NvInit ==
  /\ sect = [s \in Sector |-> Erased]
  /\ op = NoOp
  /\ saved = 0
  /\ fails = 0

Content == [flag : Flags, seq : 0..3, words : Seq(Nat)]
Sectors == [Sector -> Content]
Ops     == [step : Steps, val : Nat, to : Sector, seq : 0..3, old : Sector,
            copy : BOOLEAN, force : BOOLEAN]

NvTypeOK ==
  /\ sect \in Sectors
  /\ op \in Ops
  /\ saved \in Nat
  /\ fails \in 0..MaxFails

-----------------------------------------------------------------------------
(* Reading. *)

(* The word before last, when the last one looks interrupted.  The test is *)
(* made from the third word of a sector on.                                *)
Suspect(w) ==
  /\ Len(w) > 2
  /\ \/ w[Len(w)] < w[Len(w) - 1]
     \/ w[Len(w)] - w[Len(w) - 1] > 2 * Thres

nv_nwkFrameCountFromFlash(sc) ==
  LET w == sc[nv_sector_read(sc)].words
  IN  IF Suspect(w) THEN w[Len(w) - 1] + Thres ELSE w[Len(w)]

(* A load whose last word is suspect moves to the other sector.            *)
NeedsBackoff(sc) == ValidSects(sc) # {} /\ Suspect(sc[nv_sector_read(sc)].words)

-----------------------------------------------------------------------------
(* Calls.  Each fixes the plan of flash operations from the headers.       *)

SaveOp(sc, v) ==
  LET k == nv_sector_read(sc)
      q == sc[k].seq
      full == Len(sc[k].words) = Cap
  IN  IF ValidSects(sc) = {}
      THEN [NoOp EXCEPT !.step = "format", !.val = v]
      ELSE [step |-> "stale", val |-> v, old |-> k, copy |-> full,
            to |-> IF full THEN 1 - k ELSE k,
            seq |-> IF full THEN NextSeq(q) ELSE q, force |-> FALSE]

BackoffOp(sc) ==
  LET k == nv_sector_read(sc)
  IN  [step |-> "stale", val |-> nv_nwkFrameCountFromFlash(sc), to |-> 1 - k,
       seq |-> NextSeq(sc[k].seq), old |-> k, copy |-> FALSE, force |-> TRUE]

LoadOp(sc) == IF NeedsBackoff(sc) THEN BackoffOp(sc) ELSE NoOp

-----------------------------------------------------------------------------
(* The flash operations of a call. *)

Goto(step) == op' = [op EXCEPT !.step = step]
Done       == /\ op' = NoOp
              /\ saved' = IF op.val > saved THEN op.val ELSE saved
              /\ UNCHANGED fails

AppendWord(s, v) == [sect EXCEPT ![s].words = Append(@, v)]

(* nv_sector_read(1, ..) retires a valid sector that is not the newest.    *)
InvalidateStale ==
  /\ op.step = "stale"
  /\ LET del == 1 - nv_sector_read(sect)
     IN  sect' = IF HasValidFlag(sect[del])
                 THEN [sect EXCEPT ![del].flag = "invalid"] ELSE sect
  /\ Goto(IF op.copy \/ op.force THEN "erase" ELSE "new")
  /\ UNCHANGED <<saved, fails>>

(* No readable sector: both are erased.                                    *)
EraseAll ==
  /\ op.step = "format"
  /\ sect' = [s \in Sector |-> Erased]
  /\ Goto("new")
  /\ UNCHANGED <<saved, fails>>

EraseTarget_Old == (* mutant: the sector still in use is erased *)
  /\ op.step = "erase"
  /\ sect' = [sect EXCEPT ![op.old] = Erased]
  /\ Goto(IF op.copy THEN "last" ELSE "new")
  /\ UNCHANGED <<saved, fails>>

EraseTarget ==
  /\ op.step = "erase"
  /\ sect' = [sect EXCEPT ![op.to] = Erased]
  /\ Goto(IF op.copy THEN "last" ELSE "new")
  /\ UNCHANGED <<saved, fails>>

(* A full sector hands its last word to the next one.                      *)
CopyLast ==
  /\ op.step = "last"
  /\ LET w == sect[op.old].words IN sect' = AppendWord(op.to, w[Len(w)])
  /\ Goto("new")
  /\ UNCHANGED <<saved, fails>>

WriteCount ==
  /\ op.step = "new"
  /\ sect' = AppendWord(op.to, op.val)
  /\ \/ /\ op.copy \/ sect[op.to].words = <<>>
        /\ Goto("header")
        /\ UNCHANGED <<saved, fails>>
     \/ /\ ~op.copy /\ sect[op.to].words # <<>>
        /\ Done

WriteHeader ==
  /\ op.step = "header"
  /\ sect' = [sect EXCEPT ![op.to].flag = "valid", ![op.to].seq = op.seq]
  /\ \/ /\ op.copy \/ op.force
        /\ Goto("retire")
        /\ UNCHANGED <<saved, fails>>
     \/ /\ ~op.copy /\ ~op.force
        /\ Done

RetireOld ==
  /\ op.step = "retire"
  /\ sect' = [sect EXCEPT ![op.old].flag = "invalid"]
  /\ Done

(* What interrupting the operation in progress leaves in flash.            *)
Interrupted ==
  \/ /\ op.step = "last"
     /\ \E d \in Excess :
          LET w == sect[op.old].words IN sect' = AppendWord(op.to, w[Len(w)] + d)
  \/ /\ op.step = "new"
     /\ \E d \in Excess : sect' = AppendWord(op.to, op.val + d)
  \/ /\ op.step = "header"
     /\ sect' = [sect EXCEPT ![op.to].flag = "torn"]

HalfRetired ==
  \/ op.step = "stale"  /\ RetirementTorn(sect, 1 - nv_sector_read(sect), sect')
  \/ op.step = "retire" /\ RetirementTorn(sect, op.old, sect')

Fault == fails < MaxFails /\ fails' = fails + 1

(* flash_writeWithCheck reads back something else: the call is abandoned   *)
(* and the device runs on.  After a retirement that did not take, both     *)
(* sectors are valid.  (Erasures and the retirement of a stale sector are  *)
(* not read back.)                                                         *)
WriteFails ==
  /\ op.step \in {"last", "new", "header", "retire"}
  /\ Fault
  /\ UNCHANGED sect \/ Interrupted \/ HalfRetired
  /\ op' = NoOp
  /\ UNCHANGED saved

(* The supply fails before or in the operation in progress.                *)
NvPowerLoss ==
  /\ \/ (UNCHANGED sect \/ Interrupted) /\ UNCHANGED fails
     \/ HalfRetired /\ Fault
  /\ op' = NoOp
  /\ UNCHANGED saved

NvStep ==
  \/ InvalidateStale
  \/ EraseAll
  \/ EraseTarget
  \/ CopyLast
  \/ WriteCount
  \/ WriteHeader
  \/ RetireOld
  \/ WriteFails
=============================================================================
