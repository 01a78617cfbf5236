------------------------------ MODULE MCNvItems ------------------------------
(* Small sectors, in which a few versions of the items fill a sector.      *)
EXTENDS NvItems, TLC

CONSTANTS item1, item2, item3, v1, v2

(* Items of two lengths. *)
MCTotal    == [i \in Ids |-> IF i = item2 THEN 20 ELSE 12]
MCSymmetry == Permutations(Vals)

(* A sector without a valid header is not read before it is erased, unless *)
(* the call in progress is filling it: what it holds does not matter.      *)
Filling(s) == op.step \notin {"none", "sector", "erase", "reset"} /\ s = op.to
Shown(s)   == IF s \in ValidSects(sect) \/ Filling(s) THEN sect[s] ELSE Erased
MCView == <<[s \in Sector |-> Shown(s)], op, res, kept>>
=============================================================================
