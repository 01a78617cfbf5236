---------------------------- MODULE NvItems_proofs ----------------------------
(***************************************************************************)
(* The NV items implement the dictionary, for every set of items and       *)
(* values, every length of the items, of a sector and of its index, and    *)
(* whichever of the two builds; and a write is never refused where the     *)
(* CRC of an entry leaves out its state, an interrupted item header leaves *)
(* no flag behind and the items are of aligned length.                     *)
(*                                                                         *)
(* What a sector says of an item is its last valid entry (Reads).  The     *)
(* inductive invariant (StepInv) says for each step of a write what the    *)
(* sector being filled says of every item: nothing of the item written     *)
(* until its entry becomes valid, and of the others what the sector read   *)
(* says, as far as the copy has come.                                      *)
(***************************************************************************)
EXTENDS NvItems, WellFoundedInduction, NaturalsInduction, SequenceTheorems, TLAPS

-----------------------------------------------------------------------------
(* Numbers. *)

(* Induction over a set of numbers: it has a least one, and Min finds it.  *)
LEMMA LeastIs ==
  ASSUME NEW T \in SUBSET Nat, T # {}
  PROVE  Min(T) \in T /\ \A k \in T : Min(T) <= k
<1>1. PICK n \in T : \A k \in T : ~(<<k, n>> \in OpToRel(<, Nat))
  BY WFMin, NatLessThanWellFounded, Zenon
<1>2. \A k \in T : ~(k < n)
  BY <1>1, Zenon DEF OpToRel
<1>3. \A k \in T : n <= k
  BY <1>2
<1> QED BY <1>3, Zenon DEF Min

(* A bounded one has a greatest, and Max finds it.                         *)
LEMMA GreatestIs ==
  ASSUME NEW b \in Nat, NEW T \in SUBSET (0..b), T # {}
  PROVE  Max(T) \in T /\ \A k \in T : k <= Max(T)
<1> DEFINE D == {b - k : k \in T}
<1>0. \A k \in T : k \in 0..b /\ b - k \in Nat
  OBVIOUS
<1>1. D \in SUBSET Nat /\ D # {}
  BY <1>0
<1>2. Min(D) \in D /\ \A d \in D : Min(D) <= d
  BY <1>1, LeastIs
<1>3. PICK n \in T : Min(D) = b - n
  BY <1>2
<1>4. \A k \in T : n >= k
  <2> TAKE k \in T
  <2>1. b - k \in D
    OBVIOUS
  <2>2. b - n <= b - k
    BY <1>2, <1>3, <2>1
  <2> QED BY <1>0, <2>2
<1>5. Max(T) \in T /\ \A k \in T : Max(T) >= k
  BY <1>4, Zenon DEF Max
<1> QED BY <1>5

(* Rounding up to a multiple of four.                                      *)
LEMMA Up4Is ==
  ASSUME NEW n \in Nat
  PROVE  /\ Up4(n) \in Nat /\ n <= Up4(n) /\ Up4(n) % 4 = 0
         /\ n % 4 = 0 => Up4(n) = n
         /\ \A m \in Nat : m <= n => Up4(m) <= Up4(n)
BY DEF Up4

(* Sums of multiples of four.                                              *)
LEMMA Aligned ==
  ASSUME NEW a \in Nat, NEW b \in Nat, a % 4 = 0, b % 4 = 0
  PROVE  a + b \in Nat /\ (a + b) % 4 = 0
OBVIOUS

-----------------------------------------------------------------------------
(* What an index says of an item. *)

At(e, i, n) == e[n].st = "valid" /\ e[n].id = i
Reads(e, i) == IF Newest(e, i) = 0 THEN None ELSE e[Newest(e, i)].val

(* nv_index_read finds the last valid entry.                               *)
LEMMA NewestIs ==
  ASSUME NEW e \in Seq(Entry), NEW i
  PROVE  /\ Newest(e, i) \in 0..Len(e)
         /\ Newest(e, i) # 0 => At(e, i, Newest(e, i))
         /\ \A n \in DOMAIN e : At(e, i, n) => n <= Newest(e, i)
<1> DEFINE T == {n \in DOMAIN e : e[n].st = "valid" /\ e[n].id = i}
<1>1. T \in SUBSET (0..Len(e)) /\ T \in SUBSET (DOMAIN e) /\ Len(e) \in Nat
  OBVIOUS
<1>2. Newest(e, i) = IF T = {} THEN 0 ELSE Max(T)
  BY DEF Newest
<1>3. CASE T = {}
  BY <1>1, <1>2, <1>3 DEF At
<1>4. CASE T # {}
  <2>1. Max(T) \in T /\ \A k \in T : k <= Max(T)
    BY <1>1, <1>4, GreatestIs
  <2> QED BY <1>1, <1>2, <1>4, <2>1 DEF At
<1> QED BY <1>3, <1>4

(* An entry behind which no other is valid for the item is the one found.  *)
LEMMA NewestAt ==
  ASSUME NEW e \in Seq(Entry), NEW i, NEW n \in DOMAIN e, At(e, i, n),
         \A m \in DOMAIN e : n < m => ~At(e, i, m)
  PROVE  Newest(e, i) = n
BY NewestIs

(* Without a valid entry none is found.                                    *)
LEMMA NewestNone ==
  ASSUME NEW e \in Seq(Entry), NEW i, \A m \in DOMAIN e : ~At(e, i, m)
  PROVE  Newest(e, i) = 0
BY NewestIs

(* Two indexes whose entries are valid in the same places, for the item,   *)
(* say the same of it.                                                     *)
LEMMA SameReads ==
  ASSUME NEW e \in Seq(Entry), NEW f \in Seq(Entry), NEW i,
         \A n \in DOMAIN e : At(e, i, n) => n \in DOMAIN f /\ At(f, i, n) /\ f[n].val = e[n].val,
         \A n \in DOMAIN f : At(f, i, n) => n \in DOMAIN e /\ At(e, i, n)
  PROVE  Newest(f, i) = Newest(e, i) /\ Reads(f, i) = Reads(e, i)
<1>1. CASE Newest(e, i) = 0
  <2>1. \A m \in DOMAIN f : ~At(f, i, m)
    BY <1>1, NewestIs
  <2>2. Newest(f, i) = 0
    BY <2>1, NewestNone
  <2> QED BY <1>1, <2>2 DEF Reads
<1>2. CASE Newest(e, i) # 0
  <2> DEFINE n == Newest(e, i)
  <2>1. n \in DOMAIN e /\ At(e, i, n) /\ \A m \in DOMAIN e : At(e, i, m) => m <= n
    BY <1>2, NewestIs
  <2>2. n \in DOMAIN f /\ At(f, i, n) /\ f[n].val = e[n].val
    BY <2>1
  <2>3. \A m \in DOMAIN f : n < m => ~At(f, i, m)
    BY <2>1
  <2>4. Newest(f, i) = n
    BY <2>2, <2>3, NewestAt
  <2> QED BY <2>2, <2>4, <1>2 DEF Reads
<1> QED BY <1>1, <1>2

(* What is read is a value or None.                                        *)
LEMMA ReadsType ==
  ASSUME NEW e \in Seq(Entry), NEW i
  PROVE  Reads(e, i) \in Vals \cup {None}
<1>1. CASE Newest(e, i) = 0
  BY <1>1 DEF Reads
<1>2. CASE Newest(e, i) # 0
  <2>1. Newest(e, i) \in DOMAIN e
    BY <1>2, NewestIs
  <2>2. e[Newest(e, i)] \in Entry
    BY <2>1
  <2> QED BY <1>2, <2>2 DEF Reads, Entry
<1> QED BY <1>1, <1>2

(* The entry appended is the last valid one of its item, if it is valid.   *)
LEMMA AppendRead ==
  ASSUME NEW e \in Seq(Entry), NEW x \in Entry, NEW j
  PROVE  LET f == Append(e, x)
         IN  /\ f \in Seq(Entry) /\ Len(f) = Len(e) + 1 /\ LastEntry(f) = x /\ f # <<>>
             /\ DOMAIN f = 1..Len(e) + 1 /\ DOMAIN e = 1..Len(e)
             /\ \A n \in DOMAIN e : f[n] = e[n]
             /\ x.st = "valid" /\ x.id = j => Newest(f, j) = Len(e) + 1 /\ Reads(f, j) = x.val
             /\ x.st # "valid" \/ x.id # j =>
                  Newest(f, j) = Newest(e, j) /\ Reads(f, j) = Reads(e, j)
<1> DEFINE f == Append(e, x)
<1>1. /\ f \in Seq(Entry) /\ Len(f) = Len(e) + 1 /\ f[Len(e) + 1] = x /\ f # <<>>
      /\ DOMAIN f = 1..Len(e) + 1 /\ DOMAIN e = 1..Len(e) /\ Len(e) \in Nat
      /\ \A n \in DOMAIN e : f[n] = e[n]
  OBVIOUS
<1>2. CASE x.st = "valid" /\ x.id = j
  <2>1. Newest(f, j) = Len(e) + 1
    <3> HIDE DEF f
    <3>1. At(f, j, Len(e) + 1)
      BY <1>1, <1>2 DEF At
    <3> QED BY <1>1, <3>1, NewestAt
  <2> HIDE DEF f
  <2> QED BY <1>1, <1>2, <2>1 DEF Reads, LastEntry, f
<1>3. CASE x.st # "valid" \/ x.id # j
  <2> HIDE DEF f
  <2>1. ~At(f, j, Len(e) + 1)
    BY <1>1, <1>3 DEF At
  <2>2. \A n \in DOMAIN e : (At(e, j, n) <=> At(f, j, n)) /\ f[n].val = e[n].val
    BY <1>1 DEF At
  <2>3. \A n \in DOMAIN f : At(f, j, n) => n \in DOMAIN e
    BY <1>1, <2>1
  <2>4. Newest(f, j) = Newest(e, j) /\ Reads(f, j) = Reads(e, j)
    BY <1>1, <2>2, <2>3, SameReads
  <2> QED BY <1>1, <1>3, <2>4 DEF LastEntry, f
<1> QED BY <1>2, <1>3

(* An entry is written over.                                               *)
EntrySet(f, e, n, x) == f = [e EXCEPT ![n] = x]

(* The others stay.                                                        *)
LEMMA EntrySetIs ==
  ASSUME NEW e \in Seq(Entry), NEW n \in DOMAIN e, NEW x \in Entry, NEW f, EntrySet(f, e, n, x)
  PROVE  /\ f \in Seq(Entry) /\ Len(f) = Len(e) /\ DOMAIN f = DOMAIN e /\ f[n] = x
         /\ \A k \in DOMAIN e : k # n => f[k] = e[k]
BY DEF EntrySet

(* The last entry is.                                                      *)
LastSet(f, e, x) == f = [e EXCEPT ![Len(e)] = x]

(* What it leaves as it was.                                               *)
LEMMA LastSetIs ==
  ASSUME NEW e \in Seq(Entry), e # <<>>, NEW x \in Entry, NEW f, LastSet(f, e, x)
  PROVE  /\ f \in Seq(Entry) /\ Len(f) = Len(e) /\ LastEntry(f) = x /\ f # <<>>
         /\ DOMAIN f = 1..Len(e) /\ DOMAIN e = 1..Len(e) /\ Len(e) \in Nat \ {0}
         /\ f[Len(e)] = x
         /\ \A n \in DOMAIN e : n # Len(e) => f[n] = e[n]
<1>1. Len(e) \in Nat \ {0} /\ DOMAIN e = 1..Len(e) /\ Len(e) \in DOMAIN e
  BY EmptySeq
<1>2. /\ f \in Seq(Entry) /\ Len(f) = Len(e) /\ f[Len(e)] = x
      /\ DOMAIN f = 1..Len(e)
      /\ \A n \in DOMAIN e : n # Len(e) => f[n] = e[n]
  <2>1. PICK k \in DOMAIN e : k = Len(e)
    BY <1>1
  <2>2. EntrySet(f, e, k, x)
    BY <2>1 DEF LastSet, EntrySet
  <2>3. f \in Seq(Entry) /\ Len(f) = Len(e) /\ DOMAIN f = DOMAIN e /\ f[k] = x
        /\ \A n \in DOMAIN e : n # k => f[n] = e[n]
    BY <2>2, EntrySetIs
  <2> QED BY <1>1, <2>1, <2>3
<1>3. f # <<>>
  BY <1>1, <1>2, EmptySeq
<1> QED BY <1>1, <1>2, <1>3 DEF LastEntry

(* What is read, when it was not valid yet.                                *)
LEMMA LastRead ==
  ASSUME NEW e \in Seq(Entry), e # <<>>, LastEntry(e).st # "valid",
         NEW x \in Entry, NEW f, LastSet(f, e, x), NEW j
  PROVE  IF x.st = "valid" /\ x.id = j
         THEN Newest(f, j) = Len(e) /\ Reads(f, j) = x.val
         ELSE Newest(f, j) = Newest(e, j) /\ Reads(f, j) = Reads(e, j)
<1>1. Len(e) \in Nat \ {0} /\ DOMAIN e = 1..Len(e) /\ Len(e) \in DOMAIN e
  BY EmptySeq
<1>2. /\ f \in Seq(Entry) /\ Len(f) = Len(e) /\ f[Len(e)] = x /\ DOMAIN f = 1..Len(e)
      /\ \A n \in DOMAIN e : n # Len(e) => f[n] = e[n]
  BY LastSetIs
<1>4. CASE x.st = "valid" /\ x.id = j
  <2>1. At(f, j, Len(e))
    BY <1>2, <1>4 DEF At
  <2>2. Newest(f, j) = Len(e)
    BY <1>1, <1>2, <2>1, NewestAt
  <2> QED BY <1>1, <1>2, <1>4, <2>2 DEF Reads
<1>5. CASE x.st # "valid" \/ x.id # j
  <2>1. ~At(f, j, Len(e)) /\ ~At(e, j, Len(e))
    BY <1>2, <1>5 DEF At, LastEntry
  <2>2. \A n \in DOMAIN e : (At(e, j, n) <=> At(f, j, n)) /\ (At(e, j, n) => f[n].val = e[n].val)
    BY <1>2, <2>1 DEF At
  <2>3. Newest(f, j) = Newest(e, j) /\ Reads(f, j) = Reads(e, j)
    BY <1>1, <1>2, <2>2, SameReads
  <2> QED BY <1>5, <2>3
<1> QED BY <1>4, <1>5

(* An entry is made invalid.                                               *)
Dropped(f, e, n) ==
  /\ f \in Seq(Entry) /\ Len(f) = Len(e) /\ DOMAIN f = DOMAIN e
  /\ f[n].st = "invalid" /\ f[n].ofs = e[n].ofs /\ f[n].id = e[n].id
  /\ \A k \in DOMAIN e : k # n => f[k] = e[k]

(* That is what the assignment of its state does.                          *)
LEMMA DroppedIs ==
  ASSUME NEW e \in Seq(Entry), NEW n \in DOMAIN e
  PROVE  Dropped([e EXCEPT ![n].st = "invalid"], e, n)
<1> DEFINE x == [e[n] EXCEPT !.st = "invalid"]
           f == [e EXCEPT ![n] = x]
<1>1. x \in Entry /\ x.st = "invalid" /\ x.ofs = e[n].ofs /\ x.id = e[n].id
  <2>1. e[n] \in Entry
    OBVIOUS
  <2> QED BY <2>1 DEF Entry
<1>2. EntrySet(f, e, n, x)
  BY DEF EntrySet
<1> HIDE DEF x
<1>3. Dropped(f, e, n)
  <2> HIDE DEF f
  <2>1. /\ f \in Seq(Entry) /\ Len(f) = Len(e) /\ DOMAIN f = DOMAIN e /\ f[n] = x
        /\ \A k \in DOMAIN e : k # n => f[k] = e[k]
    BY <1>1, <1>2, EntrySetIs
  <2> QED BY <1>1, <2>1 DEF Dropped
<1>4. f = [e EXCEPT ![n].st = "invalid"]
  BY DEF x
<1> QED BY <1>3, <1>4

(* If another of its item is valid behind it, nothing read changes.        *)
LEMMA DropRead ==
  ASSUME NEW e \in Seq(Entry), NEW n \in DOMAIN e, n < Newest(e, e[n].id),
         NEW f \in Seq(Entry), Dropped(f, e, n), NEW j
  PROVE  Reads(f, j) = Reads(e, j)
<1> DEFINE p == Newest(e, j)
<1>1. p \in 0..Len(e) /\ (p # 0 => At(e, j, p)) /\ \A k \in DOMAIN e : At(e, j, k) => k <= p
  BY NewestIs
<1>2. \A k \in DOMAIN f : At(f, j, k) => At(e, j, k)
  BY DEF At, Dropped
<1>3. p # n
  <2> SUFFICES ASSUME p = n PROVE FALSE
    OBVIOUS
  <2>1. p # 0
    OBVIOUS
  <2>2. e[n].id = j
    BY <1>1, <2>1 DEF At
  <2> QED BY <2>2
<1> HIDE DEF p
<1>4. CASE p = 0
  <2>1. \A k \in DOMAIN f : ~At(f, j, k)
    BY <1>1, <1>2, <1>4 DEF Dropped
  <2>2. Newest(f, j) = 0
    BY <2>1, NewestNone
  <2> QED BY <1>4, <2>2 DEF Reads, p
<1>5. CASE p # 0
  <2>1. p \in DOMAIN e /\ p \in DOMAIN f
    BY <1>1, <1>5 DEF Dropped
  <2>2. f[p] = e[p]
    BY <1>3, <2>1 DEF Dropped
  <2>3. At(f, j, p)
    BY <1>1, <1>5, <2>2 DEF At
  <2>4. \A k \in DOMAIN f : p < k => ~At(f, j, k)
    BY <1>1, <1>2 DEF Dropped
  <2>5. Newest(f, j) = p
    BY <2>1, <2>3, <2>4, NewestAt
  <2> QED BY <1>5, <2>2, <2>5 DEF Reads, p
<1> QED BY <1>4, <1>5

-----------------------------------------------------------------------------
(* Where the items of an index are. *)

(* Valid entries are whole; the items are apart, in the order of entries.  *)
Packed(e) ==
  /\ \A n \in DOMAIN e : e[n].st = "valid" => e[n].hdr = "whole" /\ e[n].val \in Vals
  /\ \A m, n \in DOMAIN e : m < n => Up4(e[m].ofs + Total[e[m].id]) <= e[n].ofs

(* The end of an item.                                                     *)
LEMMA EndIs ==
  ASSUME NEW x \in Entry
  PROVE  /\ x.ofs \in Nat /\ Total[x.id] \in Nat \ {0}
         /\ Up4(x.ofs + Total[x.id]) \in Nat /\ x.ofs < Up4(x.ofs + Total[x.id])
<1>1. x.ofs \in Nat /\ Total[x.id] \in Nat \ {0}
  BY ItemsAssumption DEF Entry
<1> QED BY <1>1, Up4Is

(* The next item is behind the last one.                                   *)
LEMMA AppendPacked ==
  ASSUME NEW e \in Seq(Entry), Packed(e), NEW x \in Entry,
         x.st = "valid" => x.hdr = "whole" /\ x.val \in Vals,
         e # <<>> => Up4(LastEntry(e).ofs + Total[LastEntry(e).id]) <= x.ofs
  PROVE  Packed(Append(e, x))
<1> DEFINE f == Append(e, x)
<1>1. /\ DOMAIN f = 1..Len(e) + 1 /\ f[Len(e) + 1] = x /\ DOMAIN e = 1..Len(e)
      /\ \A n \in DOMAIN e : f[n] = e[n]
      /\ Len(e) \in Nat
  OBVIOUS
<1> HIDE DEF f
<1>2. \A n \in DOMAIN f : f[n].st = "valid" => f[n].hdr = "whole" /\ f[n].val \in Vals
  BY <1>1 DEF Packed
<1>3. ASSUME NEW m \in DOMAIN f, NEW n \in DOMAIN f, m < n
      PROVE  Up4(f[m].ofs + Total[f[m].id]) <= f[n].ofs
  <2>1. m \in DOMAIN e /\ f[m] = e[m]
    BY <1>1, <1>3
  <2>2. CASE n \in DOMAIN e
    BY <1>1, <1>3, <2>1, <2>2 DEF Packed
  <2>3. CASE n = Len(e) + 1
    <3>1. e # <<>> /\ f[n] = x
      BY <1>1, <2>1, <2>3
    <3>2. CASE m = Len(e)
      BY <2>1, <3>1, <3>2 DEF LastEntry
    <3>3. CASE m # Len(e)
      <4>1. Len(e) \in DOMAIN e /\ m < Len(e)
        BY <1>1, <2>1, <3>3
      <4>2. Up4(e[m].ofs + Total[e[m].id]) <= LastEntry(e).ofs
        BY <2>1, <4>1 DEF Packed, LastEntry
      <4>3. e[m] \in Entry /\ LastEntry(e) \in Entry
        BY <2>1, <4>1 DEF LastEntry
      <4>4. /\ Up4(e[m].ofs + Total[e[m].id]) \in Nat /\ LastEntry(e).ofs \in Nat
            /\ Up4(LastEntry(e).ofs + Total[LastEntry(e).id]) \in Nat /\ x.ofs \in Nat
            /\ LastEntry(e).ofs < Up4(LastEntry(e).ofs + Total[LastEntry(e).id])
        BY <4>3, EndIs
      <4> QED BY <2>1, <3>1, <4>2, <4>4
    <3> QED BY <3>2, <3>3
  <2> QED BY <1>1, <2>2, <2>3
<1>4. Packed(f)
  BY <1>2, <1>3 DEF Packed
<1> QED BY <1>4 DEF f

(* Writing over an entry moves no item.                                    *)
LEMMA ChangePacked ==
  ASSUME NEW e \in Seq(Entry), Packed(e), NEW f \in Seq(Entry), DOMAIN f = DOMAIN e,
         NEW k \in DOMAIN e, \A n \in DOMAIN e : n # k => f[n] = e[n],
         f[k].ofs = e[k].ofs, f[k].id = e[k].id,
         f[k].st = "valid" => f[k].hdr = "whole" /\ f[k].val \in Vals
  PROVE  Packed(f)
<1>1. \A n \in DOMAIN f : f[n].st = "valid" => f[n].hdr = "whole" /\ f[n].val \in Vals
  BY DEF Packed
<1>2. \A n \in DOMAIN f : f[n].ofs = e[n].ofs /\ f[n].id = e[n].id
  OBVIOUS
<1>3. \A m, n \in DOMAIN f : m < n => Up4(f[m].ofs + Total[f[m].id]) <= f[n].ofs
  BY <1>2 DEF Packed
<1> QED BY <1>1, <1>3 DEF Packed

-----------------------------------------------------------------------------
(* The two sectors. *)

SectorRec == [flag : Flags, seq : 0..3, idx : Seq(Entry)]
Sectors   == [Sector -> SectorRec]

(* One of them.                                                            *)
LEMMA SectorIs ==
  ASSUME NEW sc \in Sectors, NEW s \in Sector
  PROVE  sc[s] \in SectorRec /\ sc[s].seq \in 0..3 /\ sc[s].idx \in Seq(Entry)
BY DEF Sectors, SectorRec

(* No flag is without a CRC, so that the sequence numbers decide.          *)
LEMMA NoPlain ==
  ASSUME ~RetireTears, NEW sc \in Sectors
  PROVE  /\ \A s \in Sector : sc[s].flag # "plain"
         /\ ValidSects(sc) = {s \in Sector : sc[s].flag = "valid"}
<1>1. \A s \in Sector : sc[s].flag # "plain"
  BY DEF Sectors, SectorRec, Flags
<1> QED BY <1>1 DEF ValidSects

(* Its flag is changed.                                                    *)
LEMMA FlagIs ==
  ASSUME NEW y \in SectorRec, NEW g \in Flags
  PROVE  LET r == [y EXCEPT !.flag = g]
         IN  r \in SectorRec /\ r.flag = g /\ r.seq = y.seq /\ r.idx = y.idx
BY DEF SectorRec

(* One index is changed, one sector is.                                    *)
IdxSet(sd, sc, s, f)    == sd = [sc EXCEPT ![s].idx = f]
SectorSet(sd, sc, s, r) == sd = [sc EXCEPT ![s] = r]

(* The headers stay, and with them the sector read.                        *)
LEMMA SetIdx ==
  ASSUME NEW sc \in Sectors, NEW s \in Sector, NEW f \in Seq(Entry),
         NEW sd, IdxSet(sd, sc, s, f)
  PROVE  /\ sd \in Sectors /\ sd[s].idx = f
         /\ \A t \in Sector : /\ sd[t].flag = sc[t].flag /\ sd[t].seq = sc[t].seq
                              /\ t # s => sd[t] = sc[t]
         /\ ValidSects(sd) = ValidSects(sc)
         /\ nv_sector_read(sd) = nv_sector_read(sc)
<1>1. /\ sd \in Sectors /\ sd[s].idx = f
      /\ \A t \in Sector : /\ sd[t].flag = sc[t].flag /\ sd[t].seq = sc[t].seq
                           /\ t # s => sd[t] = sc[t]
  BY DEF Sectors, SectorRec, IdxSet
<1>2. ValidSects(sd) = ValidSects(sc)
  BY <1>1 DEF ValidSects
<1>3. sd[0].seq = sc[0].seq /\ sd[1].seq = sc[1].seq
      /\ sd[0].flag = sc[0].flag /\ sd[1].flag = sc[1].flag
  BY <1>1 DEF Sector
<1>4. nv_sector_read(sd) = nv_sector_read(sc)
  BY <1>2, <1>3 DEF nv_sector_read, SectVN
<1> QED BY <1>1, <1>2, <1>4

(* The only valid sector is read.                                          *)
LEMMA ReadOne ==
  ASSUME NEW sc \in Sectors, NEW k \in Sector, ValidSects(sc) = {k}, sc[k].seq % 2 = k
  PROVE  nv_sector_read(sc) = k
<1>1. ValidSects(sc) # Sector
  BY DEF Sector
<1>2. CASE k = 0
  BY <1>1, <1>2 DEF nv_sector_read, SectVN
<1>3. CASE k = 1
  <2>1. ValidSects(sc) # {0}
    BY <1>3
  <2> QED BY <1>1, <1>3, <2>1 DEF nv_sector_read, SectVN
<1> QED BY <1>2, <1>3 DEF Sector

(* Of two valid sectors the one that follows the other is.                 *)
LEMMA ReadNewer ==
  ASSUME ~RetireTears, NEW sc \in Sectors, NEW k \in Sector, ValidSects(sc) = Sector,
         sc[k].seq % 2 = k, sc[k].seq = NextSeq(sc[1 - k].seq)
  PROVE  nv_sector_read(sc) = k
<1>1. sc[0].seq \in 0..3 /\ sc[1].seq \in 0..3
  BY DEF Sectors, SectorRec, Sector
<1>2. /\ ValidSects(sc) = Sector /\ ValidSects(sc) # {0}
      /\ sc[0].flag = "valid" /\ sc[1].flag = "valid"
  BY NoPlain DEF Sector
<1>3. SectVN(sc) = IF sc[0].seq > sc[1].seq
                   THEN IF sc[0].seq - sc[1].seq = 1 THEN sc[0].seq ELSE sc[1].seq
                   ELSE IF sc[1].seq - sc[0].seq = 1 THEN sc[1].seq ELSE sc[0].seq
  BY <1>2 DEF SectVN
<1>4. CASE k = 0
  BY <1>1, <1>3, <1>4 DEF nv_sector_read, NextSeq
<1>5. CASE k = 1
  BY <1>1, <1>3, <1>5 DEF nv_sector_read, NextSeq
<1> QED BY <1>4, <1>5 DEF Sector

-----------------------------------------------------------------------------
(* The module as a whole. *)

(* The sectors between any two operations on the flash, when an interrupted *)
(* retirement leaves the flag as it was or as it should be.                *)
Layout(sc) ==
  /\ ~RetireTears
  /\ \A s \in Sector : sc[s].flag = "valid" => sc[s].seq % 2 = s
  /\ ValidSects(sc) = Sector => \E s \in Sector : sc[s].seq = NextSeq(sc[1 - s].seq)
  /\ \A s \in Sector : Packed(sc[s].idx)

(* The index that nv_flashReadNew searches.                                *)
LEMMA FlashRead ==
  ASSUME NEW sc \in Sectors, NEW i
  PROVE  /\ ValidSects(sc) = {} => nv_flashReadNew(sc, i) = None
         /\ ValidSects(sc) # {} =>
              nv_flashReadNew(sc, i) = Reads(sc[nv_sector_read(sc)].idx, i)
<1>1. nv_flashReadNew(sc, i) =
        IF ValidSects(sc) = {} \/ Newest(sc[nv_sector_read(sc)].idx, i) = 0 THEN None
        ELSE sc[nv_sector_read(sc)].idx[Newest(sc[nv_sector_read(sc)].idx, i)].val
  BY Zenon DEF nv_flashReadNew
<1> QED BY <1>1 DEF Reads

(* The sector read is a valid one.                                         *)
LEMMA ReadIn ==
  ASSUME NEW sc \in Sectors, Layout(sc), ValidSects(sc) # {}
  PROVE  nv_sector_read(sc) \in ValidSects(sc) /\ nv_sector_read(sc) \in Sector
<1>1. PICK k \in Sector : k \in ValidSects(sc)
  BY DEF ValidSects
<1>2. CASE ValidSects(sc) = {k}
  <2>1. sc[k].seq % 2 = k
    BY <1>1, NoPlain DEF Layout
  <2> QED BY <1>1, <1>2, <2>1, ReadOne
<1>3. CASE ValidSects(sc) # {k}
  <2>1. ValidSects(sc) = Sector
    BY <1>1, <1>3 DEF ValidSects, Sector
  <2>2. PICK s \in Sector : sc[s].seq = NextSeq(sc[1 - s].seq)
    BY <2>1 DEF Layout
  <2>3. sc[s].seq % 2 = s /\ ~RetireTears
    BY <2>1, NoPlain DEF Layout
  <2> QED BY <2>1, <2>2, <2>3, ReadNewer
<1> QED BY <1>2, <1>3

(* An item reads as None or a value.                                       *)
LEMMA FlashReadType ==
  ASSUME NEW sc \in Sectors, Layout(sc), NEW i
  PROVE  nv_flashReadNew(sc, i) \in Vals \cup {None}
<1>1. CASE ValidSects(sc) = {}
  BY <1>1, FlashRead
<1>2. CASE ValidSects(sc) # {}
  <2>1. sc[nv_sector_read(sc)].idx \in Seq(Entry)
    BY <1>2, ReadIn DEF Sectors, SectorRec
  <2> QED BY <1>2, <2>1, FlashRead, ReadsType
<1> QED BY <1>1, <1>2

(* Changing an index keeps the layout; what it changes for an item is what *)
(* the index says of it, if the sector is the one read.                    *)
LEMMA IdxLayout ==
  ASSUME NEW sc \in Sectors, Layout(sc), NEW s \in Sector, NEW f \in Seq(Entry), Packed(f),
         NEW sd, IdxSet(sd, sc, s, f)
  PROVE  /\ sd \in Sectors /\ Layout(sd) /\ sd[s].idx = f
         /\ \A t \in Sector : /\ sd[t].flag = sc[t].flag /\ sd[t].seq = sc[t].seq
                              /\ t # s => sd[t] = sc[t]
         /\ ValidSects(sd) = ValidSects(sc)
         /\ \A j : s \notin ValidSects(sc) \/ Reads(f, j) = Reads(sc[s].idx, j) =>
                     nv_flashReadNew(sd, j) = nv_flashReadNew(sc, j)
         /\ \A j : ValidSects(sc) = {s} =>
                     /\ nv_flashReadNew(sd, j) = Reads(f, j)
                     /\ nv_flashReadNew(sc, j) = Reads(sc[s].idx, j)
<1>1. /\ sd \in Sectors /\ sd[s].idx = f
      /\ \A t \in Sector : /\ sd[t].flag = sc[t].flag /\ sd[t].seq = sc[t].seq
                           /\ t # s => sd[t] = sc[t]
      /\ ValidSects(sd) = ValidSects(sc)
      /\ nv_sector_read(sd) = nv_sector_read(sc)
  BY SetIdx
<1>2. \A t \in Sector : 1 - t \in Sector
  BY DEF Sector
<1>3. Layout(sd)
  BY <1>1, <1>2 DEF Layout
<1>4. ASSUME NEW j, s \notin ValidSects(sc) \/ Reads(f, j) = Reads(sc[s].idx, j)
      PROVE  nv_flashReadNew(sd, j) = nv_flashReadNew(sc, j)
  <2>1. CASE ValidSects(sc) = {}
    BY <1>1, <2>1, FlashRead
  <2>2. CASE ValidSects(sc) # {}
    <3>1. nv_sector_read(sc) \in ValidSects(sc) /\ nv_sector_read(sc) \in Sector
      BY <2>2, ReadIn
    <3>2. Reads(sd[nv_sector_read(sc)].idx, j) = Reads(sc[nv_sector_read(sc)].idx, j)
      BY <1>1, <1>4, <3>1
    <3> QED BY <1>1, <2>2, <3>2, FlashRead
  <2> QED BY <2>1, <2>2
<1>5. ASSUME NEW j, ValidSects(sc) = {s}
      PROVE  /\ nv_flashReadNew(sd, j) = Reads(f, j)
             /\ nv_flashReadNew(sc, j) = Reads(sc[s].idx, j)
  <2>1. nv_sector_read(sc) = s /\ ValidSects(sc) # {}
    BY <1>5, ReadIn
  <2> QED BY <1>1, <2>1, FlashRead
<1> QED BY <1>1, <1>3, <1>4, <1>5

-----------------------------------------------------------------------------
(* The calls. *)

WriteSteps == {"sector", "erase", "dedupe", "copy", "index", "item", "state",
               "dup", "header", "retire"}
WriteOp == [step : WriteSteps, id : Ids, val : Vals, to : Sector, seq : 0..3,
            old : Sector, chg : BOOLEAN, pos : Nat, del : Nat]
ResetOp == [step : {"reset"}, to : Sector]

OpOK ==
  /\ op.step \in WriteSteps \cup {"none", "reset"}
  /\ op.step = "none" => op = NoOp
  /\ op.step = "reset" => op \in ResetOp
  /\ op.step \in WriteSteps => op \in WriteOp

(* What the dictionary sees.                                               *)
kv   == [i \in Ids |-> nv_flashReadNew(sect, i)]
call == CASE op.step = "none"  -> [kind |-> "none"]
          [] op.step = "reset" -> [kind |-> "reset"]
          [] OTHER             -> [kind |-> "write", id |-> op.id, val |-> op.val]
ret  == IF res \in {"notEnough", "checkError"} THEN "error" ELSE res

Abstract == [Store!Next]_<<kv, call, ret>>

(* The call the dictionary sees, step by step.                             *)
LEMMA CallIs ==
  /\ op.step = "none" => call = [kind |-> "none"]
  /\ op.step = "reset" => call = [kind |-> "reset"]
  /\ op.step \in WriteSteps => call = [kind |-> "write", id |-> op.id, val |-> op.val]
<1>1. op.step \in WriteSteps => op.step # "none" /\ op.step # "reset"
  BY DEF WriteSteps
<1> QED BY <1>1 DEF call

(* The same after a step.                                                  *)
LEMMA CallPrimed ==
  (/\ op.step = "none" => call = [kind |-> "none"]
   /\ op.step = "reset" => call = [kind |-> "reset"]
   /\ op.step \in WriteSteps => call = [kind |-> "write", id |-> op.id, val |-> op.val])'
BY CallIs, PTL

(* The dictionary's view of a step, from what the items read as.           *)
Keeps  == \A j \in Ids : nv_flashReadNew(sect', j) = nv_flashReadNew(sect, j)
Stored == \A j \in Ids : nv_flashReadNew(sect', j) = IF j = op.id THEN op.val
                                                     ELSE nv_flashReadNew(sect, j)

(* Nothing read has changed.                                               *)
LEMMA KeepsIs == Keeps => kv' = kv
BY DEF Keeps, kv

(* The item written has.                                                   *)
LEMMA StoredIs == Stored => kv' = [kv EXCEPT ![op.id] = op.val]
BY DEF Stored, kv

(* A step that returns nothing and keeps the call and what is read is no   *)
(* step of the dictionary.                                                 *)
LEMMA Stutters ==
  ASSUME op.step \in WriteSteps, op'.step \in WriteSteps, op'.id = op.id, op'.val = op.val,
         res' = res, Keeps
  PROVE  Abstract
<1>1. call' = call
  BY CallIs, CallPrimed
<1>2. ret' = ret
  BY DEF ret
<1> QED BY <1>1, <1>2, KeepsIs DEF Abstract

(* The write takes effect.                                                 *)
LEMMA Commits ==
  ASSUME op.step \in WriteSteps, op'.step \in WriteSteps, op'.id = op.id, op'.val = op.val,
         res' = res, Stored
  PROVE  Abstract
<1>1. call' = call /\ call = [kind |-> "write", id |-> op.id, val |-> op.val]
  BY CallIs, CallPrimed
<1>2. ret' = ret
  BY DEF ret
<1>3. kv' = [kv EXCEPT ![call.id] = call.val] /\ call.kind = "write"
  BY <1>1, StoredIs
<1>4. Store!Commit
  BY <1>1, <1>2, <1>3 DEF Store!Commit, Store!Stores, kv, call, ret
<1> QED BY <1>4 DEF Abstract, Store!Next

(* It takes effect and returns.                                            *)
LEMMA EndsOk ==
  ASSUME op.step \in WriteSteps, op' = NoOp, res' = "ok", Stored
  PROVE  Abstract
<1>1. call = [kind |-> "write", id |-> op.id, val |-> op.val] /\ call' = [kind |-> "none"]
  BY CallIs, CallPrimed DEF NoOp
<1>2. ret' = "ok"
  BY DEF ret
<1>3. kv' = [kv EXCEPT ![call.id] = call.val] /\ call.kind = "write"
  BY <1>1, StoredIs
<1>4. Store!EndOk
  BY <1>1, <1>2, <1>3 DEF Store!EndOk, Store!Stores, Store!Idle, kv, call, ret
<1> QED BY <1>4 DEF Abstract, Store!Next

(* It returns an error and has done nothing.                               *)
LEMMA EndsError ==
  ASSUME op.step \in WriteSteps, op' = NoOp, res' \in {"notEnough", "checkError"}, Keeps
  PROVE  Abstract
<1>1. call = [kind |-> "write", id |-> op.id, val |-> op.val] /\ call' = [kind |-> "none"]
  BY CallIs, CallPrimed DEF NoOp
<1>2. ret' = "error"
  BY DEF ret
<1>3. kv' = kv /\ call.kind = "write"
  BY <1>1, KeepsIs
<1>4. Store!EndError
  BY <1>1, <1>2, <1>3 DEF Store!EndError, Store!Idle, kv, call, ret
<1> QED BY <1>4 DEF Abstract, Store!Next

(* The supply fails.                                                       *)
LEMMA Crashes ==
  ASSUME op' = NoOp, res' = "none", Keeps
  PROVE  Abstract
<1>1. call' = [kind |-> "none"]
  BY CallPrimed DEF NoOp
<1>2. ret' = "none"
  BY DEF ret
<1>3. Store!Crash
  BY <1>1, <1>2, KeepsIs DEF Store!Crash, Store!Idle, kv, call, ret
<1> QED BY <1>3 DEF Abstract, Store!Next

(* A write is called.                                                      *)
LEMMA BeginsWrite ==
  ASSUME op.step = "none", op'.step \in WriteSteps, op'.id \in Ids, op'.val \in Vals,
         res' = "none", Keeps
  PROVE  Abstract
<1>1. /\ call = [kind |-> "none"]
      /\ call' = [kind |-> "write", id |-> op'.id, val |-> op'.val]
  BY CallIs, CallPrimed
<1>2. ret' = "none"
  BY DEF ret
<1>3. Store!Begin(Store!Write(op'.id, op'.val))
  BY <1>1, <1>2, KeepsIs DEF Store!Begin, Store!Idle, Store!Write, kv, call, ret
<1> QED BY <1>3 DEF Abstract, Store!Next

(* A reset is called.                                                      *)
LEMMA BeginsReset ==
  ASSUME op.step = "none", op'.step = "reset", res' = "none", Keeps
  PROVE  Abstract
<1>1. call = [kind |-> "none"] /\ call' = [kind |-> "reset"]
  BY CallIs, CallPrimed
<1>2. ret' = "none"
  BY DEF ret
<1>3. Store!Begin(Store!Reset)
  BY <1>1, <1>2, KeepsIs DEF Store!Begin, Store!Idle, Store!Reset, kv, call, ret
<1> QED BY <1>3 DEF Abstract, Store!Next

(* A reset may bring values back.                                          *)
LEMMA Resurface ==
  ASSUME op.step = "reset", op'.step = "reset", res' = res,
         \A j \in Ids : nv_flashReadNew(sect', j) \in Vals \cup {None}
  PROVE  Abstract
<1>1. call = [kind |-> "reset"] /\ call' = [kind |-> "reset"]
  BY CallIs, CallPrimed
<1>2. ret' = ret
  BY DEF ret
<1>3. kv' \in [Ids -> Vals \cup {None}]
  BY DEF kv
<1>4. Store!Commit
  BY <1>1, <1>2, <1>3 DEF Store!Commit, Store!Resurfaces, Store!Reset, kv, call, ret
<1> QED BY <1>4 DEF Abstract, Store!Next

(* In the end it leaves none.                                              *)
LEMMA EndsReset ==
  ASSUME op.step = "reset", op' = NoOp, res' = "ok",
         \A j \in Ids : nv_flashReadNew(sect', j) = None
  PROVE  Abstract
<1>1. call = [kind |-> "reset"] /\ call' = [kind |-> "none"]
  BY CallIs, CallPrimed DEF NoOp
<1>2. ret' = "ok"
  BY DEF ret
<1>3. kv' = [i \in Ids |-> None]
  BY DEF kv
<1>4. Store!EndOk
  BY <1>1, <1>2, <1>3 DEF Store!EndOk, Store!Clears, Store!Empty, Store!Reset, Store!Idle,
                          kv, call, ret
<1> QED BY <1>4 DEF Abstract, Store!Next

-----------------------------------------------------------------------------
(* The invariant. *)

(* The sector filled: the other one, the first one of none, the one read.  *)
Changing(sc, o) ==
  /\ o.chg /\ ValidSects(sc) = {o.old}
  /\ o.to = 1 - o.old /\ o.seq = NextSeq(sc[o.old].seq)
Formatting(sc, o) == ~o.chg /\ ValidSects(sc) = {} /\ o.to = 0 /\ o.seq = 0
InPlace(sc, o)    == ~o.chg /\ ValidSects(sc) = {o.to}

(* A sector that is not read yet says of the other items what is read.     *)
Building(sc, o) ==
  /\ Changing(sc, o) \/ Formatting(sc, o)
  /\ \A j \in Ids \ {o.id} : Reads(sc[o.to].idx, j) = nv_flashReadNew(sc, j)
Filling(sc, o) ==
  InPlace(sc, o) \/ (Building(sc, o) /\ Newest(sc[o.to].idx, o.id) = 0)

(* The copy f of the index e has come to the entry p: of each item but i   *)
(* it says what the entries up to p say.                                   *)
Copied(e, f, i, p) ==
  /\ \A n \in DOMAIN f : f[n].st = "valid" /\ f[n].id # i
  /\ f # <<>> => /\ p \in DOMAIN e
                 /\ LastEntry(f).id = e[p].id
                 /\ LastEntry(f).ofs <= e[p].ofs
  /\ \A j \in Ids \ {i} :
       \/ /\ Reads(f, j) = None
          /\ \A n \in DOMAIN e : n <= p => ~At(e, j, n)
       \/ \E n \in DOMAIN e :
            /\ n <= p /\ At(e, j, n) /\ Reads(f, j) = e[n].val
            /\ \A m \in DOMAIN e : n < m /\ m <= p => ~At(e, j, m)

(* The last entry is the one being written.                                *)
Appended(e, o) ==
  /\ e # <<>> /\ LastEntry(e).st = "op" /\ LastEntry(e).id = o.id
  /\ o.del = Newest(e, o.id)

(* It has replaced the entry o.del.                                        *)
Replaced(e, o) ==
  /\ o.del \in 1..(Len(e) - 1) /\ At(e, o.id, o.del)
  /\ At(e, o.id, Len(e)) /\ LastEntry(e).val = o.val

StepInv(sc, o) ==
  /\ o.step = "sector" => ~o.chg /\ o.to = 0 /\ o.seq = 0
  /\ o.step \in {"sector", "erase", "dedupe"} => o.pos = 0
  /\ o.step \in {"erase", "dedupe", "copy"} => Changing(sc, o)
  /\ o.step = "dedupe" => sc[o.to].idx = <<>>
  /\ o.step = "copy" => Copied(sc[o.old].idx, sc[o.to].idx, o.id, o.pos)
  /\ o.step \in {"index", "item", "state"} => Filling(sc, o)
  /\ o.step \in {"item", "state"} => Appended(sc[o.to].idx, o)
  /\ o.step = "state" => /\ LastEntry(sc[o.to].idx).hdr = "whole"
                         /\ LastEntry(sc[o.to].idx).val = o.val
  /\ o.step = "dup" => InPlace(sc, o) /\ Replaced(sc[o.to].idx, o)
  /\ o.step = "header" => Building(sc, o) /\ Reads(sc[o.to].idx, o.id) = o.val
  /\ o.step = "retire" => /\ ValidSects(sc) = Sector /\ o.old = 1 - o.to
                          /\ sc[o.to].seq = NextSeq(sc[o.old].seq)
                          /\ Reads(sc[o.to].idx, o.id) = o.val
  /\ o.step = "reset" /\ o.to = 1 => sc[0] = Erased

RestOK == res \in {"none", "ok", "notEnough", "checkError"} /\ kept \in BOOLEAN

IInv == sect \in Sectors /\ RestOK /\ OpOK /\ Layout(sect) /\ StepInv(sect, op)

-----------------------------------------------------------------------------
(* The next step of a write. *)

(* The call goes on.                                                       *)
LEMMA GotoIs ==
  ASSUME OpOK, op.step \in WriteSteps, NEW st \in WriteSteps, Goto(st)
  PROVE  /\ OpOK' /\ op' \in WriteOp /\ op \in WriteOp
         /\ op'.step = st /\ op'.id = op.id /\ op'.val = op.val /\ op'.to = op.to
         /\ op'.seq = op.seq /\ op'.old = op.old /\ op'.chg = op.chg
         /\ op'.pos = op.pos /\ op'.del = op.del
<1>1. op \in WriteOp
  BY DEF OpOK
<1>2. /\ op' \in WriteOp
      /\ op'.step = st /\ op'.id = op.id /\ op'.val = op.val /\ op'.to = op.to
      /\ op'.seq = op.seq /\ op'.old = op.old /\ op'.chg = op.chg
      /\ op'.pos = op.pos /\ op'.del = op.del
  BY <1>1 DEF Goto, WriteOp
<1> QED BY <1>1, <1>2 DEF OpOK, WriteSteps

(* The call is over.                                                       *)
LEMMA ReturnIs ==
  ASSUME op' = NoOp
  PROVE  OpOK' /\ op'.step = "none" /\ StepInv(sect', op')
BY DEF NoOp, OpOK, StepInv, WriteSteps

(* An erased sector.                                                       *)
LEMMA ErasedIs ==
  /\ Erased \in SectorRec /\ Erased.flag = "idle" /\ Erased.idx = <<>>
  /\ Packed(<<>>) /\ \A j : Newest(<<>>, j) = 0 /\ Reads(<<>>, j) = None
<1>1. <<>> \in Seq(Entry) /\ DOMAIN <<>> = {}
  OBVIOUS
<1>2. \A j : Newest(<<>>, j) = 0
  BY <1>1, NewestNone
<1> QED BY <1>1, <1>2 DEF Erased, SectorRec, Flags, Packed, Reads

(* A sector is replaced by one that is not valid.                          *)
LEMMA SectorSetIs ==
  ASSUME NEW sc \in Sectors, Layout(sc), NEW s \in Sector, NEW r \in SectorRec,
         Packed(r.idx), r.flag # "valid", NEW sd, SectorSet(sd, sc, s, r)
  PROVE  /\ sd \in Sectors /\ Layout(sd) /\ sd[s] = r
         /\ \A t \in Sector : t # s => sd[t] = sc[t]
         /\ ValidSects(sd) = ValidSects(sc) \ {s}
<1>1. /\ sd \in Sectors /\ sd[s] = r
      /\ \A t \in Sector : t # s => sd[t] = sc[t]
      /\ ValidSects(sd) = ValidSects(sc) \ {s}
  <2>1. r.flag # "plain"
    BY DEF Layout, SectorRec, Flags
  <2> QED BY <2>1 DEF Sectors, ValidSects, SectorSet
<1>2. Layout(sd)
  <2>1. ValidSects(sd) # Sector
    BY <1>1
  <2> QED BY <1>1, <2>1 DEF Layout
<1> QED BY <1>1, <1>2

(* If it is not the one read, nothing changes of what is read.             *)
LEMMA SectorLayout ==
  ASSUME NEW sc \in Sectors, Layout(sc), NEW s \in Sector, NEW r \in SectorRec,
         Packed(r.idx), r.flag # "valid",
         s \in ValidSects(sc) => nv_sector_read(sc) # s,
         NEW sd, SectorSet(sd, sc, s, r)
  PROVE  /\ sd \in Sectors /\ Layout(sd) /\ sd[s] = r
         /\ \A t \in Sector : t # s => sd[t] = sc[t]
         /\ ValidSects(sd) = ValidSects(sc) \ {s}
         /\ \A j : nv_flashReadNew(sd, j) = nv_flashReadNew(sc, j)
<1>1. /\ sd \in Sectors /\ sd[s] = r
      /\ \A t \in Sector : t # s => sd[t] = sc[t]
      /\ ValidSects(sd) = ValidSects(sc) \ {s}
  BY SectorSetIs
<1>2. Layout(sd)
  BY SectorSetIs
<1>3. ASSUME NEW j PROVE nv_flashReadNew(sd, j) = nv_flashReadNew(sc, j)
  <2>1. CASE ValidSects(sc) = {}
    BY <1>1, <2>1, FlashRead
  <2>2. CASE ValidSects(sc) # {}
    <3> DEFINE k == nv_sector_read(sc)
    <3>1. k \in ValidSects(sc) /\ k \in Sector /\ k # s
      BY <2>2, ReadIn
    <3>2. ValidSects(sd) = {k}
      BY <1>1, <3>1 DEF ValidSects, Sector
    <3>3. nv_sector_read(sd) = k
      BY <1>1, <1>2, <3>2, ReadIn
    <3> QED BY <1>1, <2>2, <3>1, <3>2, <3>3, FlashRead
  <2> QED BY <2>1, <2>2
<1> QED BY <1>1, <1>2, <1>3

-----------------------------------------------------------------------------
(* The operations.  Each keeps the invariant and is what the dictionary    *)
(* does in a step or nothing.                                              *)

(* The calls.                                                              *)
LEMMA CallStep ==
  ASSUME IInv, NEW i \in Ids, NEW v \in Vals, nv_flashWriteNew(i, v)
  PROVE  IInv' /\ Abstract
<1>1. op' = [step |-> "sector", id |-> i, val |-> v,
             to |-> 0, seq |-> 0, old |-> 0, chg |-> FALSE, pos |-> 0, del |-> 0]
  BY DEF nv_flashWriteNew
<1>2. op' \in WriteOp
  BY <1>1 DEF WriteOp, WriteSteps, Sector
<1>3. OpOK'
  BY <1>1, <1>2 DEF OpOK, WriteSteps
<1>4. StepInv(sect', op')
  BY <1>1 DEF StepInv
<1>5. sect' = sect /\ res' = "none" /\ kept' = kept /\ op.step = "none"
  BY DEF nv_flashWriteNew
<1>6. Abstract
  BY <1>1, <1>5, BeginsWrite DEF Keeps, WriteSteps
<1> QED BY <1>3, <1>4, <1>5, <1>6 DEF IInv, RestOK

(* A reset is called.                                                      *)
LEMMA ResetCallStep ==
  ASSUME IInv, nv_resetModule
  PROVE  IInv' /\ Abstract
<1>1. op' = [step |-> "reset", to |-> 0]
  BY DEF nv_resetModule
<1>2. OpOK'
  BY <1>1 DEF OpOK, WriteSteps, ResetOp, Sector
<1>3. StepInv(sect', op')
  BY <1>1 DEF StepInv
<1>4. sect' = sect /\ res' = "none" /\ kept' = kept /\ op.step = "none"
  BY DEF nv_resetModule
<1>5. Abstract
  BY <1>1, <1>4, BeginsReset DEF Keeps
<1> QED BY <1>2, <1>3, <1>4, <1>5 DEF IInv, RestOK

(* The choice of the sector.                                               *)
LEMMA FormatStep ==
  ASSUME IInv, FormatFirst
  PROVE  IInv' /\ Abstract
<1>1. op.step = "sector" /\ ValidSects(sect) = {} /\ Goto("index") /\ res' = res /\ kept' = kept
  BY DEF FormatFirst
<1>2. /\ OpOK' /\ op'.step = "index" /\ op'.id = op.id /\ op'.val = op.val
      /\ op'.to = 0 /\ op'.seq = 0 /\ op'.chg = FALSE
  <2>1. ~op.chg /\ op.to = 0 /\ op.seq = 0 /\ op \in WriteOp
    BY <1>1 DEF IInv, StepInv, OpOK, WriteSteps
  <2>2. op.chg = FALSE
    BY <2>1
  <2> QED BY <1>1, <2>1, <2>2, GotoIs DEF IInv, WriteSteps
<1>3. /\ sect' \in Sectors /\ Layout(sect') /\ sect'[0] = Erased /\ ValidSects(sect') = {}
      /\ Keeps
  <2>1. SectorSet(sect', sect, 0, Erased) /\ 0 \in Sector
    BY DEF FormatFirst, Sector, SectorSet
  <2> QED BY <1>1, <2>1, ErasedIs, SectorLayout DEF IInv, Keeps
<1>4. StepInv(sect', op')
  <2>1. \A j : Reads(sect'[op'.to].idx, j) = nv_flashReadNew(sect', j)
    BY <1>2, <1>3, ErasedIs, FlashRead
  <2>2. Newest(sect'[op'.to].idx, op'.id) = 0
    BY <1>2, <1>3, ErasedIs
  <2>3. Filling(sect', op')
    BY <1>2, <1>3, <2>1, <2>2 DEF Filling, Building, Formatting
  <2> QED BY <1>2, <2>3 DEF StepInv
<1>5. Abstract
  BY <1>1, <1>2, <1>3, Stutters DEF WriteSteps
<1> QED BY <1>1, <1>2, <1>3, <1>4, <1>5 DEF IInv, RestOK

(* The newest valid sector is, and the other one retired.                  *)
LEMMA ChooseStep ==
  ASSUME IInv, ChooseSector
  PROVE  IInv' /\ Abstract
<1> DEFINE k   == nv_sector_read(sect)
           chg == NeedsChange(sect[k].idx, op.id)
           g   == IF HasValidFlag(sect[1 - k]) THEN "invalid" ELSE sect[1 - k].flag
           r   == [sect[1 - k] EXCEPT !.flag = g, !.seq = sect[1 - k].seq]
<1>1. /\ op.step = "sector" /\ ValidSects(sect) # {} /\ res' = res /\ kept' = kept
      /\ op \in WriteOp /\ op.pos = 0 /\ ~op.chg /\ sect \in Sectors /\ Layout(sect)
  BY DEF ChooseSector, IInv, StepInv, OpOK, WriteSteps
<1>2. k \in ValidSects(sect) /\ k \in Sector /\ 1 - k \in Sector /\ k # 1 - k
  BY <1>1, ReadIn DEF Sector
<1>3. /\ sect' = [sect EXCEPT ![1 - k].flag = g]
      /\ op' = [op EXCEPT !.step = IF chg THEN "erase" ELSE "index",
                          !.old = k, !.to = IF chg THEN 1 - k ELSE k,
                          !.seq = IF chg THEN NextSeq(sect[k].seq) ELSE sect[k].seq,
                          !.chg = chg]
  BY DEF ChooseSector
<1>4. chg \in BOOLEAN
  BY DEF NeedsChange
<1>5. g \in Flags /\ g # "valid" /\ sect[1 - k].seq \in 0..3 /\ sect[k].seq \in 0..3
  <2>1. sect[1 - k] \in SectorRec /\ sect[1 - k].seq \in 0..3 /\ sect[k].seq \in 0..3
    BY <1>1, <1>2, SectorIs
  <2>2. sect[1 - k].flag \in Flags
    BY <2>1 DEF SectorRec
  <2>3. g \in Flags /\ g # "valid"
    BY <2>2 DEF Flags, HasValidFlag
  <2> HIDE DEF g
  <2> QED BY <2>1, <2>3
<1>6. r \in SectorRec /\ r.flag = g /\ r.idx = sect[1 - k].idx /\ SectorSet(sect', sect, 1 - k, r)
  <2>1. sect[1 - k] \in SectorRec
    BY <1>1, <1>2, SectorIs
  <2> HIDE DEF g
  <2>2. r \in SectorRec /\ r.flag = g /\ r.idx = sect[1 - k].idx
    BY <1>5, <2>1 DEF SectorRec
  <2>3. SectorSet(sect', sect, 1 - k, r)
    <3>1. [sect EXCEPT ![1 - k].flag = g] = [sect EXCEPT ![1 - k] = r]
      BY <1>1, <1>2, <2>1 DEF Sectors, SectorRec
    <3> QED BY <1>3, <3>1 DEF SectorSet
  <2> QED BY <2>2, <2>3
<1>7. Packed(r.idx)
  BY <1>1, <1>2, <1>6 DEF Layout
<1> HIDE DEF k, chg, g, r
<1>8. /\ sect' \in Sectors /\ Layout(sect') /\ sect'[k] = sect[k]
      /\ ValidSects(sect') = ValidSects(sect) \ {1 - k} /\ Keeps
  BY <1>1, <1>2, <1>5, <1>6, <1>7, SectorLayout DEF Keeps, k
<1>9. ValidSects(sect') = {k}
  BY <1>2, <1>8 DEF ValidSects, Sector
<1>10. NextSeq(sect[k].seq) \in 0..3
  BY <1>5 DEF NextSeq
<1>11. /\ op' \in WriteOp /\ op'.id = op.id /\ op'.val = op.val /\ op'.pos = 0
       /\ op'.old = k /\ op'.chg = chg
       /\ chg => op'.step = "erase" /\ op'.to = 1 - k /\ op'.seq = NextSeq(sect[k].seq)
       /\ ~chg => op'.step = "index" /\ op'.to = k
  <2>1. CASE chg
    BY <1>1, <1>2, <1>3, <1>4, <1>10, <2>1 DEF WriteOp, WriteSteps
  <2>2. CASE ~chg
    <3>1. chg = FALSE
      BY <1>4, <2>2
    <3> QED BY <1>1, <1>2, <1>3, <1>5, <3>1 DEF WriteOp, WriteSteps
  <2> QED BY <2>1, <2>2
<1>12. OpOK' /\ op'.step \in WriteSteps
  BY <1>11 DEF OpOK, WriteSteps
<1>13. StepInv(sect', op')
  <2>1. CASE chg
    BY <1>8, <1>9, <1>11, <2>1 DEF StepInv, Changing
  <2>2. CASE ~chg
    BY <1>9, <1>11, <2>2 DEF StepInv, Filling, InPlace
  <2> QED BY <2>1, <2>2
<1>14. Abstract
  BY <1>1, <1>8, <1>11, <1>12, Stutters DEF WriteSteps
<1> QED BY <1>1, <1>8, <1>12, <1>13, <1>14 DEF IInv, RestOK

(* The sector that will hold the copy is erased.                           *)
LEMMA EraseStep ==
  ASSUME IInv, EraseOther
  PROVE  IInv' /\ Abstract
<1>1. /\ op.step = "erase" /\ Goto("dedupe") /\ res' = res /\ kept' = kept
      /\ SectorSet(sect', sect, op.to, Erased)
  BY DEF EraseOther, SectorSet
<1>2. /\ OpOK' /\ op'.step = "dedupe" /\ op'.id = op.id /\ op'.val = op.val /\ op'.to = op.to
      /\ op'.seq = op.seq /\ op'.old = op.old /\ op'.chg = op.chg /\ op'.pos = op.pos
      /\ op \in WriteOp
  BY <1>1, GotoIs DEF IInv, WriteSteps
<1>3. Changing(sect, op) /\ op.pos = 0
  BY <1>1 DEF IInv, StepInv
<1>4. op.to \in Sector /\ op.old \in Sector /\ op.to # op.old
  BY <1>2, <1>3 DEF WriteOp, Sector, Changing
<1>5. /\ sect' \in Sectors /\ Layout(sect') /\ sect'[op.to] = Erased
      /\ sect'[op.old] = sect[op.old]
      /\ ValidSects(sect') = {op.old} /\ Keeps
  <2>1. op.to \notin ValidSects(sect)
    BY <1>3, <1>4 DEF Changing
  <2> QED BY <1>1, <1>3, <1>4, <2>1, ErasedIs, SectorLayout DEF IInv, Keeps, Changing
<1>6. StepInv(sect', op')
  BY <1>2, <1>3, <1>5, ErasedIs DEF StepInv, Changing
<1>7. Abstract
  BY <1>1, <1>2, <1>5, Stutters DEF WriteSteps
<1> QED BY <1>1, <1>2, <1>5, <1>6, <1>7 DEF IInv, RestOK

(* The duplicates of the old sector: deleting one changes nothing read.    *)
LEMMA DeleteIs ==
  ASSUME NEW e \in Seq(Entry), Packed(e), NEW n \in DOMAIN e, n < Newest(e, e[n].id)
  PROVE  LET f == [e EXCEPT ![n].st = "invalid"]
         IN  f \in Seq(Entry) /\ Packed(f) /\ \A j : Reads(f, j) = Reads(e, j)
<1> DEFINE f == [e EXCEPT ![n].st = "invalid"]
<1>1. Dropped(f, e, n)
  BY DroppedIs
<1> HIDE DEF f
<1>2. f \in Seq(Entry)
  BY <1>1 DEF Dropped
<1>3. \A j : Reads(f, j) = Reads(e, j)
  BY <1>1, <1>2, DropRead
<1>4. Packed(f)
  BY <1>1, <1>2, ChangePacked DEF Dropped
<1> QED BY <1>2, <1>3, <1>4 DEF f

(* There is one to delete.                                                 *)
LEMMA DuplicateIs ==
  ASSUME NEW e \in Seq(Entry), Duplicates(e) # {}
  PROVE  LET n == Max(Duplicates(e)) IN n \in DOMAIN e /\ n < Newest(e, e[n].id)
<1>1. Len(e) \in Nat /\ Duplicates(e) \in SUBSET (0..Len(e))
  BY DEF Duplicates
<1>2. Max(Duplicates(e)) \in Duplicates(e)
  BY <1>1, GreatestIs
<1> QED BY <1>2 DEF Duplicates

(* The step that deletes one.                                              *)
LEMMA DeleteStep ==
  ASSUME IInv, DeleteDuplicate
  PROVE  IInv' /\ Abstract
<1>1. /\ op.step = "dedupe" /\ op' = op /\ res' = res /\ kept' = kept
      /\ Duplicates(sect[op.old].idx) # {}
      /\ Changing(sect, op) /\ sect[op.to].idx = <<>> /\ op.pos = 0 /\ op \in WriteOp
      /\ sect \in Sectors /\ Layout(sect)
  BY DEF DeleteDuplicate, IInv, StepInv, OpOK, WriteSteps
<1>2. op.to \in Sector /\ op.old \in Sector /\ op.to # op.old
  BY <1>1 DEF WriteOp, Sector, Changing
<1>3. sect[op.old].idx \in Seq(Entry) /\ Packed(sect[op.old].idx)
  BY <1>1, <1>2 DEF Sectors, SectorRec, Layout
<1>4. PICK f \in Seq(Entry) : /\ IdxSet(sect', sect, op.old, f)
                              /\ Packed(f) /\ \A j : Reads(f, j) = Reads(sect[op.old].idx, j)
  <2> DEFINE e == sect[op.old].idx
             n == Max(Duplicates(e))
             f == [e EXCEPT ![n].st = "invalid"]
  <2>1. IdxSet(sect', sect, op.old, f)
    BY DEF DeleteDuplicate, IdxSet
  <2>2. f \in Seq(Entry) /\ Packed(f) /\ \A j : Reads(f, j) = Reads(e, j)
    <3> HIDE DEF e
    <3>1. n \in DOMAIN e /\ n < Newest(e, e[n].id)
      BY <1>1, <1>3, DuplicateIs DEF e
    <3> HIDE DEF n
    <3> QED BY <1>3, <3>1, DeleteIs DEF e
  <2> QED BY <2>1, <2>2
<1>5. /\ sect' \in Sectors /\ Layout(sect')
      /\ \A t \in Sector : /\ sect'[t].flag = sect[t].flag /\ sect'[t].seq = sect[t].seq
                           /\ t # op.old => sect'[t] = sect[t]
      /\ ValidSects(sect') = ValidSects(sect)
      /\ Keeps
  BY <1>1, <1>2, <1>4, IdxLayout DEF Keeps
<1>6. StepInv(sect', op')
  BY <1>1, <1>2, <1>5 DEF StepInv, Changing
<1>7. Abstract
  BY <1>1, <1>5, Stutters DEF WriteSteps
<1>8. OpOK'
  BY <1>1 DEF IInv, OpOK
<1> QED BY <1>1, <1>5, <1>6, <1>7, <1>8 DEF IInv, RestOK

(* Nothing is copied yet.                                                  *)
LEMMA CopyStart ==
  ASSUME IInv, op.step = "dedupe", Goto("copy"), sect' = sect, res' = res, kept' \in BOOLEAN
  PROVE  IInv' /\ Abstract
<1>1. /\ OpOK' /\ op'.step = "copy" /\ op'.id = op.id /\ op'.val = op.val /\ op'.to = op.to
      /\ op'.seq = op.seq /\ op'.old = op.old /\ op'.chg = op.chg /\ op'.pos = op.pos
      /\ op \in WriteOp
  BY GotoIs DEF IInv, WriteSteps
<1>2. Changing(sect, op) /\ op.pos = 0 /\ sect[op.to].idx = <<>> /\ sect \in Sectors
  BY DEF IInv, StepInv
<1>3. Copied(sect[op.old].idx, <<>>, op.id, 0)
  <2>1. sect[op.old].idx \in Seq(Entry)
    BY <1>1, <1>2 DEF WriteOp, Sectors, SectorRec
  <2>2. \A n \in DOMAIN sect[op.old].idx : ~(n <= 0)
    BY <2>1
  <2> QED BY <2>2, ErasedIs DEF Copied
<1>4. StepInv(sect', op')
  BY <1>1, <1>2, <1>3 DEF StepInv, Changing
<1>5. Abstract
  BY <1>1, Stutters DEF Keeps, WriteSteps
<1> QED BY <1>1, <1>4, <1>5 DEF IInv, RestOK

(* The duplicates are gone, or stay for want of a buffer.                  *)
LEMMA CopyStartStep ==
  ASSUME IInv, DedupeDone \/ NoBuffer
  PROVE  IInv' /\ Abstract
<1>1. kept' \in BOOLEAN
  BY DEF DedupeDone, NoBuffer, IInv, RestOK
<1> QED BY <1>1, CopyStart DEF DedupeDone, NoBuffer

(* The place of the next copy: not behind the item copied.                 *)
LEMMA CopyPlace ==
  ASSUME NEW e \in Seq(Entry), Packed(e), NEW f \in Seq(Entry), Packed(f), NEW i, NEW p,
         Copied(e, f, i, p), NEW n \in DOMAIN e, p < n
  PROVE  /\ NextOfs(f) \in 0..e[n].ofs
         /\ f # <<>> => NextOfs(f) = Up4(LastEntry(f).ofs + Total[LastEntry(f).id])
         /\ NextOfs(f) \in 0..Space
<1>1. e[n] \in Entry /\ e[n].ofs \in 0..Space /\ Space \in Nat
  <2>1. e[n] \in Entry
    OBVIOUS
  <2> QED BY <2>1, ItemsAssumption DEF Entry
<1>2. CASE f = <<>>
  BY <1>1, <1>2 DEF NextOfs
<1>3. CASE f # <<>>
  <2> DEFINE x == LastEntry(f)
  <2>1. Len(f) \in DOMAIN f /\ x \in Entry
    BY <1>3, EmptySeq DEF LastEntry
  <2>2. x.st = "valid" /\ x.hdr = "whole"
    BY <2>1 DEF Packed, Copied, LastEntry
  <2>3. p \in DOMAIN e /\ x.id = e[p].id /\ x.ofs <= e[p].ofs
    BY <1>3 DEF Copied
  <2>4. Up4(e[p].ofs + Total[e[p].id]) <= e[n].ofs
    BY <2>3 DEF Packed
  <2>5. NextOfs(f) = Up4(x.ofs + Total[x.id])
    BY <1>3, <2>2 DEF NextOfs, CrcFails
  <2>6. e[p] \in Entry
    BY <2>3
  <2> HIDE DEF x
  <2>7. x.ofs \in Nat /\ e[p].ofs \in Nat /\ Total[x.id] \in Nat
    BY <2>1, <2>6, EndIs
  <2>8. x.ofs + Total[x.id] \in Nat /\ e[p].ofs + Total[e[p].id] \in Nat
        /\ x.ofs + Total[x.id] <= e[p].ofs + Total[e[p].id]
    BY <2>3, <2>7
  <2>9. NextOfs(f) \in Nat /\ NextOfs(f) <= Up4(e[p].ofs + Total[e[p].id])
    BY <2>5, <2>8, Up4Is
  <2>10. Up4(e[p].ofs + Total[e[p].id]) \in Nat
    BY <2>6, EndIs
  <2> QED BY <1>1, <2>4, <2>5, <2>9, <2>10 DEF x
<1> QED BY <1>2, <1>3

(* One item more is copied.                                                *)
LEMMA CopiedMore ==
  ASSUME NEW e \in Seq(Entry), Packed(e), NEW f \in Seq(Entry), Packed(f), NEW i, NEW p \in Nat,
         Copied(e, f, i, p), NEW n \in DOMAIN e, p < n, n \in Live(e, i),
         \A k \in Live(e, i) : p < k => n <= k,
         NEW x \in Entry, x.st = "valid", x.id = e[n].id, x.val = e[n].val,
         x.ofs <= e[n].ofs
  PROVE  Copied(e, Append(f, x), i, n)
<1> DEFINE g == Append(f, x)
<1>1. e[n].st = "valid" /\ e[n].id # i /\ n \in Nat /\ DOMAIN e \in SUBSET Nat
  BY DEF Live
<1>2. /\ g \in Seq(Entry) /\ Len(g) = Len(f) + 1 /\ LastEntry(g) = x /\ g # <<>>
      /\ DOMAIN g = 1..Len(f) + 1 /\ DOMAIN f = 1..Len(f) /\ g[Len(f) + 1] = x
      /\ \A k \in DOMAIN f : g[k] = f[k]
      /\ \A j : (x.id = j => Reads(g, j) = x.val) /\ (x.id # j => Reads(g, j) = Reads(f, j))
  <2>1. ASSUME NEW j
        PROVE  (x.id = j => Reads(g, j) = x.val) /\ (x.id # j => Reads(g, j) = Reads(f, j))
    BY AppendRead
  <2>2. /\ g \in Seq(Entry) /\ Len(g) = Len(f) + 1 /\ LastEntry(g) = x /\ g # <<>>
        /\ DOMAIN g = 1..Len(f) + 1 /\ DOMAIN f = 1..Len(f) /\ g[Len(f) + 1] = x
        /\ \A k \in DOMAIN f : g[k] = f[k]
    <3>1. /\ g \in Seq(Entry) /\ Len(g) = Len(f) + 1 /\ g # <<>>
          /\ DOMAIN g = 1..Len(f) + 1 /\ DOMAIN f = 1..Len(f) /\ g[Len(f) + 1] = x
          /\ \A k \in DOMAIN f : g[k] = f[k]
      OBVIOUS
    <3> HIDE DEF g
    <3> QED BY <3>1 DEF LastEntry
  <2> QED BY <2>1, <2>2
<1> HIDE DEF g
<1>3. \A k \in DOMAIN g : g[k].st = "valid" /\ g[k].id # i
  BY <1>1, <1>2 DEF Copied
<1>4. ASSUME NEW j \in Ids \ {i}
      PROVE  \/ /\ Reads(g, j) = None
                /\ \A k \in DOMAIN e : k <= n => ~At(e, j, k)
             \/ \E m \in DOMAIN e :
                  /\ m <= n /\ At(e, j, m) /\ Reads(g, j) = e[m].val
                  /\ \A k \in DOMAIN e : m < k /\ k <= n => ~At(e, j, k)
  <2>1. CASE j = x.id
    <3>1. n <= n /\ At(e, j, n) /\ Reads(g, j) = e[n].val
      BY <1>1, <1>2, <2>1 DEF At
    <3>2. \A k \in DOMAIN e : n < k /\ k <= n => ~At(e, j, k)
      BY <1>1
    <3> QED BY <3>1, <3>2
  <2>2. CASE j # x.id
    <3>1. Reads(g, j) = Reads(f, j)
      BY <1>2, <2>2
    <3>2. \A k \in DOMAIN e : p < k /\ k <= n => ~At(e, j, k)
      <4> SUFFICES ASSUME NEW k \in DOMAIN e, p < k, k <= n, At(e, j, k) PROVE FALSE
        OBVIOUS
      <4>1. k \in Live(e, i)
        BY DEF Live, At
      <4>2. k = n
        BY <1>1, <4>1
      <4> QED BY <2>2, <4>2 DEF At
    <3>3. \A k \in DOMAIN e : k <= n => k <= p \/ p < k
      BY <1>1
    <3>4. CASE Reads(f, j) = None /\ \A k \in DOMAIN e : k <= p => ~At(e, j, k)
      BY <3>1, <3>2, <3>3, <3>4
    <3>5. CASE \E m \in DOMAIN e :
                 /\ m <= p /\ At(e, j, m) /\ Reads(f, j) = e[m].val
                 /\ \A k \in DOMAIN e : m < k /\ k <= p => ~At(e, j, k)
      <4>1. PICK m \in DOMAIN e :
              /\ m <= p /\ At(e, j, m) /\ Reads(f, j) = e[m].val
              /\ \A k \in DOMAIN e : m < k /\ k <= p => ~At(e, j, k)
        BY <3>5
      <4>2. m <= n
        BY <1>1, <4>1
      <4>3. \A k \in DOMAIN e : m < k /\ k <= n => ~At(e, j, k)
        BY <3>2, <3>3, <4>1
      <4> QED BY <3>1, <4>1, <4>2, <4>3
    <3> QED BY <3>4, <3>5 DEF Copied
  <2> QED BY <2>1, <2>2
<1>5. Copied(e, g, i, n)
  BY <1>2, <1>3, <1>4 DEF Copied
<1> QED BY <1>5 DEF g

(* When nothing is left to copy, the copy says what the index says.        *)
LEMMA CopiedAll ==
  ASSUME NEW e \in Seq(Entry), NEW f \in Seq(Entry), NEW i, NEW p \in Nat,
         Copied(e, f, i, p), \A k \in Live(e, i) : ~(p < k)
  PROVE  Newest(f, i) = 0 /\ \A j \in Ids \ {i} : Reads(f, j) = Reads(e, j)
<1>1. Newest(f, i) = 0
  BY NewestNone DEF Copied, At
<1>2. ASSUME NEW j \in Ids \ {i} PROVE Reads(f, j) = Reads(e, j)
  <2>1. \A k \in DOMAIN e : At(e, j, k) => k <= p
    <3> SUFFICES ASSUME NEW k \in DOMAIN e, At(e, j, k) PROVE k <= p
      OBVIOUS
    <3>1. k \in Live(e, i) /\ k \in Nat
      BY DEF Live, At
    <3> QED BY <3>1
  <2>2. CASE Reads(f, j) = None /\ \A k \in DOMAIN e : k <= p => ~At(e, j, k)
    <3>1. Newest(e, j) = 0
      BY <2>1, <2>2, NewestNone
    <3> QED BY <2>2, <3>1 DEF Reads
  <2>3. CASE \E m \in DOMAIN e :
               /\ m <= p /\ At(e, j, m) /\ Reads(f, j) = e[m].val
               /\ \A k \in DOMAIN e : m < k /\ k <= p => ~At(e, j, k)
    <3>1. PICK m \in DOMAIN e :
            /\ m <= p /\ At(e, j, m) /\ Reads(f, j) = e[m].val
            /\ \A k \in DOMAIN e : m < k /\ k <= p => ~At(e, j, k)
      BY <2>3
    <3>2. \A k \in DOMAIN e : m < k => ~At(e, j, k)
      BY <2>1, <3>1
    <3>3. Newest(e, j) = m /\ m # 0
      BY <3>1, <3>2, NewestAt
    <3> QED BY <3>1, <3>3 DEF Reads
  <2> QED BY <2>2, <2>3 DEF Copied
<1> QED BY <1>1, <1>2

(* The next item is copied.                                                *)
LEMMA CopyIs ==
  ASSUME NEW e \in Seq(Entry), Packed(e), NEW f \in Seq(Entry), Packed(f), NEW i, NEW p \in Nat,
         Copied(e, f, i, p), NEW n \in Live(e, i), p < n, \A k \in Live(e, i) : p < k => n <= k
  PROVE  LET g == Append(f, [e[n] EXCEPT !.ofs = NextOfs(f)])
         IN  g \in Seq(Entry) /\ Packed(g) /\ Copied(e, g, i, n)
<1> DEFINE x == [e[n] EXCEPT !.ofs = NextOfs(f)]
<1>1. n \in DOMAIN e /\ e[n] \in Entry /\ e[n].st = "valid"
  BY DEF Live
<1>2. /\ NextOfs(f) \in 0..e[n].ofs /\ NextOfs(f) \in 0..Space
      /\ f # <<>> => NextOfs(f) = Up4(LastEntry(f).ofs + Total[LastEntry(f).id])
  BY <1>1, CopyPlace
<1>3. /\ x \in Entry /\ x.st = "valid" /\ x.id = e[n].id /\ x.val = e[n].val
      /\ x.hdr = e[n].hdr /\ x.ofs = NextOfs(f)
  BY <1>1, <1>2 DEF Entry
<1>4. x.hdr = "whole" /\ x.val \in Vals
  BY <1>1, <1>3 DEF Packed
<1>5. x.ofs <= e[n].ofs
  BY <1>2, <1>3
<1>6. f # <<>> => Up4(LastEntry(f).ofs + Total[LastEntry(f).id]) <= x.ofs
  BY <1>2, <1>3
<1> HIDE DEF x
<1>7. Copied(e, Append(f, x), i, n)
  BY <1>1, <1>3, <1>5, CopiedMore
<1>8. Packed(Append(f, x))
  BY <1>3, <1>4, <1>6, AppendPacked
<1>9. Append(f, x) \in Seq(Entry)
  BY <1>3
<1> QED BY <1>7, <1>8, <1>9 DEF x

(* The step that copies it.                                                *)
LEMMA CopyStep ==
  ASSUME IInv, CopyItem
  PROVE  IInv' /\ Abstract
<1> DEFINE e == sect[op.old].idx
           f == sect[op.to].idx
           n == Min(ToCopy)
           g == Append(f, [e[n] EXCEPT !.ofs = NextOfs(f)])
<1>1. /\ op.step = "copy" /\ res' = res /\ kept' = kept /\ ToCopy # {}
      /\ Changing(sect, op) /\ Copied(e, f, op.id, op.pos) /\ op \in WriteOp
      /\ sect \in Sectors /\ Layout(sect)
  BY DEF CopyItem, IInv, StepInv, OpOK, WriteSteps
<1>2. /\ op.to \in Sector /\ op.old \in Sector /\ op.to # op.old /\ op.pos \in Nat
      /\ op.to \notin ValidSects(sect)
  BY <1>1 DEF WriteOp, Sector, Changing
<1>3. e \in Seq(Entry) /\ Packed(e) /\ f \in Seq(Entry) /\ Packed(f)
  BY <1>1, <1>2 DEF Sectors, SectorRec, Layout
<1>4. IdxSet(sect', sect, op.to, g) /\ op' = [op EXCEPT !.pos = n]
  BY DEF CopyItem, IdxSet
<1>5. n \in Nat /\ n \in Live(e, op.id) /\ op.pos < n
      /\ \A k \in Live(e, op.id) : op.pos < k => n <= k
  <2>1. \A k : k \in ToCopy <=> k \in Live(e, op.id) /\ op.pos < k
    <3>1. \A k \in Live(e, op.id) : k \in Nat
      BY <1>3 DEF Live
    <3> QED BY <1>2, <3>1 DEF ToCopy
  <2>2. ToCopy \in SUBSET Nat
    <3>1. Live(e, op.id) \in SUBSET Nat
      BY <1>3 DEF Live
    <3> QED BY <2>1, <3>1
  <2>3. n \in ToCopy /\ \A k \in ToCopy : n <= k
    BY <1>1, <2>2, LeastIs
  <2> QED BY <2>1, <2>2, <2>3
<1> HIDE DEF n, e, f
<1>6. g \in Seq(Entry) /\ Packed(g) /\ Copied(e, g, op.id, n)
  BY <1>1, <1>2, <1>3, <1>5, CopyIs
<1> HIDE DEF g
<1>7. /\ sect' \in Sectors /\ Layout(sect') /\ sect'[op.to].idx = g
      /\ sect'[op.old] = sect[op.old]
      /\ ValidSects(sect') = ValidSects(sect)
      /\ Keeps
  BY <1>1, <1>2, <1>4, <1>6, IdxLayout DEF Keeps
<1>8. /\ op' \in WriteOp /\ op'.step = "copy" /\ op'.id = op.id /\ op'.val = op.val
      /\ op'.to = op.to /\ op'.seq = op.seq /\ op'.old = op.old /\ op'.chg = op.chg /\ op'.pos = n
  BY <1>1, <1>4, <1>5 DEF WriteOp
<1>9. StepInv(sect', op')
  BY <1>1, <1>6, <1>7, <1>8 DEF StepInv, Changing, e
<1>10. OpOK'
  BY <1>8 DEF OpOK, WriteSteps
<1>11. Abstract
  BY <1>1, <1>7, <1>8, Stutters DEF WriteSteps
<1> QED BY <1>1, <1>7, <1>9, <1>10, <1>11 DEF IInv, RestOK

(* The copy is complete: the sector filled says what the old one says.     *)
LEMMA CopyDoneStep ==
  ASSUME IInv, CopyDone
  PROVE  IInv' /\ Abstract
<1> DEFINE e == sect[op.old].idx
           f == sect[op.to].idx
<1>1. /\ op.step = "copy" /\ kept' = kept /\ sect' = sect /\ ToCopy = {}
      /\ Changing(sect, op) /\ Copied(e, f, op.id, op.pos) /\ op \in WriteOp
      /\ sect \in Sectors /\ Layout(sect)
  BY DEF CopyDone, IInv, StepInv, OpOK, WriteSteps
<1>2. /\ op.to \in Sector /\ op.old \in Sector /\ op.pos \in Nat
      /\ e \in Seq(Entry) /\ f \in Seq(Entry)
  BY <1>1 DEF WriteOp, Sectors, SectorRec
<1>3. \A k \in Live(e, op.id) : ~(op.pos < k)
  <2>1. \A k \in Live(e, op.id) : k \in Nat
    BY <1>2 DEF Live
  <2> QED BY <1>1, <1>2, <2>1 DEF ToCopy
<1>4. Newest(f, op.id) = 0 /\ \A j \in Ids \ {op.id} : Reads(f, j) = Reads(e, j)
  <2> HIDE DEF e, f
  <2> QED BY <1>1, <1>2, <1>3, CopiedAll
<1>5. \A j : nv_flashReadNew(sect, j) = Reads(e, j)
  <2>1. ValidSects(sect) # {} /\ nv_sector_read(sect) = op.old
    BY <1>1, ReadIn DEF Changing
  <2> QED BY <1>1, <2>1, FlashRead
<1>6. Filling(sect, op)
  BY <1>1, <1>4, <1>5 DEF Filling, Building
<1> HIDE DEF e, f
<1>7. Keeps
  BY <1>1 DEF Keeps
<1>8. CASE Goto("index") /\ res' = res
  <2>1. /\ OpOK' /\ op'.step = "index" /\ op'.id = op.id /\ op'.val = op.val /\ op'.to = op.to
        /\ op'.seq = op.seq /\ op'.old = op.old /\ op'.chg = op.chg
    BY <1>1, <1>8, GotoIs DEF IInv, WriteSteps
  <2>2. StepInv(sect', op')
    BY <1>1, <1>6, <2>1 DEF StepInv, Filling, Building, Changing, Formatting, InPlace
  <2>3. Abstract
    BY <1>1, <1>7, <1>8, <2>1, Stutters DEF WriteSteps
  <2> QED BY <1>1, <1>8, <2>1, <2>2, <2>3 DEF IInv, RestOK
<1>9. CASE Return("notEnough")
  <2>1. op' = NoOp /\ res' = "notEnough"
    BY <1>9 DEF Return
  <2>2. Abstract
    BY <1>1, <1>7, <2>1, EndsError DEF WriteSteps
  <2> QED BY <1>1, <2>1, <2>2, ReturnIs DEF IInv, RestOK
<1> QED BY <1>8, <1>9 DEF CopyDone

(* An entry that is not valid is added to the sector being filled, or      *)
(* written over in it: nothing changes of what it says.                    *)
LEMMA FillStep ==
  ASSUME NEW sc \in Sectors, Layout(sc), NEW o \in WriteOp, Filling(sc, o),
         NEW g \in Seq(Entry), Packed(g),
         \A j : Newest(g, j) = Newest(sc[o.to].idx, j) /\ Reads(g, j) = Reads(sc[o.to].idx, j),
         NEW sd, IdxSet(sd, sc, o.to, g)
  PROVE  /\ sd \in Sectors /\ Layout(sd) /\ sd[o.to].idx = g /\ Filling(sd, o)
         /\ \A j : nv_flashReadNew(sd, j) = nv_flashReadNew(sc, j)
<1>1. o.to \in Sector /\ o.old \in Sector
  BY DEF WriteOp
<1>2. /\ sd \in Sectors /\ Layout(sd) /\ sd[o.to].idx = g
      /\ \A t \in Sector : /\ sd[t].flag = sc[t].flag /\ sd[t].seq = sc[t].seq
                           /\ t # o.to => sd[t] = sc[t]
      /\ ValidSects(sd) = ValidSects(sc)
      /\ \A j : nv_flashReadNew(sd, j) = nv_flashReadNew(sc, j)
  BY <1>1, IdxLayout
<1>3. Filling(sd, o)
  BY <1>1, <1>2 DEF Filling, Building, Changing, Formatting, InPlace
<1> QED BY <1>2, <1>3

(* The sector being filled depends on these fields of the call only.       *)
LEMMA FillingFields ==
  ASSUME NEW sc, NEW o, NEW p, p.id = o.id, p.to = o.to, p.seq = o.seq, p.old = o.old,
         p.chg = o.chg
  PROVE  /\ Filling(sc, o) => Filling(sc, p)
         /\ Building(sc, o) => Building(sc, p)
         /\ InPlace(sc, o) => InPlace(sc, p)
BY DEF Filling, Building, Changing, Formatting, InPlace

(* The new entry.                                                          *)
LEMMA NewEntryIs ==
  ASSUME NEW e \in Seq(Entry), Packed(e), NEW i \in Ids, NEW st \in {"op", "torn"},
         NextOfs(e) >= 0, Fits(NextOfs(e), Total[i])
  PROVE  LET x == [st |-> st, id |-> i, ofs |-> NextOfs(e), hdr |-> "none", val |-> None]
             g == Append(e, x)
         IN  /\ x \in Entry /\ g \in Seq(Entry) /\ Packed(g) /\ LastEntry(g) = x /\ g # <<>>
             /\ \A j : Newest(g, j) = Newest(e, j) /\ Reads(g, j) = Reads(e, j)
<1> DEFINE x == [st |-> st, id |-> i, ofs |-> NextOfs(e), hdr |-> "none", val |-> None]
           g == Append(e, x)
<1>1. NextOfs(e) \in Nat /\ (e # <<>> => NextOfs(e) = Up4(LastEntry(e).ofs + Total[LastEntry(e).id]))
  <2>1. CASE e = <<>>
    BY <2>1 DEF NextOfs
  <2>2. CASE e # <<>>
    <3>1. LastEntry(e) \in Entry
      BY <2>2, EmptySeq DEF LastEntry
    <3>2. NextOfs(e) = Up4(LastEntry(e).ofs + Total[LastEntry(e).id])
      BY <2>2 DEF NextOfs
    <3> QED BY <3>1, <3>2, EndIs
  <2> QED BY <2>1, <2>2
<1>2. NextOfs(e) \in 0..Space
  BY <1>1, ItemsAssumption DEF Fits
<1>3. x \in Entry
  BY <1>2 DEF Entry
<1>4. x.st # "valid" /\ x.ofs = NextOfs(e)
  OBVIOUS
<1> HIDE DEF x
<1>5. /\ g \in Seq(Entry) /\ LastEntry(g) = x /\ g # <<>>
      /\ \A j : Newest(g, j) = Newest(e, j) /\ Reads(g, j) = Reads(e, j)
  BY <1>3, <1>4, AppendRead
<1>6. e # <<>> => Up4(LastEntry(e).ofs + Total[LastEntry(e).id]) <= x.ofs
  BY <1>1, <1>4
<1>7. Packed(g)
  BY <1>3, <1>4, <1>6, AppendPacked
<1> QED BY <1>3, <1>5, <1>7 DEF x

(* The step that appends it, whether it is programmed whole or not.        *)
LEMMA AppendStep ==
  ASSUME IInv, op.step = "index", CanAppend, NEW st \in {"op", "torn"}, sect' = AppendEntry(st)
  PROVE  /\ sect' \in Sectors /\ Layout(sect') /\ Filling(sect', op) /\ Keeps
         /\ LET g == sect'[op.to].idx
            IN  /\ g # <<>> /\ LastEntry(g).st = st /\ LastEntry(g).id = op.id
                /\ Newest(g, op.id) = Newest(sect[op.to].idx, op.id)
<1> DEFINE e == sect[op.to].idx
           x == [st |-> st, id |-> op.id, ofs |-> NextOfs(e), hdr |-> "none", val |-> None]
           g == Append(e, x)
<1>1. op \in WriteOp /\ sect \in Sectors /\ Layout(sect) /\ Filling(sect, op)
  BY DEF IInv, StepInv, OpOK, WriteSteps
<1>2. op.to \in Sector /\ op.id \in Ids /\ e \in Seq(Entry) /\ Packed(e)
  BY <1>1 DEF WriteOp, Sectors, SectorRec, Layout
<1>3. NextOfs(e) >= 0 /\ Fits(NextOfs(e), Total[op.id])
  BY DEF CanAppend
<1>4. IdxSet(sect', sect, op.to, g)
  BY DEF AppendEntry, NewEntry, IdxSet
<1>5. x.st = st /\ x.id = op.id
  OBVIOUS
<1> HIDE DEF e
<1>6. /\ g \in Seq(Entry) /\ Packed(g) /\ LastEntry(g) = x /\ g # <<>>
      /\ \A j : Newest(g, j) = Newest(e, j) /\ Reads(g, j) = Reads(e, j)
  BY <1>2, <1>3, NewEntryIs
<1> HIDE DEF g, x
<1>7. /\ sect' \in Sectors /\ Layout(sect') /\ sect'[op.to].idx = g /\ Filling(sect', op)
      /\ Keeps
  BY <1>1, <1>4, <1>6, FillStep DEF Keeps, e
<1> QED BY <1>5, <1>6, <1>7 DEF e

(* The step of a write that was not interrupted.                           *)
LEMMA IndexStep ==
  ASSUME IInv, WriteIndex
  PROVE  IInv' /\ Abstract
<1>1. /\ op.step = "index" /\ CanAppend /\ sect' = AppendEntry("op")
      /\ op' = [op EXCEPT !.step = "item", !.del = Newest(sect[op.to].idx, op.id)]
      /\ res' = res /\ kept' = kept
  BY DEF WriteIndex
<1>2. /\ sect' \in Sectors /\ Layout(sect') /\ Filling(sect', op) /\ Keeps
      /\ sect'[op.to].idx # <<>> /\ LastEntry(sect'[op.to].idx).st = "op"
      /\ LastEntry(sect'[op.to].idx).id = op.id
      /\ Newest(sect'[op.to].idx, op.id) = Newest(sect[op.to].idx, op.id)
  BY <1>1, AppendStep
<1>3. op \in WriteOp /\ sect[op.to].idx \in Seq(Entry)
  BY <1>1 DEF IInv, OpOK, WriteSteps, WriteOp, Sectors, SectorRec
<1>4. Newest(sect[op.to].idx, op.id) \in Nat
  BY <1>3, NewestIs
<1>5. /\ op' \in WriteOp /\ op'.step = "item" /\ op'.id = op.id /\ op'.val = op.val
      /\ op'.to = op.to /\ op'.seq = op.seq /\ op'.old = op.old /\ op'.chg = op.chg
      /\ op'.del = Newest(sect[op.to].idx, op.id)
  BY <1>1, <1>3, <1>4 DEF WriteOp, WriteSteps
<1>6. OpOK'
  BY <1>5 DEF OpOK, WriteSteps
<1>7. Filling(sect', op')
  BY <1>2, <1>5, FillingFields
<1>8. StepInv(sect', op')
  BY <1>2, <1>5, <1>7 DEF StepInv, Appended
<1>9. Abstract
  BY <1>1, <1>2, <1>5, Stutters DEF WriteSteps
<1> QED BY <1>1, <1>2, <1>6, <1>8, <1>9 DEF IInv, RestOK

(* A write that is refused has changed nothing.                            *)
LEMMA RefuseStep ==
  ASSUME IInv, RefuseIndex
  PROVE  IInv' /\ Abstract
<1>1. /\ op.step = "index" /\ op' = NoOp /\ res' = "checkError" /\ sect' = sect /\ kept' = kept
  BY DEF RefuseIndex, Return
<1>2. Abstract
  BY <1>1, EndsError DEF Keeps, WriteSteps
<1> QED BY <1>1, <1>2, ReturnIs DEF IInv, RestOK

(* The last entry is written over.                                         *)
LEMMA SetLastIs ==
  ASSUME NEW e \in Seq(Entry), Packed(e), e # <<>>, LastEntry(e).st # "valid",
         NEW x \in Entry, x.id = LastEntry(e).id, x.ofs = LastEntry(e).ofs,
         x.st = "valid" => x.hdr = "whole" /\ x.val \in Vals,
         NEW g, LastSet(g, e, x)
  PROVE  /\ g \in Seq(Entry) /\ Packed(g) /\ Len(g) = Len(e) /\ LastEntry(g) = x /\ g # <<>>
         /\ Len(e) \in Nat \ {0} /\ DOMAIN e = 1..Len(e)
         /\ \A n \in DOMAIN e : n # Len(e) => g[n] = e[n]
<1>1. x.ofs = e[Len(e)].ofs /\ x.id = e[Len(e)].id
  BY DEF LastEntry
<1>2. /\ g \in Seq(Entry) /\ Len(g) = Len(e) /\ LastEntry(g) = x /\ g # <<>>
      /\ DOMAIN g = 1..Len(e) /\ DOMAIN e = 1..Len(e) /\ Len(e) \in Nat \ {0}
      /\ g[Len(e)] = x
      /\ \A n \in DOMAIN e : n # Len(e) => g[n] = e[n]
  BY LastSetIs
<1>3. PICK k \in DOMAIN e : k = Len(e)
  BY <1>2
<1>4. /\ g[k].ofs = e[k].ofs /\ g[k].id = e[k].id
      /\ g[k].st = "valid" => g[k].hdr = "whole" /\ g[k].val \in Vals
      /\ DOMAIN g = DOMAIN e /\ \A n \in DOMAIN e : n # k => g[n] = e[n]
  BY <1>1, <1>2, <1>3
<1>5. Packed(g)
  BY <1>2, <1>3, <1>4, ChangePacked
<1> QED BY <1>2, <1>5

(* The step that does, while the entry is not valid.                       *)
LEMMA RewriteStep ==
  ASSUME IInv, op.step = "item", NEW x \in Entry, x.st = "op", x.id = op.id,
         x.ofs = LastEntry(sect[op.to].idx).ofs, sect' = SetLast(x)
  PROVE  /\ sect' \in Sectors /\ Layout(sect') /\ Filling(sect', op) /\ Keeps
         /\ Appended(sect'[op.to].idx, op) /\ LastEntry(sect'[op.to].idx) = x
<1> DEFINE e == sect[op.to].idx
           g == [e EXCEPT ![Len(e)] = x]
<1>1. /\ op \in WriteOp /\ sect \in Sectors /\ Layout(sect) /\ Filling(sect, op)
      /\ Appended(e, op)
  BY DEF IInv, StepInv, OpOK, WriteSteps
<1>2. IdxSet(sect', sect, op.to, g) /\ LastSet(g, e, x)
  BY DEF SetLast, IdxSet, LastSet
<1> HIDE DEF g
<1>6. /\ e \in Seq(Entry) /\ Packed(e) /\ e # <<>> /\ LastEntry(e).st # "valid"
      /\ x.id = LastEntry(e).id /\ x.ofs = LastEntry(e).ofs
  BY <1>1 DEF WriteOp, Sectors, SectorRec, Layout, Appended
<1> HIDE DEF e
<1>7. g \in Seq(Entry) /\ Packed(g) /\ LastEntry(g) = x /\ g # <<>>
  BY <1>2, <1>6, SetLastIs
<1>8. \A j : Newest(g, j) = Newest(e, j) /\ Reads(g, j) = Reads(e, j)
  <2> SUFFICES ASSUME NEW j PROVE Newest(g, j) = Newest(e, j) /\ Reads(g, j) = Reads(e, j)
    OBVIOUS
  <2> QED BY <1>2, <1>6, LastRead
<1> USE DEF e
<1>3. /\ g \in Seq(Entry) /\ Packed(g) /\ LastEntry(g) = x /\ g # <<>>
      /\ \A j : Newest(g, j) = Newest(e, j) /\ Reads(g, j) = Reads(e, j)
  BY <1>7, <1>8
<1>4. /\ sect' \in Sectors /\ Layout(sect') /\ sect'[op.to].idx = g /\ Filling(sect', op)
      /\ Keeps
  BY <1>1, <1>2, <1>3, FillStep DEF Keeps
<1>5. Appended(g, op)
  BY <1>1, <1>3 DEF Appended
<1> QED BY <1>3, <1>4, <1>5

(* The item is programmed, its entry not valid yet.                        *)
LEMMA ItemStep ==
  ASSUME IInv, WriteItem
  PROVE  IInv' /\ Abstract
<1> DEFINE x == [LastEntry(sect[op.to].idx) EXCEPT !.hdr = "whole", !.val = op.val]
<1>1. /\ op.step = "item" /\ sect' = SetLast(x) /\ Goto("state") /\ res' = res /\ kept' = kept
  BY DEF WriteItem
<1>2. /\ op \in WriteOp /\ sect \in Sectors /\ Appended(sect[op.to].idx, op)
  BY <1>1 DEF IInv, StepInv, OpOK, WriteSteps
<1>3. LastEntry(sect[op.to].idx) \in Entry
  <2>1. sect[op.to].idx \in Seq(Entry) /\ sect[op.to].idx # <<>>
    BY <1>2 DEF WriteOp, Sectors, SectorRec, Appended
  <2> QED BY <2>1, EmptySeq DEF LastEntry
<1>4. /\ x \in Entry /\ x.st = "op" /\ x.id = op.id /\ x.ofs = LastEntry(sect[op.to].idx).ofs
      /\ x.hdr = "whole" /\ x.val = op.val
  BY <1>2, <1>3 DEF Appended, Entry, WriteOp
<1> HIDE DEF x
<1>5. /\ sect' \in Sectors /\ Layout(sect') /\ Filling(sect', op) /\ Keeps
      /\ Appended(sect'[op.to].idx, op) /\ LastEntry(sect'[op.to].idx) = x
  BY <1>1, <1>4, RewriteStep
<1>6. /\ OpOK' /\ op'.step = "state" /\ op'.id = op.id /\ op'.val = op.val /\ op'.to = op.to
      /\ op'.seq = op.seq /\ op'.old = op.old /\ op'.chg = op.chg /\ op'.del = op.del
  BY <1>1, GotoIs DEF IInv, WriteSteps
<1>7. Filling(sect', op')
  BY <1>5, <1>6, FillingFields
<1>8. StepInv(sect', op')
  BY <1>4, <1>5, <1>6, <1>7 DEF StepInv, Appended
<1>9. Abstract
  BY <1>1, <1>5, <1>6, Stutters DEF WriteSteps
<1> QED BY <1>1, <1>5, <1>6, <1>8, <1>9 DEF IInv, RestOK

(* The entry becomes valid.                                                *)
LEMMA StateStep ==
  ASSUME IInv, WriteState
  PROVE  IInv' /\ Abstract
<1> DEFINE e == sect[op.to].idx
           x == [LastEntry(e) EXCEPT !.st = "valid"]
           g == [e EXCEPT ![Len(e)] = x]
<1>1. /\ op.step = "state" /\ op \in WriteOp /\ sect \in Sectors /\ Layout(sect)
      /\ Filling(sect, op) /\ Appended(e, op) /\ kept' = kept
      /\ LastEntry(e).hdr = "whole" /\ LastEntry(e).val = op.val
  BY DEF WriteState, IInv, StepInv, OpOK, WriteSteps
<1>2. op.to \in Sector /\ op.old \in Sector /\ op.val \in Vals /\ e \in Seq(Entry)
  BY <1>1 DEF WriteOp, Sectors, SectorRec
<1>3. LastEntry(e) \in Entry
  BY <1>1, <1>2, EmptySeq DEF LastEntry, Appended
<1>4. /\ x \in Entry /\ x.st = "valid" /\ x.id = op.id /\ x.ofs = LastEntry(e).ofs
      /\ x.hdr = "whole" /\ x.val = op.val
  BY <1>1, <1>3 DEF Appended, Entry
<1>5. IdxSet(sect', sect, op.to, g) /\ LastSet(g, e, x)
  BY DEF WriteState, SetLast, IdxSet, LastSet
<1> HIDE DEF x, g
<1>5a. /\ Packed(e) /\ e # <<>> /\ LastEntry(e).st # "valid"
       /\ x.id = LastEntry(e).id /\ x.ofs = LastEntry(e).ofs
  BY <1>1, <1>2, <1>4 DEF Layout, Appended
<1> HIDE DEF e
<1>5b. /\ g \in Seq(Entry) /\ Packed(g) /\ Len(g) = Len(e) /\ LastEntry(g) = x
       /\ Len(e) \in Nat \ {0} /\ DOMAIN e = 1..Len(e)
       /\ \A n \in DOMAIN e : n # Len(e) => g[n] = e[n]
  BY <1>2, <1>4, <1>5, <1>5a, SetLastIs
<1>5c. Reads(g, op.id) = op.val
  BY <1>2, <1>4, <1>5, <1>5a, LastRead
<1>5d. \A j : j # op.id => Reads(g, j) = Reads(e, j)
  <2> SUFFICES ASSUME NEW j, j # op.id PROVE Reads(g, j) = Reads(e, j)
    OBVIOUS
  <2> QED BY <1>2, <1>4, <1>5, <1>5a, LastRead
<1> USE DEF e
<1>6. /\ g \in Seq(Entry) /\ Packed(g) /\ Len(g) = Len(e) /\ LastEntry(g) = x
      /\ Len(e) \in Nat \ {0} /\ DOMAIN e = 1..Len(e)
      /\ \A n \in DOMAIN e : n # Len(e) => g[n] = e[n]
      /\ Reads(g, op.id) = op.val
      /\ \A j : j # op.id => Reads(g, j) = Reads(e, j)
  BY <1>5b, <1>5c, <1>5d
<1>7. /\ sect' \in Sectors /\ Layout(sect') /\ sect'[op.to].idx = g
      /\ \A t \in Sector : sect'[t].flag = sect[t].flag /\ sect'[t].seq = sect[t].seq
      /\ ValidSects(sect') = ValidSects(sect)
      /\ op.to \notin ValidSects(sect) => Keeps
      /\ \A j : ValidSects(sect) = {op.to} =>
                  /\ nv_flashReadNew(sect', j) = Reads(g, j)
                  /\ nv_flashReadNew(sect, j) = Reads(e, j)
  BY <1>1, <1>2, <1>5, <1>6, IdxLayout DEF Keeps
<1>8. HasHeader <=> op.to \in ValidSects(sect)
  BY <1>2 DEF HasHeader, ValidSects
<1>9. op.del = Newest(e, op.id) /\ op.del \in Nat
  BY <1>1 DEF Appended, WriteOp
<1> HIDE DEF e
<1>10. CASE InPlace(sect, op)
  <2>1. ValidSects(sect) = {op.to} /\ HasHeader
    BY <1>8, <1>10 DEF InPlace
  <2>2. Stored
    BY <1>6, <1>7, <2>1 DEF Stored
  <2>3. CASE op.del # 0 /\ Goto("dup") /\ res' = res
    <3>1. /\ OpOK' /\ op'.step = "dup" /\ op'.id = op.id /\ op'.val = op.val /\ op'.to = op.to
          /\ op'.seq = op.seq /\ op'.old = op.old /\ op'.chg = op.chg /\ op'.del = op.del
      BY <1>1, <2>3, GotoIs DEF IInv, WriteSteps
    <3>2. op.del \in DOMAIN e /\ At(e, op.id, op.del)
      BY <1>2, <1>9, <2>3, NewestIs DEF e
    <3>3. op.del # Len(e)
      BY <1>1, <3>2 DEF At, Appended, LastEntry, e
    <3>4. At(g, op.id, op.del) /\ At(g, op.id, Len(g)) /\ op.del \in 1..(Len(g) - 1)
      <4>1. g[op.del] = e[op.del] /\ g[Len(g)] = x
        BY <1>6, <3>2, <3>3 DEF LastEntry
      <4>2. op.del \in 1..(Len(g) - 1)
        BY <1>6, <3>2, <3>3
      <4> QED BY <1>4, <3>2, <4>1, <4>2 DEF At
    <3>5. Replaced(g, op')
      BY <1>4, <1>6, <3>1, <3>4 DEF Replaced
    <3>6. InPlace(sect', op')
      BY <1>7, <1>10, <3>1 DEF InPlace
    <3>7. StepInv(sect', op')
      BY <1>7, <3>1, <3>5, <3>6 DEF StepInv
    <3>8. Abstract
      BY <1>1, <2>2, <2>3, <3>1, Commits DEF WriteSteps
    <3> QED BY <1>1, <1>7, <2>3, <3>1, <3>7, <3>8 DEF IInv, RestOK
  <2>4. CASE Return("ok")
    <3>1. op' = NoOp /\ res' = "ok"
      BY <2>4 DEF Return
    <3>2. Abstract
      BY <1>1, <2>2, <3>1, EndsOk DEF WriteSteps
    <3> QED BY <1>1, <1>7, <3>1, <3>2, ReturnIs DEF IInv, RestOK
  <2> QED BY <2>1, <2>3, <2>4 DEF WriteState
<1>11. CASE Building(sect, op) /\ Newest(e, op.id) = 0
  <2>1. op.to \notin ValidSects(sect)
    BY <1>2, <1>11 DEF Building, Changing, Formatting, Sector
  <2>2. op.del = 0 /\ ~HasHeader
    BY <1>8, <1>9, <1>11, <2>1
  <2>3. Goto("header") /\ res' = res
    BY <2>2 DEF WriteState
  <2>4. /\ OpOK' /\ op'.step = "header" /\ op'.id = op.id /\ op'.val = op.val /\ op'.to = op.to
        /\ op'.seq = op.seq /\ op'.old = op.old /\ op'.chg = op.chg
    BY <1>1, <2>3, GotoIs DEF IInv, WriteSteps
  <2>5. Keeps
    BY <1>7, <2>1
  <2>6. Building(sect', op)
    <3>1. \A j \in Ids \ {op.id} : Reads(g, j) = nv_flashReadNew(sect', j)
      BY <1>6, <1>11, <2>5 DEF Building, Keeps, e
    <3> QED BY <1>2, <1>7, <1>11, <3>1 DEF Building, Changing, Formatting
  <2>7. Building(sect', op')
    BY <2>4, <2>6, FillingFields
  <2>8. StepInv(sect', op')
    BY <1>6, <1>7, <2>4, <2>7 DEF StepInv
  <2>9. Abstract
    BY <1>1, <2>3, <2>4, <2>5, Stutters DEF WriteSteps
  <2> QED BY <1>1, <1>7, <2>3, <2>4, <2>8, <2>9 DEF IInv, RestOK
<1> QED BY <1>1, <1>10, <1>11 DEF Filling, e

(* The entry replaced is deleted.                                          *)
LEMMA DupStep ==
  ASSUME IInv, DeleteOld
  PROVE  IInv' /\ Abstract
<1> DEFINE e == sect[op.to].idx
           f == [e EXCEPT ![op.del].st = "invalid"]
<1>1. /\ op.step = "dup" /\ op \in WriteOp /\ sect \in Sectors /\ Layout(sect)
      /\ ValidSects(sect) = {op.to} /\ Replaced(e, op)
      /\ op' = NoOp /\ res' = "ok" /\ kept' = kept
  BY DEF DeleteOld, Return, IInv, StepInv, OpOK, WriteSteps, InPlace
<1>2. op.to \in Sector /\ op.old \in Sector /\ e \in Seq(Entry) /\ Packed(e)
  BY <1>1 DEF WriteOp, Sectors, SectorRec, Layout
<1>3. IdxSet(sect', sect, op.to, f)
  BY DEF DeleteOld, IdxSet
<1> HIDE DEF e
<1>4. op.del \in DOMAIN e /\ op.del < Len(e) /\ Len(e) \in DOMAIN e /\ e[op.del].id = op.id
  BY <1>1, <1>2 DEF Replaced, At
<1>5. Newest(e, op.id) = Len(e)
  BY <1>1, <1>2, <1>4, NewestAt DEF Replaced
<1>6. Reads(e, op.id) = op.val
  BY <1>1, <1>4, <1>5 DEF Reads, Replaced, LastEntry
<1>7. f \in Seq(Entry) /\ Packed(f) /\ \A j : Reads(f, j) = Reads(e, j)
  <2>1. op.del < Newest(e, e[op.del].id)
    BY <1>4, <1>5
  <2>2. PICK n \in DOMAIN e : n = op.del
    BY <1>4
  <2>3. n < Newest(e, e[n].id)
    BY <2>1, <2>2
  <2> QED BY <1>2, <2>2, <2>3, DeleteIs
<1> HIDE DEF f
<1>8. /\ sect' \in Sectors /\ Layout(sect') /\ Keeps
      /\ \A j : nv_flashReadNew(sect, j) = Reads(e, j)
  BY <1>1, <1>2, <1>3, <1>7, IdxLayout DEF Keeps, e
<1>9. Stored
  BY <1>6, <1>8 DEF Stored, Keeps
<1>10. Abstract
  BY <1>1, <1>9, EndsOk DEF WriteSteps
<1> QED BY <1>1, <1>8, <1>10, ReturnIs DEF IInv, RestOK

(* The header makes a sector the one read.                                 *)
LEMMA HeaderIs ==
  ASSUME NEW sc \in Sectors, Layout(sc), NEW o \in WriteOp, Building(sc, o),
         NEW r \in SectorRec, r.flag = "valid", r.seq = o.seq, r.idx = sc[o.to].idx,
         NEW sd, SectorSet(sd, sc, o.to, r)
  PROVE  /\ sd \in Sectors /\ Layout(sd)
         /\ sd[o.to] = r /\ \A t \in Sector : t # o.to => sd[t] = sc[t]
         /\ ValidSects(sd) = ValidSects(sc) \cup {o.to}
         /\ \A j : nv_flashReadNew(sd, j) = Reads(sc[o.to].idx, j)
<1>1. o.to \in Sector /\ o.old \in Sector
  BY DEF WriteOp
<1>2. /\ sd \in Sectors /\ sd[o.to] = r /\ \A t \in Sector : t # o.to => sd[t] = sc[t]
      /\ ValidSects(sd) = ValidSects(sc) \cup {o.to}
  BY <1>1 DEF Sectors, ValidSects, SectorSet
<1>3. Packed(r.idx) /\ \A s \in Sector : Packed(sd[s].idx)
  BY <1>1, <1>2 DEF Layout
<1>4. CASE Changing(sc, o)
  <2>1. /\ o.old \in ValidSects(sc) /\ o.to = 1 - o.old /\ o.old = 1 - o.to /\ o.to # o.old
        /\ o.seq = NextSeq(sc[o.old].seq) /\ sc[o.old].seq % 2 = o.old
        /\ sc[o.old].seq \in 0..3
    BY <1>1, <1>4, NoPlain DEF Changing, Layout, Sectors, SectorRec, Sector
  <2>2. o.seq % 2 = o.to
    <3>1. CASE o.old = 0
      BY <2>1, <3>1 DEF NextSeq
    <3>2. CASE o.old = 1
      BY <2>1, <3>2 DEF NextSeq
    <3> QED BY <1>1, <3>1, <3>2 DEF Sector
  <2>3. ValidSects(sd) = Sector
    BY <1>1, <1>2, <2>1 DEF ValidSects, Sector
  <2>4. sd[o.to].seq = NextSeq(sd[1 - o.to].seq)
    BY <1>1, <1>2, <2>1
  <2>5. \A s \in Sector : s = o.to \/ s = o.old
    BY <1>1, <2>1 DEF Sector
  <2>6. Layout(sd)
    BY <1>1, <1>2, <1>3, <2>1, <2>2, <2>4, <2>5 DEF Layout
  <2>7. nv_sector_read(sd) = o.to
    BY <1>1, <1>2, <2>2, <2>3, <2>4, ReadNewer DEF Layout
  <2> QED BY <1>1, <1>2, <2>3, <2>6, <2>7, FlashRead
<1>5. CASE Formatting(sc, o)
  <2>1. o.to = 0 /\ o.seq = 0 /\ ValidSects(sc) = {}
    BY <1>5 DEF Formatting
  <2>2. ValidSects(sd) = {0} /\ ValidSects(sd) # Sector
    BY <1>2, <2>1 DEF Sector
  <2>3. 0 \in Sector /\ sd[0].seq % 2 = 0
    BY <1>2, <2>1 DEF Sector
  <2>4. Layout(sd)
    BY <1>2, <1>3, <2>1, <2>2, <2>3 DEF Layout, ValidSects
  <2>5. nv_sector_read(sd) = 0
    BY <1>2, <2>2, <2>3, ReadOne
  <2> QED BY <1>1, <1>2, <2>1, <2>2, <2>4, <2>5, FlashRead
<1> QED BY <1>4, <1>5 DEF Building

(* The step that writes it.                                                *)
LEMMA HeaderStep ==
  ASSUME IInv, WriteHeader
  PROVE  IInv' /\ Abstract
<1> DEFINE r == [sect[op.to] EXCEPT !.flag = "valid", !.seq = op.seq]
<1>1. /\ op.step = "header" /\ op \in WriteOp /\ sect \in Sectors /\ Layout(sect)
      /\ Building(sect, op) /\ Reads(sect[op.to].idx, op.id) = op.val /\ kept' = kept
  BY DEF WriteHeader, IInv, StepInv, OpOK, WriteSteps
<1>2. op.to \in Sector /\ op.old \in Sector /\ op.seq \in 0..3
  BY <1>1 DEF WriteOp
<1>3. r \in SectorRec /\ r.flag = "valid" /\ r.seq = op.seq /\ r.idx = sect[op.to].idx
  BY <1>1, <1>2 DEF Sectors, SectorRec, Flags
<1>4. SectorSet(sect', sect, op.to, r)
  BY <1>1, <1>2 DEF WriteHeader, SectorSet, Sectors
<1> HIDE DEF r
<1>5. /\ sect' \in Sectors /\ Layout(sect')
      /\ sect'[op.to] = r /\ \A t \in Sector : t # op.to => sect'[t] = sect[t]
      /\ ValidSects(sect') = ValidSects(sect) \cup {op.to}
      /\ \A j : nv_flashReadNew(sect', j) = Reads(sect[op.to].idx, j)
  BY <1>1, <1>3, <1>4, HeaderIs
<1>6. Stored
  BY <1>1, <1>5 DEF Stored, Building
<1>7. CASE op.chg /\ Goto("retire") /\ res' = res
  <2>1. /\ OpOK' /\ op'.step = "retire" /\ op'.id = op.id /\ op'.val = op.val
        /\ op'.to = op.to /\ op'.old = op.old
    BY <1>1, <1>7, GotoIs DEF IInv, WriteSteps
  <2>2. Changing(sect, op)
    BY <1>1, <1>7 DEF Building, Formatting
  <2>3. op.to = 1 - op.old /\ op.old = 1 - op.to /\ op.to # op.old
    BY <1>2, <2>2 DEF Changing, Sector
  <2>4. ValidSects(sect') = Sector
    BY <1>2, <1>5, <2>2, <2>3 DEF Changing, Sector
  <2>5. sect'[op.to].seq = NextSeq(sect'[op.old].seq)
    BY <1>2, <1>3, <1>5, <2>2, <2>3 DEF Changing
  <2>6. StepInv(sect', op')
    BY <1>1, <1>3, <1>5, <2>1, <2>3, <2>4, <2>5 DEF StepInv
  <2>7. Abstract
    BY <1>1, <1>6, <1>7, <2>1, Commits DEF WriteSteps
  <2> QED BY <1>1, <1>5, <1>7, <2>1, <2>6, <2>7 DEF IInv, RestOK
<1>8. CASE Return("ok")
  <2>1. op' = NoOp /\ res' = "ok"
    BY <1>8 DEF Return
  <2>2. Abstract
    BY <1>1, <1>6, <2>1, EndsOk DEF WriteSteps
  <2> QED BY <1>1, <1>5, <2>1, <2>2, ReturnIs DEF IInv, RestOK
<1> QED BY <1>7, <1>8 DEF WriteHeader

(* The sector copied is retired.                                           *)
LEMMA RetireStep ==
  ASSUME IInv, RetireOld
  PROVE  IInv' /\ Abstract
<1> DEFINE r == [sect[op.old] EXCEPT !.flag = "invalid"]
<1>1. /\ op.step = "retire" /\ op \in WriteOp /\ sect \in Sectors /\ Layout(sect)
      /\ ValidSects(sect) = Sector /\ op.old = 1 - op.to
      /\ sect[op.to].seq = NextSeq(sect[op.old].seq)
      /\ Reads(sect[op.to].idx, op.id) = op.val
      /\ op' = NoOp /\ res' = "ok" /\ kept' = kept
  BY DEF RetireOld, Return, IInv, StepInv, OpOK, WriteSteps
<1>2. op.to \in Sector /\ op.old \in Sector /\ op.to # op.old
  BY <1>1 DEF WriteOp, Sector
<1>3. nv_sector_read(sect) = op.to
  <2>1. sect[op.to].seq % 2 = op.to /\ ~RetireTears
    BY <1>1, <1>2, NoPlain DEF Layout
  <2> QED BY <1>1, <1>2, <2>1, ReadNewer
<1>4. r \in SectorRec /\ r.flag # "valid" /\ r.idx = sect[op.old].idx /\ Packed(r.idx)
  <2>1. sect[op.old] \in SectorRec /\ Packed(sect[op.old].idx)
    BY <1>1, <1>2, SectorIs DEF Layout
  <2>2. r \in SectorRec /\ r.flag = "invalid" /\ r.idx = sect[op.old].idx
    BY <2>1, FlagIs DEF Flags
  <2> QED BY <2>1, <2>2
<1>5. SectorSet(sect', sect, op.old, r)
  BY DEF RetireOld, SectorSet
<1> HIDE DEF r
<1>6. sect' \in Sectors /\ Layout(sect') /\ Keeps
  BY <1>1, <1>2, <1>3, <1>4, <1>5, SectorLayout DEF Keeps
<1>7. nv_flashReadNew(sect, op.id) = op.val
  BY <1>1, <1>2, <1>3, FlashRead
<1>8. Stored
  BY <1>6, <1>7 DEF Stored, Keeps
<1>9. Abstract
  BY <1>1, <1>8, EndsOk DEF WriteSteps
<1> QED BY <1>1, <1>6, <1>9, ReturnIs DEF IInv, RestOK

-----------------------------------------------------------------------------
(* The other operations. *)

(* A reset, one sector after the other.                                    *)
LEMMA ResetStep ==
  ASSUME IInv, ResetSector
  PROVE  IInv' /\ Abstract
<1>1. /\ op.step = "reset" /\ op \in ResetOp /\ sect \in Sectors /\ Layout(sect)
      /\ op.to = 1 => sect[0] = Erased
  BY DEF ResetSector, IInv, StepInv, OpOK
<1>2. op.to \in Sector /\ kept' = kept /\ SectorSet(sect', sect, op.to, Erased)
  BY <1>1 DEF ResetSector, ResetOp, SectorSet
<1>3. /\ sect' \in Sectors /\ Layout(sect') /\ sect'[op.to] = Erased
      /\ \A t \in Sector : t # op.to => sect'[t] = sect[t]
      /\ ValidSects(sect') = ValidSects(sect) \ {op.to}
  BY <1>1, <1>2, ErasedIs, SectorSetIs
<1>4. CASE op.to = 0 /\ op' = [op EXCEPT !.to = 1] /\ res' = res
  <2>1. op' \in ResetOp /\ op'.step = "reset"
    BY <1>1, <1>4 DEF ResetOp, Sector
  <2>2. OpOK'
    BY <2>1 DEF OpOK, WriteSteps
  <2>3. StepInv(sect', op')
    BY <1>3, <1>4, <2>1 DEF StepInv
  <2>4. \A j \in Ids : nv_flashReadNew(sect', j) \in Vals \cup {None}
    BY <1>3, FlashReadType
  <2>5. Abstract
    BY <1>1, <1>4, <2>1, <2>4, Resurface
  <2> QED BY <1>2, <1>3, <1>4, <2>2, <2>3, <2>5 DEF IInv, RestOK
<1>5. CASE op.to = 1 /\ Return("ok")
  <2>1. op' = NoOp /\ res' = "ok"
    BY <1>5 DEF Return
  <2>2. ValidSects(sect') = {}
    BY <1>1, <1>3, <1>5, ErasedIs DEF ValidSects, Sector
  <2>3. \A j \in Ids : nv_flashReadNew(sect', j) = None
    BY <1>3, <2>2, FlashRead
  <2>4. Abstract
    BY <1>1, <2>1, <2>3, EndsReset
  <2> QED BY <1>2, <1>3, <2>1, <2>4, ReturnIs DEF IInv, RestOK
<1> QED BY <1>4, <1>5 DEF ResetSector

(* What the supply leaves behind is never read.                            *)
LEMMA InterruptedStep ==
  ASSUME IInv, Interrupted
  PROVE  sect' \in Sectors /\ Layout(sect') /\ Keeps
<1>1. CASE op.step = "index" /\ CanAppend /\ sect' = AppendEntry("torn")
  BY <1>1, AppendStep
<1>2. CASE op.step = "item" /\ sect' = SetLast([LastEntry(sect[op.to].idx) EXCEPT !.hdr = "torn"])
  <2> DEFINE x == [LastEntry(sect[op.to].idx) EXCEPT !.hdr = "torn"]
  <2>1. /\ op \in WriteOp /\ sect \in Sectors /\ Appended(sect[op.to].idx, op)
    BY <1>2 DEF IInv, StepInv, OpOK, WriteSteps
  <2>2. LastEntry(sect[op.to].idx) \in Entry
    <3>1. sect[op.to].idx \in Seq(Entry) /\ sect[op.to].idx # <<>>
      BY <2>1 DEF WriteOp, Sectors, SectorRec, Appended
    <3> QED BY <3>1, EmptySeq DEF LastEntry
  <2>3. x \in Entry /\ x.st = "op" /\ x.id = op.id /\ x.ofs = LastEntry(sect[op.to].idx).ofs
    BY <2>1, <2>2 DEF Appended, Entry
  <2>4. sect' = SetLast(x)
    BY <1>2
  <2> HIDE DEF x
  <2> QED BY <1>2, <2>3, <2>4, RewriteStep
<1>3. CASE op.step = "header" /\ sect' = [sect EXCEPT ![op.to].flag = "torn"]
  <2> DEFINE r == [sect[op.to] EXCEPT !.flag = "torn"]
  <2>1. op \in WriteOp /\ sect \in Sectors /\ Layout(sect) /\ Building(sect, op)
    BY <1>3 DEF IInv, StepInv, OpOK, WriteSteps
  <2>2. op.to \in Sector /\ op.old \in Sector /\ op.to \notin ValidSects(sect)
    BY <2>1 DEF WriteOp, Building, Changing, Formatting, Sector
  <2>3. r \in SectorRec /\ r.flag # "valid" /\ r.idx = sect[op.to].idx /\ Packed(r.idx)
    <3>1. sect[op.to] \in SectorRec /\ Packed(sect[op.to].idx)
      BY <2>1, <2>2, SectorIs DEF Layout
    <3>2. r \in SectorRec /\ r.flag = "torn" /\ r.idx = sect[op.to].idx
      BY <3>1, FlagIs DEF Flags
    <3> QED BY <3>1, <3>2
  <2>4. SectorSet(sect', sect, op.to, r)
    BY <1>3 DEF SectorSet
  <2> HIDE DEF r
  <2> QED BY <2>1, <2>2, <2>3, <2>4, SectorLayout DEF Keeps
<1>4. ~RetireTears
  BY DEF IInv, Layout
<1> QED BY <1>1, <1>2, <1>3, <1>4 DEF Interrupted, RetirementTorn

(* The supply fails, in an operation or between two.                       *)
LEMMA PowerLossStep ==
  ASSUME IInv, PowerLoss
  PROVE  IInv' /\ Abstract
<1>1. op' = NoOp /\ res' = "none" /\ kept' = kept
  BY DEF PowerLoss
<1>2. sect' \in Sectors /\ Layout(sect') /\ Keeps
  <2>1. CASE sect' = sect
    BY <2>1 DEF IInv, Keeps
  <2>2. CASE Interrupted
    BY <2>2, InterruptedStep
  <2> QED BY <2>1, <2>2 DEF PowerLoss
<1>3. Abstract
  BY <1>1, <1>2, Crashes
<1> QED BY <1>1, <1>2, <1>3, ReturnIs DEF IInv, RestOK

-----------------------------------------------------------------------------
(* The theorems. *)

(* The erased module.                                                      *)
LEMMA InitIs ==
  ASSUME ~RetireTears
  PROVE  Init => IInv /\ Store!Init
<1> SUFFICES ASSUME Init PROVE IInv /\ Store!Init
  OBVIOUS
<1>1. sect \in Sectors /\ \A s \in Sector : sect[s] = Erased
  BY ErasedIs DEF Init, Sectors
<1>2. ValidSects(sect) = {} /\ ValidSects(sect) # Sector
  BY <1>1, ErasedIs DEF ValidSects, Sector
<1>3. Layout(sect)
  BY <1>1, <1>2, ErasedIs DEF Layout
<1>4. op.step = "none" /\ op = NoOp
  BY DEF Init, NoOp
<1>5. OpOK
  BY <1>4 DEF OpOK, WriteSteps
<1>6. StepInv(sect, op)
  BY <1>4 DEF StepInv
<1>7. IInv
  BY <1>1, <1>3, <1>5, <1>6 DEF Init, IInv, RestOK
<1>8. kv = [i \in Ids |-> None]
  BY <1>1, <1>2, FlashRead DEF kv
<1>9. call = [kind |-> "none"] /\ ret = "none"
  BY <1>4, CallIs DEF ret, Init
<1>10. Store!Init
  BY <1>8, <1>9 DEF Store!Init, Store!Empty, Store!Idle, kv, call, ret
<1> QED BY <1>7, <1>10

(* Every step keeps the invariant and is a step of the dictionary or none. *)
LEMMA NextStep == IInv /\ [Next]_vars => IInv' /\ Abstract
<1> SUFFICES ASSUME IInv, [Next]_vars PROVE IInv' /\ Abstract
  OBVIOUS
<1>1. ASSUME NEW i \in Ids, NEW v \in Vals, nv_flashWriteNew(i, v) PROVE IInv' /\ Abstract
  BY <1>1, CallStep
<1>2. CASE FormatFirst
  BY <1>2, FormatStep
<1>3. CASE ChooseSector
  BY <1>3, ChooseStep
<1>4. CASE EraseOther
  BY <1>4, EraseStep
<1>5. CASE DeleteDuplicate
  BY <1>5, DeleteStep
<1>6. CASE DedupeDone \/ NoBuffer
  BY <1>6, CopyStartStep
<1>7. CASE CopyItem
  BY <1>7, CopyStep
<1>8. CASE CopyDone
  BY <1>8, CopyDoneStep
<1>9. CASE WriteIndex
  BY <1>9, IndexStep
<1>10. CASE RefuseIndex
  BY <1>10, RefuseStep
<1>11. CASE WriteItem
  BY <1>11, ItemStep
<1>12. CASE WriteState
  BY <1>12, StateStep
<1>13. CASE DeleteOld
  BY <1>13, DupStep
<1>14. CASE WriteHeader
  BY <1>14, HeaderStep
<1>15. CASE RetireOld
  BY <1>15, RetireStep
<1>16. CASE nv_resetModule
  BY <1>16, ResetCallStep
<1>17. CASE ResetSector
  BY <1>17, ResetStep
<1>18. CASE PowerLoss
  BY <1>18, PowerLossStep
<1>19. CASE UNCHANGED vars
  <2>1. sect' = sect /\ op' = op /\ res' = res /\ kept' = kept
    BY <1>19 DEF vars
  <2>2. IInv'
    BY <2>1 DEF IInv, RestOK, OpOK
  <2>3. kv' = kv /\ call' = call /\ ret' = ret
    BY <2>1 DEF kv, call, ret
  <2> QED BY <2>2, <2>3 DEF Abstract
<1> QED BY <1>1, <1>2, <1>3, <1>4, <1>5, <1>6, <1>7, <1>8, <1>9, <1>10, <1>11, <1>12, <1>13,
           <1>14, <1>15, <1>16, <1>17, <1>18, <1>19 DEF Next

(* The invariant holds whatever operation the supply fails in.             *)
THEOREM Invariance ==
  ASSUME ~RetireTears
  PROVE  Spec => []IInv
<1>1. Init => IInv
  BY InitIs
<1>2. IInv /\ [Next]_vars => IInv'
  BY NextStep
<1> QED BY <1>1, <1>2, PTL DEF Spec

(* The sectors hold flags, sequence numbers and entries in their ranges,   *)
(* the items within the sector.                                            *)
THEOREM TypeTheorem ==
  ASSUME ~RetireTears
  PROVE  Spec => []TypeOK
<1>1. IInv => TypeOK
  BY DEF IInv, RestOK, OpOK, TypeOK, Sectors, SectorRec, WriteSteps
<1> QED BY <1>1, Invariance, PTL

(* The module implements the dictionary (nv.c:560-845): a write takes      *)
(* effect at one instant or not at all, and no failure of the supply loses *)
(* or restores another item.                                               *)
THEOREM StoreTheorem ==
  ASSUME ~RetireTears
  PROVE  Spec => StoreSpec
<1>1. Init => Store!Init
  BY InitIs
<1>2. IInv /\ [Next]_vars => Abstract
  BY NextStep
<1> QED BY <1>1, <1>2, Invariance, PTL DEF Spec, StoreSpec, Store!Spec, Abstract, kv, call, ret

-----------------------------------------------------------------------------
(* When a write is refused. *)

(* No entry fails the check of the header before it, and items end where   *)
(* the next one may start.                                                 *)
Clean(e)   == \A n \in DOMAIN e : e[n].hdr # "torn" /\ e[n].ofs % 4 = 0
Cleans(sc) == \A s \in Sector : Clean(sc[s].idx)

Unrefused == Cleans(sect) /\ (op.step = "index" => CanAppend) /\ res # "checkError"

(* Entries are added, written over and made invalid.                       *)
LEMMA CleanAppend ==
  ASSUME NEW e \in Seq(Entry), Clean(e), NEW x \in Entry, x.hdr # "torn", x.ofs % 4 = 0
  PROVE  Clean(Append(e, x))
<1> DEFINE f == Append(e, x)
<1>1. /\ DOMAIN f = 1..Len(e) + 1 /\ f[Len(e) + 1] = x /\ DOMAIN e = 1..Len(e)
      /\ \A n \in DOMAIN e : f[n] = e[n]
      /\ Len(e) \in Nat
  OBVIOUS
<1> HIDE DEF f
<1>2. Clean(f)
  BY <1>1 DEF Clean
<1> QED BY <1>2 DEF f

(* An entry is written over.                                               *)
LEMMA CleanSet ==
  ASSUME NEW e \in Seq(Entry), Clean(e), NEW k \in DOMAIN e, NEW x \in Entry,
         x.hdr # "torn", x.ofs % 4 = 0
  PROVE  Clean([e EXCEPT ![k] = x])
BY DEF Clean

(* An entry is made invalid.                                               *)
LEMMA CleanDrop ==
  ASSUME NEW e \in Seq(Entry), Clean(e), NEW k \in DOMAIN e
  PROVE  Clean([e EXCEPT ![k].st = "invalid"])
<1> DEFINE f == [e EXCEPT ![k].st = "invalid"]
<1>1. \A n \in DOMAIN e : f[n].hdr = e[n].hdr /\ f[n].ofs = e[n].ofs
  <2> TAKE n \in DOMAIN e
  <2>1. e[n] \in Entry
    OBVIOUS
  <2> QED BY <2>1 DEF Entry
<1>2. DOMAIN f = DOMAIN e
  OBVIOUS
<1> HIDE DEF f
<1>3. Clean(f)
  BY <1>1, <1>2 DEF Clean
<1> QED BY <1>3 DEF f

(* One index is changed.                                                   *)
LEMMA CleanIdx ==
  ASSUME NEW sc \in Sectors, Cleans(sc), NEW s \in Sector, NEW g \in Seq(Entry), Clean(g),
         NEW sd, IdxSet(sd, sc, s, g)
  PROVE  Cleans(sd)
<1>1. sd[s].idx = g /\ \A t \in Sector : t # s => sd[t] = sc[t]
  BY SetIdx
<1> QED BY <1>1 DEF Cleans

(* Where an aligned, checked sector has its next item.                     *)
LEMMA NextOfsIs ==
  ASSUME ~CrcCoversState, NEW e \in Seq(Entry), Clean(e), e # <<>>, LastEntry(e).st # "torn"
  PROVE  NextOfs(e) = Up4(LastEntry(e).ofs + Total[LastEntry(e).id])
<1>1. Len(e) \in DOMAIN e
  BY EmptySeq
<1>2. ~CrcFails(LastEntry(e))
  BY <1>1 DEF Clean, CrcFails, LastEntry
<1> QED BY <1>2 DEF NextOfs

(* A multiple of four bytes fits where it ends in the sector.              *)
LEMMA FitsIs ==
  ASSUME NEW ofs \in Nat, NEW i \in Ids, ofs + Total[i] <= Space
  PROVE  Fits(ofs, Total[i])
BY ItemsAssumption DEF Fits

(* The sector chosen takes the entry: it is empty, or the search of the    *)
(* index found room in it.                                                 *)
LEMMA RoomIs ==
  ASSUME ~CrcCoversState, \A j \in Ids : Total[j] % 4 = 0,
         NEW e \in Seq(Entry), Clean(e), NEW i \in Ids, ~NeedsChange(e, i)
  PROVE  NextOfs(e) >= 0 /\ Fits(NextOfs(e), Total[i])
<1>1. CASE e = <<>>
  <2>1. NextOfs(e) = 0 /\ 0 + Total[i] <= Space
    BY <1>1, ItemsAssumption DEF NextOfs
  <2> QED BY <2>1, FitsIs
<1>2. CASE e # <<>>
  <2> DEFINE x == LastEntry(e)
  <2>1. Len(e) \in DOMAIN e /\ x \in Entry
    BY <1>2, EmptySeq DEF LastEntry
  <2>2. x.st # "torn" /\ ~(x.ofs + Total[x.id] + Total[i] > Space)
    BY <1>2 DEF NeedsChange
  <2>3. NextOfs(e) = Up4(x.ofs + Total[x.id])
    BY <1>2, <2>2, NextOfsIs
  <2>4. x.ofs % 4 = 0
    BY <2>1 DEF Clean, LastEntry
  <2>5. x.id \in Ids
    BY <2>1 DEF Entry
  <2> HIDE DEF x
  <2>6. /\ x.ofs \in Nat /\ Total[x.id] \in Nat /\ Total[x.id] % 4 = 0 /\ Total[i] \in Nat
        /\ Space \in Nat
    BY <2>1, <2>5, EndIs, ItemsAssumption
  <2>7. x.ofs + Total[x.id] \in Nat /\ (x.ofs + Total[x.id]) % 4 = 0
    BY <2>4, <2>6, Aligned
  <2>8. NextOfs(e) = x.ofs + Total[x.id]
    BY <2>3, <2>7, Up4Is
  <2>9. NextOfs(e) \in Nat /\ NextOfs(e) + Total[i] <= Space
    BY <2>2, <2>6, <2>7, <2>8
  <2> QED BY <2>9, FitsIs
<1> QED BY <1>1, <1>2

(* Aligned places of new entries.                                          *)
LEMMA NextAligned ==
  ASSUME NEW e \in Seq(Entry), NextOfs(e) # -1
  PROVE  NextOfs(e) % 4 = 0
<1>1. CASE e = <<>>
  BY <1>1 DEF NextOfs
<1>2. CASE e # <<>>
  <2>1. LastEntry(e) \in Entry
    BY <1>2, EmptySeq DEF LastEntry
  <2>2. NextOfs(e) = Up4(LastEntry(e).ofs + Total[LastEntry(e).id])
    BY <1>2 DEF NextOfs
  <2>3. LastEntry(e).ofs + Total[LastEntry(e).id] \in Nat
    BY <2>1, EndIs
  <2> QED BY <2>2, <2>3, Up4Is
<1> QED BY <1>1, <1>2

(* The entries stay clean when an index stays or is erased.                *)
LEMMA CleanSame ==
  ASSUME Cleans(sect), \A s \in Sector : sect'[s].idx = sect[s].idx \/ sect'[s].idx = <<>>
  PROVE  Cleans(sect')
<1>1. Clean(<<>>)
  BY DEF Clean
<1> QED BY <1>1 DEF Cleans

(* The steps that write headers or erase sectors.                          *)
LEMMA CleanSectors ==
  ASSUME IInv, Cleans(sect),
         \/ FormatFirst \/ ChooseSector \/ EraseOther \/ WriteHeader \/ RetireOld \/ ResetSector
         \/ sect' = [sect EXCEPT ![op.to].flag = "torn"]
         \/ sect' = sect
  PROVE  Cleans(sect')
<1>1. sect \in Sectors
  BY DEF IInv
<1>2. Erased.idx = <<>>
  BY ErasedIs
<1>3. \A s \in Sector : sect'[s].idx = sect[s].idx \/ sect'[s].idx = <<>>
  <2> TAKE s \in Sector
  <2>1. CASE FormatFirst \/ EraseOther \/ ResetSector
    BY <1>1, <1>2, <2>1 DEF FormatFirst, EraseOther, ResetSector, Sectors, SectorRec
  <2>2. CASE ChooseSector
    BY <1>1, <2>2 DEF ChooseSector, Sectors, SectorRec
  <2>3. CASE WriteHeader
    BY <1>1, <2>3 DEF WriteHeader, Sectors, SectorRec
  <2>4. CASE RetireOld
    BY <1>1, <2>4 DEF RetireOld, Sectors, SectorRec
  <2>5. CASE sect' = [sect EXCEPT ![op.to].flag = "torn"]
    BY <1>1, <2>5 DEF Sectors, SectorRec
  <2>6. CASE sect' = sect
    BY <2>6
  <2> QED BY <2>1, <2>2, <2>3, <2>4, <2>5, <2>6
<1> QED BY <1>3, CleanSame

(* The sectors of a write, and their entries.                              *)
LEMMA TargetIs ==
  ASSUME IInv, op.step \in WriteSteps, Cleans(sect)
  PROVE  /\ op \in WriteOp /\ sect \in Sectors /\ op.to \in Sector /\ op.old \in Sector
         /\ op.id \in Ids
         /\ \A s \in Sector : /\ sect[s].idx \in Seq(Entry) /\ Packed(sect[s].idx)
                              /\ Clean(sect[s].idx)
BY DEF IInv, OpOK, WriteOp, Sectors, SectorRec, Layout, Cleans

(* The steps that make an entry invalid.                                   *)
LEMMA CleanDeletes ==
  ASSUME IInv, Cleans(sect), DeleteDuplicate \/ DeleteOld
  PROVE  Cleans(sect')
<1>1. op.step \in WriteSteps
  BY DEF DeleteDuplicate, DeleteOld, WriteSteps
<1>2. ASSUME NEW s \in Sector, NEW k \in DOMAIN sect[s].idx,
             IdxSet(sect', sect, s, [sect[s].idx EXCEPT ![k].st = "invalid"])
      PROVE  Cleans(sect')
  <2> DEFINE g == [sect[s].idx EXCEPT ![k].st = "invalid"]
  <2>1. g \in Seq(Entry)
    BY <1>1, TargetIs, DroppedIs DEF Dropped
  <2>2. Clean(g)
    BY <1>1, TargetIs, CleanDrop
  <2>3. IdxSet(sect', sect, s, g)
    BY <1>2
  <2> HIDE DEF g
  <2> QED BY <1>1, <2>1, <2>2, <2>3, TargetIs, CleanIdx
<1>3. CASE DeleteDuplicate
  <2> DEFINE k == Max(Duplicates(sect[op.old].idx))
  <2>1. k \in DOMAIN sect[op.old].idx
    BY <1>1, <1>3, TargetIs, DuplicateIs DEF DeleteDuplicate
  <2>2. IdxSet(sect', sect, op.old, [sect[op.old].idx EXCEPT ![k].st = "invalid"])
    BY <1>3 DEF DeleteDuplicate, IdxSet
  <2> HIDE DEF k
  <2>3. op.old \in Sector
    BY <1>1, TargetIs
  <2> QED BY <1>2, <2>1, <2>2, <2>3
<1>4. CASE DeleteOld
  <2>1. op.del \in DOMAIN sect[op.to].idx /\ op.to \in Sector
    <3>1. Replaced(sect[op.to].idx, op)
      BY <1>4 DEF DeleteOld, IInv, StepInv
    <3>2. sect[op.to].idx \in Seq(Entry) /\ op.to \in Sector
      BY <1>1, TargetIs
    <3> QED BY <3>1, <3>2 DEF Replaced
  <2>2. IdxSet(sect', sect, op.to, [sect[op.to].idx EXCEPT ![op.del].st = "invalid"])
    BY <1>4 DEF DeleteOld, IdxSet
  <2> QED BY <1>2, <2>1, <2>2
<1> QED BY <1>3, <1>4

(* The steps that add one.                                                 *)
LEMMA CleanAppends ==
  ASSUME IInv, Cleans(sect), op.step \in WriteSteps, NEW x \in Entry,
         x.hdr # "torn", x.ofs % 4 = 0,
         IdxSet(sect', sect, op.to, Append(sect[op.to].idx, x))
  PROVE  Cleans(sect')
<1> DEFINE g == Append(sect[op.to].idx, x)
<1>1. sect[op.to].idx \in Seq(Entry) /\ Clean(sect[op.to].idx) /\ op.to \in Sector /\ sect \in Sectors
  BY TargetIs
<1>2. g \in Seq(Entry)
  BY <1>1
<1>3. Clean(g)
  BY <1>1, CleanAppend
<1>4. IdxSet(sect', sect, op.to, g)
  OBVIOUS
<1> HIDE DEF g
<1> QED BY <1>1, <1>2, <1>3, <1>4, CleanIdx

(* The entry of a write is aligned.                                        *)
LEMMA CleanIndex ==
  ASSUME IInv, Cleans(sect), op.step = "index", CanAppend,
         NEW st \in {"op", "torn"}, sect' = AppendEntry(st)
  PROVE  Cleans(sect')
<1> DEFINE e == sect[op.to].idx
           x == [st |-> st, id |-> op.id, ofs |-> NextOfs(e), hdr |-> "none", val |-> None]
<1>1. op.step \in WriteSteps
  BY DEF WriteSteps
<1>2. e \in Seq(Entry) /\ Packed(e) /\ op.id \in Ids
  BY <1>1, TargetIs
<1>3. NextOfs(e) >= 0 /\ Fits(NextOfs(e), Total[op.id])
  BY DEF CanAppend
<1>4. IdxSet(sect', sect, op.to, Append(e, x))
  BY DEF AppendEntry, NewEntry, IdxSet
<1>5. x.hdr # "torn" /\ x.ofs = NextOfs(e)
  OBVIOUS
<1> HIDE DEF e
<1>6. x \in Entry
  BY <1>2, <1>3, NewEntryIs
<1>7. NextOfs(e) % 4 = 0
  <2>1. NextOfs(e) # -1
    BY <1>3
  <2> QED BY <1>2, <2>1, NextAligned
<1> HIDE DEF x
<1> QED BY <1>1, <1>4, <1>5, <1>6, <1>7, CleanAppends DEF e

(* So is that of a copy.                                                   *)
LEMMA CleanCopy ==
  ASSUME IInv, Cleans(sect), CopyItem
  PROVE  Cleans(sect')
<1> DEFINE e == sect[op.old].idx
           f == sect[op.to].idx
           n == Min(ToCopy)
           x == [e[n] EXCEPT !.ofs = NextOfs(f)]
<1>1. op.step = "copy" /\ op.step \in WriteSteps /\ ToCopy # {} /\ Copied(e, f, op.id, op.pos)
  BY DEF CopyItem, WriteSteps, IInv, StepInv
<1>2. /\ e \in Seq(Entry) /\ f \in Seq(Entry) /\ Packed(e) /\ Packed(f) /\ Clean(e) /\ Clean(f)
      /\ op.pos \in Nat
  BY <1>1, TargetIs DEF WriteOp
<1>3. n \in DOMAIN e /\ op.pos < n
  <2>1. ToCopy \in SUBSET Nat
    <3>1. Live(e, op.id) \in SUBSET Nat
      BY <1>2 DEF Live
    <3> QED BY <3>1 DEF ToCopy
  <2>2. n \in ToCopy
    BY <1>1, <2>1, LeastIs
  <2>3. n \in Nat
    BY <2>1, <2>2
  <2> QED BY <1>2, <2>2, <2>3 DEF ToCopy, Live
<1>4. IdxSet(sect', sect, op.to, Append(f, x))
  BY DEF CopyItem, IdxSet
<1> HIDE DEF n, e, f
<1>5. NextOfs(f) \in 0..Space
  BY <1>1, <1>2, <1>3, CopyPlace
<1>6. e[n] \in Entry /\ e[n].hdr # "torn"
  BY <1>2, <1>3 DEF Clean
<1>7. x \in Entry /\ x.hdr # "torn" /\ x.ofs = NextOfs(f)
  BY <1>5, <1>6 DEF Entry
<1>8. NextOfs(f) % 4 = 0
  <2>1. NextOfs(f) # -1
    BY <1>5, ItemsAssumption
  <2> QED BY <1>2, <2>1, NextAligned
<1> HIDE DEF x
<1> QED BY <1>1, <1>4, <1>7, <1>8, CleanAppends DEF f

(* The steps that write over one.                                          *)
LEMMA CleanRewrite ==
  ASSUME IInv, Cleans(sect), op.step \in {"item", "state"}, WriteItem \/ WriteState
  PROVE  Cleans(sect')
<1> DEFINE e == sect[op.to].idx
           y == LastEntry(e)
<1>1. op.step \in WriteSteps
  BY DEF WriteSteps
<1>2. e \in Seq(Entry) /\ Clean(e) /\ op.to \in Sector /\ sect \in Sectors /\ op \in WriteOp
  BY <1>1, TargetIs
<1>3. e # <<>>
  BY DEF IInv, StepInv, Appended
<1>4. Len(e) \in DOMAIN e /\ y = e[Len(e)]
  BY <1>2, <1>3, EmptySeq DEF LastEntry
<1>5. y \in Entry /\ y.hdr # "torn" /\ y.ofs % 4 = 0
  BY <1>2, <1>4 DEF Clean
<1>6. PICK x \in Entry : /\ x.hdr # "torn" /\ x.ofs % 4 = 0
                         /\ IdxSet(sect', sect, op.to, [e EXCEPT ![Len(e)] = x])
  <2>1. CASE WriteItem
    <3> DEFINE x == [y EXCEPT !.hdr = "whole", !.val = op.val]
    <3>1. IdxSet(sect', sect, op.to, [e EXCEPT ![Len(e)] = x])
      BY <2>1 DEF WriteItem, SetLast, IdxSet
    <3>2. x \in Entry /\ x.hdr # "torn" /\ x.ofs = y.ofs
      <4> HIDE DEF y
      <4> QED BY <1>2, <1>5 DEF Entry, WriteOp
    <3> HIDE DEF x
    <3> QED BY <1>5, <3>1, <3>2
  <2>2. CASE WriteState
    <3> DEFINE x == [y EXCEPT !.st = "valid"]
    <3>1. IdxSet(sect', sect, op.to, [e EXCEPT ![Len(e)] = x])
      BY <2>2 DEF WriteState, SetLast, IdxSet
    <3>2. x \in Entry /\ x.hdr # "torn" /\ x.ofs = y.ofs
      <4> HIDE DEF y
      <4> QED BY <1>5 DEF Entry
    <3> HIDE DEF x
    <3> QED BY <1>5, <3>1, <3>2
  <2> QED BY <2>1, <2>2
<1> DEFINE g == [e EXCEPT ![Len(e)] = x]
<1>7. g \in Seq(Entry) /\ Clean(g)
  <2> HIDE DEF e
  <2>1. Clean(g)
    BY <1>2, <1>4, <1>6, CleanSet
  <2> QED BY <1>2, <1>4, <2>1
<1>8. IdxSet(sect', sect, op.to, g)
  BY <1>6
<1> HIDE DEF g
<1> QED BY <1>2, <1>7, <1>8, CleanIdx

(* Every step keeps the entries clean.                                     *)
LEMMA CleanStep ==
  ASSUME ~HeaderTears, IInv, Cleans(sect), [Next]_vars
  PROVE  Cleans(sect')
<1>1. CASE sect' = sect
  BY <1>1, CleanSectors
<1>2. CASE \/ FormatFirst \/ ChooseSector \/ EraseOther \/ WriteHeader \/ RetireOld
           \/ ResetSector
  BY <1>2, CleanSectors
<1>3. CASE DeleteDuplicate \/ DeleteOld
  BY <1>3, CleanDeletes
<1>4. CASE CopyItem
  BY <1>4, CleanCopy
<1>5. CASE WriteIndex
  BY <1>5, CleanIndex DEF WriteIndex
<1>6. CASE WriteItem \/ WriteState
  BY <1>6, CleanRewrite DEF WriteItem, WriteState
<1>7. CASE Interrupted
  <2>1. CASE op.step = "index" /\ CanAppend /\ sect' = AppendEntry("torn")
    BY <2>1, CleanIndex
  <2>2. CASE sect' = [sect EXCEPT ![op.to].flag = "torn"]
    BY <2>2, CleanSectors
  <2>3. ~RetireTears
    BY DEF IInv, Layout
  <2> QED BY <1>7, <2>1, <2>2, <2>3 DEF Interrupted, RetirementTorn
<1>8. CASE \/ \E i \in Ids, v \in Vals : nv_flashWriteNew(i, v)
           \/ DedupeDone \/ NoBuffer \/ CopyDone \/ RefuseIndex \/ nv_resetModule
           \/ UNCHANGED vars
  <2>1. sect' = sect
    BY <1>8 DEF nv_flashWriteNew, DedupeDone, NoBuffer, CopyDone, RefuseIndex, nv_resetModule, vars
  <2> QED BY <2>1, <1>1
<1>9. CASE PowerLoss
  BY <1>1, <1>7, <1>9 DEF PowerLoss
<1> QED BY <1>2, <1>3, <1>4, <1>5, <1>6, <1>8, <1>9 DEF Next

(* A write that comes to its index entry finds room for it.                *)
LEMMA RoomStep ==
  ASSUME ~CrcCoversState, \A i \in Ids : Total[i] % 4 = 0,
         IInv, IInv', Cleans(sect), Cleans(sect'), [Next]_vars,
         op.step = "index" => CanAppend, op'.step = "index"
  PROVE  CanAppend'
<1>1. op'.step \in WriteSteps
  BY DEF WriteSteps
<1>2. op' \in WriteOp /\ op'.to \in Sector /\ op'.id \in Ids
      /\ sect'[op'.to].idx \in Seq(Entry) /\ Clean(sect'[op'.to].idx)
  BY <1>1 DEF IInv, OpOK, WriteOp, Sectors, SectorRec, Cleans
<1>3. CanAppend' <=> /\ NextOfs(sect'[op'.to].idx) >= 0
                     /\ Fits(NextOfs(sect'[op'.to].idx), Total[op'.id])
  BY DEF CanAppend
<1>4. CASE FormatFirst
  <2>1. sect'[op'.to].idx = <<>>
    <3>1. op.step = "sector" /\ op.to = 0 /\ op'.to = op.to
      <4>1. op.step = "sector" /\ op.to = 0
        BY <1>4 DEF FormatFirst, IInv, StepInv
      <4>2. op \in WriteOp
        BY <4>1 DEF IInv, OpOK, WriteSteps
      <4> QED BY <1>4, <4>1, <4>2 DEF FormatFirst, Goto, WriteOp
    <3>2. sect' = [sect EXCEPT ![0] = Erased] /\ 0 \in Sector
      BY <1>4 DEF FormatFirst, Sector
    <3> QED BY <3>1, <3>2, ErasedIs DEF IInv, Sectors
  <2>2. ~NeedsChange(sect'[op'.to].idx, op'.id)
    BY <2>1 DEF NeedsChange
  <2> QED BY <1>2, <1>3, <2>2, RoomIs
<1>5. CASE ChooseSector
  <2> DEFINE k == nv_sector_read(sect)
  <2>1. op \in WriteOp /\ sect \in Sectors /\ k \in Sector
    BY <1>5, ReadIn DEF ChooseSector, IInv, OpOK, WriteSteps
  <2>2. op' = [op EXCEPT !.step = IF NeedsChange(sect[k].idx, op.id) THEN "erase" ELSE "index",
                         !.old = k, !.to = IF NeedsChange(sect[k].idx, op.id) THEN 1 - k ELSE k,
                         !.seq = IF NeedsChange(sect[k].idx, op.id) THEN NextSeq(sect[k].seq)
                                 ELSE sect[k].seq,
                         !.chg = NeedsChange(sect[k].idx, op.id)]
    BY <1>5 DEF ChooseSector
  <2>3. ~NeedsChange(sect[k].idx, op.id)
    <3> SUFFICES ASSUME NeedsChange(sect[k].idx, op.id) PROVE FALSE
      OBVIOUS
    <3>1. op'.step = "erase"
      BY <2>1, <2>2 DEF WriteOp
    <3> QED BY <3>1
  <2> HIDE DEF k
  <2>4. op'.to = k /\ op'.id = op.id
    BY <2>1, <2>2, <2>3 DEF WriteOp
  <2>5. sect'[k].idx = sect[k].idx
    <3>1. sect'[k] = sect[k]
      BY <1>5, <2>1 DEF ChooseSector, Sectors, Sector, k
    <3> QED BY <3>1
  <2> QED BY <1>2, <1>3, <2>3, <2>4, <2>5, RoomIs
<1>6. CASE CopyDone
  <2> DEFINE f == sect[op.to].idx
  <2>1. op.step = "copy" /\ op \in WriteOp
    BY <1>6 DEF CopyDone, IInv, OpOK, WriteSteps
  <2>2. sect' = sect /\ Goto("index") /\ Used(f) + Total[op.id] <= Space
    BY <1>6 DEF CopyDone, Return, NoOp
  <2>3. op'.to = op.to /\ op'.id = op.id
    BY <2>1, <2>2 DEF Goto, WriteOp
  <2>4. f \in Seq(Entry) /\ Clean(f) /\ op.id \in Ids
    BY <1>2, <2>2, <2>3
  <2>5. Copied(sect[op.old].idx, f, op.id, op.pos)
    BY <2>1 DEF IInv, StepInv
  <2>6. NextOfs(f) \in Nat /\ NextOfs(f) = Used(f)
    <3> HIDE DEF f
    <3>1. CASE f = <<>>
      BY <3>1 DEF NextOfs, Used
    <3>2. CASE f # <<>>
      <4>1. Len(f) \in DOMAIN f /\ LastEntry(f) \in Entry
        BY <2>4, <3>2, EmptySeq DEF LastEntry
      <4>2. LastEntry(f).st = "valid"
        BY <2>5, <4>1 DEF Copied, LastEntry
      <4>3. NextOfs(f) = Up4(LastEntry(f).ofs + Total[LastEntry(f).id])
        BY <2>4, <3>2, <4>2, NextOfsIs
      <4> QED BY <3>2, <4>1, <4>3, EndIs DEF Used
    <3> QED BY <3>1, <3>2
  <2> HIDE DEF f
  <2>7. NextOfs(f) >= 0 /\ Fits(NextOfs(f), Total[op.id])
    BY <2>2, <2>4, <2>6, FitsIs
  <2> QED BY <1>3, <2>2, <2>3, <2>7 DEF f
<1>7. CASE UNCHANGED vars
  <2>1. op' = op /\ sect' = sect
    BY <1>7 DEF vars
  <2> QED BY <1>3, <2>1 DEF CanAppend
<1>8. CASE \/ \E i \in Ids, v \in Vals : nv_flashWriteNew(i, v)
           \/ nv_resetModule \/ RefuseIndex \/ DeleteOld \/ RetireOld \/ PowerLoss
  BY <1>8 DEF nv_flashWriteNew, nv_resetModule, RefuseIndex, DeleteOld, RetireOld, PowerLoss,
              Return, NoOp
<1>9. CASE \/ EraseOther \/ DeleteDuplicate \/ DedupeDone \/ NoBuffer \/ CopyItem
           \/ WriteIndex \/ WriteItem \/ WriteState \/ WriteHeader
  <2>1. op.step \in WriteSteps
    BY <1>9 DEF EraseOther, DeleteDuplicate, DedupeDone, NoBuffer, CopyItem,
                WriteIndex, WriteItem, WriteState, WriteHeader, WriteSteps
  <2>2. op \in WriteOp
    BY <2>1 DEF IInv, OpOK
  <2>3. ASSUME NEW st, Goto(st) PROVE op'.step = st
    BY <2>2, <2>3 DEF Goto, WriteOp
  <2>4. CASE EraseOther \/ DedupeDone \/ NoBuffer \/ WriteItem
    BY <2>3, <2>4 DEF EraseOther, DedupeDone, NoBuffer, WriteItem
  <2>5. CASE WriteState
    BY <2>3, <2>5 DEF WriteState, Return, NoOp
  <2>6. CASE WriteHeader
    BY <2>3, <2>6 DEF WriteHeader, Return, NoOp
  <2>7. CASE DeleteDuplicate
    BY <2>7 DEF DeleteDuplicate
  <2>8. CASE CopyItem
    BY <2>2, <2>8 DEF CopyItem, WriteOp
  <2>9. CASE WriteIndex
    BY <2>2, <2>9 DEF WriteIndex, WriteOp
  <2> QED BY <1>9, <2>4, <2>5, <2>6, <2>7, <2>8, <2>9
<1>10. CASE ResetSector
  <2>1. op \in ResetOp
    BY <1>10 DEF ResetSector, IInv, OpOK
  <2> QED BY <1>10, <2>1 DEF ResetSector, Return, NoOp, ResetOp
<1> QED BY <1>4, <1>5, <1>6, <1>7, <1>8, <1>9, <1>10 DEF Next

(* A write is refused by an entry without room only.                       *)
LEMMA RefusedIs ==
  ASSUME IInv, Unrefused, [Next]_vars
  PROVE  res' # "checkError"
<1>1. CASE RefuseIndex
  BY <1>1 DEF RefuseIndex, Unrefused
<1>2. CASE ~RefuseIndex
  <2>1. res' \in {res, "none", "ok", "notEnough"}
    BY <1>2 DEF Next, vars, nv_flashWriteNew, FormatFirst, ChooseSector, EraseOther,
         DeleteDuplicate, DedupeDone, NoBuffer, CopyItem, CopyDone, WriteIndex, WriteItem,
         WriteState, DeleteOld, WriteHeader, RetireOld, nv_resetModule, ResetSector, PowerLoss,
         Return
  <2> QED BY <2>1 DEF Unrefused
<1> QED BY <1>1, <1>2

(* Where the CRC of an entry leaves out its state, an interrupted item     *)
(* header leaves no flag behind and the items are a multiple of four bytes *)
(* long, no write is refused, whatever a failure left in the sectors       *)
(* (nv.c:319-353, 725).                                                    *)
THEOREM WriteNotRefusedTheorem ==
  ASSUME ~RetireTears, ~CrcCoversState, ~HeaderTears, \A i \in Ids : Total[i] % 4 = 0
  PROVE  Spec => []WriteNotRefused
<1>1. Init => Unrefused
  <2> SUFFICES ASSUME Init PROVE Unrefused
    OBVIOUS
  <2>1. \A s \in Sector : sect[s].idx = <<>>
    BY ErasedIs DEF Init
  <2> QED BY <2>1 DEF Init, Unrefused, Cleans, Clean, NoOp
<1>2. IInv /\ IInv' /\ Unrefused /\ [Next]_vars => Unrefused'
  <2> SUFFICES ASSUME IInv, IInv', Unrefused, [Next]_vars PROVE Unrefused'
    OBVIOUS
  <2>1. Cleans(sect) /\ (op.step = "index" => CanAppend)
    BY DEF Unrefused
  <2>2. Cleans(sect')
    BY <2>1, CleanStep
  <2>3. op'.step = "index" => CanAppend'
    BY <2>1, <2>2, RoomStep
  <2>4. res' # "checkError"
    BY RefusedIs
  <2> QED BY <2>2, <2>3, <2>4 DEF Unrefused
<1>3. Unrefused => WriteNotRefused
  BY DEF Unrefused, WriteNotRefused
<1> QED BY <1>1, <1>2, <1>3, Invariance, PTL DEF Spec
=============================================================================
