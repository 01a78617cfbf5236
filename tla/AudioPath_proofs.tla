-------------------------- MODULE AudioPath_proofs --------------------------
(***************************************************************************)
(* The two halves of the audio path, proved apart.                         *)
(*                                                                         *)
(* The ring of recorded packets implements the queue that drops its        *)
(* oldest, for every size of the ring of at least two, every modulus of    *)
(* the cursors that is a multiple of twice the size, every delay and every *)
(* number of discarded packets.  A cursor that wraps is where it would be  *)
(* had it not, for Slot and for Pkts (Shift), and two packets of the ring  *)
(* never share a place (Apart).                                            *)
(*                                                                         *)
(* The flag of the audio frame, the radio and the timer agree, for every   *)
(* number of retries, every limit of failures and every ring.  The         *)
(* inductive invariant relates the flag to everything that is read in its  *)
(* light.  While it is set, an audio frame is in one place: on the air,    *)
(* sent, or waiting for the timer with retries left.  While it is clear,   *)
(* no part of an audio frame is anywhere, unless a stop left one behind    *)
(* (aborted).  TX_BUSY and rf_isAck are set while an acknowledgement is    *)
(* sent, or outlived it (stale).                                           *)
(***************************************************************************)
EXTENDS AudioPath, SequenceTheorems, TLAPS

-----------------------------------------------------------------------------
(* The ring. *)

(* Arithmetic of remainders.                                               *)
(* Whatever quotient leaves a remainder in range leaves the remainder.     *)
LEMMA ModUnique ==
  ASSUME NEW m \in Nat \ {0}, NEW k \in Int, NEW r \in 0..m - 1, NEW a \in Nat, a = m * k + r
  PROVE a % m = r
OBVIOUS

(* A number is a multiple of m and its remainder.                          *)
LEMMA Divides ==
  ASSUME NEW m \in Nat \ {0}, NEW a \in Nat
  PROVE  \E q \in Int : a = m * q + (a % m) /\ a % m \in 0..m - 1
<1>1. a = m * (a \div m) + (a % m) /\ a \div m \in Int /\ a % m \in 0..m - 1
  OBVIOUS
<1> QED BY <1>1

(* A number below m is its own remainder, also a round later.              *)
LEMMA Small ==
  ASSUME NEW m \in Nat \ {0}, NEW a \in 0..m - 1
  PROVE  a % m = a /\ (a + m) % m = a
OBVIOUS

(* The products the provers do not rearrange by themselves.                *)
LEMMA Distribute ==
  ASSUME NEW m \in Int, NEW p \in Int, NEW q \in Int
  PROVE  m * (p + q) = m * p + m * q /\ m * (p - q) = m * p - m * q /\ m * (2 * p) = (2 * m) * p
OBVIOUS

(* No multiple of m but 0 is below m.                                      *)
LEMMA Smaller ==
  ASSUME NEW m \in Nat \ {0}, NEW k \in Int, NEW d \in Nat, d < m, m * k = d PROVE d = 0
OBVIOUS

(* Adding a multiple of m keeps the remainder.                             *)
LEMMA Shift ==
  ASSUME NEW m \in Nat \ {0}, NEW a \in Nat, NEW b \in Nat, b % m = 0
  PROVE  (a + b) % m = a % m
<1>1. PICK q \in Int : a = m * q + (a % m) /\ a % m \in 0..m - 1
  BY Divides
<1>2. PICK p \in Int : b = m * p + (b % m)
  BY Divides
<1>3. b = m * p
  BY <1>2
<1>4. m * (q + p) = m * q + m * p /\ q + p \in Int
  BY Distribute
<1> DEFINE r == a % m
<1>5. a = m * q + r /\ r \in 0..m - 1 /\ a + b \in Nat
  BY <1>1
<1> HIDE DEF r
<1>6. a + b = m * (q + p) + r
  BY <1>3, <1>4, <1>5
<1>7. \A k \in Int : a + b = m * k + r => (a + b) % m = r
  BY <1>5, ModUnique
<1>8. (a + b) % m = r
  BY <1>4, <1>6, <1>7
<1> QED BY <1>8 DEF r

(* Two numbers less than m apart have different remainders.                *)
LEMMA Apart ==
  ASSUME NEW m \in Nat \ {0}, NEW a \in Nat, NEW d \in 0..m - 1, a % m = (a + d) % m
  PROVE  d = 0
<1>1. PICK q \in Int : a = m * q + (a % m) /\ a % m \in 0..m - 1
  BY Divides
<1>2. PICK p \in Int : a + d = m * p + ((a + d) % m)
  <2>1. a + d \in Nat
    OBVIOUS
  <2> QED BY <2>1, Divides
<1>3. d = m * p - m * q
  BY <1>1, <1>2
<1>4. d = m * (p - q) /\ p - q \in Int
  BY <1>3, Distribute
<1> QED BY <1>4, Smaller

(* A multiple of 2m is a multiple of m.                                    *)
LEMMA Half ==
  ASSUME NEW m \in Nat \ {0}, NEW b \in Nat, b % (2 * m) = 0
  PROVE  b % m = 0
<1>1. PICK p \in Int : b = (2 * m) * p + (b % (2 * m))
  <2>1. 2 * m \in Nat \ {0}
    OBVIOUS
  <2> QED BY <2>1, Divides
<1>2. b = m * (2 * p) + 0 /\ 2 * p \in Int
  BY <1>1, Distribute
<1> QED BY <1>2, ModUnique
-----------------------------------------------------------------------------
(* Cursors.                                                                *)

Cursor == 0..CursorMod - 1

Waiting(w, r) == (w - r + CursorMod) % CursorMod

Stored(b, w, r) == [k \in 1..Waiting(w, r) |-> b[Slot(r + k - 1)]]

Buffer == [0..RingSize - 1 -> Packet]

(* The sizes of the ring and of its cursors.                               *)
LEMMA Sizes ==
  /\ RingSize \in Nat /\ RingSize >= 2
  /\ CursorMod \in Nat \ {0} /\ CursorMod % (2 * RingSize) = 0 /\ CursorMod % RingSize = 0
  /\ CursorMod >= 2 * RingSize
<1>1. /\ RingSize \in Nat /\ RingSize >= 2
      /\ CursorMod \in Nat \ {0} /\ CursorMod % (2 * RingSize) = 0
  BY AudioAssumption
<1>2. CursorMod % RingSize = 0
  <2>1. RingSize \in Nat \ {0} /\ CursorMod \in Nat
    BY <1>1
  <2> QED BY <1>1, <2>1, Half
<1>3. ASSUME CursorMod < 2 * RingSize PROVE FALSE
  <2>1. 2 * RingSize \in Nat \ {0} /\ CursorMod \in 0..(2 * RingSize) - 1
    BY <1>1, <1>3
  <2>2. CursorMod % (2 * RingSize) = CursorMod
    BY <2>1, Small
  <2> QED BY <1>1, <2>2
<1> QED BY <1>1, <1>2, <1>3

(* A cursor steps by one and wraps at the end.                             *)
LEMMA UpIs ==
  ASSUME NEW c \in Cursor
  PROVE  Up(c) \in Cursor /\ Up(c) = IF c + 1 = CursorMod THEN 0 ELSE c + 1
<1>1. CASE c + 1 = CursorMod
  <2>1. 0 \in 0..CursorMod - 1 /\ c + 1 = 0 + CursorMod
    BY <1>1, Sizes DEF Cursor
  <2>2. (0 + CursorMod) % CursorMod = 0
    BY <2>1, Sizes, Small
  <2> QED BY <1>1, <2>1, <2>2 DEF Up, Cursor
<1>2. CASE c + 1 # CursorMod
  <2>1. c + 1 \in 0..CursorMod - 1
    BY <1>2, Sizes DEF Cursor
  <2>2. (c + 1) % CursorMod = c + 1
    BY <2>1, Sizes, Small
  <2> QED BY <1>2, <2>1, <2>2 DEF Up, Cursor
<1> QED BY <1>1, <1>2

(* The packets that wait, without the remainder.                           *)
LEMMA WaitingIs ==
  ASSUME NEW w \in Cursor, NEW r \in Cursor
  PROVE  /\ Waiting(w, r) \in Cursor
         /\ Waiting(w, r) = IF w >= r THEN w - r ELSE w - r + CursorMod
<1>1. CASE w >= r
  <2>1. w - r \in 0..CursorMod - 1
    BY <1>1, Sizes DEF Cursor
  <2>2. ((w - r) + CursorMod) % CursorMod = w - r
    BY <2>1, Sizes, Small
  <2> QED BY <1>1, <2>1, <2>2 DEF Waiting, Cursor
<1>2. CASE ~(w >= r)
  <2>1. w - r + CursorMod \in 0..CursorMod - 1
    BY <1>2, Sizes DEF Cursor
  <2>2. (w - r + CursorMod) % CursorMod = w - r + CursorMod
    BY <2>1, Sizes, Small
  <2> QED BY <1>2, <2>1, <2>2 DEF Waiting, Cursor
<1> QED BY <1>1, <1>2

(* A place is in the ring, and a round of the cursor does not change it.   *)
LEMMA SlotIs ==
  ASSUME NEW c \in Nat
  PROVE  Slot(c) \in 0..RingSize - 1 /\ Slot(c + CursorMod) = Slot(c)
<1>1. RingSize \in Nat \ {0} /\ CursorMod \in Nat /\ CursorMod % RingSize = 0
  BY Sizes
<1>2. c % RingSize \in 0..RingSize - 1
  BY <1>1, Divides
<1>3. (c + CursorMod) % RingSize = c % RingSize
  BY <1>1, Shift
<1> QED BY <1>2, <1>3 DEF Slot

(* A cursor that has wrapped is in the same place of the ring.             *)
LEMMA SlotUp ==
  ASSUME NEW c \in Cursor, NEW j \in Nat
  PROVE  Slot(Up(c) + j) = Slot(c + 1 + j)
<1>1. CASE c + 1 = CursorMod
  <2>1. Up(c) + j = j /\ c + 1 + j = j + CursorMod
    BY <1>1, UpIs, Sizes DEF Cursor
  <2> QED BY <2>1, SlotIs
<1>2. CASE c + 1 # CursorMod
  BY <1>2, UpIs
<1> QED BY <1>1, <1>2

(* The writer is as many packets ahead of the reader as there are          *)
(* waiting.                                                                *)
LEMMA SlotOfWriter ==
  ASSUME NEW w \in Cursor, NEW r \in Cursor
  PROVE  Slot(r + Waiting(w, r)) = Slot(w)
<1>1. CASE w >= r
  BY <1>1, WaitingIs, Sizes DEF Cursor
<1>2. CASE ~(w >= r)
  <2>1. r + Waiting(w, r) = w + CursorMod /\ w \in Nat
    BY <1>2, WaitingIs, Sizes DEF Cursor
  <2> QED BY <2>1, SlotIs
<1> QED BY <1>1, <1>2

(* How a step of the writer, of the reader or of both changes the number   *)
(* that waits.                                                             *)
LEMMA WaitingUp ==
  ASSUME NEW w \in Cursor, NEW r \in Cursor
  PROVE  /\ Waiting(w, r) < CursorMod - 1 => Waiting(Up(w), r) = Waiting(w, r) + 1
         /\ Waiting(w, r) > 0 => Waiting(w, Up(r)) = Waiting(w, r) - 1
         /\ Waiting(Up(w), Up(r)) = Waiting(w, r)
         /\ Waiting(w, r) = 0 <=> w = r
<1>1. Up(w) \in Cursor /\ Up(r) \in Cursor
  BY UpIs
<1>2. /\ Up(w) = IF w + 1 = CursorMod THEN 0 ELSE w + 1
      /\ Up(r) = IF r + 1 = CursorMod THEN 0 ELSE r + 1
  BY UpIs
<1>3. /\ Waiting(w, r) = IF w >= r THEN w - r ELSE w - r + CursorMod
      /\ Waiting(Up(w), r) = IF Up(w) >= r THEN Up(w) - r ELSE Up(w) - r + CursorMod
      /\ Waiting(w, Up(r)) = IF w >= Up(r) THEN w - Up(r) ELSE w - Up(r) + CursorMod
      /\ Waiting(Up(w), Up(r)) = IF Up(w) >= Up(r) THEN Up(w) - Up(r)
                                                   ELSE Up(w) - Up(r) + CursorMod
  BY <1>1, WaitingIs
<1>4. w \in Int /\ r \in Int /\ 0 <= w /\ 0 <= r /\ w < CursorMod /\ r < CursorMod
      /\ CursorMod \in Nat /\ CursorMod >= 4
  BY Sizes DEF Cursor
<1>5. Waiting(w, r) < CursorMod - 1 => Waiting(Up(w), r) = Waiting(w, r) + 1
  BY <1>2, <1>3, <1>4
<1>6. Waiting(w, r) > 0 => Waiting(w, Up(r)) = Waiting(w, r) - 1
  BY <1>2, <1>3, <1>4
<1>7. Waiting(Up(w), Up(r)) = Waiting(w, r)
  BY <1>2, <1>3, <1>4
<1>8. Waiting(w, r) = 0 <=> w = r
  BY <1>3, <1>4
<1> QED BY <1>5, <1>6, <1>7, <1>8

(* The mask of the encoder sees a ring that has run over.                  *)
LEMMA PktsIs ==
  ASSUME NEW w \in Cursor, NEW r \in Cursor, Waiting(w, r) <= RingSize + 1
  PROVE  Pkts(w, r) = Waiting(w, r)
<1> DEFINE n == Waiting(w, r)
<1>1. n \in Nat /\ (w - r + CursorMod = n \/ w - r + CursorMod = n + CursorMod)
  <2>1. n = IF w >= r THEN w - r ELSE w - r + CursorMod
    BY WaitingIs
  <2>2. n \in Cursor /\ w \in Int /\ r \in Int /\ CursorMod \in Nat
    BY WaitingIs, Sizes DEF Cursor
  <2> QED BY <2>1, <2>2 DEF Cursor
<1>2. n \in 0..(2 * RingSize) - 1 /\ 2 * RingSize \in Nat \ {0} /\ CursorMod \in Nat
      /\ CursorMod % (2 * RingSize) = 0
  BY <1>1, Sizes
<1> HIDE DEF n
<1>3. n % (2 * RingSize) = n
  BY <1>2, Small
<1>4. (n + CursorMod) % (2 * RingSize) = n
  <2>1. \A m \in Nat \ {0} : CursorMod % m = 0 => (n + CursorMod) % m = n % m
    BY <1>1, <1>2, Shift
  <2> QED BY <2>1, <1>2, <1>3
<1> QED BY <1>1, <1>3, <1>4 DEF Pkts, n

-----------------------------------------------------------------------------
(* The queue in the ring.                                                  *)

(* The queue in the ring is a sequence of packets, as long as the cursors  *)
(* are apart.                                                              *)
LEMMA StoredIs ==
  ASSUME NEW b \in Buffer, NEW w \in Cursor, NEW r \in Cursor
  PROVE  /\ Stored(b, w, r) \in Seq(Packet)
         /\ Len(Stored(b, w, r)) = Waiting(w, r)
         /\ \A k \in 1..Waiting(w, r) : Stored(b, w, r)[k] = b[Slot(r + k - 1)]
<1>1. Waiting(w, r) \in Nat
  BY WaitingIs, Sizes DEF Cursor
<1>2. ASSUME NEW k \in 1..Waiting(w, r) PROVE b[Slot(r + k - 1)] \in Packet
  <2>1. r + k - 1 \in Nat
    BY <1>1, Sizes DEF Cursor
  <2>2. Slot(r + k - 1) \in 0..RingSize - 1
    BY <2>1, SlotIs
  <2> QED BY <2>2 DEF Buffer
<1> QED BY <1>1, <1>2, IsASeq DEF Stored

(* The reader takes the oldest packet.                                     *)
LEMMA TakeOldest ==
  ASSUME NEW b \in Buffer, NEW w \in Cursor, NEW r \in Cursor, w # r
  PROVE  /\ Stored(b, w, r) # <<>>
         /\ Head(Stored(b, w, r)) = b[Slot(r)]
         /\ Tail(Stored(b, w, r)) = Stored(b, w, Up(r))
<1> DEFINE s == Stored(b, w, r)
           t == Stored(b, w, Up(r))
           n == Waiting(w, r)
<1>1. n \in Nat \ {0} /\ Up(r) \in Cursor /\ Waiting(w, Up(r)) = n - 1 /\ r \in Nat
  <2>1. n \in Cursor /\ Up(r) \in Cursor
    BY WaitingIs, UpIs
  <2>2. n \in Nat /\ r \in Nat
    BY <2>1, Sizes DEF Cursor
  <2>3. n # 0 /\ (n > 0 => Waiting(w, Up(r)) = n - 1)
    BY WaitingUp
  <2> HIDE DEF n
  <2> QED BY <2>1, <2>2, <2>3
<1>2. s \in Seq(Packet) /\ Len(s) = n /\ \A k \in 1..n : s[k] = b[Slot(r + k - 1)]
  BY StoredIs
<1>3. t \in Seq(Packet) /\ Len(t) = n - 1 /\ \A k \in 1..n - 1 : t[k] = b[Slot(Up(r) + k - 1)]
  <2>1. /\ t \in Seq(Packet) /\ Len(t) = Waiting(w, Up(r))
        /\ \A k \in 1..Waiting(w, Up(r)) : t[k] = b[Slot(Up(r) + k - 1)]
    BY <1>1, StoredIs
  <2>2. Waiting(w, Up(r)) = n - 1
    BY <1>1
  <2> HIDE DEF t, n
  <2> QED BY <2>1, <2>2
<1> HIDE DEF s, t, n
<1>4. s # <<>>
  BY <1>1, <1>2, EmptySeq
<1>5. Head(s) = s[1] /\ Tail(s) \in Seq(Packet) /\ Len(Tail(s)) = n - 1
      /\ \A k \in 1..n - 1 : Tail(s)[k] = s[k + 1]
  BY <1>2, <1>4, HeadTailProperties
<1>6. s[1] = b[Slot(r)]
  BY <1>1, <1>2
<1>7. ASSUME NEW k \in 1..n - 1 PROVE t[k] = Tail(s)[k]
  <2>1. k - 1 \in Nat /\ k + 1 \in 1..n
    BY <1>1
  <2>2. Slot(Up(r) + (k - 1)) = Slot(r + 1 + (k - 1))
    BY <2>1, SlotUp
  <2>3. Up(r) + (k - 1) = Up(r) + k - 1 /\ r + 1 + (k - 1) = r + (k + 1) - 1
    BY <1>1, <2>1, Sizes DEF Cursor
  <2> QED BY <1>2, <1>3, <1>5, <2>1, <2>2, <2>3
<1>8. t = Tail(s)
  BY <1>3, <1>5, <1>7, SeqEqual
<1> QED BY <1>4, <1>5, <1>6, <1>8 DEF s, t

(* The encoder appends a packet where no other one of the queue is.        *)
LEMMA PutNewest ==
  ASSUME NEW b \in Buffer, NEW w \in Cursor, NEW r \in Cursor, NEW p \in Packet,
         Waiting(w, r) < RingSize
  PROVE  Stored([b EXCEPT ![Slot(w)] = p], Up(w), r) = Append(Stored(b, w, r), p)
<1> DEFINE c == [b EXCEPT ![Slot(w)] = p]
           s == Stored(b, w, r)
           t == Stored(c, Up(w), r)
           n == Waiting(w, r)
<1>1. n \in Nat /\ Up(w) \in Cursor /\ Waiting(Up(w), r) = n + 1 /\ r \in Nat /\ w \in Nat
      /\ n < RingSize /\ RingSize \in Nat \ {0}
  <2>1. n \in Cursor /\ Up(w) \in Cursor
    BY WaitingIs, UpIs
  <2>2. n \in Nat /\ n < RingSize /\ n < CursorMod - 1 /\ RingSize \in Nat \ {0}
    BY <2>1, Sizes DEF Cursor
  <2>3. r \in Nat /\ w \in Nat
    BY Sizes DEF Cursor
  <2> QED BY <2>1, <2>2, <2>3, WaitingUp
<1>2. Slot(w) \in 0..RingSize - 1 /\ Slot(r + n) = Slot(w)
  BY <1>1, SlotIs, SlotOfWriter
<1>3. c \in Buffer /\ c[Slot(w)] = p
      /\ \A i \in 0..RingSize - 1 : i # Slot(w) => c[i] = b[i]
  BY <1>2 DEF Buffer
<1> HIDE DEF c
<1>4. s \in Seq(Packet) /\ Len(s) = n /\ \A k \in 1..n : s[k] = b[Slot(r + k - 1)]
  BY StoredIs
<1>5. t \in Seq(Packet) /\ Len(t) = n + 1 /\ \A k \in 1..n + 1 : t[k] = c[Slot(r + k - 1)]
  <2>1. /\ t \in Seq(Packet) /\ Len(t) = Waiting(Up(w), r)
        /\ \A k \in 1..Waiting(Up(w), r) : t[k] = c[Slot(r + k - 1)]
    BY <1>1, <1>3, StoredIs
  <2>2. Waiting(Up(w), r) = n + 1
    BY <1>1
  <2> QED BY <2>1, <2>2
<1> HIDE DEF s, t, n
<1>6. /\ Append(s, p) \in Seq(Packet) /\ Len(Append(s, p)) = n + 1
      /\ \A k \in 1..n : Append(s, p)[k] = s[k]
      /\ Append(s, p)[n + 1] = p
  BY <1>4, AppendProperties
<1>7. ASSUME NEW k \in 1..n PROVE t[k] = Append(s, p)[k]
  <2>1. r + k - 1 \in Nat /\ (r + k - 1) + (n - k + 1) = r + n
        /\ n - k + 1 \in 0..RingSize - 1 /\ n - k + 1 # 0
    BY <1>1
  <2>2. Slot(r + k - 1) # Slot(w)
    <3>1. \A a \in Nat, d \in 0..RingSize - 1 :
            a % RingSize = (a + d) % RingSize => d = 0
      BY <1>1, Apart
    <3> QED BY <2>1, <3>1, <1>2 DEF Slot
  <2>3. Slot(r + k - 1) \in 0..RingSize - 1
    BY <2>1, SlotIs
  <2>4. c[Slot(r + k - 1)] = b[Slot(r + k - 1)]
    BY <1>3, <2>2, <2>3
  <2>5. k \in 1..n + 1
    BY <1>1
  <2>6. t[k] = c[Slot(r + k - 1)]
    BY <1>5, <2>5
  <2>7. Append(s, p)[k] = b[Slot(r + k - 1)]
    BY <1>4, <1>6
  <2> QED BY <2>4, <2>6, <2>7
<1>8. t[n + 1] = p
  <2>1. r + (n + 1) - 1 = r + n
    BY <1>1
  <2> QED BY <1>1, <1>2, <1>3, <1>5, <2>1
<1>9. t = Append(s, p)
  <2>1. \A k \in 1..n + 1 : t[k] = Append(s, p)[k]
    BY <1>1, <1>6, <1>7, <1>8
  <2> QED BY <1>5, <1>6, <2>1, SeqEqual
<1> QED BY <1>9 DEF s, t, c

-----------------------------------------------------------------------------
(* The steps of the recorder.                                              *)

RingInv ==
  /\ buffer_mic_enc \in Buffer
  /\ wptr \in Cursor /\ rptr \in Cursor /\ Waiting(wptr, rptr) <= RingSize
  /\ audio_delay_times \in 0..Delay /\ audio_discard_packets \in 0..Discards
  /\ audio_discard_packets > 0 => audio_delay_times = Delay

queue == Stored(buffer_mic_enc, wptr, rptr)

(* Wherever the encoder left the ring, the sender takes its oldest packet  *)
(* or none.                                                                *)
LEMMA Sender ==
  ASSUME NEW r \in Cursor, buffer_mic_enc' \in Buffer, wptr' \in Cursor,
         Waiting(wptr', r) <= RingSize, proc_sending84(r)
  PROVE  /\ rptr' \in Cursor /\ Waiting(wptr', rptr') <= RingSize
         /\ LET now == Stored(buffer_mic_enc', wptr', r)
            IN  \/ queue' = now /\ out' = out
                \/ now # <<>> /\ out' = Head(now) /\ queue' = Tail(now)
<1> DEFINE now == Stored(buffer_mic_enc', wptr', r)
<1>1. CASE Waits(r) /\ rptr' = r /\ out' = out
  BY <1>1 DEF queue
<1>2. CASE ~Waits(r) /\ rptr' = Up(r) /\ out' = buffer_mic_enc'[Slot(r)]
  <2>1. wptr' # r
    BY <1>2 DEF Waits
  <2>2. now # <<>> /\ Head(now) = buffer_mic_enc'[Slot(r)]
        /\ Tail(now) = Stored(buffer_mic_enc', wptr', Up(r))
    BY <2>1, TakeOldest
  <2>3. /\ Waiting(wptr', r) \in Cursor
        /\ Waiting(wptr', r) > 0 => Waiting(wptr', Up(r)) = Waiting(wptr', r) - 1
        /\ Waiting(wptr', r) = 0 <=> wptr' = r
    BY WaitingIs, WaitingUp
  <2>4. Up(r) \in Cursor
    BY UpIs
  <2>5. Waiting(wptr', Up(r)) <= RingSize
    BY <2>1, <2>3, Sizes DEF Cursor
  <2> QED BY <1>2, <2>2, <2>4, <2>5 DEF queue
<1> QED BY <1>1, <1>2 DEF proc_sending84

(* The encoder appends a packet, and drops the oldest of a full ring.      *)
LEMMA Encoder ==
  ASSUME RingInv, NEW p \in Packet, EncodeUnit(p)
  PROVE  /\ buffer_mic_enc' \in Buffer /\ wptr' \in Cursor
         /\ Oldest \in Cursor /\ Waiting(wptr', Oldest) <= RingSize
         /\ Stored(buffer_mic_enc', wptr', Oldest)
              = Append(IF Len(queue) < RingSize THEN queue ELSE Tail(queue), p)
<1> DEFINE n == Waiting(wptr, rptr)
<1>1. buffer_mic_enc \in Buffer /\ wptr \in Cursor /\ rptr \in Cursor /\ n <= RingSize
  BY DEF RingInv
<1>2. buffer_mic_enc' = [buffer_mic_enc EXCEPT ![Slot(wptr)] = p] /\ wptr' = Up(wptr)
  BY DEF EncodeUnit
<1>3. /\ wptr' \in Cursor /\ Up(rptr) \in Cursor
      /\ n \in Nat /\ RingSize \in Nat /\ RingSize >= 2 /\ n < CursorMod - 1
  <2>1. n \in Cursor
    BY <1>1, WaitingIs
  <2> QED BY <1>1, <1>2, <2>1, UpIs, Sizes DEF Cursor
<1>4. buffer_mic_enc' \in Buffer
  BY <1>1, <1>2 DEF Buffer
<1>5. Waiting(wptr', rptr) = n + 1 /\ Waiting(wptr', Up(rptr)) = n
      /\ (n > 0 => Waiting(wptr, Up(rptr)) = n - 1) /\ (n = 0 <=> wptr = rptr)
  BY <1>1, <1>2, <1>3, WaitingUp
<1>6. Pkts(Up(wptr), rptr) = n + 1
  <2>1. Waiting(wptr', rptr) <= RingSize + 1
    BY <1>1, <1>3, <1>5
  <2> QED BY <1>1, <1>2, <1>3, <1>5, <2>1, PktsIs
<1>7. Len(queue) = n
  BY <1>1, StoredIs DEF queue
<1>8. CASE n < RingSize
  <2>1. Oldest = rptr
    BY <1>3, <1>6, <1>8 DEF Oldest
  <2>2. Stored([buffer_mic_enc EXCEPT ![Slot(wptr)] = p], Up(wptr), rptr) = Append(queue, p)
    BY <1>1, <1>8, PutNewest DEF queue
  <2>3. Waiting(wptr', Oldest) <= RingSize
    BY <1>3, <1>5, <1>8, <2>1
  <2> QED BY <1>1, <1>2, <1>3, <1>4, <1>7, <1>8, <2>1, <2>2, <2>3
<1>9. CASE n = RingSize
  <2>1. Oldest = Up(rptr)
    BY <1>3, <1>6, <1>9 DEF Oldest
  <2>2. wptr # rptr /\ Waiting(wptr, Up(rptr)) < RingSize
    BY <1>3, <1>5, <1>9
  <2>3. Stored(buffer_mic_enc, wptr, Up(rptr)) = Tail(queue)
    BY <1>1, <2>2, TakeOldest DEF queue
  <2>4. Stored([buffer_mic_enc EXCEPT ![Slot(wptr)] = p], Up(wptr), Up(rptr))
          = Append(Stored(buffer_mic_enc, wptr, Up(rptr)), p)
    BY <1>1, <1>3, <2>2, PutNewest
  <2>5. Waiting(wptr', Oldest) <= RingSize
    BY <1>1, <1>5, <2>1
  <2>6. ~(Len(queue) < RingSize)
    BY <1>3, <1>7, <1>9
  <2> QED BY <1>2, <1>3, <1>4, <2>1, <2>3, <2>4, <2>5, <2>6
<1> QED BY <1>1, <1>3, <1>8, <1>9

(* Recording with no packet to skip is a pass of the queue.                *)
LEMMA RecordStep ==
  ASSUME RingInv, audio_discard_packets' = audio_discard_packets,
         \/ NoUnit /\ proc_sending84(rptr)
         \/ \E p \in Packet : EncodeUnit(p) /\ proc_sending84(Oldest)
  PROVE  RingInv' /\ Queue!Pass
<1> SUFFICES /\ RingInv'
             /\ \E now \in Queue!Recorded :
                  \/ queue' = now /\ out' = out
                  \/ now # <<>> /\ out' = Head(now) /\ queue' = Tail(now)
  BY DEF Queue!Pass, queue, Stored, Waiting
<1>1. CASE NoUnit /\ proc_sending84(rptr)
  <2>1. /\ buffer_mic_enc' = buffer_mic_enc /\ wptr' = wptr
        /\ audio_delay_times' = audio_delay_times
    BY <1>1 DEF NoUnit
  <2>2. /\ buffer_mic_enc' \in Buffer /\ wptr' \in Cursor /\ rptr \in Cursor
        /\ Waiting(wptr', rptr) <= RingSize
    BY <2>1 DEF RingInv
  <2>3. Stored(buffer_mic_enc', wptr', rptr) = queue
    BY <2>1 DEF queue
  <2>4. queue \in Queue!Recorded
    BY DEF Queue!Recorded, queue, Stored, Waiting
  <2>5. RingInv'
    <3>1. rptr' \in Cursor /\ Waiting(wptr', rptr') <= RingSize
      BY <1>1, <2>2, Sender
    <3> QED BY <2>1, <2>2, <3>1 DEF RingInv
  <2>6. \/ queue' = queue /\ out' = out
        \/ queue # <<>> /\ out' = Head(queue) /\ queue' = Tail(queue)
    BY <1>1, <2>2, <2>3, Sender
  <2> QED BY <2>4, <2>5, <2>6
<1>2. ASSUME NEW p \in Packet, EncodeUnit(p), proc_sending84(Oldest)
      PROVE  /\ RingInv'
             /\ \E now \in Queue!Recorded :
                  \/ queue' = now /\ out' = out
                  \/ now # <<>> /\ out' = Head(now) /\ queue' = Tail(now)
  <2> DEFINE now == Append(IF Len(queue) < RingSize THEN queue ELSE Tail(queue), p)
  <2>1. /\ buffer_mic_enc' \in Buffer /\ wptr' \in Cursor
        /\ Oldest \in Cursor /\ Waiting(wptr', Oldest) <= RingSize
        /\ Stored(buffer_mic_enc', wptr', Oldest) = now
    BY <1>2, Encoder
  <2>2. now \in Queue!Recorded
    BY DEF Queue!Recorded, queue, Stored, Waiting
  <2>3. rptr' \in Cursor /\ Waiting(wptr', rptr') <= RingSize
    BY <1>2, <2>1, Sender
  <2>4. \/ queue' = now /\ out' = out
        \/ now # <<>> /\ out' = Head(now) /\ queue' = Tail(now)
    BY <1>2, <2>1, Sender
  <2>5. audio_delay_times' \in 0..Delay /\ audio_discard_packets = 0
    BY <1>2, AudioAssumption DEF EncodeUnit, RingInv
  <2>6. RingInv'
    BY <2>1, <2>3, <2>5 DEF RingInv
  <2> QED BY <2>2, <2>4, <2>6
<1> QED BY <1>1, <1>2

(* Skipping a packet of the microphone leaves as many in the ring.         *)
LEMMA SkipStep ==
  ASSUME RingInv, DiscardUnit, proc_sending84(Up(rptr))
  PROVE  RingInv' /\ Queue!Skip
<1>1. /\ audio_discard_packets > 0 /\ audio_discard_packets' = audio_discard_packets - 1
      /\ wptr' = Up(wptr) /\ rptr' = Up(rptr) /\ buffer_mic_enc' = buffer_mic_enc
      /\ audio_delay_times' = audio_delay_times
  BY DEF DiscardUnit
<1>2. out' = out
  <2>1. audio_delay_times' > 0
    BY <1>1, AudioAssumption DEF RingInv
  <2> QED BY <2>1 DEF proc_sending84, Waits
<1>3. wptr' \in Cursor /\ rptr' \in Cursor /\ Waiting(wptr', rptr') = Waiting(wptr, rptr)
  BY <1>1, UpIs, WaitingUp DEF RingInv
<1>4. RingInv'
  BY <1>1, <1>3, AudioAssumption DEF RingInv
<1>5. queue' \in [1..Len(queue) -> Packet]
  <2>1. Len(queue) = Waiting(wptr, rptr)
    BY StoredIs DEF RingInv, queue
  <2>2. queue' \in Seq(Packet) /\ Len(queue') = Waiting(wptr', rptr')
    BY <1>4, StoredIs DEF RingInv, queue
  <2> QED BY <1>3, <2>1, <2>2, LenProperties
<1>6. audio_discard_packets > 0 /\ audio_discard_packets' = audio_discard_packets - 1
      /\ out' = out
  BY <1>1, <1>2
<1> QED BY <1>4, <1>5, <1>6 DEF Queue!Skip, queue, Stored, Waiting

(* The steps of the others leave the ring alone; a start opens it.         *)
LEMMA OtherSteps ==
  ASSUME RingInv, [Next]_vars, ~\E ready \in BOOLEAN : audio_recTaskRun(ready)
  PROVE  RingInv' /\ (Queue!Open \/ UNCHANGED Queue!qVars)
<1>1. CASE audio_recTaskStart
  <2>1. /\ audio_delay_times' = Delay /\ audio_discard_packets' = Discards
        /\ UNCHANGED <<buffer_mic_enc, wptr, rptr, out>>
    BY <1>1 DEF audio_recTaskStart
  <2>2. RingInv'
    BY <2>1, AudioAssumption DEF RingInv
  <2>3. Queue!Open
    BY <2>1 DEF Queue!Open
  <2> QED BY <2>2, <2>3
<1>2. CASE UNCHANGED ringVars
  <2>1. UNCHANGED <<buffer_mic_enc, wptr, rptr, audio_delay_times, audio_discard_packets, out>>
    BY <1>2 DEF ringVars
  <2>2. RingInv'
    BY <2>1 DEF RingInv
  <2>3. UNCHANGED Queue!qVars
    BY <2>1 DEF Queue!qVars
  <2> QED BY <2>2, <2>3
<1>3. audio_recTaskStart \/ UNCHANGED ringVars
  BY DEF Next, vars, tl_audio_stop, ClearTx, MacSend, FrameSent, Arrive, TimerExpires,
         rf_rx_irq_handler, rf_tx_irq_handler, drv_timer_irq0_handler
<1> QED BY <1>1, <1>2, <1>3

(* Every step keeps the ring in order and is a step of the queue.          *)
LEMMA RingStep ==
  ASSUME RingInv, [Next]_vars
  PROVE  RingInv' /\ [Queue!Next]_Queue!qVars
<1>1. CASE \E ready \in BOOLEAN : audio_recTaskRun(ready)
  <2>1. \/ DiscardUnit /\ proc_sending84(Up(rptr))
        \/ \E p \in Packet : EncodeUnit(p) /\ proc_sending84(Oldest)
        \/ NoUnit /\ proc_sending84(rptr)
    BY <1>1 DEF audio_recTaskRun
  <2>2. CASE DiscardUnit /\ proc_sending84(Up(rptr))
    BY <2>2, SkipStep DEF Queue!Next
  <2>3. CASE \/ NoUnit /\ proc_sending84(rptr)
             \/ \E p \in Packet : EncodeUnit(p) /\ proc_sending84(Oldest)
    <3>1. audio_discard_packets' = audio_discard_packets
      BY <2>3 DEF NoUnit, EncodeUnit
    <3> QED BY <2>3, <3>1, RecordStep DEF Queue!Next
  <2> QED BY <2>1, <2>2, <2>3
<1>2. CASE ~\E ready \in BOOLEAN : audio_recTaskRun(ready)
  BY <1>2, OtherSteps DEF Queue!Next
<1> QED BY <1>1, <1>2

(* The ring starts in order and empty.                                     *)
LEMMA RingInit == Init => RingInv /\ Queue!Init
<1> SUFFICES ASSUME Init PROVE RingInv /\ Queue!Init
  OBVIOUS
<1>1. /\ buffer_mic_enc \in Buffer /\ wptr = 0 /\ rptr = 0 /\ out = None
      /\ audio_delay_times = 0 /\ audio_discard_packets = 0
  <2>1. (CHOOSE p \in Packet : TRUE) \in Packet
    BY AudioAssumption
  <2> QED BY <2>1 DEF Init, Buffer
<1>2. wptr \in Cursor /\ rptr \in Cursor
  BY <1>1, Sizes DEF Cursor
<1>3. Waiting(wptr, rptr) = 0
  BY <1>1, <1>2, WaitingUp
<1>4. RingInv
  BY <1>1, <1>2, <1>3, Sizes, AudioAssumption DEF RingInv
<1>5. queue = <<>>
  <2>1. queue \in Seq(Packet) /\ Len(queue) = 0
    BY <1>1, <1>2, <1>3, StoredIs DEF queue
  <2> QED BY <2>1, EmptySeq
<1> QED BY <1>1, <1>4, <1>5 DEF Queue!Init, queue, Stored, Waiting

(* The cursors stay in their range and never further apart than the ring   *)
(* is long.                                                                *)
THEOREM RingTheorem == Spec => []RingInv
<1>1. RingInv /\ [Next]_vars => RingInv'
  BY RingStep
<1> QED BY <1>1, RingInit, PTL DEF Spec

(* The ring, the recorder and the sender implement the queue: packets go   *)
(* on the air in the order they were recorded, each once, and only a full  *)
(* ring loses one (audio_rec_proc.c:163-166, 342-363).                     *)
THEOREM RingImplementsQueue == Spec => QueueSpec
<1>1. Init => Queue!Init
  BY RingInit
<1>2. RingInv /\ [Next]_vars => [Queue!Next]_Queue!qVars
  BY RingStep
<1> QED BY <1>1, <1>2, RingTheorem, PTL DEF Spec, QueueSpec, Queue!Spec

-----------------------------------------------------------------------------
(* The flag, the radio and the timer. *)

MaxRetries == FewRetries + ManyRetries

RadioTypes ==
  /\ audio_status \in {"AUDIO_IDLE", "AUDIO_OPENED"}
  /\ err \in 0..AudioErrTimes
  /\ cnt \in 0..MaxRetries + 1 /\ maxFrameRetries \in {FewRetries, ManyRetries}
  /\ tmr \in Timer
  /\ air \in {None, "audio", "mac"} /\ done \in {None, "audio", "mac", "ownAck"}
  /\ rx \in {None, "ack", "data"}

Flags ==
  /\ tx \in BOOLEAN /\ due \in BOOLEAN /\ busy \in BOOLEAN /\ isAck \in BOOLEAN
  /\ snapshot \in BOOLEAN /\ stopping \in BOOLEAN
  /\ told \in BOOLEAN /\ aborted \in BOOLEAN /\ stale \in BOOLEAN

(* The radio does one thing at a time. *)
OneThing ==
  /\ rx # None => air = None /\ done = None
  /\ done # None => air = None

Awaits == tmr.running \/ tmr.irq \/ snapshot

FlagSet ==
  tx => /\ ~aborted /\ tmr.status = "WTO" /\ err < AudioErrTimes
        /\ air # "mac" /\ done # "mac"
        /\ Awaits => air = None /\ cnt <= maxFrameRetries

FlagClear ==
  ~tx /\ ~aborted => /\ ~tmr.running /\ ~tmr.irq /\ (snapshot => tmr.status = "IDLE")
                     /\ air # "audio" /\ done # "audio"

Acks ==
  /\ done = "ownAck" => isAck
  /\ (busy \/ isAck) /\ ~stale => ~tx /\ (done \in {"ownAck", "audio"} \/ air = "audio")

Retried == Awaits => cnt <= MaxRetries

RadioInv == RadioTypes /\ OneThing /\ FlagSet /\ FlagClear /\ Acks /\ Retried

radio == <<audio_status, frameVars, tmr, radioVars, stopping, histVars>>

(* What the operations of the timer do to it.                              *)
LEMMA TimerOps ==
  ASSUME NEW t \in Timer
  PROVE  /\ t.status \in {"IDLE", "WTO"} /\ t.running \in BOOLEAN /\ t.irq \in BOOLEAN
         /\ LET u == drv_hwTmr_set(drv_hwTmr_cancel(t))
            IN  u \in Timer /\ u.status = "WTO" /\ ~u.running /\ u.irq = t.irq
         /\ LET u == hwTimerStop(t)
            IN  u \in Timer /\ u.status = t.status /\ ~u.running /\ u.irq = t.irq
         /\ LET u == Expired(t)
            IN  u \in Timer /\ u.status = t.status /\ u.running = t.running /\ u.irq
         /\ LET u == drv_timer_clear_irq(hwTimerStop(hwTimerInfoReset(t)))
            IN  u \in Timer /\ u.status = "IDLE" /\ ~u.running /\ ~u.irq
         /\ LET u == hwTimerStart(drv_timer_clear_irq(t))
            IN  u \in Timer /\ u.status = t.status /\ u.running /\ ~u.irq
         /\ LET u == Called(t)
            IN  u \in Timer /\ u.status = t.status /\ ~u.running /\ ~u.irq
         /\ LET u == NotArmed(t)
            IN  u \in Timer /\ u.status = t.status /\ u.running = t.running /\ ~u.irq
<1>1. /\ t.status \in {"IDLE", "WTO"} /\ t.running \in BOOLEAN /\ t.irq \in BOOLEAN
      /\ t.cap \in {"time", "overflow"}
  BY DEF Timer
<1>2. LET u == drv_hwTmr_set(drv_hwTmr_cancel(t))
      IN  u \in Timer /\ u.status = "WTO" /\ ~u.running /\ u.irq = t.irq
  BY <1>1 DEF Timer, drv_hwTmr_set, drv_hwTmr_cancel, hwTimerInfoReset, hwTimerStop
<1>3. LET u == hwTimerStop(t)
      IN  u \in Timer /\ u.status = t.status /\ ~u.running /\ u.irq = t.irq
  BY <1>1 DEF Timer, hwTimerStop
<1>4. LET u == Expired(t)
      IN  u \in Timer /\ u.status = t.status /\ u.running = t.running /\ u.irq
  BY <1>1 DEF Timer, Expired
<1>5. LET u == drv_timer_clear_irq(hwTimerStop(hwTimerInfoReset(t)))
      IN  u \in Timer /\ u.status = "IDLE" /\ ~u.running /\ ~u.irq
  BY <1>1 DEF Timer, drv_timer_clear_irq, hwTimerStop, hwTimerInfoReset
<1>6. LET u == hwTimerStart(drv_timer_clear_irq(t))
      IN  u \in Timer /\ u.status = t.status /\ u.running /\ ~u.irq
  BY <1>1 DEF Timer, hwTimerStart, drv_timer_clear_irq
<1>7. LET u == Called(t)
      IN  u \in Timer /\ u.status = t.status /\ ~u.running /\ ~u.irq
  BY <1>1 DEF Timer, Called, hwTimerStop, drv_timer_clear_irq
<1>8. LET u == NotArmed(t)
      IN  u \in Timer /\ u.status = t.status /\ u.running = t.running /\ ~u.irq
  BY <1>1 DEF Timer, NotArmed, drv_timer_clear_irq
<1> QED BY <1>1, <1>2, <1>3, <1>4, <1>5, <1>6, <1>7, <1>8

(* Constants and the names of frames.                                      *)
LEMMA Names ==
  /\ None # "audio" /\ None # "mac" /\ None # "ownAck" /\ None # "ack" /\ None # "data"
  /\ FewRetries \in Nat /\ ManyRetries \in Nat /\ MaxRetries \in Nat
  /\ AudioErrTimes \in Nat /\ AudioErrTimes > 0
  /\ 0 \in 0..MaxRetries + 1 /\ 0 \in 0..AudioErrTimes
<1>1. FewRetries \in Nat /\ ManyRetries \in Nat /\ AudioErrTimes \in Nat /\ AudioErrTimes > 0
  BY AudioAssumption
<1>2. None # "audio" /\ None # "mac" /\ None # "ownAck" /\ None # "ack" /\ None # "data"
  BY AudioAssumption
<1> QED BY <1>1, <1>2 DEF MaxRetries

(* The counters, without the flags.                                        *)
LEMMA Numbers ==
  ASSUME RadioTypes
  PROVE  /\ cnt \in Nat /\ maxFrameRetries \in Nat /\ maxFrameRetries <= MaxRetries
         /\ err \in Nat /\ err <= AudioErrTimes
<1>1. /\ cnt \in 0..MaxRetries + 1 /\ err \in 0..AudioErrTimes
      /\ maxFrameRetries = FewRetries \/ maxFrameRetries = ManyRetries
  BY DEF RadioTypes
<1> QED BY <1>1, Names DEF MaxRetries

-----------------------------------------------------------------------------
(* The main loop.                                                          *)

(* A pass of the recorder that gives nothing to the radio.                 *)
LEMMA RecorderWaits ==
  ASSUME RadioInv, told' = FALSE, UNCHANGED <<done, rx, busy, isAck, snapshot, stopping, stale>>,
         UNCHANGED <<audio_status, frameVars, tmr, air, due, aborted>>
  PROVE  RadioInv'
<1> USE DEF RadioInv, RadioTypes, OneThing, FlagSet, FlagClear, Acks, Retried, Awaits
<1>1. UNCHANGED <<audio_status, err, tx, cnt, maxFrameRetries, tmr, air, due, aborted,
                  done, rx, busy, isAck, snapshot, stopping, stale>>
  BY DEF frameVars
<1> QED BY <1>1

(* A pass that takes a packet: the frame starts clean, or the radio is     *)
(* busy and the packet is lost, or the session ends.                       *)
LEMMA RecorderSends ==
  ASSUME RadioInv, Quiet, told' = FALSE,
         UNCHANGED <<done, rx, busy, isAck, snapshot, stopping, stale>>,
         ~tx, tl_audioDataSend, maxFrameRetries' \in {FewRetries, ManyRetries},
         tmr' = drv_hwTmr_set(drv_hwTmr_cancel(tmr))
  PROVE  RadioInv'
<1> USE DEF RadioInv, RadioTypes, OneThing, FlagSet, FlagClear, Acks, Retried, Awaits
<1>1. /\ tmr' \in Timer /\ tmr'.status = "WTO" /\ ~tmr'.running /\ ~tmr'.irq
      /\ ~snapshot' /\ done = None /\ rx = None /\ ~snapshot
  BY TimerOps DEF Quiet
<1>2. CASE UNCHANGED <<cnt, air, due, aborted>> /\ ~tx' /\ err' \in 0..AudioErrTimes
           /\ audio_status' \in {"AUDIO_IDLE", audio_status}
  <2> QED BY <1>1, <1>2, Names
<1>3. CASE /\ air = None /\ tx' = TRUE /\ cnt' = 0 /\ air' = "audio" /\ due' = FALSE
           /\ aborted' = FALSE /\ err < AudioErrTimes /\ UNCHANGED <<err, audio_status>>
  <2>0. /\ cnt' = 0 /\ cnt' \in 0..MaxRetries + 1 /\ cnt' <= MaxRetries
        /\ maxFrameRetries' \in Nat
    BY <1>3, Names
  <2> QED BY <1>1, <1>3, <2>0, Names
<1>4. CASE /\ err' = 0 /\ audio_status' = "AUDIO_IDLE" /\ tx' = FALSE
           /\ UNCHANGED <<cnt, air, due, aborted>>
  BY <1>2, <1>4, Names
<1>5. CASE /\ err < AudioErrTimes /\ nwk_profileAudioDataSend
           /\ UNCHANGED <<err, audio_status>>
  <2>1. CASE air = None
    BY <1>3, <1>5, <2>1 DEF nwk_profileAudioDataSend
  <2>2. CASE air # None
    BY <1>2, <1>5, <2>2 DEF nwk_profileAudioDataSend
  <2> QED BY <2>1, <2>2
<1> QED BY Zenon, <1>4, <1>5 DEF tl_audioDataSend

(* A pass of the recorder.                                                 *)
LEMMA RecorderStep ==
  ASSUME RadioInv, NEW ready \in BOOLEAN, audio_recTaskRun(ready)
  PROVE  RadioInv'
<1>1. /\ Quiet /\ told' = FALSE
      /\ UNCHANGED <<done, rx, busy, isAck, snapshot, stopping, stale>>
      /\ \E r : proc_sending84(r)
  BY DEF audio_recTaskRun
<1>2. PICK r : proc_sending84(r)
  BY <1>1
<1>3. CASE UNCHANGED <<audio_status, frameVars, tmr, air, due, aborted>>
  BY <1>1, <1>3, RecorderWaits
<1>4. CASE /\ ~tx /\ tl_audioDataSend /\ maxFrameRetries' \in {FewRetries, ManyRetries}
           /\ tmr' = drv_hwTmr_set(drv_hwTmr_cancel(tmr))
  BY <1>1, <1>4, RecorderSends
<1>5. \/ UNCHANGED <<audio_status, frameVars, tmr, air, due, aborted>>
      \/ /\ ~tx /\ tl_audioDataSend /\ maxFrameRetries' \in {FewRetries, ManyRetries}
         /\ tmr' = drv_hwTmr_set(drv_hwTmr_cancel(tmr))
  BY <1>2 DEF proc_sending84, Waits, Retries
<1> QED BY <1>3, <1>4, <1>5

(* A start, a stop, and a frame of the MAC.                                *)
LEMMA MainLoopStep ==
  ASSUME RadioInv, audio_recTaskStart \/ tl_audio_stop \/ ClearTx \/ MacSend
  PROVE  RadioInv'
<1> USE DEF RadioInv, RadioTypes, OneThing, FlagSet, FlagClear, Acks, Retried, Awaits,
            frameVars, radioVars, histVars
<1>1. CASE audio_recTaskStart
  <2>1. audio_status' = "AUDIO_OPENED" /\ UNCHANGED <<frameVars, tmr, radioVars, stopping, histVars>>
    BY <1>1 DEF audio_recTaskStart
  <2> QED BY <2>1
<1>2. CASE tl_audio_stop
  <2>1. /\ audio_status' = "AUDIO_IDLE" /\ stopping' = TRUE
        /\ UNCHANGED <<frameVars, radioVars, histVars>>
        /\ tmr' \in Timer /\ tmr'.status = tmr.status /\ ~tmr'.running /\ tmr'.irq = tmr.irq
    BY <1>2, TimerOps DEF tl_audio_stop
  <2> QED BY <2>1
<1>3. CASE ClearTx
  <2>1. /\ stopping' = FALSE /\ tx' = FALSE /\ aborted' = (aborted \/ tx)
        /\ UNCHANGED <<audio_status, err, cnt, maxFrameRetries, tmr, radioVars, told, stale>>
    BY <1>3 DEF ClearTx
  <2>2. RadioTypes' /\ OneThing' /\ Retried'
    BY <2>1
  <2>3. FlagSet' /\ FlagClear' /\ Acks'
    BY <2>1
  <2> QED BY <2>2, <2>3
<1>4. CASE MacSend
  <2>1. /\ done = None /\ rx = None /\ ~tx /\ air = None
        /\ air' = "mac" /\ due' = FALSE /\ told' = FALSE
        /\ UNCHANGED <<audio_status, frameVars, tmr, done, rx, busy, isAck, snapshot,
                       stopping, aborted, stale>>
    BY <1>4 DEF MacSend, Quiet
  <2> QED BY <2>1, Names
<1> QED BY <1>1, <1>2, <1>3, <1>4

-----------------------------------------------------------------------------
(* The radio, the timer and their interrupts.                              *)

(* A frame ends, one arrives, the timer reaches its time.                  *)
LEMMA HardwareStep ==
  ASSUME RadioInv, FrameSent \/ (\E frame \in {"ack", "data"} : Arrive(frame)) \/ TimerExpires
  PROVE  RadioInv'
<1> USE DEF RadioInv, RadioTypes, OneThing, FlagSet, FlagClear, Acks, Retried, Awaits,
            frameVars, radioVars, histVars
<1>1. CASE FrameSent
  <2>1. /\ air # None /\ air' = None /\ done' = air
        /\ UNCHANGED <<audio_status, frameVars, tmr, rx, busy, isAck, snapshot, stopping, histVars>>
    BY <1>1 DEF FrameSent
  <2> QED BY <2>1, Names
<1>2. CASE \E frame \in {"ack", "data"} : Arrive(frame)
  <2>1. /\ air = None /\ done = None /\ rx = None /\ rx' \in {"ack", "data"}
        /\ UNCHANGED <<audio_status, frameVars, tmr, air, done, busy, isAck, snapshot,
                       stopping, histVars>>
    BY <1>2 DEF Arrive
  <2> QED BY <2>1, Names
<1>3. CASE TimerExpires
  <2>1. /\ tmr.running
        /\ tmr' \in Timer /\ tmr'.status = tmr.status /\ tmr'.running = tmr.running /\ tmr'.irq
        /\ UNCHANGED <<audio_status, frameVars, radioVars, stopping, histVars>>
    BY <1>3, TimerOps DEF TimerExpires, Expires
  <2> QED BY <2>1
<1> QED BY <1>1, <1>2, <1>3

(* A frame was received.                                                   *)
LEMMA ReceiveStep ==
  ASSUME RadioInv, rf_rx_irq_handler
  PROVE  RadioInv'
<1> USE DEF RadioInv, RadioTypes, OneThing, FlagSet, FlagClear, Acks, Retried, Awaits, frameVars
<1>1. /\ rx # None /\ ~snapshot /\ rx' = None /\ told' = FALSE
      /\ snapshot' => tmr.irq
      /\ UNCHANGED <<audio_status, air, due, stopping, aborted>>
  BY DEF rf_rx_irq_handler, Dispatch
<1>2. air = None /\ done = None
  BY <1>1
<1>3. CASE UNCHANGED <<frameVars, tmr, done, busy, isAck, stale>>
  <2> QED BY <1>1, <1>2, <1>3, Names
<1>4. CASE AckOfAudio /\ UNCHANGED busy
  <2>1. /\ tx /\ tx' = FALSE /\ err' = 0
        /\ tmr' \in Timer /\ tmr'.status = "IDLE" /\ ~tmr'.running /\ ~tmr'.irq
        /\ UNCHANGED <<cnt, maxFrameRetries, done, busy, isAck, stale>>
    BY <1>4, TimerOps DEF AckOfAudio, tl_audioDataSendCnfHandler
  <2> QED BY <1>1, <1>2, <2>1, Names
<1>5. CASE ~busy /\ SendAck
  <2>1. isAck' = TRUE /\ UNCHANGED <<frameVars, tmr>>
    BY <1>5 DEF SendAck
  <2>2. \/ done' = "ownAck" /\ (stale' <=> stale \/ tx)
        \/ done' = done /\ (busy' <=> busy) /\ stale'
    BY <1>5 DEF SendAck
  <2> QED BY <1>1, <1>2, <1>5, <2>1, <2>2, Names
<1> QED BY <1>3, <1>4, <1>5 DEF rf_rx_irq_handler, AckForMac

(* A frame has been sent.                                                  *)
LEMMA SentStep ==
  ASSUME RadioInv, rf_tx_irq_handler
  PROVE  RadioInv'
<1> USE DEF RadioInv, RadioTypes, OneThing, FlagSet, FlagClear, Acks, Retried, Awaits
<1>1. /\ done # None /\ ~snapshot /\ done' = None
      /\ snapshot' => tmr.irq
      /\ UNCHANGED <<audio_status, cnt, maxFrameRetries, air, rx, due, stopping, aborted>>
  BY DEF rf_tx_irq_handler, Dispatch
<1>2. air = None /\ rx = None
  BY <1>1, Zenon
<1>3. CASE AudioSent /\ cnt <= maxFrameRetries
  <2>0. cnt <= MaxRetries
    BY <1>3, Names, Numbers
  <2>1. /\ tx /\ told' = FALSE /\ UNCHANGED <<err, tx, busy, isAck, stale>>
        /\ tmr' \in Timer /\ tmr'.status = tmr.status /\ tmr'.running /\ ~tmr'.irq
    BY <1>3, TimerOps DEF AudioSent
  <2> QED BY <1>1, <1>2, <1>3, <2>0, <2>1, Names
<1>4. CASE AudioSent /\ ~(cnt <= maxFrameRetries)
  <2>0. tx /\ err' = err + 1 /\ err + 1 \in 0..AudioErrTimes
    <3>1. tx /\ err' = err + 1 /\ "failed" # "acked"
      BY <1>4 DEF AudioSent, tl_audioDataSendCnfHandler
    <3> QED BY <3>1, Names, Numbers
  <2>1. tx' = FALSE /\ told' = FALSE /\ UNCHANGED <<tmr, busy, isAck, stale>>
    BY <1>4 DEF AudioSent, tl_audioDataSendCnfHandler
  <2> QED BY <1>1, <1>2, <1>4, <2>0, <2>1, Names
<1>5. CASE OtherSent
  <2>1. ~tx /\ ~busy' /\ ~isAck' /\ ~stale' /\ UNCHANGED <<err, tx, tmr>>
    BY <1>5 DEF OtherSent
  <2> QED BY <1>1, <1>2, <2>1, Names
<1> QED BY <1>3, <1>4, <1>5 DEF rf_tx_irq_handler

(* The timer's interrupt is taken.                                         *)
LEMMA TimerStep ==
  ASSUME RadioInv, drv_timer_irq0_handler
  PROVE  RadioInv'
<1> USE DEF RadioInv, RadioTypes, OneThing, FlagSet, FlagClear, Acks, Retried, Awaits
<1>1. /\ tmr.irq \/ snapshot
      /\ snapshot' = FALSE /\ told' = FALSE
      /\ UNCHANGED <<audio_status, err, tx, maxFrameRetries, busy, isAck, stopping, aborted, stale>>
  BY DEF drv_timer_irq0_handler
<1>2. CASE tmr.status = "WTO" /\ AudioTimeOutTxCb /\ tmr' = Called(tmr)
  <2>0. cnt <= MaxRetries /\ cnt' = cnt + 1 /\ cnt + 1 \in 0..MaxRetries + 1
    BY <1>1, <1>2, Names, Numbers DEF AudioTimeOutTxCb
  <2>1. /\ rx' = None /\ done' = None /\ air' = "audio" /\ due' = FALSE
        /\ tmr' \in Timer /\ tmr'.status = "WTO" /\ ~tmr'.running /\ ~tmr'.irq
    BY <1>2, TimerOps DEF AudioTimeOutTxCb
  <2> QED BY <1>1, <1>2, <2>0, <2>1, Names
<1>3. CASE /\ tmr.status # "WTO" /\ tmr' = NotArmed(tmr)
           /\ UNCHANGED <<rx, done, air, due, cnt>>
  <2>1. tmr' \in Timer /\ tmr'.status = tmr.status /\ tmr'.running = tmr.running /\ ~tmr'.irq
    BY <1>3, TimerOps
  <2> QED BY <1>1, <1>3, <2>1, Names
<1> QED BY <1>2, <1>3 DEF drv_timer_irq0_handler

-----------------------------------------------------------------------------
(* The invariant holds when the remote starts ...                          *)
LEMMA RadioInit == Init => RadioInv
<1> SUFFICES ASSUME Init PROVE RadioInv
  OBVIOUS
<1>1. tmr \in Timer /\ tmr.status = "IDLE" /\ ~tmr.running /\ ~tmr.irq
  BY DEF Init, Unset, Timer
<1>2. RadioTypes
  BY <1>1, Names DEF Init, RadioTypes
<1>3. OneThing /\ FlagSet /\ FlagClear
  BY <1>1, Names DEF Init, OneThing, FlagSet, FlagClear, Awaits
<1>4. Acks /\ Retried
  BY <1>1, Names DEF Init, Acks, Retried, Awaits
<1> QED BY <1>2, <1>3, <1>4 DEF RadioInv

(* ... and every step keeps it.                                            *)
LEMMA RadioStep == RadioInv /\ [Next]_vars => RadioInv'
<1> SUFFICES ASSUME RadioInv, [Next]_vars PROVE RadioInv'
  OBVIOUS
<1>1. CASE UNCHANGED vars
  <2>1. UNCHANGED <<audio_status, err, tx, cnt, maxFrameRetries, tmr, air, done, rx, due,
                    busy, isAck, snapshot, stopping, told, aborted, stale>>
    BY <1>1 DEF vars, frameVars, radioVars, histVars
  <2> QED BY <2>1 DEF RadioInv, RadioTypes, OneThing, FlagSet, FlagClear, Acks, Retried, Awaits
<1>2. CASE \E ready \in BOOLEAN : audio_recTaskRun(ready)
  BY <1>2, RecorderStep
<1>3. CASE audio_recTaskStart \/ tl_audio_stop \/ ClearTx \/ MacSend
  BY <1>3, MainLoopStep
<1>4. CASE FrameSent \/ (\E frame \in {"ack", "data"} : Arrive(frame)) \/ TimerExpires
  BY <1>4, HardwareStep
<1>5. CASE rf_rx_irq_handler
  BY <1>5, ReceiveStep
<1>6. CASE rf_tx_irq_handler
  BY <1>6, SentStep
<1>7. CASE drv_timer_irq0_handler
  BY <1>7, TimerStep
<1> QED BY <1>1, <1>2, <1>3, <1>4, <1>5, <1>6, <1>7 DEF Next

-----------------------------------------------------------------------------
(* The rest of the types.                                                  *)

(* What was taken from the ring is a packet, and the flags are flags.      *)
RestTypes == out \in Packet \cup {None} /\ Flags

(* The sender takes a packet of the ring.                                  *)
LEMMA OutStep ==
  ASSUME RingInv, RingInv', out \in Packet \cup {None}, [Next]_vars
  PROVE  out' \in Packet \cup {None}
<1>1. CASE out' = out
  BY <1>1
<1>2. ASSUME NEW r \in Cursor, proc_sending84(r) PROVE out' \in Packet \cup {None}
  <2>1. Slot(r) \in 0..RingSize - 1
    BY SlotIs, Sizes DEF Cursor
  <2>2. out' = out \/ out' = buffer_mic_enc'[Slot(r)]
    BY <1>2 DEF proc_sending84
  <2> QED BY <2>1, <2>2 DEF RingInv, Buffer
<1>3. rptr \in Cursor /\ Up(rptr) \in Cursor /\ Oldest \in Cursor
  BY UpIs DEF RingInv, Oldest
<1>4. out' = out \/ \E r \in Cursor : proc_sending84(r)
  BY <1>3 DEF Next, vars, ringVars, audio_recTaskRun, audio_recTaskStart, tl_audio_stop, ClearTx,
     MacSend, FrameSent, Arrive, TimerExpires, rf_rx_irq_handler, rf_tx_irq_handler,
     drv_timer_irq0_handler
<1> QED BY <1>1, <1>2, <1>4

(* Every assignment to a flag is of a truth value.                         *)
LEMMA FlagsStep ==
  ASSUME Flags, [Next]_vars
  PROVE  Flags'
<1> USE DEF Flags, frameVars, radioVars, histVars
<1>1. CASE UNCHANGED vars
  BY <1>1, Zenon DEF vars
<1>2. CASE \E ready \in BOOLEAN : audio_recTaskRun(ready)
  <2>1. /\ told' = FALSE /\ UNCHANGED <<busy, isAck, snapshot, stopping, stale>>
        /\ \E r : proc_sending84(r)
    BY <1>2, Zenon DEF audio_recTaskRun
  <2>2. \A r : proc_sending84(r) =>
           /\ tx' = tx \/ tx' = TRUE \/ tx' = FALSE
           /\ due' = due \/ due' = FALSE
           /\ aborted' = aborted \/ aborted' = FALSE
    BY Zenon DEF proc_sending84, tl_audioDataSend, nwk_profileAudioDataSend
  <2> QED BY <2>1, <2>2, Zenon
<1>3. CASE audio_recTaskStart
  BY <1>3, Zenon DEF audio_recTaskStart
<1>4. CASE tl_audio_stop
  BY <1>4, Zenon DEF tl_audio_stop
<1>5. CASE ClearTx
  BY <1>5, Zenon DEF ClearTx
<1>6. CASE MacSend
  BY <1>6, Zenon DEF MacSend
<1>7. CASE FrameSent
  BY <1>7, Zenon DEF FrameSent
<1>8. CASE \E frame \in {"ack", "data"} : Arrive(frame)
  BY <1>8, Zenon DEF Arrive
<1>9. CASE TimerExpires
  BY <1>9, Zenon DEF TimerExpires
<1>10. CASE rf_rx_irq_handler
  <2>1. /\ told' = FALSE /\ snapshot' \in BOOLEAN /\ UNCHANGED <<due, stopping, aborted>>
    BY <1>10, Zenon DEF rf_rx_irq_handler, Dispatch
  <2>2. /\ tx' = tx \/ tx' = FALSE
        /\ busy' = busy \/ busy' = TRUE
        /\ isAck' = isAck \/ isAck' = TRUE
        /\ stale' = stale \/ stale' = TRUE \/ stale' = (stale \/ tx)
    BY <1>10, Zenon DEF rf_rx_irq_handler, AckOfAudio, AckForMac, SendAck,
       tl_audioDataSendCnfHandler
  <2> QED BY <2>1, <2>2, Zenon
<1>11. CASE rf_tx_irq_handler
  <2>1. snapshot' \in BOOLEAN /\ UNCHANGED <<due, stopping, aborted>>
    BY <1>11, Zenon DEF rf_tx_irq_handler, Dispatch
  <2>2. /\ tx' = tx \/ tx' = FALSE
        /\ told' = FALSE \/ told' = ~isAck
        /\ busy' = busy \/ busy' = FALSE
        /\ isAck' = isAck \/ isAck' = FALSE
        /\ stale' = stale \/ stale' = FALSE
    BY <1>11, Zenon DEF rf_tx_irq_handler, AudioSent, OtherSent, tl_audioDataSendCnfHandler
  <2> QED BY <2>1, <2>2, Zenon
<1>12. CASE drv_timer_irq0_handler
  <2>1. /\ snapshot' = FALSE /\ told' = FALSE
        /\ UNCHANGED <<tx, busy, isAck, stopping, aborted, stale>>
        /\ due' = due \/ due' = FALSE
    BY <1>12, Zenon DEF drv_timer_irq0_handler, AudioTimeOutTxCb
  <2> QED BY <2>1, Zenon
<1> QED BY <1>1, <1>2, <1>3, <1>4, <1>5, <1>6, <1>7, <1>8, <1>9, <1>10, <1>11, <1>12 DEF Next

-----------------------------------------------------------------------------
(* The theorems.                                                           *)

IInv == RingInv /\ RadioInv /\ RestTypes

(* The invariant holds in every state.                                     *)
THEOREM Invariance == Spec => []IInv
<1>1. Init => IInv
  <2>1. Init => RestTypes
    BY Zenon DEF Init, RestTypes, Flags
  <2> QED BY <2>1, RingInit, RadioInit DEF IInv
<1>2. IInv /\ [Next]_vars => IInv'
  BY RingStep, RadioStep, OutStep, FlagsStep DEF IInv, RestTypes
<1> QED BY <1>1, <1>2, PTL DEF Spec

(* Every variable has its type: the ring never runs over, and the count of *)
(* retries is far from one byte (audio_rec_proc.c, mac_phy.c).             *)
THEOREM TypeTheorem == Spec => []TypeOK
<1>1. IInv => TypeOK
  <2> SUFFICES ASSUME IInv PROVE TypeOK
    OBVIOUS
  <2>1. {tx, due, busy, isAck, snapshot, stopping, told, aborted, stale} \subseteq BOOLEAN
    BY Zenon DEF IInv, RestTypes, Flags
  <2>2. /\ audio_status \in {"AUDIO_IDLE", "AUDIO_OPENED"}
        /\ err \in 0..AudioErrTimes /\ maxFrameRetries \in {FewRetries, ManyRetries}
        /\ tmr \in Timer
        /\ air \in {None, "audio", "mac"} /\ done \in {None, "audio", "mac", "ownAck"}
        /\ rx \in {None, "ack", "data"}
    BY DEF IInv, RadioInv, RadioTypes
  <2>3. cnt \in 0..ManyRetries + FewRetries + 3
    BY Names DEF IInv, RadioInv, RadioTypes, MaxRetries
  <2>4. /\ buffer_mic_enc \in [0..RingSize - 1 -> Packet]
        /\ wptr \in 0..CursorMod - 1 /\ rptr \in 0..CursorMod - 1
        /\ (wptr - rptr + CursorMod) % CursorMod <= RingSize
        /\ audio_delay_times \in 0..Delay /\ audio_discard_packets \in 0..Discards
    BY DEF IInv, RingInv, Buffer, Cursor, Waiting
  <2>5. out \in Packet \cup {None}
    BY DEF IInv, RestTypes
  <2> QED BY <2>1, <2>2, <2>3, <2>4, <2>5 DEF TypeOK
<1> QED BY <1>1, Invariance, PTL

(* TX_BUSY, which makes the receiver drop everything (mac_phy.c:635), is   *)
(* set only while what it was set for is being sent, or after one of the   *)
(* two events the property names.                                          *)
THEOREM HearsAgainTheorem == Spec => []HearsAgain
<1>1. IInv => HearsAgain
  BY DEF IInv, RadioInv, Acks, HearsAgain
<1> QED BY <1>1, Invariance, PTL

(* The MAC is told of the end of its own frames and of no other            *)
(* (mac_phy.c:797-829).                                                    *)
THEOREM OnlyMacFramesReportedTheorem == Spec => OnlyMacFramesReported
<1>1. ASSUME IInv, [Next]_vars, done # None, done' = None, ~aborted, ~stale
      PROVE  told' <=> done = "mac"
  <2>1. RadioInv /\ None # "audio" /\ None # "mac" /\ None # "ownAck"
    BY <1>1, Names DEF IInv
  <2>2. CASE rf_tx_irq_handler /\ AudioSent
    BY <1>1, <2>1, <2>2 DEF AudioSent, RadioInv, FlagSet
  <2>3. CASE rf_tx_irq_handler /\ OtherSent
    BY <1>1, <2>1, <2>3 DEF OtherSent, RadioInv, RadioTypes, FlagClear, OneThing, Acks
  <2>4. CASE drv_timer_irq0_handler
    <3>1. tmr.status = "WTO" /\ (tmr.irq \/ snapshot) /\ ~told'
      BY <1>1, <2>4 DEF drv_timer_irq0_handler
    <3> QED BY <1>1, <2>1, <3>1 DEF RadioInv, FlagSet, FlagClear
  <2>5. CASE \E ready \in BOOLEAN : audio_recTaskRun(ready)
    BY <1>1, <2>5 DEF audio_recTaskRun
  <2>6. \/ rf_tx_irq_handler /\ (AudioSent \/ OtherSent)
        \/ drv_timer_irq0_handler
        \/ \E ready \in BOOLEAN : audio_recTaskRun(ready)
    <3>1. CASE rf_rx_irq_handler
      BY <1>1, <2>1, <3>1 DEF rf_rx_irq_handler, RadioInv, OneThing
    <3> QED BY <1>1, <2>1, <3>1 DEF Next, vars, radioVars, audio_recTaskStart, tl_audio_stop, ClearTx,
            MacSend, FrameSent, Arrive, TimerExpires, rf_tx_irq_handler, RadioInv, OneThing
  <2> QED BY <2>2, <2>3, <2>4, <2>5, <2>6
<1>2. IInv /\ [Next]_vars =>
        [done # None /\ done' = None => (told' <=> done = "mac") \/ aborted \/ stale]_vars
  BY <1>1
<1> QED BY <1>2, Invariance, PTL DEF Spec, OnlyMacFramesReported

(* A frame that was acknowledged or given up is not sent again, whatever   *)
(* status of the timer the dispatcher read before (mac_phy.c:643-658,      *)
(* drv_timer.c:177-213).                                                   *)
THEOREM NotSentAfterAckTheorem == Spec => NotSentAfterAck
<1>1. ASSUME IInv, [Next]_vars, cnt' > cnt, ~aborted
      PROVE  tx
  <2>1. cnt \in Nat /\ ~(cnt > cnt) /\ ~(0 > cnt)
    <3>1. cnt \in 0..MaxRetries + 1
      BY <1>1 DEF IInv, RadioInv, RadioTypes
    <3> QED BY <3>1
  <2>2. cnt' # cnt /\ cnt' # 0
    BY <1>1, <2>1
  <2>3. drv_timer_irq0_handler /\ tmr.status = "WTO"
    BY <1>1, <2>2 DEF Next, vars, frameVars, audio_recTaskRun, proc_sending84, tl_audioDataSend,
       nwk_profileAudioDataSend, audio_recTaskStart, tl_audio_stop, ClearTx, MacSend, FrameSent,
       Arrive, TimerExpires, rf_rx_irq_handler, AckOfAudio, AckForMac, SendAck, rf_tx_irq_handler,
       drv_timer_irq0_handler
  <2> QED BY <1>1, <2>3 DEF drv_timer_irq0_handler, IInv, RadioInv, FlagClear
<1>2. IInv /\ [Next]_vars => [cnt' > cnt => tx \/ aborted]_vars
  BY <1>1
<1> QED BY <1>2, Invariance, PTL DEF Spec, NotSentAfterAck
=============================================================================
