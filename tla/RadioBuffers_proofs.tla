-------------------------- MODULE RadioBuffers_proofs --------------------------
(***************************************************************************)
(* The linked list of buffers, shared by the radio's interrupts and the    *)
(* main loop, implements the queue of messages with one owner for each     *)
(* buffer, for every number of buffers and every set of states.            *)
(*                                                                         *)
(* The inductive invariant names the list: some s runs from the head to    *)
(* the tail along the links, its buffers differ and are exactly those with *)
(* a state in their table, one state each.  The other busy buffers are the *)
(* radio's and the stack's.                                                *)
(***************************************************************************)
EXTENDS RadioBuffers, SequenceTheorems, WellFoundedInduction, NaturalsInduction, TLAPS

Linked(s) ==
  /\ s \in [1..num -> Buf]
  /\ num = 0 => head = NULL
  /\ num > 0 => head = s[1] /\ tail = s[num] /\ next[s[num]] = NULL
  /\ \A k \in 1..num : k < num => next[s[k]] = s[k + 1]
  /\ \A j, k \in 1..num : s[j] = s[k] => j = k
  /\ \A k \in 1..num : tbl[s[k]] # {}
  /\ \A b \in Buf : tbl[b] # {} => \E k \in 1..num : s[k] = b

(* The messages of such a list. *)
ChainOf(s) == [k \in 1..num |-> <<s[k], Lowest(tbl[s[k]])>>]

Owned ==
  \A b \in Buf :
    /\ b \in busy <=> b \in held \/ b = rf_rxBuf \/ tbl[b] # {}
    /\ b \in held => b # rf_rxBuf
    /\ tbl[b] # {} => b \notin held /\ b # rf_rxBuf /\ \E m \in State : tbl[b] = {m}

Silent == rf_isAck /\ air # "ack" => unsent

IInv == TypeOK /\ Owned /\ Silent /\ \E s : Linked(s)

-----------------------------------------------------------------------------
(* Induction over a set of numbers: it has a least one.                    *)
LEMMA Least ==
  ASSUME NEW T \in SUBSET Nat, T # {}
  PROVE  \E n \in T : \A k \in T : n <= k
<1>1. PICK n \in T : \A k \in T : ~(<<k, n>> \in OpToRel(<, Nat))
  BY WFMin, NatLessThanWellFounded, Zenon
<1>2. \A k \in T : ~(k < n)
  BY <1>1, Zenon DEF OpToRel
<1> QED BY <1>2

(* The state of a message is the only one in its table.                    *)
LEMMA LowestOne ==
  ASSUME NEW m \in State
  PROVE  Lowest({m}) = m
<1>1. m \in Nat
  BY BufferAssumption
<1> QED BY <1>1 DEF Lowest

(* A buffer that is claimed was not busy.                                  *)
LEMMA Claimed ==
  ASSUME NEW b, Claim(b)
  PROVE  b \in Available /\ busy' = busy \cup {b}
<1>1. Available \in SUBSET Nat /\ Available # {}
  BY BufferAssumption DEF Claim, Available
<1>2. PICK n \in Available : \A k \in Available : n <= k
  BY <1>1, Least
<1>3. Lowest(Available) \in Available
  BY <1>2 DEF Lowest
<1> QED BY <1>3 DEF Claim

(* The links from the head on are the list, however its elements are       *)
(* computed.                                                               *)
LEMMA ChainIs == \A s : num \in Nat /\ Linked(s) => Chain = ChainOf(s)
<1> SUFFICES ASSUME num \in Nat, NEW s, Linked(s)
             PROVE  Chain = [k \in 1..num |-> <<s[k], Lowest(tbl[s[k]])>>]
  BY DEF ChainOf
<1> DEFINE F(f) == f = [k \in 1..num |-> IF k = 1 THEN head ELSE next[f[k - 1]]]
           at   == CHOOSE f : F(f)
<1>1. F(s)
  <2>1. \A k \in 1..num : s[k] = IF k = 1 THEN head ELSE next[s[k - 1]]
    <3> TAKE k \in 1..num
    <3>1. CASE k = 1
      BY <3>1 DEF Linked
    <3>2. CASE k # 1
      <4>1. k - 1 \in 1..num /\ k - 1 < num /\ (k - 1) + 1 = k
        BY <3>2
      <4> QED BY <3>2, <4>1 DEF Linked
    <3> QED BY <3>1, <3>2
  <2> QED BY <2>1 DEF Linked
<1>2. F(at)
  BY <1>1, Zenon
<1> HIDE DEF at
<1>3. \A k \in 1..num : at[k] = IF k = 1 THEN head ELSE next[at[k - 1]]
  BY <1>2
<1>4. \A k \in 1..num : s[k] = IF k = 1 THEN head ELSE next[s[k - 1]]
  BY <1>1
<1>5. \A k \in 1..num : at[k] = s[k]
  <2> DEFINE T == {k \in 1..num : at[k] # s[k]}
  <2>1. SUFFICES ASSUME T # {} PROVE FALSE
    OBVIOUS
  <2>2. T \in SUBSET Nat
    OBVIOUS
  <2>3. PICK n \in T : \A k \in T : n <= k
    BY <2>1, <2>2, Least
  <2>4. n # 1
    BY <1>3, <1>4
  <2>5. n - 1 \in 1..num /\ n - 1 \notin T
    BY <2>3, <2>4
  <2> QED BY <1>3, <1>4, <2>4, <2>5
<1>6. Chain = [k \in 1..num |-> <<at[k], Lowest(tbl[at[k]])>>]
  BY Zenon DEF Chain, at
<1> QED BY <1>5, <1>6

(* The same of the state after a step.                                     *)
LEMMA ChainPrimed == (\A s : num \in Nat /\ Linked(s) => Chain = ChainOf(s))'
BY ChainIs, PTL

(* The messages of the list after a step.                                  *)
LEMMA ChainIsNext ==
  ASSUME NEW s, num' \in Nat, Linked(s)'
  PROVE  Chain' = [k \in 1..num' |-> <<s[k], Lowest(tbl'[s[k]])>>]
<1>1. (\A t : num \in Nat /\ Linked(t) => Chain = ChainOf(t))'
  BY ChainPrimed
<1> QED BY <1>1, Zenon DEF ChainOf

-----------------------------------------------------------------------------
(* The rest of a sequence given by its elements.                           *)
LEMMA TailOf ==
  ASSUME NEW n \in Nat, n > 0, NEW S, NEW c \in [1..n -> S]
  PROVE  c # <<>> /\ Head(c) = c[1] /\ Tail(c) = [k \in 1..n - 1 |-> c[k + 1]]
<1>1. c \in Seq(S) /\ Len(c) = n
  OBVIOUS
<1>2. c # <<>>
  BY <1>1
<1>3. Head(c) = c[1]
  BY <1>1, <1>2
<1>4. Tail(c) \in Seq(S) /\ Len(Tail(c)) = n - 1 /\ \A i \in 1..Len(Tail(c)) : Tail(c)[i] = c[i + 1]
  BY <1>1, <1>2, HeadTailProperties
<1>5. Tail(c) = [k \in 1..n - 1 |-> c[k + 1]]
  <2>1. Tail(c) \in [1..n - 1 -> S]
    BY <1>4, LenProperties
  <2> QED BY <1>4, <2>1
<1> QED BY <1>2, <1>3, <1>5

(* Posting a buffer that is in no list appends it (buf_message_post).      *)
LEMMA EnqueueStep ==
  ASSUME TypeOK, NEW s, Linked(s), NEW b \in Buf, tbl[b] = {}, NEW m \in State, Enqueue(b, m),
         NEW t, t = [k \in 1..num + 1 |-> IF k <= num THEN s[k] ELSE b]
  PROVE  /\ Linked(t)'
         /\ num' = num + 1 /\ num' \in Nat
         /\ tbl' = [tbl EXCEPT ![b] = {m}]
         /\ {head', tail'} \subseteq Buf \cup {NULL} /\ next' \in [Buf -> Buf \cup {NULL}]
<1>1. num' = num + 1 /\ num \in Nat
  BY DEF Enqueue, Counted, TypeOK
<1>2. tbl' = [tbl EXCEPT ![b] = {m}] /\ tail' = b
  BY DEF Enqueue
<1>3. t \in [1..num' -> Buf] /\ t[num'] = b /\ \A k \in 1..num : t[k] = s[k] /\ s[k] # b
  BY <1>1 DEF Linked
<1>4. \A j, k \in 1..num' : t[j] = t[k] => j = k
  <2> TAKE j, k \in 1..num'
  <2>1. j \in 1..num \/ j = num'
    BY <1>1
  <2>2. k \in 1..num \/ k = num'
    BY <1>1
  <2> QED BY <1>3, <2>1, <2>2 DEF Linked
<1>5. \A k \in 1..num' : tbl'[t[k]] # {}
  <2> TAKE k \in 1..num'
  <2>1. CASE k \in 1..num
    BY <1>2, <1>3, <2>1 DEF Linked, TypeOK
  <2>2. CASE k = num'
    BY <1>2, <1>3, <2>2 DEF TypeOK
  <2> QED BY <1>1, <2>1, <2>2
<1>6. \A c \in Buf : tbl'[c] # {} => \E k \in 1..num' : t[k] = c
  <2> TAKE c \in Buf
  <2>1. CASE c = b
    BY <1>1, <1>3, <2>1
  <2>2. CASE c # b /\ tbl[c] # {}
    <3>1. PICK k \in 1..num : s[k] = c
      BY <2>2 DEF Linked
    <3> QED BY <1>1, <1>3, <3>1
  <2>3. CASE c # b /\ tbl[c] = {}
    BY <1>2, <2>3 DEF TypeOK
  <2> QED BY <2>1, <2>2, <2>3
<1>7. num > 0 => head = s[1] /\ head \in Buf /\ head # NULL
  <2>1. num > 0 => 1 \in 1..num
    BY <1>1
  <2> QED BY <2>1, BufferAssumption DEF Linked
<1>8. CASE num = 0
  <2>1. head' = b /\ next' = [next EXCEPT ![b] = NULL]
    BY <1>8 DEF Enqueue, IsEmpty, Linked
  <2>2. num' = 1 /\ head' = t[1] /\ next'[t[1]] = NULL
    BY <1>1, <1>3, <1>8, <2>1 DEF TypeOK
  <2>3. Linked(t)'
    BY <1>1, <1>2, <1>3, <1>4, <1>5, <1>6, <2>2 DEF Linked
  <2> QED BY <1>1, <1>2, <2>1, <2>3 DEF TypeOK
<1>9. CASE num > 0
  <2>1. head' = head /\ next' = [next EXCEPT ![b] = NULL, ![tail] = b]
    BY <1>7, <1>9 DEF Enqueue, IsEmpty
  <2>2. num \in 1..num /\ 1 \in 1..num /\ tail = s[num] /\ tail \in Buf /\ tail # b
    BY <1>1, <1>3, <1>9 DEF Linked
  <2>3. /\ next'[b] = NULL /\ next'[tail] = b
        /\ \A c \in Buf : c # b /\ c # tail => next'[c] = next[c]
    BY <2>1, <2>2 DEF TypeOK
  <2>4. \A k \in 1..num' : k < num' => next'[t[k]] = t[k + 1]
    <3> TAKE k \in 1..num'
    <3>1. CASE k < num
      <4>1. k \in 1..num /\ k + 1 \in 1..num /\ t[k] = s[k] /\ t[k + 1] = s[k + 1]
        <5>1. k \in 1..num
          BY <1>1, <3>1
        <5>2. k + 1 \in 1..num
          BY <1>1, <3>1
        <5> QED BY <1>3, <5>1, <5>2
      <4>2. s[k] # b /\ s[k] # tail /\ s[k] \in Buf /\ next[s[k]] = s[k + 1]
        <5>1. s[k] \in Buf /\ next[s[k]] = s[k + 1]
          BY <3>1, <4>1 DEF Linked
        <5>2. k # num /\ (s[k] = s[num] => k = num)
          BY <1>1, <2>2, <3>1, <4>1 DEF Linked
        <5> QED BY <1>3, <2>2, <4>1, <5>1, <5>2
      <4> QED BY <2>3, <4>1, <4>2
    <3>2. CASE k = num
      BY <1>1, <1>3, <2>2, <2>3, <3>2
    <3> QED BY <1>1, <3>1, <3>2
  <2>5. head' = t[1] /\ next'[t[num']] = NULL
    BY <1>3, <1>7, <1>9, <2>1, <2>2, <2>3
  <2>6. Linked(t)'
    <3>1. num' # 0
      BY <1>1, <1>9
    <3>2. t \in [1..num' -> Buf] /\ tail' = t[num']
      BY <1>2, <1>3
    <3> QED BY <1>4, <1>5, <1>6, <2>4, <2>5, <3>1, <3>2 DEF Linked
  <2> QED BY <1>1, <1>2, <2>1, <2>2, <2>6 DEF TypeOK
<1> QED BY <1>1, <1>8, <1>9

(* Taking a message takes the first one (buf_message_poll).                *)
LEMMA PollStep ==
  ASSUME TypeOK, Owned, NEW s, Linked(s), NEW b \in Buf, buf_message_poll(b),
         NEW t, t = [k \in 1..num - 1 |-> s[k + 1]]
  PROVE  /\ num > 0 /\ b = s[1] /\ busy' = busy
         /\ Linked(t)'
         /\ num' = num - 1 /\ num' \in Nat
         /\ tbl' = [tbl EXCEPT ![b] = {}]
         /\ {head', tail'} \subseteq Buf \cup {NULL} /\ next' \in [Buf -> Buf \cup {NULL}]
<1>1. num \in Nat /\ num > 0 /\ b = s[1] /\ num' = num - 1 /\ num' \in Nat
  <2>1. head = b /\ b # NULL /\ num' = num - 1
    BY BufferAssumption DEF buf_message_poll
  <2> QED BY <2>1 DEF Linked, TypeOK
<1>2. tbl' = [tbl EXCEPT ![b] = {}]
  <2>1. PICK m \in State : tbl[b] = {m}
    BY DEF buf_message_poll, Owned
  <2>2. tbl[b] \ {Lowest(tbl[b])} = {}
    BY <2>1, LowestOne
  <2> QED BY <2>2 DEF buf_message_poll, TypeOK
<1>3. t \in [1..num' -> Buf] /\ \A k \in 1..num' : t[k] = s[k + 1] /\ k + 1 \in 1..num /\ t[k] # b
  BY <1>1 DEF Linked
<1>4. \A j, k \in 1..num' : t[j] = t[k] => j = k
  BY <1>1, <1>3 DEF Linked
<1>5. \A k \in 1..num' : tbl'[t[k]] # {}
  BY <1>2, <1>3 DEF Linked, TypeOK
<1>6. \A c \in Buf : tbl'[c] # {} => \E k \in 1..num' : t[k] = c
  <2> SUFFICES ASSUME NEW c \in Buf, tbl'[c] # {} PROVE \E k \in 1..num' : t[k] = c
    OBVIOUS
  <2>1. c # b /\ tbl[c] # {}
    BY <1>2 DEF TypeOK
  <2>2. PICK k \in 1..num : s[k] = c
    BY <2>1 DEF Linked
  <2>3. k # 1 /\ k - 1 \in 1..num' /\ (k - 1) + 1 = k
    BY <1>1, <2>1, <2>2
  <2> QED BY <1>3, <2>2, <2>3
<1>7. head' = next[b] /\ tail' = tail /\ next' = [next EXCEPT ![b] = NULL] /\ busy' = busy
  BY DEF buf_message_poll
<1>8. \A c \in Buf : c # b => next'[c] = next[c]
  BY <1>7 DEF TypeOK
<1>9. num' = 0 => head' = NULL
  BY <1>1, <1>7 DEF Linked
<1>10. num' > 0 => head' = t[1] /\ tail' = t[num'] /\ next'[t[num']] = NULL
  <2> SUFFICES ASSUME num' > 0 PROVE head' = t[1] /\ tail' = t[num'] /\ next'[t[num']] = NULL
    OBVIOUS
  <2>1. 1 \in 1..num' /\ num' \in 1..num' /\ num' + 1 = num /\ 1 \in 1..num /\ 1 < num
    BY <1>1
  <2>2. t[1] = s[2] /\ t[num'] = s[num] /\ t[num'] # b /\ t[num'] \in Buf
    BY <1>3, <2>1
  <2>3. next[s[1]] = s[2]
    BY <2>1 DEF Linked
  <2>4. next[s[num]] = NULL /\ tail = s[num]
    BY <1>1 DEF Linked
  <2> QED BY <1>1, <1>7, <1>8, <2>2, <2>3, <2>4
<1>11. \A k \in 1..num' : k < num' => next'[t[k]] = t[k + 1]
  <2> SUFFICES ASSUME NEW k \in 1..num', k < num' PROVE next'[t[k]] = t[k + 1]
    OBVIOUS
  <2>1. k + 1 \in 1..num' /\ k + 1 \in 1..num /\ k + 1 < num
    BY <1>1
  <2>2. next[s[k + 1]] = s[(k + 1) + 1]
    BY <2>1 DEF Linked
  <2> QED BY <1>3, <1>8, <2>1, <2>2
<1>12. Linked(t)'
  BY <1>3, <1>4, <1>5, <1>6, <1>9, <1>10, <1>11 DEF Linked
<1> QED BY <1>1, <1>2, <1>7, <1>12 DEF TypeOK

(* What touches neither the queue nor the tables leaves the list alone.    *)
LEMMA SameList ==
  ASSUME NEW s, Linked(s), UNCHANGED queueVars
  PROVE  Linked(s)' /\ Chain' = Chain
BY DEF Linked, queueVars, Chain

-----------------------------------------------------------------------------
(* The contract's queue gets the message that is posted.                   *)
LEMMA ChainAppends ==
  ASSUME TypeOK, NEW s, Linked(s), NEW b \in Buf, tbl[b] = {}, NEW m \in State,
         Enqueue(b, m)
  PROVE  Chain' = Append(Chain, <<b, m>>)
<1>0. PICK t : /\ Linked(t)' /\ t[num + 1] = b /\ \A k \in 1..num : t[k] = s[k]
               /\ num' = num + 1 /\ num' \in Nat /\ num \in Nat
               /\ tbl' = [tbl EXCEPT ![b] = {m}]
  <2>1. PICK u : u = [k \in 1..num + 1 |-> IF k <= num THEN s[k] ELSE b]
    OBVIOUS
  <2>2. Linked(u)' /\ num' = num + 1 /\ num' \in Nat /\ tbl' = [tbl EXCEPT ![b] = {m}]
    BY <2>1, EnqueueStep
  <2>3. num \in Nat
    BY DEF TypeOK
  <2>4. u[num + 1] = b /\ \A k \in 1..num : u[k] = s[k]
    BY <2>1, <2>3
  <2> QED BY <2>2, <2>3, <2>4
<1>1. Linked(t)' /\ num' = num + 1 /\ num' \in Nat /\ num \in Nat /\ tbl' = [tbl EXCEPT ![b] = {m}]
  BY <1>0
<1>2. Chain = [k \in 1..num |-> <<s[k], Lowest(tbl[s[k]])>>]
  BY <1>1, ChainIs DEF ChainOf
<1>4. Chain' = [k \in 1..num' |-> <<t[k], Lowest(tbl'[t[k]])>>]
  BY <1>1, ChainIsNext
<1>5. \A k \in 1..num : t[k] = s[k] /\ tbl'[t[k]] = tbl[s[k]]
  <2> TAKE k \in 1..num
  <2>1. t[k] = s[k] /\ s[k] \in Buf /\ s[k] # b
    BY <1>0, <1>1 DEF Linked
  <2> QED BY <1>1, <2>1 DEF TypeOK
<1>6. t[num'] = b /\ Lowest(tbl'[b]) = m
  BY <1>0, <1>1, LowestOne DEF TypeOK
<1>7. Chain' = [k \in 1..num + 1 |-> IF k <= num THEN Chain[k] ELSE <<b, m>>]
  <2>1. \A k \in 1..num + 1 : <<t[k], Lowest(tbl'[t[k]])>> = IF k <= num THEN Chain[k] ELSE <<b, m>>
    <3> TAKE k \in 1..num + 1
    <3>1. CASE k \in 1..num
      BY <1>2, <1>5, <3>1
    <3>2. CASE k = num'
      BY <1>1, <1>6, <3>2
    <3> QED BY <1>1, <3>1, <3>2
  <2> QED BY <1>1, <1>4, <2>1
<1> QED BY <1>1, <1>2, <1>7

(* It loses its first message when that is taken.                          *)
LEMMA ChainPolled ==
  ASSUME TypeOK, Owned, NEW s, Linked(s), NEW b \in Buf, buf_message_poll(b),
         NEW t, t = [k \in 1..num - 1 |-> s[k + 1]]
  PROVE  Chain # <<>> /\ Chain' = Tail(Chain) /\ Head(Chain)[1] = b
<1>1. /\ Linked(t)' /\ num' = num - 1 /\ num' \in Nat /\ num \in Nat /\ num > 0
      /\ tbl' = [tbl EXCEPT ![b] = {}] /\ b = s[1]
  BY PollStep DEF TypeOK
<1>2. Chain = [k \in 1..num |-> <<s[k], Lowest(tbl[s[k]])>>]
  BY <1>1, ChainIs DEF ChainOf
<1>4. Chain' = [k \in 1..num' |-> <<t[k], Lowest(tbl'[t[k]])>>]
  BY <1>1, ChainIsNext
<1>5. \A k \in 1..num' : t[k] = s[k + 1] /\ tbl'[t[k]] = tbl[s[k + 1]]
  <2> TAKE k \in 1..num'
  <2>1. k + 1 \in 1..num /\ 1 \in 1..num /\ k + 1 # 1 /\ t[k] = s[k + 1]
    BY <1>1
  <2>2. s[k + 1] # b /\ s[k + 1] \in Buf
    BY <1>1, <2>1 DEF Linked
  <2> QED BY <1>1, <2>1, <2>2 DEF TypeOK
<1>6. Chain' = [k \in 1..num - 1 |-> Chain[k + 1]]
  BY <1>1, <1>2, <1>4, <1>5
<1>7. PICK S : Chain \in [1..num -> S]
  <2> DEFINE P == {<<c, Lowest(tbl[c])>> : c \in Buf}
  <2>1. \A k \in 1..num : s[k] \in Buf
    BY <1>1 DEF Linked
  <2>2. Chain \in [1..num -> P]
    BY <1>2, <2>1
  <2> HIDE DEF P
  <2> QED BY <2>2
<1>8. /\ Chain # <<>> /\ Head(Chain) = Chain[1]
      /\ Tail(Chain) = [k \in 1..num - 1 |-> Chain[k + 1]]
  <2>1. num \in Nat /\ num > 0
    BY <1>1
  <2> HIDE <1>1
  <2>2. Chain # <<>> /\ Head(Chain) = Chain[1]
    BY <2>1, <1>7, TailOf
  <2>3. Tail(Chain) = [k \in 1..num - 1 |-> Chain[k + 1]]
    BY <2>1, <1>7, TailOf
  <2> QED BY <2>2, <2>3
<1>9. Chain # <<>> /\ Head(Chain)[1] = b
  <2>1. Chain[1] = <<s[1], Lowest(tbl[s[1]])>>
    BY <1>1, <1>2
  <2>2. Chain[1][1] = s[1]
    BY <2>1
  <2> QED BY <1>8, <1>1, <2>2
<1>10. Chain' = Tail(Chain)
  BY <1>8, <1>6
<1> QED BY <1>9, <1>10

-----------------------------------------------------------------------------
(* The actions, each with what it is in the contract.                      *)
LEMMA InitIInv == Init => IInv /\ Queue!Init
<1> SUFFICES ASSUME Init PROVE IInv /\ Queue!Init
  OBVIOUS
<1> USE DEF Init, ev_buf_reset
<1>1. TypeOK /\ Owned /\ Silent
  BY BufferAssumption DEF TypeOK, Owned, Silent
<1>2. PICK s : s = [k \in 1..num |-> NULL]
  OBVIOUS
<1>3. Linked(s)
  BY <1>2 DEF Linked
<1>4. Chain = <<>>
  BY <1>3, ChainIs DEF ChainOf
<1>5. Available = Buf
  BY DEF Available
<1> QED BY <1>1, <1>3, <1>4, <1>5 DEF IInv, Queue!Init

(* A step that leaves the queue alone keeps the list.                      *)
LEMMA QuietStep ==
  ASSUME IInv, UNCHANGED queueVars
  PROVE  Chain' = Chain /\ (\E s : Linked(s))'
<1>1. PICK s : Linked(s)
  BY DEF IInv
<1>2. Linked(s)'
  BY <1>1, SameList
<1> QED BY <1>1, <1>2, SameList

(* The radio gets its first buffer.                                        *)
LEMMA RestoreStep ==
  ASSUME IInv, rf_pm_restore
  PROVE  IInv' /\ Queue!GiveRadio
<1>1. PICK b \in Buf : Claim(b) /\ UNCHANGED queueVars /\ rf_rxBuf' = b
  BY DEF rf_pm_restore, ev_buf_allocate
<1>2. b \in Available /\ busy' = busy \cup {b} /\ Available' = Available \ {b}
  BY <1>1, Claimed DEF Available
<1>3. UNCHANGED <<rf_isAck, trx, air, told, unsent, held, tbl, next, head, tail, num>> /\ rf_rxBuf = NULL
  BY <1>1 DEF rf_pm_restore, queueVars
<1>4. TypeOK' /\ Silent'
  BY <1>1, <1>2, <1>3 DEF IInv, TypeOK, Silent
<1>5. Owned'
  BY <1>1, <1>2, <1>3, BufferAssumption DEF IInv, Owned, Available
<1> QED BY <1>1, <1>2, <1>3, <1>4, <1>5, QuietStep DEF IInv, Queue!GiveRadio

(* A frame is handed over in exchange for another buffer.                  *)
LEMMA ReceiveStep ==
  ASSUME IInv, NEW ack \in BOOLEAN, Receive(ack)
  PROVE  IInv' /\ Queue!Receive
<1>1. PICK b \in Buf : Claim(b) /\ rf_rxBuf' = b
  BY DEF Receive
<1>2. b \in Available /\ busy' = busy \cup {b} /\ Available' = Available \ {b}
  BY <1>1, Claimed DEF Available
<1>3. rf_rxBuf # NULL /\ rf_rxBuf \in Buf /\ Enqueue(rf_rxBuf, PHY2MAC) /\ PHY2MAC \in State
  BY StateAssumption DEF Receive, IInv, TypeOK
<1>4. tbl[rf_rxBuf] = {}
  BY <1>3 DEF IInv, Owned
<1>5. PICK s : Linked(s)
  BY DEF IInv
<1>6. PICK t : t = [k \in 1..num + 1 |-> IF k <= num THEN s[k] ELSE rf_rxBuf]
  OBVIOUS
<1>7. /\ Linked(t)' /\ num' \in Nat /\ tbl' = [tbl EXCEPT ![rf_rxBuf] = {PHY2MAC}]
      /\ {head', tail'} \subseteq Buf \cup {NULL} /\ next' \in [Buf -> Buf \cup {NULL}]
  BY <1>3, <1>4, <1>5, <1>6, EnqueueStep DEF IInv
<1>8. Chain' = Append(Chain, <<rf_rxBuf, PHY2MAC>>)
  BY <1>3, <1>4, <1>5, ChainAppends DEF IInv
<1>9. UNCHANGED <<unsent, held>>
  BY DEF Receive
<1>10. TypeOK'
  <2>1. /\ rf_isAck' \in BOOLEAN /\ trx' \in {"off", "rx", "tx"}
        /\ air' \in {"nothing", "ack", "data"} /\ told' \in BOOLEAN
    BY Zenon DEF Receive, IInv, TypeOK
  <2> QED BY <1>1, <1>2, <1>3, <1>7, <1>9, <2>1 DEF IInv, TypeOK
<1>11. Silent'
  BY <1>9 DEF IInv, Silent, Receive
<1>12. Owned'
  BY <1>1, <1>2, <1>3, <1>7, <1>9 DEF IInv, TypeOK, Owned, Available
<1>13. (\E u : Linked(u))'
  BY <1>7
<1> QED BY <1>1, <1>2, <1>3, <1>8, <1>9, <1>10, <1>11, <1>12, <1>13 DEF IInv, Queue!Receive

(* A handler posts a buffer it holds.                                      *)
LEMMA PostStep ==
  ASSUME IInv, Post
  PROVE  IInv' /\ Queue!Send
<1>1. PICK b \in held, m \in State : buf_message_post(b, m) /\ held' = held \ {b}
  BY DEF Post
<1>2. b \in Buf /\ Enqueue(b, m) /\ busy' = busy /\ tbl[b] = {}
  BY <1>1 DEF buf_message_post, IInv, TypeOK, Owned
<1>3. PICK s : Linked(s)
  BY DEF IInv
<1>4. PICK t : t = [k \in 1..num + 1 |-> IF k <= num THEN s[k] ELSE b]
  OBVIOUS
<1>5. /\ Linked(t)' /\ num' \in Nat /\ tbl' = [tbl EXCEPT ![b] = {m}]
      /\ {head', tail'} \subseteq Buf \cup {NULL} /\ next' \in [Buf -> Buf \cup {NULL}]
  BY <1>2, <1>3, <1>4, EnqueueStep DEF IInv
<1>6. Chain' = Append(Chain, <<b, m>>)
  BY <1>2, <1>3, ChainAppends DEF IInv
<1>7. UNCHANGED <<rf_rxBuf, rf_isAck, trx, air, told, unsent>>
  BY DEF Post, radioVars
<1>8. TypeOK' /\ Silent'
  BY <1>1, <1>2, <1>5, <1>7 DEF IInv, TypeOK, Silent
<1>9. Owned'
  BY <1>1, <1>2, <1>5, <1>7 DEF IInv, TypeOK, Owned
<1>10. (\E u : Linked(u))'
  BY <1>5
<1> QED BY <1>1, <1>2, <1>6, <1>7, <1>8, <1>9, <1>10 DEF IInv, Queue!Send, Available

(* The main loop takes a message.                                          *)
LEMMA MainStep ==
  ASSUME IInv, ev_main
  PROVE  IInv' /\ Queue!Deliver
<1>1. PICK b \in Buf : buf_message_poll(b) /\ held' = held \cup {b}
  BY DEF ev_main
<1>2. PICK s : Linked(s)
  BY DEF IInv
<1>3. PICK t : t = [k \in 1..num - 1 |-> s[k + 1]]
  OBVIOUS
<1>4. /\ Linked(t)' /\ num' \in Nat /\ tbl' = [tbl EXCEPT ![b] = {}] /\ busy' = busy
      /\ {head', tail'} \subseteq Buf \cup {NULL} /\ next' \in [Buf -> Buf \cup {NULL}]
  BY <1>1, <1>2, <1>3, PollStep DEF IInv
<1>5. Chain # <<>> /\ Chain' = Tail(Chain) /\ Head(Chain)[1] = b
  BY <1>1, <1>2, <1>3, ChainPolled DEF IInv
<1>6. UNCHANGED <<rf_rxBuf, rf_isAck, trx, air, told, unsent>>
  BY DEF ev_main, radioVars
<1>7. tbl[b] # {}
  BY <1>1 DEF buf_message_poll
<1>8. TypeOK' /\ Silent'
  BY <1>1, <1>4, <1>6 DEF IInv, TypeOK, Silent
<1>9. Owned'
  BY <1>1, <1>4, <1>6, <1>7 DEF IInv, TypeOK, Owned
<1>10. (\E u : Linked(u))'
  BY <1>4
<1> QED BY <1>1, <1>4, <1>5, <1>6, <1>8, <1>9, <1>10 DEF IInv, Queue!Deliver, Available

(* A handler gets a buffer from the pool.                                  *)
LEMMA AllocateStep ==
  ASSUME IInv, Allocate
  PROVE  IInv' /\ Queue!Take
<1>1. PICK b \in Buf : Claim(b) /\ UNCHANGED queueVars /\ held' = held \cup {b}
  BY DEF Allocate, ev_buf_allocate
<1>2. b \in Available /\ busy' = busy \cup {b} /\ Available' = Available \ {b}
  BY <1>1, Claimed DEF Available
<1>3. UNCHANGED <<rf_rxBuf, rf_isAck, trx, air, told, unsent, tbl, next, head, tail, num>>
  BY <1>1 DEF Allocate, queueVars, radioVars
<1>4. TypeOK' /\ Silent'
  BY <1>1, <1>2, <1>3 DEF IInv, TypeOK, Silent
<1>5. Owned'
  BY <1>1, <1>2, <1>3 DEF IInv, Owned, Available
<1> QED BY <1>1, <1>2, <1>3, <1>4, <1>5, QuietStep DEF IInv, Queue!Take

(* A handler gives a buffer back.                                          *)
LEMMA FreeStep ==
  ASSUME IInv, Free
  PROVE  IInv' /\ Queue!Release
<1>1. PICK b \in held : busy' = busy \ {b} /\ UNCHANGED queueVars /\ held' = held \ {b}
  BY DEF Free, ev_buf_free
<1>2. UNCHANGED <<rf_rxBuf, rf_isAck, trx, air, told, unsent, tbl, next, head, tail, num>>
  BY <1>1 DEF Free, queueVars, radioVars
<1>3. TypeOK' /\ Silent'
  BY <1>1, <1>2 DEF IInv, TypeOK, Silent
<1>4. Owned' /\ Available' = Available \cup {b}
  BY <1>1, <1>2 DEF IInv, TypeOK, Owned, Available
<1> QED BY <1>1, <1>2, <1>3, <1>4, QuietStep DEF IInv, Queue!Release

(* The other steps of the radio, and the transmission of the stack, leave  *)
(* the buffers alone.                                                      *)
LEMMA RadioStep ==
  ASSUME IInv,
         rf_tx_irq_handler \/ Transmit \/ UNCHANGED vars
           \/ (\E ack \in BOOLEAN : ReceiveNoBuffer(ack))
           \/ \E state \in {"off", "rx"} : rf_setTrxState(state)
  PROVE  IInv' /\ UNCHANGED Queue!qVars
<1>1. UNCHANGED <<busy, queueVars, rf_rxBuf, held>>
  BY DEF rf_tx_irq_handler, Transmit, ReceiveNoBuffer, rf_setTrxState, vars, radioVars, poolVars
<1>2. rf_isAck' \in BOOLEAN /\ told' \in BOOLEAN /\ unsent' \in BOOLEAN
  <2>1. rf_isAck \in BOOLEAN /\ told \in BOOLEAN /\ unsent \in BOOLEAN
    BY DEF IInv, TypeOK
  <2>2. CASE rf_tx_irq_handler
    BY <2>1, <2>2, Zenon DEF rf_tx_irq_handler
  <2>3. CASE Transmit
    BY <2>1, <2>3, Zenon DEF Transmit
  <2>4. CASE UNCHANGED vars
    BY <2>1, <2>4, Zenon DEF vars, radioVars
  <2>5. CASE \E ack \in BOOLEAN : ReceiveNoBuffer(ack)
    BY <2>1, <2>5, Zenon DEF ReceiveNoBuffer
  <2>6. CASE \E state \in {"off", "rx"} : rf_setTrxState(state)
    BY <2>1, <2>6, Zenon DEF rf_setTrxState
  <2> QED BY <2>2, <2>3, <2>4, <2>5, <2>6
<1>3. air' \in {"nothing", "ack", "data"} /\ trx' \in {"off", "rx", "tx"}
  BY DEF IInv, TypeOK, rf_tx_irq_handler, Transmit, ReceiveNoBuffer, rf_setTrxState, vars, radioVars
<1>4. TypeOK' /\ Owned'
  BY <1>1, <1>2, <1>3 DEF IInv, TypeOK, Owned, queueVars
<1>5. Silent'
  BY DEF IInv, Silent, rf_tx_irq_handler, Transmit, ReceiveNoBuffer, rf_setTrxState, vars, radioVars
<1>6. UNCHANGED Queue!qVars
  BY <1>1, QuietStep DEF Queue!qVars, Available
<1> QED BY <1>1, <1>4, <1>5, <1>6, QuietStep DEF IInv

-----------------------------------------------------------------------------
(* Every step keeps the invariant and is a step of the contract.           *)
LEMMA NextStep == IInv /\ [Next]_vars => IInv' /\ [Queue!Next]_(Queue!qVars)
<1> SUFFICES ASSUME IInv, [Next]_vars PROVE IInv' /\ [Queue!Next]_(Queue!qVars)
  OBVIOUS
<1> USE DEF Queue!Next
<1>1. CASE rf_pm_restore
  BY <1>1, RestoreStep
<1>2. CASE \E ack \in BOOLEAN : Receive(ack)
  BY <1>2, ReceiveStep
<1>3. CASE \E ack \in BOOLEAN : ReceiveNoBuffer(ack)
  BY <1>3, RadioStep
<1>4. CASE rf_tx_irq_handler \/ Transmit \/ UNCHANGED vars
  BY <1>4, RadioStep
<1>4a. CASE \E state \in {"off", "rx"} : rf_setTrxState(state)
  BY <1>4a, RadioStep
<1>5. CASE ev_main
  BY <1>5, MainStep
<1>6. CASE Allocate
  BY <1>6, AllocateStep
<1>7. CASE Free
  BY <1>7, FreeStep
<1>8. CASE Post
  BY <1>8, PostStep
<1> QED BY <1>1, <1>2, <1>3, <1>4, <1>5, <1>4a, <1>6, <1>7, <1>8 DEF Next

(* The invariant holds in every state that is reached.                     *)
LEMMA Invariance == Spec => []IInv
<1>1. Init => IInv
  BY InitIInv
<1>2. IInv /\ [Next]_vars => IInv'
  BY NextStep
<1> QED BY <1>1, <1>2, PTL DEF Spec

(* Every variable has its type and the count never goes below zero         *)
(* (ev_buffer.c:388, 411).                                                 *)
THEOREM TypeTheorem == Spec => []TypeOK
<1>1. IInv => TypeOK
  BY DEF IInv
<1> QED BY <1>1, Invariance, PTL

(* The list, its count and the tables of states are a FIFO queue of        *)
(* messages, and every buffer has one owner, whatever interrupt comes      *)
(* between two steps of the main loop (ev_buffer.c:245-420).               *)
THEOREM BuffersImplementQueue == Spec => QueueSpec
<1>1. Init => Queue!Init
  BY InitIInv
<1>2. IInv /\ [Next]_vars => [Queue!Next]_(Queue!qVars)
  BY NextStep
<1> QED BY <1>1, <1>2, Invariance, PTL DEF Spec, QueueSpec, Queue!Spec

(* The main loop suspends (ev_isTaskDone) exactly when no buffer holds a   *)
(* message.                                                                *)
THEOREM IdleTheorem == Spec => []IdleWhenEmpty
<1>1. IInv => IdleWhenEmpty
  <2> SUFFICES ASSUME IInv PROVE num = 0 <=> \A b \in Buf : tbl[b] = {}
    BY DEF IdleWhenEmpty, ev_isTaskDone
  <2>1. PICK s : Linked(s)
    BY DEF IInv
  <2>2. num \in Nat
    BY DEF IInv, TypeOK
  <2>3. num = 0 => \A b \in Buf : tbl[b] = {}
    <3>1. \A b \in Buf : tbl[b] # {} => \E k \in 1..num : s[k] = b
      BY <2>1 DEF Linked
    <3>2. num = 0 => \A k : k \notin 1..num
      BY <2>2
    <3> QED BY <3>1, <3>2
  <2>4. num # 0 => 1 \in 1..num
    BY <2>2
  <2>5. num # 0 => s[1] \in Buf /\ tbl[s[1]] # {}
    BY <2>1, <2>4 DEF Linked
  <2> QED BY <2>3, <2>5
<1> QED BY <1>1, Invariance, PTL

(* The end of a data frame is reported to the MAC, unless an               *)
(* acknowledgement was not sent for want of a buffer (mac_phy.c:736-744,   *)
(* 824-825).                                                               *)
THEOREM TxDoneTheorem == Spec => TxDoneReported
<1>1. IInv /\ [Next]_vars => [air = "data" /\ air' = "nothing" => told' \/ unsent]_vars
  <2> SUFFICES ASSUME IInv, Next, air = "data", air' = "nothing" PROVE told' \/ unsent
    BY Zenon
  <2>1. rf_isAck => unsent
    BY DEF IInv, Silent
  <2>2. rf_tx_irq_handler
    BY DEF Next, rf_pm_restore, rf_setTrxState, Receive, ReceiveNoBuffer, Transmit, ev_main, Allocate, Free,
           Post, radioVars
  <2>3. told' = ~rf_isAck
    BY <2>2 DEF rf_tx_irq_handler
  <2> QED BY <2>1, <2>3, Zenon
<1> QED BY <1>1, Invariance, PTL DEF Spec, TxDoneReported
=============================================================================
