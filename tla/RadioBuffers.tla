---------------------------- MODULE RadioBuffers ----------------------------
(***************************************************************************)
(* The users of the event buffers: the interrupt handlers of the radio     *)
(* (net/rf4ce/mac/mac_phy.c), and the main loop, ev_main (proj/os/ev.c),   *)
(* whose message handlers are the binary network library and the           *)
(* application.                                                            *)
(*                                                                         *)
(* A received frame is handed over in the buffer it was received into, if  *)
(* there is another one to receive the next frame.  A frame that asks for  *)
(* one is acknowledged by the handler itself, which then has the next      *)
(* transmission-done interrupt be the acknowledgement's (rf_isAck).        *)
(***************************************************************************)
EXTENDS EvBuffer, Sequences

CONSTANT PHY2MAC   (* BUF_ITEM_STATE_PHY2MAC *)

ASSUME StateAssumption == PHY2MAC \in State /\ \A m \in State : PHY2MAC <= m

VARIABLES
  rf_rxBuf,   (* the buffer the radio receives into                        *)
  rf_isAck,   (* the next transmission done is that of an acknowledgement  *)
  trx,        (* what the radio was last switched to                       *)
  air,        (* what is being transmitted                                 *)
  told,       (* history: rf_txCbFunc was called by the last interrupt     *)
  unsent,     (* history: an acknowledgement was not sent for want of a    *)
              (* buffer, and nothing was transmitted since                 *)
  held        (* the buffers the stack and the application hold            *)

radioVars == <<rf_rxBuf, rf_isAck, trx, air, told, unsent>>
vars == <<poolVars, radioVars, held>>

Init ==
  /\ ev_buf_reset
  /\ rf_rxBuf = NULL
  /\ rf_isAck = FALSE
  /\ trx = "off"
  /\ air = "nothing"
  /\ told = FALSE
  /\ unsent = FALSE
  /\ held = {}

-----------------------------------------------------------------------------
(* The radio. *)

(* The stack switches the receiver on or off (rf_set, the wake-up).        *)
rf_setTrxState(state) ==
  /\ air = "nothing"
  /\ trx' = state
  /\ UNCHANGED <<poolVars, rf_rxBuf, rf_isAck, air, told, unsent, held>>

(* The first time; later the radio keeps its buffer.                       *)
rf_pm_restore ==
  /\ rf_rxBuf = NULL
  /\ \E b \in Buf : ev_buf_allocate(b) /\ rf_rxBuf' = b
  /\ UNCHANGED <<rf_isAck, trx, air, told, unsent, held>>

(* rf_rx_irq_handler, for a frame that passes the filters (one that does   *)
(* not changes nothing here); `ack' when it asks for an acknowledgement.   *)
Receive(ack) ==
  /\ trx = "rx" /\ air = "nothing" /\ rf_rxBuf # NULL
  /\ \E b \in Buf : Claim(b) /\ rf_rxBuf' = b
  /\ Enqueue(rf_rxBuf, PHY2MAC)
  /\ rf_isAck' = (rf_isAck \/ ack)
  /\ trx' = IF ack THEN "tx" ELSE trx
  /\ air' = IF ack THEN "ack" ELSE "nothing"
  /\ told' = FALSE
  /\ UNCHANGED <<unsent, held>>

(* There is no other buffer: the frame is dropped, the acknowledgement is  *)
(* not sent.  The radio has been switched to transmit for it (732) and     *)
(* stays so: it hears nothing before the stack transmits or switches it.   *)
ReceiveNoBuffer(ack) ==
  /\ trx = "rx" /\ air = "nothing" /\ rf_rxBuf # NULL
  /\ Available = {}
  /\ rf_isAck' = (rf_isAck \/ ack)
  /\ trx' = IF ack THEN "tx" ELSE trx
  /\ told' = FALSE
  /\ unsent' = (unsent \/ ack)
  /\ UNCHANGED <<poolVars, rf_rxBuf, air, held>>

rf_tx_irq_handler_KeepAck == (* mutant: rf_isAck is not cleared *)
  /\ air # "nothing"
  /\ told' = ~rf_isAck
  /\ trx' = "rx"
  /\ air' = "nothing"
  /\ unsent' = FALSE
  /\ UNCHANGED <<poolVars, rf_rxBuf, rf_isAck, held>>

rf_tx_irq_handler ==
  /\ air # "nothing"
  /\ rf_isAck' = FALSE
  /\ told' = ~rf_isAck
  /\ trx' = "rx"
  /\ air' = "nothing"
  /\ unsent' = FALSE
  /\ UNCHANGED <<poolVars, rf_rxBuf, held>>

-----------------------------------------------------------------------------
(* The main loop.  A handler uses and gives up only buffers it was given.  *)

Transmit ==
  /\ air = "nothing"
  /\ trx' = "tx"
  /\ air' = "data"
  /\ told' = FALSE
  /\ UNCHANGED <<poolVars, rf_rxBuf, rf_isAck, unsent, held>>

ev_main ==
  /\ \E b \in Buf : buf_message_poll(b) /\ held' = held \cup {b}
  /\ UNCHANGED radioVars

Allocate ==
  /\ \E b \in Buf : ev_buf_allocate(b) /\ held' = held \cup {b}
  /\ UNCHANGED radioVars

Free ==
  /\ \E b \in held : ev_buf_free(b) /\ held' = held \ {b}
  /\ UNCHANGED radioVars

Post ==
  /\ \E b \in held, m \in State : buf_message_post(b, m) /\ held' = held \ {b}
  /\ UNCHANGED radioVars

Next ==
  \/ rf_pm_restore
  \/ \E state \in {"off", "rx"} : rf_setTrxState(state)
  \/ \E ack \in BOOLEAN : Receive(ack) \/ ReceiveNoBuffer(ack)
  \/ rf_tx_irq_handler
  \/ Transmit
  \/ ev_main
  \/ Allocate
  \/ Free
  \/ Post

(* The main loop polls the queue once in every pass, and handlers return.  *)
Spec == Init /\ [][Next]_vars /\ WF_vars(ev_main)

-----------------------------------------------------------------------------
(* Properties. *)

(* Every variable has its type; the count never goes below zero            *)
(* (ev_buffer.c:388, 411).                                                 *)
TypeOK ==
  /\ busy \subseteq Buf
  /\ tbl \in [Buf -> SUBSET State]
  /\ next \in [Buf -> Buf \cup {NULL}]
  /\ {head, tail, rf_rxBuf} \subseteq Buf \cup {NULL}
  /\ num \in Nat
  /\ rf_isAck \in BOOLEAN /\ told \in BOOLEAN /\ unsent \in BOOLEAN
  /\ trx \in {"off", "rx", "tx"}
  /\ air \in {"nothing", "ack", "data"}
  /\ held \subseteq Buf

(* The buffers from the head on, `num' of them. *)
Chain ==
  LET at[k \in 1..num] == IF k = 1 THEN head ELSE next[at[k - 1]]
  IN  [k \in 1..num |-> <<at[k], Lowest(tbl[at[k]])>>]

(* The linked list, its count and the tables of states are a FIFO queue of *)
(* messages and every buffer has one owner: no interrupt between any two   *)
(* steps of the main loop makes two of them share a buffer, loses one, or  *)
(* loses, duplicates or reorders a message (ev_buffer.c:245-420).          *)
Queue == INSTANCE MessageQueue WITH
  queue <- Chain, free <- Available, rx <- rf_rxBuf, Received <- PHY2MAC
QueueSpec == Queue!Spec

(* ev_isTaskDone is what the main loop asks before it suspends: it is true *)
(* exactly when no buffer holds a message (ev_buffer.c:343-344).           *)
IdleWhenEmpty == ev_isTaskDone <=> \A b \in Buf : tbl[b] = {}

(* A message posted is polled, even if the radio never stops receiving.    *)
Delivered == \A b \in Buf : tbl[b] # {} ~> b \in held

(* "Direct call the callback to cancel the ACK waiting timer more quick."  *)
(* (mac_phy.c:824-825): the end of the transmission of a data frame is     *)
(* reported to the MAC, unless an acknowledgement that was not sent for    *)
(* want of a buffer (736-744) left rf_isAck set before it.                 *)
TxDoneReported == [][air = "data" /\ air' = "nothing" => told' \/ unsent]_vars
=============================================================================
