# A model of the RF4CE SDK's own logic

The repository is a firmware SDK for RF4CE remote controls ("rc") and their
USB targets ("dongle") on TLSR8 and B9x chips. The network and profile layers
are binary libraries; the sources around them are the drivers, the small
operating system, the radio's interrupt handlers and the applications. These
modules model that code in TLA+, check it with TLC on small instances and prove
part of it with TLAPS. Paths below are relative to `src/tl_rf4ce_sdk/`.

## Inventory

| Component | State | Operations | Hard parts |
|---|---|---|---|
| Frame counter log, `proj/drivers/nv.c` 843-1039 | two flash sectors of 32-bit words | load (with backoff), save | power failure in every flash operation |
| Frame counter life, `vendor/rc_app/app_common.c` | RAM counter, idle handler's copy, retained register | power-on, idle save, deep sleep | what is lost with RAM, replayed counters |
| NV items, `nv.c` 119-841, 1041-1074 | two sectors: header, index, items | write, read, reset | power failure, duplicates, full sectors |
| Software timers, `proj/os/timer_event.c` | table of slots, position | start, stop, pass | interrupts, slots reused under stale handles |
| Event buffers, `proj/os/ev_buffer.c` | pool, table of states, linked queue | allocate, free, post, poll | interrupts, ownership, empty pool |
| Radio interrupts, `net/rf4ce/mac/mac_phy.c` | receive buffer, acknowledgement flag | receive, transmission done | no buffer, flags that outlive their frame |
| Main loop, `proj/os/ev.c`, `sys.c` | none of its own | timers, tasks, one message, idle handler | fairness between them |
| Task queue, `proj/os/task_queue.c` | ring with 8-bit cursors | post, pop | wrap of the cursors |
| Firmware update, `vendor/common/TL_specificData/tl_specific_data_ota.c` | offsets, retries, boot flags | request and response of header, data, end | lost and repeated messages, reboot |
| Audio sessions, `tl_specific_data_audio.c` | session state, retries, result of the scan and its timer | request, answer, retry, stop | timeouts against answers, one handle for two timers |
| Audio path, `proj/drivers/audio/audio_rec_proc.c`, `mac_phy.c` | ring of packets, flags of the frame on the air, retries | encode, send, receive, retransmit | three interrupts and the main loop share the flags |
| Energy scan, `vendor/common/app_edScan.c` | channel, best one so far | measure, compare | what is kept from the scan before |
| Remote application, `vendor/rc_app/` | one state variable, saved info, timers | keys, pairing, power management | callbacks of the stack in any order, deep sleep |
| Dongle application, `vendor/dongle_app/` | pairing state, host buffers | host commands, indications | buffer exhaustion |
| Infrared, `proj/drivers/ir/` | waveform, timers | send, learn | timers started from an interrupt |
| Hardware timers, `proj/drivers/drv_timer.c` | status per timer | set, cancel, interrupt | a late interrupt after a cancel |
| Keyboard, UART, USB, ADC, PM, test mode | | | mostly I/O |
| Network and profile libraries, `net/rf4ce/lib` | binary | | environment of the models |
| `platform/` | chip drivers | | not part of the logic |

Components interact by direct calls and callbacks on one stack (the main loop),
by messages in event buffers, by timers, and with interrupt handlers through
shared variables under `irq_disable`. Two resources are shared by all of them:
event buffers (14) and event timers (12). What makes each one correct is listed
as hazards, at their lines, in `PROJECT.json`.

## Plan

The order is that of what a failure costs a user.

1. `NvSector`, `NvFrameCount`, `RcFrameCounter`: the frame counter, whose
   decrease over a power cycle makes the target drop every frame. *Done, proved.*
2. `NvItems` refining `AtomicStore`. *Done, proved.*
3. `EvTimer` with its clients. *Done, safety proved.*
4. `EvBuffer` and `RadioBuffers` refining `MessageQueue`. *Done, proved.*
5. `Ota`: remote and target with a lossy, duplicating network, the image in
   flash and the boot flags. *Done, safety proved.*
6. `AudioSession` with `EdScan`: request, retries and timeouts against answers.
   *Done, safety proved.*
7. `AudioPath` with `HwTimer`, refining `AudioQueue`: ring, sender, radio
   interrupts and the timer between retransmissions. *Done, safety proved.*
8. `RcApp`: the application's state machine over the callbacks of the stack, with
   the two saves and deep sleep. *Done, safety proved.*

What could come next: the dongle's host interface, and `RcApp` composed with
`EvTimer` for its handles. `TaskQueue` is dropped: `tl_taskPost` has no caller.

## Modules

### NvSector

The two sectors common to both kinds of NV module: which one is read
(`nv_sector_read`) and the 2-bit sequence number. A header is never written, valid,
torn (its CRC fails), invalid, or plain. Retiring a sector programs its flag from
0x7A7A to 0x5050, bit by bit: interrupted, it can leave 0x5A5A, which
`nv.c:256-259` accepts without looking at the CRC. That is the flag "plain", and
`RetireTears` says whether an interrupted retirement may leave it; otherwise the
flag is as before or as intended. The other values in between are not a valid
sector's, as 0x5050 is not. 0xFAFA (the top bits of a header that is being
programmed again) is left out, and so is the interrupted retirement of a header
that was itself torn.

### NvFrameCount, RcFrameCounter (with MCFrameCounter)

`sect` is the flash, `op` the call in progress: a call fixes its plan from the
headers (`SaveOp`, `BackoffOp`) and every flash operation is one action
(`InvalidateStale`, `EraseAll`, `EraseTarget`, `CopyLast`, `WriteCount`,
`WriteHeader`, `RetireOld`). The supply may fail before, in or after each. A word
whose programming is interrupted is larger than the intended one (flash clears
bits, and the missing ones read as 1): `Excess` is by how much. `WriteFails` is a
write that `flash_writeWithCheck` reads back wrong, the retirement of the old
sector included (`nv.c:982-985`): the call returns an error and the device runs on,
then with two valid sectors. Erasures and the retirement of a stale sector before
the call's first write are not read back.

`RcFrameCounter` adds the counter in RAM, the idle handler's static copy, the
retained register and the device's modes. The network library is its
environment: it loads the log when it starts and increments the counter with
each secured frame. `paired` is a valid `pairingRef`: only a paired remote adds the
margin of a power-on (`app_common.c:535`), and pairing and unpairing come at any
time. `saved`, `used` and `fails` are history variables; `fails` counts the writes
read back wrong and the retirements left with a flag that is accepted.

Abstractions: erasing is atomic; the counter does not reach 2^32; a factory
reset, which erases the log too, is left out (it forgets the pairing).

### NvItems, AtomicStore (with MCNvItems)

The index of a sector is a sequence of entries with their state, offset, item
header and value. Each flash operation that matters is an action; a sector change
copies one item at a time (`CopyItem`), its index entry and its data together,
since nothing of them is read before the sector has a header. `CrcCoversState` is the
difference between boards: on B92 and TL321X the CRC of an index entry covers its state, because `usedState`
is not its last byte there. `HeaderTears` lets the programming of an item header
be interrupted between its flag and its checksum.

At the end of a sector change of items `nv.c` ignores whether the retirement reads
back right (`nv.c:756`): if not, the flash is as after a power failure before it,
which the module has.

With `RetireTears` a power failure in a retirement can make the sector before the
one to read: the write or save that changed the sector is taken back, be it in
its own retirement or in the one that the next call makes up for. So with it
`AtomicStore` allows that a power failure takes one item back (`CrashReverts`), and
`StoredNeverDecreases` that this step lowers the counter. Nothing else does, and the
counters used again are at most a threshold and a burst more (`ReuseAtMostBurst`).

`AtomicStore` is the contract: a write happens at one instant or not at all, and
nothing else changes an item, except a reset, which may show older values until
it returns. That exception is real: a reset that finds two valid sectors (after a
failure between the header of the new one and the retirement of the old) and is
interrupted after the first erase leaves the older one. Not modelled: failing
read-backs of items, bit rot, items with several versions (no caller).

### EvTimer (with MCEvTimer)

`valid` and `busy` are the two bytes of a slot; `due` is the set of slots that
the current pass finds expired, chosen when it reads the clock, so that time
itself is not in the model. `main` is the main loop's place in `ev_process_timer`
(sweep, scan, callback) and `claim` its place in `on_timer`, whose test and claim
of a slot are separate steps, as are the two stores of the sweep: only
`start_timer`, `cancel_timer` and `ev_unon_timer` disable interrupts. A client is
a module with a static handle. `Isr` clients start their timer from an interrupt,
as `irTimer1IrqCb` does (`ir.c:132-145`); `Stale` clients return -1 without
clearing their handle, as `app_data.c:107` and `121` and
`tl_specific_data_ota.c:249` and `379` do. `raced` and `stolen` record that one of
these two things has gone wrong. A store to `busy` and one to `valid` are assumed
to be made in the order of the source.

### EvBuffer, RadioBuffers, MessageQueue (with MCRadioBuffers)

`EvBuffer` is the pool and the queue threaded through it (`head`, `tail`, `next`,
the tables of states and the count); every operation disables interrupts and is
one step. `RadioBuffers` has its users: the receive and transmission-done
interrupts, and the main loop, whose handlers are the binary library and so may
allocate, free or pass on any buffer they hold in any order. `trx` is the radio's
mode: the receive interrupt switches to sending an acknowledgement before it asks
for a buffer (`mac_phy.c:732`), and without a buffer nothing is received until the
library switches back (`rf_setTrxState`). `MessageQueue` is the contract: a FIFO
queue of messages and one owner for each buffer.

### Ota (with MCOta)

`ota_startReqHandler`, `ota_dataReqHandler` and `ota_stopReqHandler` are the
target's handlers, `ota_startRspHandler`, `ota_dataRspHandler` and
`ota_stopRspHandler` the remote's, with its timers `ota_startReqCb`,
`ota_dataTryReqCb`, `ota_stopRspCb` and `ota_callBackRestore`; `rc` and `tgt` are the
static variables of the two sides. `ota_mcuReboot` is three steps (`WriteFlag`,
`ClearFlag`, `SystemReset`), because the supply may fail between them. Which bank
boots is the chip's choice: bank 0 if it has the flag.

`msgs` is a set: a message in it is delivered at any time, once or twice, or
never. The remote's messages are sent again under other sequence numbers, so that
the target's filter on them only drops some of the repetitions. Messages do not
outlive a restart of either side. Lengths are in units of a few bytes; a unit of
an image is its version, its file's size and its place, so that images of two
files and two places of one differ, and `Bad` is a unit the flash did not take.
Checksums do not collide: they agree exactly when the units do (`Verified`). The
header's fields are read where the code reads them: a later block in the place of
the first gives values no file has. Chip type and manufacturer are in `ok`,
whether the target's file is for this remote. Left out: an empty pool of event
buffers, at which both sides spin for ever (`while(1)`), and stale handles of the
timers, which are `EvTimer`'s. A request for data that the target cannot serve is
answered by a header and what the buffer held before
(`tl_specific_data_ota.c:721-741`): the remote reads an answer it does not wait for,
or one it has had, which is a message delivered twice. `app_saveInfoPm`, called
before the restart, is a step of `RcApp`'s `ota_mcuReboot`.

`BootsWhole` is that a power failure at any moment leaves the chip a flagged bank
with a whole image. `DataInOrder` relates the counters to what is in flash. It is
limited to sessions in step on purpose: after a failed session answers still
count, and a start response then resumes with counters that do not fit; only the
checksums, and so `BootsWhole`, are left. `SessionReported` is that the timers end
every session without any answer.

### AudioPath, HwTimer, AudioQueue (with MCAudioPath)

Audio frames bypass the MAC: `proc_sending84` puts a packet of the ring on the
air and sets `AudioTxDataFlag` (`tx`), the transmission-done interrupt starts
hardware timer 0, its interrupt sends the frame again, and an acknowledgement or
the last retry clears the flag. `rf_rx_irq_handler`, `rf_tx_irq_handler` and
`drv_timer_irq0_handler` are the three interrupts and look at that flag, at
`busy` (`TX_BUSY`) and at `isAck` to tell whose frame has just ended; `air`, `done`
and `rx` are what the radio is doing and what it has raised. `snapshot` is set from
when the interrupt dispatcher has read timer 0's interrupt as pending until it
calls the handler, whatever the handlers before it have done to the timer. The two interrupts of the radio are
never both pending (`OneThing`, proved): the radio hears nothing until the end of a
transmission is handled, so one call of the dispatcher never serves both. `HwTimer` is one timer of `drv_timer.c` with its pending
interrupt. `AudioQueue` is the promise of the ring: packets leave in the order in
which they came, each once, and a full ring loses its oldest one, whatever the
8-bit cursors are when a session starts.

`NotSentAfterAck` is that the timer of a frame that was acknowledged, which may be
pending or about to be served, sends it no more and costs no retry: `cnt` grows only
for a frame whose flag is set. It depends on the handler of the acknowledgement
also resetting the timer's status.

Two things break what the flags say, and both are recorded as history: `stale` is
set when a frame that asks for an acknowledgement arrives during an audio frame
or its acknowledgement is not sent,
and `aborted` when a session is stopped in the middle of one. The properties name
them as their exceptions.

The library is the environment: `nwk_profileAudioDataSend` starts with no retries
used and refuses while the radio sends, the MAC sends only while `tx` is clear,
and timer 0's interrupt is enabled.

### AudioSession, EdScan (with MCAudioSession)

`AudioSession` has both sides of the request for a channel in time steps of
100 ms, the time it takes to measure one channel: the remote's retries, the
dongle's scan, its result and the timer that forgets it, and frames that are
lost, or on their way for up to `FlightTime`. A timer that is due is served before
time goes on. `EdScan` is the scan of `app_edScan.c`: it stops at the first quiet
channel, else takes the least energy, and keeps the channel of the scan before
when every measure is the largest there is. `measured` is its history. `rescan`
records that a scan began while an answer was under way or the session was open:
the result is then forgotten between the answer and a retry.

The remote may give up after as few as two losses (`Tolerated`), because the last
answer can still be on its way when the last timeout comes; when it does give up
its receiver is off. After a stop its receiver is on.

### RcApp (with MCRcApp)

One variable, `rcu_appVars.state`, is shared by keys, pairing, unpairing, audio,
update and infrared; callbacks of the stack and timers assign it without looking
at whose state they overwrite. `app` is the RAM of the application as a record
that each handler takes and leaves, `lib` what the stack and the update are
doing, `nv` the two saves (pairing table and application info), `save` how far a
save is, so that the supply may fail between the two, and `batt` the battery's
level, which keeps the remote from pairing, updating or writing flash.
`crossed` records that a callback has overwritten a state that was not its own,
`unsaved` that flash is behind the RAM. `DeepSleep` loses the RAM when
`app_idle_handler` allows it.

Assumed of the environment: every pairing ends with a bonding's confirmation, a
pairing is refused exactly while an unpairing runs, ZRC_RESTORE is reported
exactly when there was an entry, an update ends and may report that twice, HOME
is held three seconds longer than the running timers, short timers do not outlast
the 60 s of the idle rule, and the writes of `save_appInfo` succeed (a write that
fails is `NvItems`'s). PRE_CONFIGURE is not reached: no remote registers
`gdp_cmdCallbacks`.

## Runs

| Run | Shows | States |
|---|---|---|
| `frame_counter` | `NoRollback`, `ReuseAtMostBurst`, `StoredNeverDecreases` | 2,939,055 |
| `frame_counter_torn` | violation: a torn second word is loaded | stops at the violation |
| `nv_items` | the module implements `AtomicStore`, with half-way retirements; no write is refused | 65,180 |
| `nv_items_full` | it does, without these but with torn headers, on another board; `NotEnoughOnlyWhenFull` | 47,538 |
| `nv_items_refused` | violation: on B92 and TL321X a write is refused for ever | stops at the violation |
| `ev_timer` | `TimerKept`, `NoFireAfterStop`, `SlotFound`, `SlotReclaimed` | 629,044 |
| `radio_buffers` | the list implements `MessageQueue`; `IdleWhenEmpty`, `Delivered`, `TxDoneReported` | 12,432 |
| `ota` | `BootsWhole`, `DataInOrder`, `SessionReported` | 233,040 |
| `ota_boot_addr` | violation: the second update erases the running image | stops at the violation |
| `audio_path` | the ring implements `AudioQueue`; `HearsAgain`, `OnlyMacFramesReported`, `NotSentAfterAck`, `TxEnds`, `UnheardSessionEnds` | 440,844 |
| `audio_session` | `ChannelAgreed`, `QuietChannel`, `ResultTimed`, `GivesUpOnlyAfterLosses` | 1,708,668 |
| `rc_app` | `StateTellsSession`, `PairingKnown`, `SleepKeepsPairing`, `ComesToRest` | 317,233 |

Bounds, and why they are enough:

- `frame_counter`: sectors of 3 words (1023 in the code) fill after three saves;
  counters to 19 with a threshold of 2 make both sectors fill and the sequence
  number wrap; `Excess = {1, 60}` has a torn word that looks plausible and one
  that does not. One fault: with two or more the counter of the log can go back,
  because a save that fails after its header and one that fails in the backoff each
  leave a sector whose last word was never checked. With a burst as large as the
  threshold (a burst is a few frames and the threshold 1024 in the code) one failed
  save is enough: the next one is then more than two thresholds above the word
  before it and is taken for a torn one.
- `nv_items*`: three index entries and 36 bytes make every third write change the
  sector; two items and two values tell a lost write, an old version and another
  item's value apart; the third item in `nv_items_full` makes the live items not
  fit. The view drops the contents of sectors that are erased before being read;
  values are symmetric.
- `ev_timer`: three clients are one that starts from the interrupt, one with a
  stale handle and a victim; four slots are the least for which `SlotFound` can
  hold (one for each client and one for each start in a pass), so that slots are
  reused at once. The view drops the callback of slots that will not be called
  before they are claimed again.
- `radio_buffers`: four buffers are one for the radio, and three for a queue in
  which links have a middle; two message states are enough for `poll` to have an
  order to respect.
- `ota`: blocks of four units, a header of five that ends in the second block
  with the image's start behind it, and a checksum that is split over the last
  two blocks of a file of ten; blocks before, across and after the end of the
  checksum's range all occur. The file of twelve is a multiple of the block. One
  retry is the first and the last one; `MaxBlock` stops a session that has failed
  and asks for blocks after the file's end. One session and one fault (a message
  delivered twice, a write that fails or a file replaced), with a power failure at
  any step: since mcuBootAddr is wrong from the second update on, `BootsWhole` is
  a property of the first one, and the run stops there (`MaxUpdates`).
  More sessions are in the proof.
- `ota_boot_addr`: two sessions, the second one after the first update.
- `audio_path`: two packets that differ, a ring of two (32 in the code) and cursors
  modulo 4, so that the ring runs full and the cursors wrap at once; one retry
  while few packets wait and none while more do (3 and 1 in the code), one packet of delay, one
  discarded packet and two failures until the session is stopped (`AudioErrTimes`).
- `audio_session`: the code's three channels, its five retries of 200 ms and its
  lifetime of 2 s, in steps of 100 ms; energies 0 to 3 have a quiet, a least, an
  equal and a largest one; frames take up to one step, and one frame of an earlier
  request may be under way when the key is pressed.
- `rc_app`: battery levels that allow everything, forbid flash and cut the remote
  off; one request at a time whose answer is late, one retry, and one restart from
  any state, so that what was saved is read back once.

Frame counter, item, update and application runs do not check deadlock: a counter
at its bound stops, a device without power or at its last restart does nothing,
and the last session may be over.

Fairness: `EvTimer` assumes that the main loop goes on (`ev_main` is called for
ever, callbacks return) and `RadioBuffers` that each pass polls the queue (`ev.c`,
`buf_message_poll` on every call while `ev_rf4ceStackRun` is set). `Ota`
assumes that timers that are due are served, in any order, and that `ota_mcuReboot`
runs to its end; the network owes nothing. `AudioPath` assumes that a frame on
the air ends, that the hardware timer expires and that pending interrupts are
served (weak fairness), and that the main loop is not for ever interrupted just
when it could send a packet or end a stopped frame (strong fairness:
`proc_sending84` and `audio_stateSettingCb` do something only while the radio is
free). `RcApp` assumes that due timers are served, saves finish, and the stack
confirms what it was asked; strong fairness for `audioLastTimeoutCb`, which every
new packet starts again. Nothing is assumed of keys, targets, batteries or
received frames.

## Proofs

Each component with theorems has a module of proofs next to it. All theorems are
for every value of the constants that satisfies the named assumptions of the
modules, which are the ones a board satisfies: a sector holds at least two words,
a burst is at most a threshold, the 8-bit cursors are a multiple of twice the
ring, the header's signature is not split over two blocks, and so on. TLC
evaluates them in every run.

`RcFrameCounter_proofs`: `TypeCorrect`, `NoRollbackTheorem`, `ReuseBounded`,
`Monotone`. The properties are not inductive: whether a load finds the saved
counter depends on what the flash operations still to come will do. The invariant
`IInv` strengthens `TypeOK` with

- `FlashInv`: the layout of the sectors (a valid sector has the parity of its
  sequence number and words to read; two valid ones differ by one), the plan of
  the call in progress (which sector it is filling and what it has written so
  far, step by step), and, while no write was read back wrong, that the words of
  the sector read increase by at most what a save may add;
- `AppMargins`: the distances between the log, the last counter saved, the
  counter used and the one in RAM, in every mode of the device.

Each flash operation has a lemma that it preserves `FlashInv` and does not lower
the counter the log would give (`StaleStep`, `EraseStep`, ...); the actions of the
application preserve `AppMargins` because of what those lemmas say of the log.
`NoRollbackTheorem` is stated for `fails = 0`, `Monotone` under `MaxFails = 0`:
with read-back failures only the bounded run speaks, and with two it finds a
counterexample. All four have the hypothesis `~RetireTears`: that both sectors'
flags are under a CRC is what decides which one is read (`FlashInv`). `ReuseBounded`
too is for `fails = 0`; what a fault adds to the counters used again is only checked.

`NvItems_proofs`: `TypeTheorem`, `StoreTheorem`, `WriteNotRefusedTheorem`, for any
items, values and lengths of items, index and sector, under `~RetireTears`. What a sector says of an
item is its last valid entry (`Reads`, which finds the entry as `Newest` does). The
invariant has the layout of the two sectors (`Layout`: the parity of the sequence
numbers, two valid ones differ by one, items packed in the order of their
entries) and says for each step of a write what the sector being filled says of
every item (`StepInv`). A sector without a header says of the other items what is
read, and of the item written nothing until its entry becomes valid (`Building`);
while items are copied it says so as far as the copy has come (`Copied`). A write
in place is seen when its entry becomes valid, because that entry is then the
last one of the item, and deleting the one before (`Replaced`) changes nothing.
So each flash operation is a step of `AtomicStore` or none of its business:
`StoreTheorem`. `WriteNotRefusedTheorem` has three hypotheses more: the CRC of an entry
leaves out its state, an interrupted item header leaves no flag, and the lengths of
the items are multiples of four. The run `nv_items_refused` shows the property
false without the first. The third is the hazard at `nv.c:607`: the test for room
does not align the offset and the write does, so that a sector that has room only
for an unaligned item refuses it.

`EvTimer_proofs`: `TypeTheorem`, `TimerKeptTheorem`, `NoFireAfterStopTheorem`,
`SlotFoundTheorem`, for tables, modules and interrupts of any number. An armed slot belongs to the module whose handle
names it whatever happens (`Owned`). That every running timer is armed, and that
the slot the main loop is at is as its last step left it, holds until an interrupt
takes a slot between its test and its claim (`raced`) or a stale handle stops
another's timer (`stolen`): `Kept`. `Claiming` and `Calling` say what the main loop
holds in between. That a search ends at a free slot is an argument of the least
distance from where it starts. That there is one is a count: the slots that are
taken, the handles of a slot that is free again (each can cancel that slot and
so take it) and the claim in progress are together at most the clients and the
starts of this pass (`Counted`). A start adds one on both sides; a cancel through a
stale handle takes a slot and loses the handle; and when a sweep ends no cancelled
slot is left, so that every slot taken is in the handle of a client of its own.
The hypothesis is that the table has a slot for each client and one for each start
of a pass; neither the interrupt nor the kept handles are excluded. The
repository's table has 12 slots; how many timers a pass may start is not bounded
by its code.

`RadioBuffers_proofs`: `TypeTheorem`, `BuffersImplementQueue`, `IdleTheorem`,
`TxDoneTheorem`. The queue is what the recursive function along the links
(`Chain`) gives. The invariant says that some list without repetitions follows
the links from head to tail and has the length of the count (`Linked`), that the
table of states agrees with it and with the holders (`Owned`), and what the
radio's flags say while nothing is sent (`Silent`). That the function gives that
list is shown by a least counterexample. Each operation has a lemma that names the
list it leaves.

`AudioPath_proofs`, in two halves. `RingImplementsQueue`: the ring with its
wrapping cursors, encoder and sender implements `AudioQueue`, for every size; the lemmas before it are the
arithmetic of the cursors, of which `RingSize` divides the modulus twice: at most
one more than the ring's size is written before the sender drops the oldest. The
encoder and the sender after it are one step of the model, and the queue's step is
an add followed by a removal. The second half is the flags of the radio:
`TypeTheorem`, `HearsAgainTheorem`, `OnlyMacFramesReportedTheorem`,
`NotSentAfterAckTheorem`. The invariant (`RadioInv`) says that the
radio does one thing at a time (`OneThing`); that while `AudioTxDataFlag` is set
the timer is the frame's, no frame of the MAC is on the air, and the audio frame
is not on the air while its timer runs (`FlagSet`); that nothing is left of the
frame when the flag is clear, unless a session was stopped in the middle of one
(`FlagClear`); what `TX_BUSY` and `rf_isAck` are set for, unless `stale` (`Acks`); and
that the count of retries fits (`Retried`).

`AudioSession_proofs`: `TypeTheorem`, `ResultTimedTheorem`, `ChannelAgreedTheorem`,
`QuietChannelTheorem`, `GivesUpOnlyAfterLossesTheorem`, for any number of channels, range of energies and length
of the timers. What is added to the properties is that a scan in progress has no
result and no timer (`Scanning`), what it has seen so far (`Scanned`), and that the
answers under way name the channel the dongle is on (`Agreed`). `TypeTheorem` bounds
the frames under way, under the hypothesis that a request and its answer together
take no longer than the time after which the request is repeated (`2 * FlightTime
<= RetryTime`; the code waits 200 ms): when it is repeated only answers of the ones
before are left, and they are due at once (`Left`, `Few`). The last theorem counts the
requests of which no loss and no answer under way tells (`Open`): each of them is on
its way or fell into a scan. `Fallen` bounds them while the dongle is idle, scans, and
has a result; in a scan by the time it has taken, as a retry comes each `RetryTime`.
When the last retry has run out nothing but one answer can be under way (`Late`), so
that without two losses more requests would be open than a scan can swallow. The
hypotheses (`Margins`) are that a request and its answer fit between two retries, that
all retries but two outlast a scan of every channel with a flight, and that a result
lives longer than the retries: 200 ms, 600 ms against 300 ms and a flight, 2 s
against 1.2 s in the code.

`Ota_proofs`: `TypeTheorem`, `BootsWholeTheorem`, `DataInOrderTheorem`, for any files, frames, numbers of sessions,
lost, repeated and reordered messages, failing writes and power failures. The
hypothesis of the last two is `[]RunningBankSpared`: no session writes the bank the
remote runs from. The run `ota_boot_addr` shows that this fails from the second
update on. The invariant says that the bank a session writes is not the running one (`Spared`),
that a bank with a flag has a whole image (`Flagged`), that the running bank has
its flag until the new one has it (`Bootable`), that a bank being written has none
(`Unflagged`), that success means a whole image in the new bank, unless it is left
from before the session and nothing under way can end the session with it
(`Success`), and that `ota_mcuReboot` starts only with a whole image (`Reboots`).
`DataInOrder` is kept because every answer under way is about the file the target
holds (`Sent`, `Known`) and a session whose header count is a frame for each block
it asked for has had every block (`Steps`): a block is the header's first, the one
in which the header ends and the image starts, or one of the body, and what each
leaves in flash is the next part of the image (`HeaderBlock`, `BlockFlash`).

`RcApp_proofs`: `TypeTheorem`, `PairingKnownTheorem`, `SleepKeepsPairingTheorem`,
`StateTellsSessionTheorem`, for any number of restarts, battery levels, retries and answers. The pairing is
kept four times, in the RAM of the application and of the stack and in flash for
each. The invariant says which of the four agree: while the saves are under way the
two in RAM (`Saved`), at rest all of them unless flash is behind (`Flash`), and
that a pairing begins with the stack idle and a battery that will do for the saves
at its end (`Exclusive`). Most handlers leave the pairing alone, which is shown
once (`QuietHandled`). For `StateTellsSession` the invariant adds what the callbacks
rely on while none has overwritten another's state (`Told`): no request for audio
waits while the microphone is open, the second attempt to pair waits only while
the stack does not pair, and only a paired remote is updated; and, whatever was
overwritten, that during the saves the state is the one saved (`Own`).

Only model-checked:

- everything under fairness, which is beyond the prover: `SlotReclaimed`,
  `Delivered`, `SessionReported`, `TxEnds`, `UnheardSessionEnds`, `ComesToRest`;
- `NotEnoughOnlyWhenFull`, which sums the lengths of a set of items: what a fold
  over a set computes needs induction over data, which the prover does not have;
- interrupted retirements that leave 0x5A5A (`RetireTears` in `frame_counter` and
  `nv_items`).

## Findings

Three runs end in a violation of what the code's comments or parameters say; each
is listed in `PROJECT.json` with the line:

- a torn second word of a sector is not backed off (`nv.c:1025`);
- the index CRC covers the state on B92 and TL321X (`nv.c:423`);
- the boot address 0x40000 is kept in 8 bits
  (`tl_specific_data_ota.c:194`).

Other behaviour that a property had to name as its exception, each with a variable
that records it, so that the property still says what holds otherwise:

- a timer callback keeps its handle and a later stop hits another timer
  (`app_data.c:107`, `121`): `stolen` in `TimerKept`;
- a slot is tested and claimed in two steps (`timer_event.c`, `on_timer`): `raced`
  in `TimerKept`;
- the acknowledgement flag stays set when a frame is dropped (`mac_phy.c:736-744`):
  `unsent` in `TxDoneReported`, `stale` in `HearsAgain`;
- an audio session stopped in the middle of a frame leaves the frame to the
  interrupts: `aborted` in `HearsAgain` and `OnlyMacFramesReported`;
- callbacks of the stack overwrite the application's state: `crossed` in
  `StateTellsSession`;
- pairing data are not saved below the battery level for flash: `unsaved` in
  `SleepKeepsPairing`;
- a request that arrives in a session or behind its answer starts a second scan:
  `rescan` in `ChannelAgreed`.

For these events the code promises nothing and goes wrong as the lines say; a
property then says what holds without them. The hazards of `PROJECT.json` that are
one of these events carry a note to that effect.

## Not modelled

- Time where "due or not" is enough (all modules but `AudioSession`), the 2^32
  wrap of the frame counter, bit rot, and the branch `USE_NEW_MSG_MANAGER`, which
  no board builds.
- The network and profile libraries: binaries. They are the environment.
- The task queue: `tl_taskPost` has no caller.
- The dongle's application: it forwards messages between the host and the stack;
  its part of an update and of an audio session is in `Ota` and `AudioSession`.
- The keyboard scan, the infrared waveforms, the LEDs and the test mode: pure I/O.
- Peripheral drivers and `platform/`. These are most of the lines of the
  repository (register headers, chip drivers, generated tables, vendored
  libraries) and keep no state that the rest of the system depends on. The share
  of the repository that the modules map is therefore small, while the share of
  its own logic is not.
