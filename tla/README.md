# TLA+ models of the eLink gateway for a BLE fingerprint lock

The repository is MiCO SDK (`mico-os/`), its sample demos, and one product:
`application/MLinkDemo`, a gateway between a cloud platform (eLink over TCP, a
mobile application over CoAP) and one fingerprint lock reached through a BLE
module on a UART. These are models of the product as it is built for
`DEVICE_ELINK_BLE` (`MLinkAppDef.h`, `MLinkDemo.mk`): Zigbee, RF433, cron and
`coap_client.c` are not compiled, and the UART threads other than
`bleRecv_thread` are not started. Paths below are relative to
`application/MLinkDemo`.

## Inventory

| component | state | operations | what is hard, what must hold |
|---|---|---|---|
| BLE command list (`ble/bluetooth_logic.c`) | `mATcmdList`, `mPutIndex`, `mGetIndex`, `g_MutexFlag`, `send_touchuan_flag` | `ATCmdSend`, `send_touchuan_data`, `send_touchuan_mult_data` by any task; `Ble_Send_deal_thread` | a lock made of a variable; no test for a full list; waits for a module that may not answer. *Commands are sent once, in order; none waits forever.* |
| BLE lock session (same file) | `g_BleState`, `TimeoutCnt`, retry and link flags | `ble_*_start`, reports `OK+ WAR+ E F`, the lock's answers, `ble_timeout_thread`, `ble_scan_thread` | one operation at a time with no identity: late answers, link losses, retries and a timer that decides before it acts. *Operations end in their time; requests are not forgotten; results are reported for what was asked.* |
| BLE frame reassembly (same file) | `g_RecvPacket`, `g_PacketBuf`, `send_touchuan_flag` | `recv_touchuan_data` | frames lost, sent again, broken off with the link. *A message is handed on whole or not at all.* |
| BLE byte stream (same file) | `ucRecvBuf`, `g_tunnelFlag` | `ble_uart_recv_callback` | lines and frames share one stream. *It finds its way back after a lost byte.* |
| Stored locks and keys (`flash/`) | present lock, device, key and user objects in RAM and flash | add, update, delete, read back at start | a block is erased before it is written back; a restart counts the keys anew; orders and answers that miss each other. *RAM and flash agree; a key is gained or lost by an answer of the lock only; the list is the lock's.* |
| eLink device channel (`eLink/`) | login, token, connection, sequence, busy flag, send queue | connect, log in, heartbeat, reports, control | three tasks share it without a lock; frames queued for a connection that is gone, descriptors reused, a platform that falls silent. *No connection is taken for admitted before the platform said so; the gateway finds out when it is alone.* |
| Main logic (`main/`) | alarm, signal and record state | the callback of the lock session; request routing | runs in the receive task of the lock. *What is stored follows what was reported.* |
| CoAP (`coap/`) | tokens, retransmissions, notification queue, watchdogs | requests, answers, notifications | a late answer against a retransmission. |
| Node queue (`queue/queue.c`) | head, end, count | push, pop, delete, empty | a count changed outside its mutex; `del_node` returns with the mutex held. |
| UART (`uart/`) | ring buffer, frame queues | receive thread, request/response | its request/response layer belongs to the Zigbee build. |
| MQTT, cloud, OTA, time, JSON, LEDs, system status | connection or display state | SDK calls, conversions | sequential, or loops around the SDK. |

How they interact: the eLink task, the CoAP tasks and the storage call
`ble_*_start` of the lock session; it sends through the command list; the module
reports to `bleRecv_thread`, which runs the session's handlers, reassembles the
lock's messages and calls `main_ble_callback_proc`; that writes the storage and
reports through eLink. All threads have `MICO_APPLICATION_PRIORITY` and FreeRTOS
slices time between them (`FreeRTOSConfig.h`), so any two statements of two
threads interleave.

## Modules

| module | what it is |
|---|---|
| `CmdFifo` | what the command list promises: a queue, as long as `ok` holds |
| `BleCmdRing`, `MCBleCmdRing` | the command list and the send thread |
| `BleCmdRing_proofs` | its theorems |
| `BleSession`, `MCBleSession` | the lock session |
| `BleSession_proofs` | its theorems |
| `BleReassembly` | frames to messages |
| `BleReassembly_proofs` | its theorems |
| `ElinkChannel` | the connection to the platform, its send queue and reports |
| `ElinkChannel_proofs` | its theorems |
| `KeyStore` | what the stored list of temporary keys promises: a set of keys |
| `BleStore`, `MCBleStore` | what is kept in flash, and the orders and answers that change it |
| `BleStore_proofs` | its theorems about the form of the list and the blocks |
| `BleOrders_proofs` | its theorems about orders, answers and the lock's list |

### BleCmdRing

Tasks (a constant set) are at one statement each of `ATCmdSend` /
`send_touchuan_data` / `send_touchuan_mult_data`: testing `g_MutexFlag`, setting
it, storing a slot, advancing `mPutIndex`, wrapping it. The send thread goes
through its loop the same way: the three waits, the test of `g_ScanState` and
`g_MutexFlag`, the look at the slot, writing the port, retiring the slot. The
reports of the module that end its waits may come at any time or never. History
variables keep the commands accepted (for the refinement) and whether two tasks
were inside at a time or the list was full.

Under `CmdFifo`, `ok` is "neither has happened": the list then *is* a queue
(`RingIsQueue`, `ImplementsFifo`). That it happens is `ring_race`.

### BleSession

A handler that leaves something half done for other tasks to see takes several
steps, with the place it is at in a variable:

- `timer` (`ble_timeout_thread`): `WakeUp`, `Count` and, because it acts on a
  decision made earlier, `Overdue`. What it repeats takes three more: everything
  is given up (`AddOverdue`, 3459-3464), the flag is set (`AddAgain`, 3698), then
  the state (`AddOnAgain`, 3707), with other tasks in between; deletions likewise.
- `asker` (the eLink task, the only one to call `ble_add_tmp_pwd_start` and
  `ble_del_tmp_pwd_start`): `StartAdd` sets the flag (3729), `AddOn` the state
  (3763).
- `receiver` (the receive task): an answer about a key clears both flags
  (`KeyAnswer`, 1894), is stored and reported by what is on then (`KeyReport`),
  ends whatever is on (`KeyIdle`, 1428), clears the flags again (`KeyClear`, 1430)
  and, if the operation is on again already, disconnects (`KeyDisc`, 1900). `PWD:Y`
  sets the state (2400) before it resets `TimeoutCnt` (`Refresh`, 2402).

Every other handler, every other start and the end of an overdue operation is one
step. That is an abstraction: they also read `g_BleState` and assign it and a flag
or two in several statements (`UnlockAnswer`, for one, reports before it resets the
state), and what another task does in between is not shown. So what is proved of
the clock holds of whole handlers. What interleaving statements adds for the list
of commands is in `BleCmdRing`.

What the module and the lock may still say is the set `due`: a command sent adds to
it, an element may be consumed at any later time or never, so lost, late and
refused commands are included. A failed link drops from it what belonged to the
link. Which command is sent after login follows `g_BleState`, as in
`deal_login_ok`. The PIN, key data and addresses are left out: no property reads
them. `age`, `whole` and `resent` are history; so are `asked`, the keys asked for
since an answer about a key was last reported, and `crossed`, the requests whose
flag one task set while another was about to clear it, or cleared before the state
was set.

### BleReassembly

`Arrive` is one frame through `recv_touchuan_data`; `Lose` is one that its
length and checksum tests drop. The lock is external: it sends a message's
frames in order, may begin again, and may break off for another message. A part
stands for the bytes of a frame. `Room` therefore bounds the frames collected, by
the falling frame number; it says nothing of the bytes, of which 256 frames of 13 to
15 (`bluetooth_logic.h:226`) do not fit into `data[1024]`.

### ElinkChannel

`tcp_client_thread` is the variable `client`, which is at one of the places
where it reads or writes what the other tasks share: the watch over the
heartbeat (`Watch`), `st_login_tcphost_deal` (`LoginConnect` to
`LoginBadAnswer`), closing the login (`CloseLogin`), `st_dev_connect_deal`
(`DevConnect`, `DevFrame`, then one action per thing it may receive).
A login that succeeds sets `loginFlag` (747) before it forgets the connection before
(`LoginReset`, 748-750), and a connect echo sets `devConnectFlag` (1339) half a
second before the watch is wound up (`HeartReport`, 1712).
`tcp_send_thread` sends one frame (`Send`); when that fails it closes the
descriptor (`SendClose`, whatever it is connected to by then) and clears
`devConnectFd` and `loginFlag`, in a step each. A report
reads `devConnectFd` (`Report`) and pushes its frame later (`ReportPush`). The
queue's push and pop are held under a mutex and are atomic.

`sock`, `asked` and `admitted` are the world outside: what a descriptor is
connected to (descriptors are reused once closed), which requests a server has
still to answer, and the connections the platform has admitted. A message is
what parsing it leads to: an answer may be accepted, refused, garbled, or cut
in two; two messages received together cannot be read (`BadMessage`); a message
without `CTS` counts as handled. `g_heattimeout` after a wrap below 0 is the one
value `Wrapped`. Times are rounds of the client thread, and the time since the
last heartbeat is kept modulo `heartBeat`. `g_elink_comminfo` is not
initialised, so `Init` leaves its flags open. The model begins when the gateway has
the time and the BLE module is ready (1730): `get_sntp` and `ble_init_finish` stay 1
from then on, and the client thread does nothing before.

### BleStore and KeyStore

`device`, `status` and `list` are the three blocks of flash that matter to the
lock. `MicoFlashWriteEx` reads a block, erases it and writes it back: each write
is two actions (`Add`, `Delete` and then `WriteList`, `SetAdmin` and
`WriteAdmin`, ...), between which the block is blank, for the task that gives
orders (`OrderDelete` reads the password then) and, if the power fails
(`PowerCut`), for good. `receiver` follows `distribute_cmd_deal` and
`cmd_tmp_key_list` for one answer; `g_BleState` is read at two places on that
way, as in the code, and may change in between. `CountOf` is what a restart
counts.

The lock and the link to it are external: a command is lost, obeyed with or
without an answer, or refused. The timer finds a flag set (`Decide`), later gives up
whatever is on (`GiveUp`) and later still repeats what it had decided on (`Repeat`):
an answer may be handled at any point between, and an order that was answered is
then repeated all the same. Other operations in between (`Other`) and keys that
expire in the lock (`Expire`) are steps of their own.
`stor_del_templsit` compares two numbers with `strcmp`, which takes them for
addresses; `Text` is what is found there, any function of the number.
`BleSession` models the same orders with their timing and link; here they are
reduced to what decides about the storage, and giving an order is one step (its flag
and its state are two in `BleSession`). The flash driver is taken to succeed: the
error returns of `MicoFlashWriteEx` (`flash.c:146-150`) and what the storage does on
them (`storage_ble_logic.c:461, 564`) are left out.

`KeyStore` is a set of keys: an answer puts its key in or takes out one that
compares equal, a power cut empties the set, and a restart forgets a key only if
more than `Limit` were stored. While the block is blank, the set is the one
about to be written.

## Runs

| run | properties | bounds, and why they are enough |
|---|---|---|
| `ring` | `TypeOK RingIsQueue ImplementsFifo Delivered` | 2 tasks, 2 slots, commands of up to 2 frames, 3 calls: the indices wrap, the list fills, both tasks are inside at once. `CONSTRAINT WhileClean` stops where the promise ends. |
| `ring_race` | `AcceptedIsKept` violated | two calls are enough |
| `ring_touchuan` | `TouchuanIsBacked` violated | |
| `session_keys` | `RequestsKept RetryArmed` | additions and deletions; 2 starts (the retries start more), at most 3 reports due (`FewDue`); limits of 2-3 s instead of 8-20 keep their order |
| `session_bind` | `TypeOK NeverLate CountsItsOwn` | binding with its retry, remote unlock, the channel, scans for records; 1 start, 2 reports due (`TwoDue`) |
| `session_live` | `EndsInTime AddTakenUp` | unlock and addition; 2 starts, 2 reports due |
| `session_early` | `FullTime` violated | |
| `session_deleted` | `DeletionReported` violated | |
| `session_resend` | `ResendSends` violated | |
| `reassembly` | `TypeOK Room NoGap WholeOrRefused` | 3 messages of up to 4 frames, two commands: two stale messages before the one looked at, two frames lost in the middle |
| `elink` | `TypeOK Watched Admitted LoginIsNamed SilenceNoticed` | 2 descriptors: the one in use and a stale one in the queue, or both lost; a queue of 2, one place of which is the client's; limits of 2 rounds or errors instead of 5-10, no retry of a login frame: enough for every limit to be reached and reset. A heartbeat every round (`HeartBeat = 1`); with one every second round TLC finds no error either, in 5.9 million states and just under five minutes |
| `store` | `TypeOK NoTwice Counted Agreement JoinedIsStored AdminStored StoreSpec` | 3 keys, of which 2 compare equal, for a list of 2 (so that the third is the one too many); 4 orders or other operations, one answer on its way, one power cut at any step. Once something is astray the timer repeats nothing more (`FewRepeats`) |

In `store` every number is one the gateway accepts (`LastId = TopId`), and one
answer waits at a time. With a number that is too great, or with two answers
waiting and fewer orders, TLC finds no error either, in less than a minute; the
theorems cover all of these.

`CHECK_DEADLOCK FALSE` appears in the ring runs, where the tasks make `MaxCalls`
calls and then everything is sent, and in `store`, where the orders run out. The
views of the session runs leave out what neither a step that matters nor a property
there reads: `NoOutputs` the outputs `told` and `resent`, `NoClocks` also `age` and
`whole`, `NoHistory` all of the history.

Fairness. `BleCmdRing` assumes weak fairness of the send thread and of every task
that has begun to write to the list (`Enqueue`: FreeRTOS schedules every ready thread
of equal priority, and none of these statements waits), and none of the module.
`BleSession` assumes it of `ble_timeout_thread` only: the module and the lock
need not answer, tasks need not start anything. `ElinkChannel` assumes it of the
client thread and of the send thread, both endless loops at the same priority
that wait for each other only at `g_elink_send_mutex`, which is held for the
time of a push; the platform, the network and the reporting tasks are assumed
to do nothing. The other modules state no liveness.

## What the runs show

While one task at a time writes to a list that has room, commands are sent in
order, once, and none waits forever for a silent module. Operations with a time
limit end, never later than the limit. A request to add or delete a key survives
every other operation, every loss of the link and every error until an answer about
a key is reported, and while a key is being added or deleted the timer will repeat
it or the answer that ends it is being handled. Both have the same exception
(`crossed`), which is what becomes of a flag that two tasks assign:

- a request made while an answer about a key is being stored and reported is dropped
  when the flags are cleared again (1430), without a report;
- the flag of a request may be cleared by an answer before the request's state is set
  (3729, 3763; 3698, 3707): the key is then being added or deleted with no retry and no
  time limit, until the lock answers or another operation takes over;
- `ble_timeout_thread`, having decided to repeat a deletion, clears the flag of
  additions too (3479), and an addition asked for since its decision is forgotten.

Without the exception TLC finds both properties violated, in nine and ten steps. A resend
does not lengthen the time; a message with a lost frame is not taken for a whole one.

A gateway that takes itself for connected is watched: its heartbeat can always
run out, and if the platform falls silent without closing the connection, it
does, or heartbeats go on being answered. `devConnectFlag` outlives its
connection, and frames for connections long closed are still sent, but no
connection passes for admitted that the platform has not answered on. Both hold
except in passing: while the send thread gives a connection up (1817-1819), until a
login that has succeeded has forgotten the connection before (747-750), and, for the
watch, between a connect echo and its winding up (1339, 1712); only the client thread
itself looks at the watch.

The list of temporary keys in flash is a set of keys through every write, every
power cut and a list one entry longer than its constant; RAM counts what a
restart would. It is the lock's list unless an order was given before the one
before was answered, or the timer gave up or repeated one while an answer was on its
way, or the power failed at work, or numbers that differ compared equal. The eleventh
key, answers that cross and the deletion of a key that only compares equal are in the
model, and the properties admit them as what the code does.

Where the code does something else than its comments say:

- `ring_race`: two tasks can pass `g_MutexFlag` together, and one command
  replaces the other. The time limit of a scan clears the flag under its holder.
- `ring_touchuan`: `send_touchuan_flag` is claimed before the command can be
  refused; the command is then sent never, instead of once.
- `session_early`: `TimeoutCnt` is inherited, so that an unlock has less than
  its 8 seconds. (`CountsItsOwn` says what is true: an operation that found 0
  has all of them.)
- `session_deleted`: the late answer to an addition is reported as a deletion.
- `session_resend`: the operation that is resent after a quick `LINK:N` is not
  sent if its command had gone out before.

Noted while modelling and not a run: a frame of the lock's message that repeats
the one before discards what was collected (`recv_touchuan_data` takes it for a
message sent again), so the rest is handed on without its beginning; frames
collected when the link is lost stay, and may be joined to the next message of
the same command; the lock is never told of a damaged answer while
`send_touchuan_flag` stands for its command; `GET_RECORD_INFO`,
`GET_RECORD_LIST`, `GET_LOCK_LIST` and `SET_CHANNEL` have no time limit;
`g_linknoflag == 1;` (2819) compares where it was to assign.

In the channel: a login echo counts as a success whatever its `result`
(`elink_protocol_chanel.c:460-464, 523`), as does a message without `CTS`
(1259), upon which the gateway goes on to the "TCP host returned by the login"
(comment at `elink_logic_devchanel_deal.c:1759`) without having one, and does not
log in again while connecting fails; the comparison at 1517 with a constant
array makes the branch for leaving the network (1527) unreachable; after
`loginFailCount` has passed 3 no login frame is ever sent again; sequence numbers
reach 65536; the strings of a parsed message are used and freed again after the
object they belong to was freed (1295, 1599-1608); sockets are left open when
`connect` fails and when the watch runs out.

In the storage: the eleventh key is stored, since the test for a full list is
`>` (`storage_ble_logic.c:393`), does not fit the buffer of ten it is later read
into, and is forgotten at a restart; `g_lockStateNum` is never counted again
after a restart; a deletion ordered while the status is being rewritten reads
the blank block as the password; taking in a lock wipes the administrator's
password; a late or second answer to an addition is taken for a deletion.

## Proofs

Checked by `tlapm` for all values of the constants that the modules' assumptions
allow (`RingAssumption`, `SessionAssumption`, `ReassemblyAssumption`,
`ElinkAssumption`, `StoreAssumption`).

- `BleCmdRing_proofs`. The inductive invariant relates every task's place to the
  history (`OneInside`), the slots from `mGetIndex` to `mPutIndex` to the abstract
  queue (`SlotsHoldFifo`), the free slot after them (`NextFree`), and what the
  send thread has chosen to the slot it looks at (`ChosenIsThere`). The slot
  arithmetic (`Ahead`, `Used`) has lemmas of its own. `RingImplementsFifo` maps
  every step of the ring to `Accept`, `Deliver`, `Break` or a stutter.
- `BleSession_proofs`. Types by helper lemmas for what each kind of handler
  assigns. `RequestsKept` and `RetryArmed` are inductive together with what is known
  half-way (`KeyInv`): of an answer that has cleared the flags (`InAnswer`), of the
  timer between giving up and repeating (`InRepetition`), and of a request whose state
  is not set yet (`InBetween`). For the clock, `ClockKept` shows that
  nothing but the timer touches the count of an operation that goes on, and
  `StepKinds` reduces every step to three cases; `NeverLate` and then
  `CountsItsOwn` follow.
- `BleReassembly_proofs`. `Good` says of the frames collected what `NoGap` says
  of a message, and whose the first is (`Owned`): that, and the number of frames
  still to come, tells a message sent again from the next frame. `Follows` says
  what has been collected of an attempt whose first frame arrived; from it
  `WholeOrRefused`, as an action property.
- `ElinkChannel_proofs`. `Watched` and `LoginIsNamed` are inductive with the
  types. `Admitted` is not: it needs that a gateway that takes itself for
  connected has a connection, and that the client waits on no other, unless the
  send thread is giving one up (`Held`), and that no login connection is left to
  close by then (`LoginClosed`); otherwise a close could hit the connection in use.
- `BleStore_proofs`. Everything rests on the form of the list (`GoodList`):
  so many different keys, then free places up to `MaxTemp`. It is preserved by
  `Added` and `Deleted` and, while the block is blank, holds of what is about to
  be written (`ListInv`). `CountGood` says what a restart finds in a good list.
  `JoinedStaysStored` adds where the receive task is between the two writes
  (`JoinInv`). `ImplementsKeyStore` maps every step to `Put`, `Take`, `Turn`,
  `Empty`, `Forget` or a stutter; `Small` keeps numbers that are too great
  away from the list.

- `BleOrders_proofs`. Neither `Agreement` nor `AdminStored` is inductive, and
  both speak of quiet moments only. `Orderly` says what one order at a time
  means: the flags are those of the order that is on (`FlagsOK`), what the timer is
  about to repeat is that order or, if it has been answered since, the last one
  (`TimerOK`), it is answered once and not sent while an answer is on its way
  (`AnswersOK`), and each place in the receive task is reached with the answers it is
  for only (`StagesOK`). It is inductive with
  the types, because a step after which something is `astray` need not keep it
  and nothing comes back from there. `Books` says for each key, at every moment,
  what the lock and the list have to do with each other: the last answer about it
  that waits (`Says`) tells what the lock has; if there is none (`Silent`), and
  none being handled (`Due`), list and lock agree on it, but for what an open
  order may have done without an answer (`Awaits`). Each step moves a key from
  one of these cases to another (`LoginBook`, `ReceiveBook`, `ChangeBook`, ...).
  Two facts about the list are needed. A deletion finds the key if it is there:
  the first place that compares equal exists since every set of numbers has a
  least one (`LeastNumber`). And an addition to a list that is full changes
  nothing but is of no harm: the list then has `MaxTemp + 1` different numbers
  not greater than `LastId` (`SmallKeys`, by way of the refinement of
  `KeyStore`), so by `LastId <= MaxTemp` it has them all, the new one included
  (`KeysAdd`). `AdminKept` follows the password from the order (`g_adminpwd`)
  through the receive task's buffer to flash, before the key is stored. TLC
  checked the four invariants on small instances before they were proved: two
  answers waiting, a number that is too great, two that compare equal.

Every invariant and action property that a passing run checks is stated by a theorem.
Only model-checked: liveness (`Delivered`, `EndsInTime`, `AddTakenUp`,
`SilenceNoticed`), which is outside the prover's reach, and the violations.

## Plan

Done: the command list, the session, reassembly, the channel to the platform,
the storage, and theorems for every safety property the runs check.

1. `BleBytes`: `ble_uart_recv_callback`, composed with `BleReassembly`.
2. `CoapClient`: requests, retransmissions, notifications, watchdogs.
3. The PIN of a session (`g_tempUserPin`) with two bindings under way.

## Not modelled

JSON conversion, encryption, LEDs and the SDK (`mico-os/`, the sample demos and
vendored libraries, which are nearly all of the repository's lines) carry none of
the product's own state; Zigbee, RF433 and cron are not compiled into this build;
MQTT and OTA call the SDK in a loop. Of the channel: what an order starts, the
two reports that write to the socket beside the queue
(`elink_logic_devchanel_deal.c:1145, 1225`), the busy flag and the sequence
numbers, which decide nothing in the gateway. Of the storage: records this build
does not write (endpoints, rooms, users), and writes of CoAP and OTA through the
same static buffer of `flash.c`.
