# flipperlib in TLA+

flipperlib is a Dart library that talks to Flipper devices over BLE and USB: it
finds them, keeps a session per device, speaks the device's protobuf RPC (and its
text CLI over USB), survives dropped links, and can recover a bricked device over
DFU, for which it brings its own copy of libusb. This directory holds TLA+ models
of its concurrent core and of that of libusb, the TLC configurations that check
them, and proofs for TLAPS.

    tlasany RpcSession.tla                                 # parse
    tlc -workers 2 -config RpcSession_usb.cfg MCRpcSession # model-check
    tlapm UsbIoRefinement.tla                              # prove

Dart files are named without `lib/src/` (`session.dart` = `session/session.dart`,
`link.dart` = `transport/ble/link.dart`, `client.dart` = `client/client.dart`), C
files without `src/libusb/libusb/`. `PROJECT.json` maps each definition that models
code to the lines it stands for.

## 1. The system

| part | files | state it keeps | operations |
|---|---|---|---|
| RPC session | `session.dart`, `session/queue.dart`, `transport/transport.dart` | request queue, TX group lock, table of pending calls with watchdogs, session generation, mode, link phase | calls, multi-frame calls, sends; TX worker; response routing; switch to RPC; fault recovery, reconnect, teardown |
| BLE transmit path | `link.dart` (1058-1408) | TX queue and window, credit mirror, session mirror, stall and write-timeout counters | rawWrite, sender loop, credit cycle, ATT writes, notifications |
| BLE link lifecycle | `link.dart` (rest) | link state, static owner and attempt counter, pairing and abort completers | configure, open with pairing loop, close, dispatch of callbacks |
| Device registry, client | `client.dart` | map of sessions, active session, lifecycle chain, scan epoch, USB presence watch | connect, disconnect, activate, scan, prune |
| CLI mode | `client.dart`, `session.dart` | `cliHeld`, channels and their text taps | openCli, close, switchToCli |
| Storage transfers | `client/api/storage.dart` | window and offset of a read, offset of an upload | chunked read and write, cancel, restart once |
| Frame decoder, USB serial, DFU recovery | `session/protocol.dart`, `transport/usb/*`, `dfu/*` | byte buffer; reader isolate and its ports; the step of a recovery | decode; boot, write, release; boot mode, radio, firmware, option bytes |
| libusb I/O and events | `io.c`, `sync.c`, `os/events_posix.c` | flying and completed transfers, event lock and its waiters, event flags and pipe | submit, cancel, time out, complete, handle events, wait for another handler, close |
| libusb usbfs transfers | `os/linux_usbfs.c` | the URBs of a transfer, reap action, retired count | split, submit, discard, reap, put together, disconnect |
| libusb device handles | `core.c`, `os/linux_usbfs.c` | claimed interfaces, auto-detach, handle lock | claim, release, detach, attach, reset, set configuration and setting |
| libusb devices, hotplug | `core.c`, `hotplug.c`, `os/linux_netlink.c`, `os/linux_usbfs.c` | device list and reference counts, hotplug messages and callbacks, netlink socket | init, scan, monitor, list, open, register, exit |
| libusb descriptors | `descriptor.c` and the caches of the backends | cached configurations; a parse in progress | cache, choose, parse, free |
| libusb Windows backends | `os/windows_*.c` | files of the interfaces, auto-claim counts, transfers in flight, completion port | open, claim, auto-claim, submit, cancel, complete, reset, close |
| rest | platform backends, FFI, models, RPC wrappers, generated code, macOS backend | none, or not modelled (section 7) | |

How they interact. The Dart library is one isolate: code runs without interruption
between two `await`s, and everything else (other callers, timers, link callbacks)
may run at an `await`. All connects, disconnects, scans and recoveries of all
devices run one after the other on one *lifecycle chain* (client.dart:1304-1320). A
session's callers put frames in its queue; its single TX worker takes them in
priority order and awaits `Transport.write`; a BLE transport queues them again, in
its TX window, and a second loop spends the firmware's flow-control credit to send
them. Frames that come back are routed to pending calls by command id. A transport
that faults reports it once (transport.dart:166-186); the session then queues a
recovery on the lifecycle chain, which reconnects once or ends the session.

libusb is called from threads. Those that wait for a transfer take turns in handling
the events of all: one holds the events lock and polls, the others sleep on a
condition. A pipe wakes the poller when something else happens: a completion
queued by a backend, a handle that closes, a user's interrupt. A backend turns a
transfer into requests of the kernel and back; a monitor thread keeps the list of
devices; the application's calls on a handle meet the kernel, which changes on its
own.

What is hard. In Dart nothing is ever locked across an `await`: a check made before
one may be stale after it, completers are used as signals, so that a wakeup can be
lost, and a link may drop at every `await`; a write that failed may have arrived. In
libusb a transfer is in several lists under several locks and known to several
threads; it may be cancelled, time out, complete and lose its device at once, and
its owner frees it as soon as its callback has run. The kernel and the library
agree about claims and drivers only one ioctl at a time. The hazards this
creates are listed, line by line, under "hazards" in `PROJECT.json`, with the
property that covers each.

What makes each part correct:

* RPC session: every call returns; a request reaches a device at most once, in
  order, however often the queue is replayed; a multi-frame command is not cut
  into; the worker never sleeps on work; a fault of an old transport never harms a
  new one; RPC mode is never declared on a stream that is in text mode.
* BLE transmit path: the firmware's buffer is never overrun, bytes go out in order
  and once, a silent device or a lost callback holds nobody for ever.
* BLE link: an attempt that runs can be aborted, one that was closed hears of
  nothing; a drop is noticed.
* libusb I/O: a transfer is finished once, truthfully, and not used after it was
  freed; a sleeping thread has another that will wake it; calls with a timeout and
  closes come to an end.
* usbfs: no byte is lost or out of place, the status is right, requests outlive
  their use by the kernel.
* Handles: what the library believes to hold is what the kernel gave it; drivers are
  given back.
* Devices: references are exact, the list agrees with the bus, callbacks hear all.
* Descriptors: the caller gets what the device has; nothing is read beyond the
  buffer or leaked.
* Windows: every packet finds its transfer once; nothing stays held.

## 2. Plan

Done, in order: `RpcSession` with `RpcCalls`, proofs and the proof of its refinement; `BleTx`, `BleLink` with
proofs; `UsbTransfer`, `UsbIo` with proofs and the proof of its refinement; `Usbfs` with
proofs; `UsbDevices` with proofs; `UsbHandle` with proofs; `UsbDescriptors`; `WinInterfaces` and
`WinTransfers`.

To do: `Registry` (active session,
`maxSessions`, scans, presence, late transports), `StorageTransfer`, `FrameBuffer`,
`UsbSerial`, `CliMode`, `DfuRecovery`.

## 3. Modules

### RpcSession

One session of one device. An action is the code between two awaits.

| variable | code |
|---|---|
| `sessionGen`, `transport`, `linkPhase`, `mode` | fields of the same names. A transport is named by the generation that committed it; 0 is null |
| `tstate` | health of the committed transport: up, dead (isActive is false, fault not yet delivered), reported |
| `memo`, `handshakes` | `_switchToRpcFuture`; the `_doSwitchToRpcMode` calls running, by transport |
| `chain`, `op` | the client's lifecycle chain as far as it concerns this session; where the running operation is suspended |
| `requestQueue`, `requestSeq`, `txGroup` | `_requestQueue` (a set: `Before` is its order), `_requestSeq`, `_txGroupCommandId` |
| `wpc`, `batch` | per generation, where that `_runWorker` is suspended and what it is writing. A worker that outlives its session stays in `wpc` |
| `pc`, `pending`, `started`, `sent`, `frames`, `finalSent` | per call: where its caller is suspended, its `PendingRpc`, the completer of its last frame, the progress of its body |
| `wire` | what each transport took (history, for the properties) |

Callers: `IssueInRpc`, `IssueAndSwitch` (the call first awaits the handshake),
`Resume`, `BodySend`, `BodyEnd`, `BodyFail`, `Return`, `Timeout`, `SendTimeout`.
Worker: `WorkerTake` (with the batching of pipelined requests), `Land`, `WriteOk`,
`WriteFail`, `WriteOutlived`, `Answered`, `WorkerWait`, `WorkerExit`. Link: `Fault`
and `TransportClosed` (two steps, as `onTransportFault` and its delivery are),
`Desync`, `AskDisconnect`, `Respond`, `HandshakeEnd`. Lifecycle operations:
`Connect`, `RecoverStale`, `RecoverGiveUp`, `RecoverReconnect`, `Reopen`, `OpenOk`,
`OpenFail`, `ReopenFail`, `Disconnect`.

Abstractions: a batch of frames lands whole or not at all (`Transport.write` hands one
buffer to the write pump), and a write that fails may or may not have landed.
`wire` is what the transport took, in order; on BLE a write resolves when the frame
enters the TX window, and from there on `BleTx` models it. A body awaits each
`sendFrame`, as the one body in the library (`storageWriteChunked`) does. Streamed
responses only re-arm a watchdog that is modelled without time, so they are left
out. Each call is made once.

`RpcCalls` is what that comes to for a user of the API: a call is new, open, ok or
failed, all frames of an open call go to one link, the final one at most once and
nothing after it, and only then can it succeed. `KeepsPromise` states that
RpcSession implements it. Sends that share a write succeed together. The promise says deliberately little of a call that has
failed: the body of a call that has timed out can still queue frames, even on the
link of the next session.

### BleTx

The bytes `rawWrite` accepts are numbered in order; the TX queue is the interval
`head .. taken`, because the sender coalesces frames and their borders do not matter.
`spc` is where `_runSender` (with `_drainBudgetCycle` and `_sendMessage`) is
suspended. `fresh` stands for `_budgetGen != cycleGen`. `setup` is where `open()` is,
as far as it decides the initial credit: pairing read, subscriptions, overflow read
and seeding, rpcStatus. `PairingDrop` is the loop around it that reconnects when the
link drops before the PIN is typed.

The device is external. What is assumed of the firmware's serial service, from how
link.dart uses it: its session and its first grant of credit start anew with every
link; it grants before it announces the session; it grants again only when a credit
is used up; notifications arrive in order, and before the answer to a later read.
Nothing is assumed of when, or whether, it does any of this. An ATT write may arrive
and lose its callback, or not arrive at all. A device may have no rpcStatus
characteristic, or one that cannot be subscribed to.

### BleLink

The lifecycle chain with the BLE sessions and transports it makes. A transport is
named by its `_connectAttemptGen`.

| variable | code |
|---|---|
| `device`, `link`, `lifecycle` | per transport: its device, `_link`, `_lifecycle` |
| `owner`, `live` | the static `_connectionOwner` and `_liveByDevice` |
| `phase`, `held` | per device: its session's `_linkPhase` and transport |
| `chain`, `at`, `cur` | `_lifecycleChain`; where its first operation is suspended; the transport it works on |
| `aborted` | `_connectAbort` or `_pairingAbort` of the running attempt is completed |
| `platform` | the platform's link to each device: down, dialling, up, dropping, or dropping with a new dial behind it |

`AskConnect` and `AskDisconnect` are the user. `ConnectNew`, `RecoverReconnect`,
`PauseOver` and `Dial` lead to an attempt: `Connected`, `ConnectFails`,
`ConnectAborted`, `Discovered`, `DiscoverFails` are `configure`; `Setup*`, `Redial*`,
`Redisc*`, `Opened`, `OpenDead` are `open` with its pairing loop. `Close*`, `QueryUp`
are `close` and `doClose`. `PlatformDrop` is the platform's event with its dispatch,
`LocalFault` a transport that faults over a live link. Left out: the GATT contents,
settle times, the queue of the platform plugin beyond one dial behind one
disconnect, the RPC traffic. One chain runs one attempt at a time, so the branches for a
superseded attempt never run here.

### UsbIo and UsbTransfer

`UsbIo` is libusb's event handling: threads (`Callers`) that each make synchronous
transfers on one handle, and one (`Closer`) that closes it. A thread runs until the
next lock it needs or the next shared word it reads; such a stretch is one action.
`th[t]` is where a thread is: its `pc`, the step it returns to from a routine
(`ret`), the transfer in its hand, the time its poll ends, and the batch of
completed transfers it has taken. `xfer[t]` is the `usbi_transfer` of thread t with
its state flags, deadline and status; `urb` and `queued` are what the kernel and a
signalling backend have of it.

| actions | code |
|---|---|
| `Submit`, `SubmitAccepted`, `SubmitRejected`, `SubmitFailed`, `Cancel`, `Return` | `libusb_submit_transfer`, `libusb_cancel_transfer`, the synchronous calls of sync.c |
| `GetNextTimeout`, `TryEvents`, `TryLockEvents`, `LockWaiters`, `HandlerActive`, `WakeUp`, `AfterEvents` | `libusb_handle_events_timeout_completed`: become the handler, or sleep |
| `HandleEvents`, `Poll`, `PollInterrupted`, `HandleEventTrigger`, `CompleteNext`, `CompletionsEnd` | `handle_events`, `handle_event_trigger` |
| `HandleDescriptor`, `Reap`, `ReapEnd`, `HandleDisconnect`, `HandleTransferCancellation`, `LeaveFlyingList`, `Callback` | reaping, disconnection, `usbi_handle_transfer_completion` |
| `HandleTimeout`, `MarkTimedOut`, `TimeoutsHandled` | `handle_timeouts` |
| `UnlockEvents`, `Broadcast` | `libusb_unlock_events` and the broadcast that follows |
| `CloseBegin`, `LockEvents`, `Sweep`, `Detach`, `CloseEnd` | `libusb_close`, `do_close` |
| `Finishes`, `SignalCompletion`, `Unplug`, `Interrupt`, `Tick` | the device, a backend's thread, the user, time |

Two backends: one whose descriptor is polled and reaped (Linux), one whose thread
queues completions (macOS, Windows). An application closes a handle only when it
submits no more on it, and with a signalling backend when its transfers are over.

`UsbTransfer` is what libusb promises of a transfer, whatever the backend: idle,
submitting, pending, finished; a status that names a cause that did occur; finished
once, and only if it was accepted. `UsbIo` and `WinTransfers` implement it.

### Usbfs

One transfer of the Linux backend at a time. `urbs` is its requests with their state
(kernel, done, reaped), `action`, `retired`, `reapStatus`, `transferred` and `offset`
are `linux_transfer_priv`; `lock` is who holds `itransfer->lock`: the submitter, a
canceller or the event handler. `SubmitUrb`, `FirstUrbFails`, `LaterUrbFails` are
`submit_bulk_transfer` and its kin; `DiscardUrb` `discard_urbs`; `HandleBulk`,
`HandleIso`, `HandleControl` the three completion handlers; `Disconnect` and `Report`
the rest. Data is counted in bytes numbered in the order in which the device sends
them, so that a hole or a displaced byte shows in `buffer`.

### UsbDevices

A hub and a device behind it. The kernel plugs and unplugs with addresses reused; the
monitor thread reads uevents; the event thread dispatches hotplug messages; the user
thread makes all other calls. `objs` is the memory for `struct libusb_device`, with
reference counts; `devs`, `msgs`, `cbs` are the lists of the context; `job` is the
work done under `linux_hotplug_lock`; `list`, `snap`, `handle` are what the user holds
references by; `known` and `owed` are what callbacks were told. `cbs` is a set: no
property depends on the order in which a message reaches the callbacks. What the code
does in a loop, one reference at a time, is one step for each: `libusb_exit` frees
messages (`FreeMessage`) and devices (`FreeDevice`), an enumerating registration its
snapshot (`FreeSnapshot`), `libusb_free_device_list` the list. sysfs mode, one
context. The application stops event handling and closes its handles before
`libusb_exit`, and frees a device list before the next `libusb_init`.

### UsbHandle

One open handle on Linux shared by threads. `claimed`, `lock`, `autoDetach` are fields
of the handle, `binding` is the kernel's view of each interface; a call is a sequence
of ioctls, and the device, other drivers and other processes act between them. Three
ghosts: `owed` are the interfaces whose driver libusb detached for a claim (with
auto-detach, or in a reset whatever auto-detach says), until the kernel binds a driver
there again or they are released with auto-detach off; `taken` are those of them that
another process has claimed meanwhile; `lost` are the claims that a failed reset
released. No step of the library clears a debt but by a driver that is bound, or by
that release: giving up an interface after a reset (`ReclaimFailed`) does not. What the
application does not do: release or reset while another thread uses the interface;
overlap an explicit detach or attach with another call on the interface; switch
auto-detach while a call runs (while interfaces are claimed it may).

### UsbDescriptors

Backends split what they read into configurations, and `descriptor.c` parses one: an
action is the parse of one descriptor with the error paths it can take. A descriptor is a
record of its type, the length it states and the bytes it has. `heap` counts blocks
that are not freed, `overread` is set by a read beyond the buffer. What is read may be
cut, have a hole, state wrong lengths, types and counts, and more interfaces or
endpoints than the parser allows (`Damages`).

### WinInterfaces, WinTransfers

`WinInterfaces` is one Windows device and its handle: the files behind its interfaces
(`h`), claims, auto-claims and their counts; `WinTransfers` adds transfers (`tx`), the
completion port and its thread, and the event thread. Each submission is played
against each driver (WinUSB, libusbK, HID, UsbDk) and each outcome the calls into
Windows can have (`Outcomes`). A control transfer looks for a valid interface without a
lock (`ChooseControl`), and takes `autoclaim_lock` afterwards (`AutoClaimLock`) without
looking again, as the code does. `mine` are the interfaces the application claimed,
`shared` those of them that a control transfer counted as auto-claimed as well. The
application closes a handle, and claims, releases
or changes an interface, only with no transfer under way on it; it fills an
isochronous transfer anew before it submits it again. All WinUSB-like interfaces of a
device use one driver.

## 4. Runs

| run | what it asks | bounds |
|---|---|---|
| `upload` | Is the TX group given back, does the worker wake up for everything it may send, is nothing sent twice or out of order, does nothing cut into an upload, does the session implement `RpcCalls`? | BLE; an upload of 2 frames and a call of higher priority; 3 generations: a connect takes one and a reconnect two, so that one reconnect succeeds and the worker of the first session meets the second (the theorems are for any number); 610k states |
| `usb` | Do link, mode, worker and handshake stay in lockstep across drops, late recoveries, disconnects and slow handshakes, and does every call return? | USB (opens in CLI mode); a call with `pipelined: false` and a send; a second operation can wait on the chain; with fairness |
| `ble_tx` | Window, credit, order, and that nothing is held for ever | frames of 1, 3 and 2 bytes, credit 3, ATT payload 2: a frame larger than a chunk, a total larger than the credit, cycles that end within a frame; watchdogs of 2 polls; 75k states |
| `ble_link` | Do owner, dispatch, session and platform link stay consistent across drops, faults and disconnects of two devices, and does a cancel that reaches an attempt end it? | 2 devices; 3 connects and reconnects; 2 operations a user leaves waiting; 121k states; with fairness |
| `usb_io` | Pipe and flags agree, no transfer is used after it was freed, no wakeup is lost, `UsbTransfer` is implemented | 2 callers, one with a timeout, and a closer: the least with a handler, a sleeper and a third that needs the lock; both backends; one upset (unplugged, cancelled or interrupted); 890k states |
| `usb_io_live` | Do calls with a timeout and a close come to an end with a device that never answers? | the same without an upset; with fairness |
| `usbfs` | Is data kept in order, is the status right, are requests freed when they are over, is what is over reported? | transfers of up to 3 requests of all kinds and splits; 1 transfer |
| `usb_devices` | References, list, callbacks, freshness of a list | 3 uevents, 2 addresses, 4 objects, a queue of 2, 3 calls: enough for a device to be replaced at its address while the user holds the old one |
| `usb_handle` | Do claims agree with the kernel's, are drivers given back? | 2 threads, 2 interfaces of which one has a driver, 5 calls, 3 events; 2.1M states |
| `usb_descriptors` | Is the result true to the device, in bounds, and free of leaks? | up to 2 configurations, 2 interfaces, 2 settings, 2 endpoints; files cut at every byte; 890k states |
| `win` | Do packets find their transfer, is nothing left held, is `UsbTransfer` implemented? | 2 transfers, 5 devices, 7 requests, 1 upset, 1 call of the application; symmetric transfers; 2.5M states |
| `win_autoclaim` | a violation, see Findings | a WinUSB device; 2 control transfers to the device; nothing fails |

A cfg bounds what only counts: frames of a body (`MaxFrames`), generations (`MaxGen`),
operations waiting on the chain (`MaxChain`), connects (`MaxAttempts`), frames of a
transport (`Frames`), transfers per thread (`Rounds`), the clock (`MaxTime`), what the
world may do (`Upsets`, `MaxEvents`, `MaxUpsets`), calls (`MaxCalls`), missing bytes
(`MaxCut`). Deadlock is not checked where a system rightly stops: sessions end,
bounds are used up.

### Properties

* `RpcSession`: `NoLostWakeup` (a parked worker in RPC mode has nothing it could
  send), `NoGroupLeak` (only a call whose body still runs owns the TX group),
  `NothingCutsIn` (between two frames of an open multi-frame command only
  interleavable requests land, and nothing while a command that must not be
  overlapped is open), `AtMostOnceInOrder`, `KeepsPromise`, `Lockstep`,
  `NoSpuriousTeardown`, `RpcModeEarned`, `EveryCallReturns` (calls and sends).
* `BleTx`: `WindowAccounts`, `NeverOverruns`, `InOrderOnce`, `TxSettles`.
* `BleLink`: `ClosedIsForgotten`, `DropsNoticed`, `AbortReachesAttempt`,
  `ConnectingIsRunning`, `Unwinds`.
* `UsbIo`: `EventPipe`, `NoUseAfterFree`, `SleepersHaveWaker`, `KeepsPromise`,
  `CallsReturn`, `CloseReturns`.
* `Usbfs`: `NoDataLost`, `CompletedMeansComplete`, `FreedWhenOver`, `EndsWhenOver`.
* `UsbDevices`: `RefsExact`, `ListInSync`, `CallbacksInformed`, `ListIsFresh`.
* `UsbHandle`: `ClaimsAgree`, `DriversGivenBack` (a driver detached for a claim is back,
  or its interface is held by its bit and for the kernel, so that a release brings it
  back; on kernels that detach and claim in one step and on older ones. Exempt, by name:
  `taken` and `lost`).
* `UsbDescriptors`: `TrueToDevice`, `InBounds`, `AllFreed`.
* `WinTransfers`: `PacketsMatch`, `NothingLeftBehind`, `KeepsPromise`.

Where a property leaves a case out, its comment says which and why.

### Fairness

`RpcSession!FairSpec` assumes that timers fire (`Timeout`, `SendTimeout`, the
handshake's own timeouts in `HandshakeEnd`) and that code whose future has completed
goes on (`Resume`, `Return`). Nothing is assumed of the worker, since a platform write
may never return, nor of the device, the link, or lifecycle operations.
`BleTx!FairSpec` assumes that microtasks run, that poll timers fire, and that an ATT
write ends, by its callback or by its own timeout (link.dart:1330); nothing of the
firmware. `BleLink!FairSpec` assumes that the client's own steps run, since each of
its awaits is bounded by a timer or by an event that has come; that a link the
platform was asked to release goes down and is reported; and that a GATT operation
over a link that is down fails. `UsbIo!Fairness`: threads are scheduled and a mutex
starves nobody, a backend's thread runs, time passes; nothing makes the device
answer. `Usbfs!Fairness`: the three threads run.

## 5. Findings and observations

`win_autoclaim`: the comment in `auto_claim` (windows_winusb.c:655-656) says that the
count of a valid interface that was auto-claimed is incremented "so that we can prevent
an early release". The branch is never reached: both callers look the interface up
themselves and call `auto_claim` only when they found none (3425-3432, 4859-4861).
A second control transfer that finds the auto-claimed interface valid is not counted,
and the end of the first releases it while the driver still has the second. The run is
one WinUSB device with requests to the device, where nothing fails, nothing is
cancelled and the application touches no interface; the property speaks only of
interfaces that the library, not the application, claimed (UsbDk claims none).

Observations, met while modelling; the models include them, and where a property
leaves them out its comment says so.

Dart:

* Between the fault and the recovery operation the worker still runs, takes queued
  requests, and fails them on the dead transport (session.dart:1030), though the
  comments at 275-279 and 355-356 say that they are replayed.
* A body between two frames when its session is torn down queues its next frame where
  no worker, timer or teardown will come (session.dart:812, against 829-830).
* A link that drops during the *first* switch to RPC leaves a request queued on a CLI
  session with no switch coming (session.dart:343, against 432-436).
* On a device without rpcStatus the sender spends a credit that set-up seeded itself
  before the firmware granted any (link.dart:837, against 1233-1234).
* `_connectionOwner` is one static field: after an attempt to connect a second BLE
  device the first one's close leaves its platform link up (link.dart:1424, against
  transport.dart:64-68), and a disconnect of a device that is reconnecting
  disconnects a healthy other one (link.dart:118, against 114-117).
* A disconnect during discovery is taken for a pairing drop, and dialled again
  (link.dart:590, against client.dart:1064-1068).

libusb, common and Linux:

* Callbacks run under `open_devs_lock` (linux_usbfs.c:2766): `libusb_close` from a
  callback waits for itself; `libusb_handle_events` from one blocks on the waiters'
  lock (io.c:2215).
* A synchronous caller whose handle was closed may become the handler after the close
  and poll for up to 60 s.
* A device that vanishes during a cancel makes the transfer COMPLETED
  (linux_usbfs.c:2357-2371, 2461-2515). So does an error in an early URB while its
  continuations are being submitted (2126-2139). `CompletedMeansComplete` leaves both out.
* With a signalling backend a close with a queued completion uses freed memory (the
  environment rule of `UsbIo`).
* The netlink poll of `libusb_get_device_list` stops at the first uevent that is not
  about a USB device (linux_netlink.c:396, against libusbi.h:1066); an overflowing
  socket is only logged; session ids are reused with addresses.
* Registering a callback with ENUMERATE can report an arrival after the departure.
* A failing RESET ioctl leaves bits set for claims that the reset released (`lost`,
  linux_usbfs.c:1654-1662). The release ioctl of such an interface then fails and
  nothing is attached, so a driver that was detached for it is never given back, against
  core.c:2233-2234. The release loop of a reset reads the bits without the lock
  (1647-1650).
* Between the two steps of a claim on an old kernel, or of a reset, another process can
  claim the interface (`taken`): the claim fails, a reset clears the bit (1674-1680),
  and it is left to that process to give the driver back.
* `parse_interface` that returns 0 after it grew its array loses that array (`orphans`).

libusb, Windows:

* A composite control submission that is tried twice can auto-claim an interface and not
  use it, so that it stays claimed (`orphans`).
* Two control transfers can both find no valid interface: the second counts the one the
  first has claimed, which is the case of the message at windows_winusb.c:644-645.
* `auto_claim` counts an interface that the application has claimed since the look-up,
  or that is not the one the request names, since `libusb_claim_interface` succeeds for
  it; `auto_release` (678) then takes it away from the application (`shared`).
* A submission that is refused before it has an interface (too long, 3422, 4856) still
  runs `auto_release` on the interface its transfer used last, or on interface 0
  (windows_common.c:826, windows_winusb.c:2588), and releases what another transfer
  auto-claimed.
* A claim whose endpoint lookup fails leaves the driver's claim in place.
* The ContinueStream callback submits again what was cancelled or is gone, and ignores
  that this fails (windows_winusb.c:3487): the transfer then ends without a callback.
* A cancel between the end of a handle and the end of the completion falls back to
  aborting the pipe, and with it other transfers on the endpoint.
* A failed change of setting leaves an interface without endpoints; an open that fails
  midway leaves files open.

## 6. Proofs

All for every value of the constants that satisfies the assumptions of the modules: any
calls, priorities and generations, any devices, threads, interfaces and numbers of
attempts.

### Dart

* `RpcSessionProofs!TypeCorrect`: inductive because it includes that the sequence
  number of every queued request is below `requestSeq`.
* `RpcSessionProofs!NoWakeupLost`: `NoLostWakeup`, inductive with `NoFutureWorker`. A
  worker parks only when nothing is dispatchable, and each action that can make
  something dispatchable signals it.
* `RpcSessionProofs!GroupNeverLeaks`: `NoGroupLeak`. `CarryInv` says where the frames of
  multi-frame calls are: each is in the queue or with one worker, belongs to a body
  that runs or to a call that is over, exists once and travels alone, so that a write
  that completes cannot give the lock to a call that has ended.
* `RpcSessionProofs!LockstepHolds`, `NoTeardownUnasked`, `RpcModeIsEarned`: from `LinkInv`,
  that is `Lockstep` with `OpsInv` (an operation that is suspended has no transport).
* `RpcSessionProofs!OnceAndInOrder` (`AtMostOnceInOrder`) and `NeverCutInto`
  (`NothingCutsIn`), from what relates the wire, which only grows, to the frames still
  on their way. A call has one frame on its way at most (`OnceInv`), made after all of
  its frames that are out (`OrderInv`); after its final frame it carries nothing
  (`FinalInv`); whatever is on a transport was put there by a worker that was started for
  it, and the only transport such a worker may still find up is its own (`WorkerGen`). A
  command that is sent as one frame and
  must not be overlapped stays in its worker's hands until it is answered (`HoldInv`);
  one of several frames has its last frame in the write or owns the TX group, and then
  the write holds only its own or interleavable requests (`MidInv`).
* `RpcSessionProofs!PromiseIsKept` (`KeepsPromise`), the refinement of `RpcCalls`. What
  makes it hold is `OneLinkInv`, that the frames of an open call are on the live
  transport unless its body is about to learn of a failure, and `ToldInv`, the same for
  what a body knows of its final frame. Each action is then a step of `RpcCalls` or a stutter; `StatusInv` relates
  the status of a call to its program counter. The proof showed that `RpcCalls` was too
  strict when it let calls succeed one at a time: one write can carry several sends.
* `BleTxProofs`: `TypeCorrect`, `WindowCorrect`, `OrderCorrect`, `CreditCorrect`, for any
  credit, MTU, watchdog limits and frames. `MessageInv` says that the message in hand is
  the front of the queue and no longer than the cycle's credit; `ArrivalInv` how far the
  bytes sent have come; `CreditInv` that what the sender may still spend is never more
  than what the firmware accepts, which holds only while rpcStatus gates TX, and
  `StartInv` says why that gate closes in time.
* `BleLinkProofs`: `TypeCorrect`, `ClosedForgotten`, `EveryDropNoticed`,
  `AbortFindsAttempt` and `ConnectingRuns`, from `LinkInv`: the running operation's
  transport is of its device (`RunningInv`); owner and dispatch never name a closed
  transport (`SharedInv`); only the running operation's transport is closing
  (`ClosingInv`); an active attempt is the owner and is told of every drop once open()
  has registered it (`AttemptInv`); a connected session's transport is active and
  registered, or its recovery is on the chain (`HeldInv`).

### libusb's events

`UsbIoProofs` proves `IoInvariant` and from it `TypeCorrect`, `EventsAreSignalled`
(`EventPipe`), `FreedIsNotUsed` (`NoUseAfterFree`) and `NoWakeupLost`
(`SleepersHaveWaker`), for any number of callers and any timeouts. `NoUseAfterFree`
is far from inductive: whether a transfer may be freed depends on which list it is in,
whether the kernel has it, and which thread is completing it. `IoInv` says all of
that, in parts:

* locks: a thread handles events exactly when it owns the events lock
  (`EventsLockInv`), the flag the waiters read says whether somebody does
  (`HandlerFlagInv`), the list of flying transfers is locked by whoever goes through
  its timeouts (`FlyingLockInv`), a close that waits has its flag up (`CloseInv`);
* transfers: one is alive from its submission until its caller returns (`OwnerInv`);
  those that fly are attached to the handle and not finished (`FlyingInv`); only a close
  takes the handle (`AttachedInv`); what the kernel has, flies (`RequestInv`); a
  completed transfer waits in one place only, the list or one thread's batch
  (`QueueInv`); what a thread completes is in flight, attached, back from the kernel, and
  in no other thread's hand, and it flies until it leaves the list (`CompletingInv`);
  what is being timed out flies (`TimedOutInv`);
* `PollInv`: only a polling backend has a descriptor to handle.

Each action is first flattened into facts about the fields it changes (the lemmas
`...Does`), then shown to keep the invariant (`...Keeps`). `SleepersHaveWaker` needs a
second induction over it: whoever is bound to broadcast stays bound until it has
(`...StaysBound`), and a thread goes to sleep only when it sees the flag up, so that
someone is.

`UsbIoRefinement!PromiseKept` is the refinement: `UsbIo` implements `UsbTransfer`. The
hard part is that a status tells the truth, since the handler decides by flags that
other threads set earlier. `TruthInv` says what every belief rests on: a transfer
marked as timed out is past its deadline, a request the kernel killed was wanted
cancelled by someone (its owner, or the thread that is timing it out at this very
moment), a thread that handles a disconnect saw the device go, and the status in a
thread's hand is already a true one (`BeliefsAreTrue`). With it each step is a step of
`UsbTransfer` or a stutter (`...Tells`).

### Handles

`UsbHandleProofs` proves `TypeCorrect`, `ClaimsAlwaysAgree` (`ClaimsAgree`) and
`DriversAlwaysGivenBack` (`DriversGivenBack`), for any threads and interfaces. Both
speak of a handle at rest; the invariant says what holds in between. The bits and the
kernel's claims differ only for the interface some call is about to put right
(`ClaimsHaveBits`, `BitsHaveClaims`, with `GainInv`, `LoseInv`, `RegainInv` for what a
call has made or undone at each of its steps), which needs that the lock is held where
it is (`LockInv`) and that the application keeps its rules (`RulesInv`). Two resets can
overlap outside the lock, which is why `RegainInv` lets a second one undo what the first
just regained. `OwedInv` is the same for drivers: one that is owed, and not `taken`, is
on an interface with a bit or of a claim that is about to set it, and never where a
release or a reset is about to clear the bit. `DebtInv` ties the debts to what the
kernel has bound, step by step (`DebtsOf`, `DueGrows`). At rest the bit and
`BitsHaveClaims` make the interface really held, but for `lost`.

### Devices

`UsbDevicesProofs` proves `TypeCorrect`, `ReferencesAreExact` (`RefsExact`),
`CallbacksAreInformed` (`CallbacksInformed`), `ListIsInSync` (`ListInSync`) and
`ListsAreFresh` (`ListIsFresh`) for any
memory, addresses, callbacks and bounds. `RefsExact` compares a counter with places all
over the library, so the invariant has to know each of them. `FlowInv` is the types, and
what a thread has in hand where it is: work on a device has one (`Proper`), the user
thread keeps a device, a snapshot or a handle only where its call says so (`UserInv`).
`MemInv` is the memory:

* `Sound`: free memory is blank, and only a device behind the hub has a parent, which sits
  at the hub's port. The last reference to a child therefore frees one parent at most;
* `CountInv`: the count of a device is the references that places hold (`Held`), one for
  each child, and one if it is leaked;
* `OnceInv`: the reference a device was made with exists once: with the work that makes
  it, in the list, with the work that takes it off, in the message that it left, or leaked.
  So whoever drops it is the only one to do so;
* `ListedOnce`: a device is in the list once;
* `FreshInv`, `PortInv`: one that is not listed yet has no parent, and sits where the
  work that makes it looks.

The sums are cardinalities of finite sets. A lemma for each change of the memory says what
it does to them (`RefKeeps`, `DropKeeps`, `UnrefKeeps`, `AllocKeeps`, `AttachKeeps`,
`ConnectKeeps`, `LeakKeeps`); a step of the system is then one such change together with
the places that gained or lost a reference (`...Mem`). `FreshInv` is what the attempt
brought out: a child that is enumerated again after its parent must not have
looked for the parent before, or the reference to the first one is lost. The code keeps
it, because `linux_get_parent_info` retries before it assigns `parent_dev`.

`CallbacksInformed` is about a moment when nothing is on its way; the invariant
(`CallbackInv`) says what is on its way at every other one. A callback learns of a device
by a message that `msgs` or the batch still holds, by one that the thread with the lock is
about to send, or by its own registration (`Coming`, `Registering`). Then

* `OwedInv`: what a callback is owed it knows, or will be told in one of these ways. It
  keeps what it knows because no message says that a listed device left (`ListedStays`,
  from `OnceInv`: such a message would hold the reference the list holds);
* `KnownInv`: what a callback that is not enumerating believes in is listed, or a message
  that it left is coming. Learning from an old message keeps this only because what the
  queue says arrived is listed still or said to have left further back (`FollowInv`),
  which is the order that one lock around list and queue gives;
* `RestInv`, `BlankInv`: a message goes only to callbacks that are registered, and one that
  is not knows nothing, also when its memory is used for another.

`ListInSync` compares the list and the bus when nothing is on its way; `WatchInv` says
what the difference may be while something is. A device is compared with its port by
address and number (`Fits`), and numbers do not come back, so what is gone stays gone
(`FitsBack`).

* `PlugInv`: two devices that are plugged in have two addresses; `Orderly`: a removal in
  the socket speaks of an address that is free now, or is added again further back, and
  an addition of one that is there, or is removed further back. `WorkInv` is the same for
  the uevent in hand;
* `ListedInv`: a device that is listed or in the making is at its port, or a removal of
  its address is on its way (`Goes`). `PresentInv`: a device that is plugged in has its
  address listed, in the making, in hand, in the socket, or the scan has yet to look;
* `PairInv`: removals name an address, and an address does not name one device. A child
  that is retried after its parent is not searched for again, so the list can hold two
  devices with one address; then the older one is at its port with one removal under way,
  or two removals are (`Behind`), for the search finds the newer first. There are never
  three. `MadeInv`, `ChildInv` and `RetryInv` say this before the child is in the list;
* `AttachedInv`, `GoneInv`: what the user holds is attached only if it is listed, and the
  device an open found gone is gone. So `DisconnectGone`, which takes a listed device off
  by its address without a uevent, takes off one that no longer fits.

All this holds while a monitor that lost nothing watches (`Watching`), and `StartMonitor`
establishes it on an empty list. `ListIsFresh` is about one call. `AskedInv` says that a
port shows what it showed when the list was asked for, or nothing, or something newer;
`ServedInv` that from the end of a poll that was not cut short until the list is copied,
all that is near the list was there then or came since, and what was plugged in all
the while is listed with no removal of it under way (`StillListed`), whatever the monitor
reads in between.

### Requests of the kernel

`UsbfsProofs` proves `TypeCorrect`, `FreedOnlyWhenOver` (`FreedWhenOver`) and
`EveryByteCounted` (`NoDataLost`) for any block size, length and number of transfers.
A transfer is reported by a count
(`retired + 1 = num_urbs`), by an overflow, or because there is one request only; in no
case does the code look at the other requests, so the proof has to know where they are:

* `ReapInv`: the requests that are over and not reaped are those `done` lists, each once,
  and the one the handler has reaped is no longer among them;
* `LayoutInv`: the requests cover the transfer one after the other, which is what
  the arithmetic of the split amounts to (`AllUrbsCover`, from the division theorem);
* `SubmitInv`: they are submitted in order, so those that were not are the last ones;
* `CountInv`: once submission is over, `retired` is the number of requests that were
  handled or never submitted; while it goes on it is 0, since the lock keeps the handler
  out, and the submission that fails sets it to the number of those that are left;
* `OverflowInv`: only the last request overflows, and it is reaped last;
* `PhaseInv`: there are requests exactly from submission to report, and a lock is held by
  a thread that has something to do.

`AllSettled` is where they meet: when a transfer is over, nothing is with the kernel and
`done` is empty. The kernel serves the lowest of the pending requests; that there is one
(`Least`) is the well-foundedness of finite sets.

The second part is about the bytes of a bulk or interrupt transfer. The handler adds up
what it is given and moves it to the end of what came before, so the order in which
requests are handled matters as well as their number:

* `PrecedeInv`: a request gets data only when those before it are over, so it is handled
  after them;
* `StopInv`: nothing is served after a stall, nor once the device is gone;
* `FullInv`: while `action` is `NORMAL`, what was handled was full, so that the next
  request belongs where it was received;
* `BytesInv`: with `f[k]` the bytes of the first `k` requests, `f[num_urbs]` is what the
  device sent; the transferred bytes are those of the first `k` requests for some `k`, and
  are at the front of the buffer, and the others are where they were received; `OverInv`
  says the same once the requests are freed.

The sums are not defined recursively: the invariant says that a function `f` with
`f[u] = f[u - 1] + urbs[u].len` exists, and what induction would show of it (it does not
decrease, it agrees with the start of a request when those before are full) comes from
the least counterexample.

The third part, `UsbfsProofs!CompletedIsComplete` (`CompletedMeansComplete`), is
about the status. It is derived from flags that say what the handler believes, so the
proof relates each of them to what happened:

* `OrderInv`: requests are served in order, and what is over before its turn was
  killed; `ShortInv`, `BrokenInv`: what was served is full, or the device ended the
  transfer; `WholeInv`: a transfer that goes on as it should was submitted as a whole;
* `KilledInv`: when a request was killed, the transfer is excused from completing
  (`Excused`: its reap action is no longer `NORMAL`, its status is no longer `COMPLETED`,
  or its device vanished), or the cancellation that killed it is still under way, and the
  lock keeps the handler out until it has set the reap action. What a thread that
  discards may conclude from the answers it gets is `CancelInv`: if the last request is not
  found, then nothing is left with the kernel;
* `FailInv`, `EarlyInv`: while all is well no handled request has failed, and
  `COMPLETED_EARLY` has a reason;
* `IsoInv`: results of isochronous packets are in place as long as requests come in
  order; they do not only when some were killed, or when the last one will turn the
  status (`Doomed`: it is of the vanished device).

`FinalInv` carries the result from the last request to the report.

### Model-checked only

* Liveness: `EveryCallReturns`, `TxSettles`, `Unwinds`, `CallsReturn`, `CloseReturns`,
  `EndsWhenOver`. The prover does not handle fairness.
* `UsbDescriptors`: most of what it says is about recursive layouts of data (folds over
  nested sequences), which the prover cannot unfold by induction.
* `WinTransfers`: the outcome tables of each driver are finite and TLC covers them; a
  proof would restate them.

## 7. Not modelled

See "components" in `PROJECT.json`. Time itself is not modelled: a timer may fire
whenever it is armed (`UsbIo` has a small clock, since its property is about
deadlines). Contents of messages are not, except where framing is concerned. Platform
code, FFI, generated code, value types and the RPC wrappers keep no state worth a model.
The macOS backend of libusb mirrors what `UsbIo` and `UsbHandle` say of Linux.
