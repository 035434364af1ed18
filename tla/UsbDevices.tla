----------------------------- MODULE UsbDevices -----------------------------
(***************************************************************************)
(* How libusb keeps its list of devices on Linux: the uevents of the       *)
(* kernel (linux_netlink.c), the enumeration of a device and of its parent *)
(* (linux_usbfs.c), the list and its reference counts (core.c), and the    *)
(* hotplug callbacks (hotplug.c).                                          *)
(*                                                                         *)
(* A bus has a hub and a device behind the hub.  Four actors share one     *)
(* context: the kernel, which plugs and unplugs; the monitor thread, which *)
(* reads uevents; the event thread of the application, which dispatches    *)
(* hotplug messages; and the user thread, which makes every other call.    *)
(* linux_hotplug_lock is held by whoever works on the list: the thread     *)
(* named by job.by.                                                        *)
(***************************************************************************)
EXTENDS Integers, Sequences, FiniteSets, SequencesExt, FiniteSetsExt, Functions

CONSTANTS Hub, Leaf,   \* the two ports; Leaf is a port of the device at Hub
          None,        \* no device, no callback
          Objects,     \* memory for struct libusb_device: an allocation fails without
          Addresses,   \* device addresses of the bus; the kernel reuses them
          Callbacks,   \* hotplug callbacks the user may register
          Enumerating, \* those registered with LIBUSB_HOTPLUG_ENUMERATE
          MaxEvents,   \* bound: uevents of the kernel
          MaxQueue,    \* room of the netlink socket: further uevents are lost
          MaxCalls     \* bound: calls of the user thread that begin something

ASSUME PortsAssumption == Hub # Leaf /\ None \notin Objects \union Callbacks
ASSUME CallbacksAssumption == Enumerating \subseteq Callbacks
ASSUME ObjectsAssumption == IsFiniteSet(Objects)
ASSUME AddressesAssumption == {1, 2} \subseteq Addresses /\ Addresses \subseteq Nat \ {0}
ASSUME BoundsAssumption == {MaxEvents, MaxQueue, MaxCalls} \subseteq Nat

Ports == {Hub, Leaf}
NotPlugged == [addr |-> 0, serial |-> 0]
Old == 2    \* the devices that may be plugged in from the start have serials 1 and 2

VARIABLES
  plugged,     \* port -> what sits there: its address, and a serial number no other has
  serial,      \* counts the uevents, and numbers the devices
  queue, lost, \* the netlink socket; whether it overflowed, or memory ran out
  up,          \* "down", "scan", "ready", "stopping": the context
  monitor,     \* the monitor thread runs
  objs,        \* object -> struct libusb_device; refs = 0: free memory
  devs,        \* ctx->usb_devs, newest first
  msgs,        \* ctx->hotplug_msgs
  batch,       \* the event thread: messages it took, callbacks it still calls
  cbs,         \* ctx->hotplug_cbs; the order in which a message reaches them is left open
  needsFree,   \* callbacks marked USBI_HOTPLUG_NEEDS_FREE
  job,         \* the work done under linux_hotplug_lock
  user,        \* the user thread: what it is in the middle of
  list, snap, handle,     \* references of the user: a device list, that of an
                          \* enumerating registration, and an open handle
  known,       \* callback -> devices it was told arrived and not told left
  owed         \* callback -> devices it must be told of

bus   == <<plugged, serial, queue, lost>>
lists == <<objs, devs, msgs>>
cblist == <<cbs, needsFree>>
refs  == <<list, snap, handle>>
told  == <<known, owed>>
vars  == <<bus, up, monitor, lists, batch, cblist, job, user, refs, told>>

-----------------------------------------------------------------------------
(* Devices and their reference counts.                                     *)

Free == [refs |-> 0, addr |-> 0, port |-> Hub, serial |-> 0, parent |-> None,
         attached |-> FALSE, leaked |-> FALSE]

InUse == {o \in Objects : objs[o].refs > 0}
Armed == cbs \ needsFree

RefDevices(mem, S) == [o \in Objects |-> IF o \in S THEN [mem[o] EXCEPT !.refs = @ + 1] ELSE mem[o]]
RefDevice(mem, o)  == RefDevices(mem, {o})

Dropped(mem, o) == IF mem[o].refs = 1 THEN [mem EXCEPT ![o] = Free]
                                      ELSE [mem EXCEPT ![o].refs = @ - 1]

(* A mutant of UnrefDevice: it forgets the reference on the parent.        *)
UnrefDeviceOnly(mem, o) ==
  Dropped(mem, o)

(* The last reference frees the device and the one it holds on its parent. *)
UnrefDevice(mem, o) ==
  IF mem[o].refs = 1 /\ mem[o].parent # None
  THEN Dropped(Dropped(mem, o), mem[o].parent)
  ELSE Dropped(mem, o)

(* One reference, that of the list to be. *)
AllocDevice(addr) == [Free EXCEPT !.refs = 1, !.addr = addr]

(* The places in the list where a search comes by; it ends at the first.   *)
WithSessionId(addr) == {i \in DOMAIN devs : objs[devs[i]].addr = addr}
HubsListed          == {i \in DOMAIN devs : objs[devs[i]].port = Hub}

AttachDevice(o, mem) ==
  /\ objs' = [mem EXCEPT ![o].attached = TRUE]
  /\ devs' = <<o>> \o devs

DetachDevice(i, mem) ==
  /\ objs' = [mem EXCEPT ![devs[i]].attached = FALSE]
  /\ devs' = RemoveAt(devs, i)

-----------------------------------------------------------------------------
(* The kernel.                                                             *)

Deliver(m) == IF monitor /\ Len(queue) < MaxQueue
              THEN queue' = Append(queue, m) /\ UNCHANGED lost
              ELSE /\ lost' = (lost \/ monitor)
                   /\ UNCHANGED queue

Plug(p) ==
  /\ plugged[p] = NotPlugged
  /\ p = Leaf => plugged[Hub] # NotPlugged
  /\ serial < Old + MaxEvents
  /\ serial' = serial + 1
  /\ \E a \in Addresses \ {plugged[q].addr : q \in Ports} :
       /\ plugged' = [plugged EXCEPT ![p] = [addr |-> a, serial |-> serial']]
       /\ Deliver([kind |-> "add", addr |-> a, port |-> p])
  /\ UNCHANGED <<up, monitor, lists, batch, cblist, job, user, refs, told>>

Unplug(p) ==
  /\ plugged[p] # NotPlugged
  /\ p = Hub => plugged[Leaf] = NotPlugged
  /\ serial < Old + MaxEvents
  /\ serial' = serial + 1
  /\ plugged' = [plugged EXCEPT ![p] = NotPlugged]
  /\ Deliver([kind |-> "remove", addr |-> plugged[p].addr, port |-> p])
  /\ UNCHANGED <<up, monitor, lists, batch, cblist, job, user, refs, told>>

(* A uevent of an interface of a device, or of another subsystem. *)
OtherUevent ==
  /\ monitor /\ serial < Old + MaxEvents
  /\ serial' = serial + 1
  /\ Deliver([kind |-> "other", addr |-> 0, port |-> Hub])
  /\ UNCHANGED <<plugged, up, monitor, lists, batch, cblist, job, user, refs, told>>

Kernel == OtherUevent \/ \E p \in Ports : Plug(p) \/ Unplug(p)

-----------------------------------------------------------------------------
(* Enumeration and disconnection, under linux_hotplug_lock.                *)

NoJob == [by |-> "nobody", pc |-> "idle", addr |-> 0, port |-> Hub, obj |-> None, child |-> None]

(* The job is over: retry the child that waits for this parent, or go on   *)
(* with the scan or the poll this was one step of, or unlock.              *)
Resume == IF job.child # None
          THEN [job EXCEPT !.pc = "retry", !.obj = job.child, !.child = None]
          ELSE IF job.by \in {"monitor", "open"} THEN NoJob
          ELSE [NoJob EXCEPT !.by = job.by, !.pc = "more"]

(* sysfs names the port: what is read there is what sits there now.        *)
Readable(p)         == plugged[p] # NotPlugged
GetDeviceAddress(p) == plugged[p].addr
InitializeDevice(addr, p) == [AllocDevice(addr) EXCEPT !.port = p, !.serial = plugged[p].serial]

(* What a uevent asks for; of the others nothing is wanted. *)
Work(by, m) == [NoJob EXCEPT !.by = by, !.addr = m.addr, !.port = m.port,
                !.pc = IF m.kind = "add" THEN "enumerate" ELSE "disconnect"]

(* A device with this session ID is left alone, whichever device it is;    *)
(* one that is gone cannot be read.                                        *)
EnumerateDevice ==
  /\ job.pc = "enumerate"
  /\ IF WithSessionId(job.addr) # {} \/ ~Readable(job.port) \/ InUse = Objects
     THEN /\ job' = Resume
          /\ lost' = (lost \/ InUse = Objects)
          /\ UNCHANGED <<objs, known>>
     ELSE LET o == CHOOSE x \in Objects \ InUse : TRUE
          IN  /\ objs' = [objs EXCEPT ![o] = InitializeDevice(job.addr, job.port)]
              /\ known' = [c \in Callbacks |-> known[c] \ {o}]
              /\ job' = [job EXCEPT !.pc = "parent", !.obj = o]
              /\ UNCHANGED lost
  /\ UNCHANGED <<plugged, serial, queue, up, monitor, devs, msgs, batch, cblist, user, refs, owed>>

(* The parent is the listed device at the parent's port; one that is not   *)
(* listed yet is enumerated first, once.                                   *)
BehindHub   == objs[job.obj].port = Leaf
ParentFirst == job.pc = "parent" /\ BehindHub /\ HubsListed = {} /\ Readable(Hub)

EnumerateParent ==
  /\ ParentFirst
  /\ job' = [job EXCEPT !.pc = "enumerate", !.child = job.obj, !.obj = None,
                        !.addr = GetDeviceAddress(Hub), !.port = Hub]
  /\ UNCHANGED <<bus, up, monitor, lists, batch, cblist, user, refs, told>>

WithParent == IF BehindHub /\ HubsListed # {}
              THEN LET hub == devs[Min(HubsListed)]
                   IN  [RefDevice(objs, hub) EXCEPT ![job.obj].parent = hub]
              ELSE objs

ConnectDevice ==
  /\ job.pc \in {"parent", "retry"} /\ ~ParentFirst
  /\ AttachDevice(job.obj, WithParent)
  /\ owed' = [c \in Callbacks |-> IF c \in Armed THEN owed[c] \union {job.obj} ELSE owed[c]]
  /\ job' = [job EXCEPT !.pc = "arrived"]
  /\ UNCHANGED <<bus, up, monitor, msgs, batch, cblist, user, refs, known>>

(* A mutant of Notification: a message is only added when none is pending. *)
NotificationIfFirst(event, o) ==
  IF up = "ready" /\ msgs = <<>> THEN msgs' = Append(msgs, [event |-> event, obj |-> o]) ELSE UNCHANGED msgs

(* No message while the context is being set up: what leaves then keeps    *)
(* the reference that the message would have taken over.                   *)
Notification(event, o) ==
  IF up = "ready" THEN msgs' = Append(msgs, [event |-> event, obj |-> o]) ELSE UNCHANGED msgs

NotifyArrived ==
  /\ job.pc = "arrived"
  /\ Notification("arrived", job.obj)
  /\ job' = Resume
  /\ UNCHANGED <<bus, up, monitor, objs, devs, batch, cblist, user, refs, told>>

DeviceDisconnected ==
  /\ job.pc = "disconnect"
  /\ LET found == WithSessionId(job.addr)
         o     == devs[Min(found)]
     IN  IF found = {}
         THEN job' = Resume /\ UNCHANGED <<objs, devs, owed>>
         ELSE /\ DetachDevice(Min(found), RefDevice(objs, o))
              /\ owed' = [c \in Callbacks |-> owed[c] \ {o}]
              /\ job' = [job EXCEPT !.pc = "left", !.obj = o]
  /\ UNCHANGED <<bus, up, monitor, msgs, batch, cblist, user, refs, known>>

NotifyLeft ==
  /\ job.pc = "left"
  /\ Notification("left", job.obj)
  /\ objs' = [objs EXCEPT ![job.obj].leaked = (up # "ready")]
  /\ job' = [job EXCEPT !.pc = "drop"]
  /\ UNCHANGED <<bus, up, monitor, devs, batch, cblist, user, refs, told>>

DropFound ==
  /\ job.pc = "drop"
  /\ objs' = UnrefDevice(objs, job.obj)
  /\ job' = Resume
  /\ UNCHANGED <<bus, up, monitor, devs, msgs, batch, cblist, user, refs, told>>

Enumeration == EnumerateDevice \/ EnumerateParent \/ ConnectDevice \/ NotifyArrived
               \/ DeviceDisconnected \/ NotifyLeft \/ DropFound

-----------------------------------------------------------------------------
(* The monitor thread.  A context that is being torn down is off the list  *)
(* of active contexts: what is read then changes nothing.                  *)

ReadMessage(by) ==
  /\ queue' = Tail(queue)
  /\ job' = IF Head(queue).kind = "other" \/ up = "stopping" THEN NoJob ELSE Work(by, Head(queue))

Monitor ==
  /\ monitor /\ job = NoJob /\ queue # <<>>
  /\ ReadMessage("monitor")
  /\ UNCHANGED <<plugged, serial, lost, up, monitor, lists, batch, cblist, user, refs, told>>

-----------------------------------------------------------------------------
(* The event thread.  It takes the messages that are there, and for each   *)
(* calls the callbacks, without their lock; callbacks registered meanwhile *)
(* are put where it has already been.                                      *)

TakeMessages ==
  /\ up = "ready" /\ ~batch.on
  /\ msgs # <<>> \/ batch.deregistered
  /\ batch' = [on |-> TRUE, deregistered |-> FALSE, msgs |-> msgs, rest |-> cbs]
  /\ msgs' = <<>>
  /\ UNCHANGED <<bus, up, monitor, objs, devs, cblist, job, user, refs, told>>

Learn(c, m) == IF m.event = "arrived" THEN known[c] \union {m.obj} ELSE known[c] \ {m.obj}

(* A callback that returns non-zero is freed.  One whose registration has  *)
(* not returned does not: the call that registers it still uses it.        *)
CallBack ==
  /\ batch.on /\ batch.msgs # <<>>
  /\ \E c \in batch.rest :
       /\ batch' = [batch EXCEPT !.rest = @ \ {c}]
       /\ IF c \in needsFree THEN UNCHANGED <<cblist, told>>
          ELSE \E finished \in IF user.cb = c THEN {FALSE} ELSE BOOLEAN :
                 /\ known' = [known EXCEPT ![c] = IF finished THEN {} ELSE Learn(c, Head(batch.msgs))]
                 /\ owed' = IF finished THEN [owed EXCEPT ![c] = {}] ELSE owed
                 /\ cbs' = IF finished THEN cbs \ {c} ELSE cbs
                 /\ UNCHANGED needsFree
  /\ UNCHANGED <<bus, up, monitor, lists, job, user, refs>>

(* The message of a device that left holds a reference. *)
FreeFirst(q) == objs' = IF Head(q).event = "left" THEN UnrefDevice(objs, Head(q).obj) ELSE objs

MessageDone ==
  /\ batch.on /\ batch.msgs # <<>> /\ batch.rest = {}
  /\ FreeFirst(batch.msgs)
  /\ batch' = [batch EXCEPT !.msgs = Tail(@), !.rest = cbs]
  /\ UNCHANGED <<bus, up, monitor, devs, msgs, cblist, job, user, refs, told>>

FreeUnregistered ==
  /\ batch.on /\ batch.msgs = <<>>
  /\ cbs' = Armed /\ needsFree' = {}
  /\ batch' = [batch EXCEPT !.on = FALSE, !.rest = {}]
  /\ known' = [c \in Callbacks |-> IF c \in needsFree THEN {} ELSE known[c]]
  /\ owed' = [c \in Callbacks |-> IF c \in needsFree THEN {} ELSE owed[c]]
  /\ UNCHANGED <<bus, up, monitor, lists, job, user, refs>>

HotplugProcess == TakeMessages \/ CallBack \/ MessageDone \/ FreeUnregistered

-----------------------------------------------------------------------------
(* The user thread: setting up and tearing down the context.               *)

Idle == [pc |-> "idle", todo |-> {}, cb |-> None, obj |-> None,
         asked |-> [p \in Ports |-> NotPlugged], since |-> 0, cut |-> FALSE, calls |-> user.calls]
Calling(pc) == [Idle EXCEPT !.pc = pc, !.calls = @ + 1]

(* A device of a context that is gone is only good for being released. *)
InitContext ==
  /\ up = "down" /\ user.pc = "idle" /\ list = {} /\ user.calls < MaxCalls
  /\ up' = "scan"
  /\ user' = Calling("start")
  /\ UNCHANGED <<bus, monitor, lists, batch, cblist, job, refs, told>>

StartMonitor ==
  /\ user.pc = "start"
  /\ monitor' = TRUE /\ queue' = <<>> /\ lost' = FALSE
  /\ user' = [user EXCEPT !.pc = "started"]
  /\ UNCHANGED <<plugged, serial, up, lists, batch, cblist, job, refs, told>>

ScanDevices ==
  /\ user.pc = "started" /\ job = NoJob
  /\ job' = [NoJob EXCEPT !.by = "scan", !.pc = "more"]
  /\ user' = [user EXCEPT !.pc = "scan", !.todo = Ports]
  /\ UNCHANGED <<bus, up, monitor, lists, batch, cblist, refs, told>>

ScanDevice(p) ==
  /\ user.pc = "scan" /\ job.pc = "more" /\ p \in user.todo
  /\ job' = IF Readable(p) THEN Work("scan", [kind |-> "add", addr |-> GetDeviceAddress(p), port |-> p])
            ELSE job
  /\ user' = [user EXCEPT !.todo = @ \ {p}]
  /\ UNCHANGED <<bus, up, monitor, lists, batch, cblist, refs, told>>

ScanDone ==
  /\ user.pc = "scan" /\ job.pc = "more" /\ user.todo = {}
  /\ job' = NoJob
  /\ user' = [user EXCEPT !.pc = "scanned"]
  /\ UNCHANGED <<bus, up, monitor, lists, batch, cblist, refs, told>>

HotplugInit ==
  /\ user.pc = "scanned"
  /\ up' = "ready" /\ user' = Idle
  /\ UNCHANGED <<bus, monitor, lists, batch, cblist, job, refs, told>>

(* The application closes its handle and stops handling events first; the  *)
(* monitor is not at work on a context it takes off the active list.       *)
Exit ==
  /\ up = "ready" /\ user.pc = "idle" /\ handle = None /\ ~batch.on
  /\ job.by # "monitor"
  /\ up' = "stopping"
  /\ user' = [user EXCEPT !.pc = "hotplug_exit"]
  /\ UNCHANGED <<bus, monitor, lists, batch, cblist, job, refs, told>>

HotplugExit ==
  /\ user.pc = "hotplug_exit"
  /\ cbs' = {} /\ needsFree' = {}
  /\ batch' = [batch EXCEPT !.deregistered = FALSE]
  /\ known' = [c \in Callbacks |-> {}] /\ owed' = known'
  /\ user' = [user EXCEPT !.pc = "free"]
  /\ UNCHANGED <<bus, up, monitor, lists, job, refs>>

FreeMessage ==
  /\ user.pc = "free" /\ msgs # <<>>
  /\ FreeFirst(msgs)
  /\ msgs' = Tail(msgs)
  /\ UNCHANGED <<bus, up, monitor, devs, batch, cblist, job, user, refs, told>>

FreeDevice ==
  /\ user.pc = "free" /\ msgs = <<>> /\ devs # <<>>
  /\ objs' = UnrefDevice(objs, Head(devs))
  /\ devs' = Tail(devs)
  /\ UNCHANGED <<bus, up, monitor, msgs, batch, cblist, job, user, refs, told>>

StopMonitor ==
  /\ user.pc = "free" /\ msgs = <<>> /\ devs = <<>> /\ job = NoJob
  /\ up' = "down" /\ monitor' = FALSE /\ queue' = <<>>
  /\ user' = Idle
  /\ UNCHANGED <<plugged, serial, lost, lists, batch, cblist, job, refs, told>>

SetUpTearDown == InitContext \/ StartMonitor \/ ScanDevices \/ (\E p \in Ports : ScanDevice(p)) \/ ScanDone
                 \/ HotplugInit \/ Exit \/ HotplugExit \/ FreeMessage \/ FreeDevice \/ StopMonitor

-----------------------------------------------------------------------------
(* The user thread: device lists.                                          *)

Ready == up = "ready" /\ user.pc = "idle"

GetDeviceList ==
  /\ Ready /\ list = {} /\ user.calls < MaxCalls
  /\ user' = [Calling("poll") EXCEPT !.asked = plugged, !.since = serial]
  /\ UNCHANGED <<bus, up, monitor, lists, batch, cblist, job, refs, told>>

(* A mutant of HotplugPoll: it reads one message.                          *)
HotplugPollOnce ==
  /\ user.pc = "poll"
  /\ job = NoJob \/ (job.by = "poll" /\ job.pc = "more")
  /\ IF queue = <<>> \/ job.by = "poll"
     THEN job' = NoJob /\ user' = [user EXCEPT !.pc = "copy"] /\ UNCHANGED queue
     ELSE /\ ReadMessage("poll")
          /\ user' = IF Head(queue).kind = "other" THEN [user EXCEPT !.pc = "copy", !.cut = TRUE] ELSE user
  /\ UNCHANGED <<plugged, serial, lost, up, monitor, lists, batch, cblist, refs, told>>

(* The poll reads until the socket is empty, or a message is not for it. *)
HotplugPoll ==
  /\ user.pc = "poll"
  /\ job = NoJob \/ (job.by = "poll" /\ job.pc = "more")
  /\ IF queue = <<>>
     THEN job' = NoJob /\ user' = [user EXCEPT !.pc = "copy"] /\ UNCHANGED queue
     ELSE /\ ReadMessage("poll")
          /\ user' = IF Head(queue).kind = "other" THEN [user EXCEPT !.pc = "copy", !.cut = TRUE] ELSE user
  /\ UNCHANGED <<plugged, serial, lost, up, monitor, lists, batch, cblist, refs, told>>

(* discovered_devs: a reference to every listed device. *)
Discovered == RefDevices(objs, Range(devs))

CopyList ==
  /\ user.pc = "copy"
  /\ objs' = Discovered
  /\ IF user.cb = None
     THEN list' = Range(devs) /\ user' = Idle /\ UNCHANGED snap
     ELSE /\ snap' = Range(devs)
          /\ user' = [user EXCEPT !.pc = "fire", !.todo = Range(devs)]
          /\ UNCHANGED list
  /\ UNCHANGED <<bus, up, monitor, devs, msgs, batch, cblist, job, handle, told>>

FreeDeviceList(o) ==
  /\ user.pc \in {"idle", "free_list"} /\ o \in list
  /\ objs' = UnrefDevice(objs, o)
  /\ list' = list \ {o}
  /\ user' = [user EXCEPT !.pc = IF list' = {} THEN "idle" ELSE "free_list"]
  /\ UNCHANGED <<bus, up, monitor, devs, msgs, batch, cblist, job, snap, handle, told>>

DeviceLists == GetDeviceList \/ HotplugPoll \/ CopyList \/ \E o \in Objects : FreeDeviceList(o)

-----------------------------------------------------------------------------
(* The user thread: opening and closing.                                   *)

Present(addr) == \E p \in Ports : plugged[p] # NotPlugged /\ plugged[p].addr = addr

Open(o) ==
  /\ Ready /\ handle = None /\ o \in list
  /\ objs[o].attached
  /\ objs' = RefDevice(objs, o)
  /\ user' = [user EXCEPT !.pc = "open", !.obj = o]
  /\ UNCHANGED <<bus, up, monitor, devs, msgs, batch, cblist, job, refs, told>>

OpenBackend ==
  /\ user.pc = "open"
  /\ IF Present(objs[user.obj].addr)
     THEN handle' = user.obj /\ user' = Idle
     ELSE user' = [user EXCEPT !.pc = "gone"] /\ UNCHANGED handle
  /\ UNCHANGED <<bus, up, monitor, lists, batch, cblist, job, list, snap, told>>

(* A mutant of DisconnectGone: it does not look again at attached under    *)
(* the lock.                                                               *)
DisconnectAnyway ==
  /\ user.pc = "gone" /\ job = NoJob
  /\ job' = Work("open", [kind |-> "remove", addr |-> objs[user.obj].addr, port |-> Hub])
  /\ user' = [user EXCEPT !.pc = "failed"]
  /\ UNCHANGED <<bus, up, monitor, lists, batch, cblist, refs, told>>

(* A device that is gone but still listed is taken off the list here. *)
DisconnectGone ==
  /\ user.pc = "gone" /\ job = NoJob
  /\ job' = IF objs[user.obj].attached
            THEN Work("open", [kind |-> "remove", addr |-> objs[user.obj].addr, port |-> Hub])
            ELSE NoJob
  /\ user' = [user EXCEPT !.pc = "failed"]
  /\ UNCHANGED <<bus, up, monitor, lists, batch, cblist, refs, told>>

OpenFails ==
  /\ user.pc = "failed" /\ job.by # "open"
  /\ objs' = UnrefDevice(objs, user.obj)
  /\ user' = Idle
  /\ UNCHANGED <<bus, up, monitor, devs, msgs, batch, cblist, job, refs, told>>

(* A device made for a descriptor the application opened is never listed. *)
WrappedDevice == [AllocDevice(0) EXCEPT !.attached = TRUE]

WrapSysDevice ==
  /\ Ready /\ handle = None /\ Objects \ InUse # {} /\ user.calls < MaxCalls
  /\ LET o == CHOOSE x \in Objects \ InUse : TRUE
     IN  /\ objs' = [objs EXCEPT ![o] = WrappedDevice]
         /\ known' = [c \in Callbacks |-> known[c] \ {o}]
         /\ handle' = o
  /\ user' = Calling("idle")
  /\ UNCHANGED <<bus, up, monitor, devs, msgs, batch, cblist, job, list, snap, owed>>

Close ==
  /\ user.pc = "idle" /\ handle # None
  /\ objs' = UnrefDevice(objs, handle)
  /\ handle' = None
  /\ UNCHANGED <<bus, up, monitor, devs, msgs, batch, cblist, job, user, list, snap, told>>

OpenAndClose == (\E o \in Objects : Open(o)) \/ OpenBackend \/ DisconnectGone \/ OpenFails \/ WrapSysDevice \/ Close

-----------------------------------------------------------------------------
(* The user thread: callbacks.                                             *)

RegisterCallback(c) ==
  /\ Ready /\ c \notin cbs /\ user.calls < MaxCalls
  /\ cbs' = cbs \union {c}
  /\ user' = IF c \in Enumerating THEN [Calling("poll") EXCEPT !.cb = c]
             ELSE Calling("idle")
  /\ owed' = [owed EXCEPT ![c] = IF c \in Enumerating THEN Range(devs) ELSE {}]
  /\ UNCHANGED <<bus, up, monitor, lists, batch, needsFree, job, refs, known>>

FireForListed(o) ==
  /\ user.pc = "fire" /\ o \in user.todo
  /\ known' = [known EXCEPT ![user.cb] = @ \union {o}]
  /\ user' = [user EXCEPT !.todo = @ \ {o}]
  /\ UNCHANGED <<bus, up, monitor, lists, batch, cblist, job, refs, owed>>

FreeSnapshot(o) ==
  /\ user.pc = "fire" /\ user.todo = {} /\ o \in snap
  /\ objs' = UnrefDevice(objs, o)
  /\ snap' = snap \ {o}
  /\ UNCHANGED <<bus, up, monitor, devs, msgs, batch, cblist, job, user, list, handle, told>>

Registered ==
  /\ user.pc = "fire" /\ user.todo = {} /\ snap = {}
  /\ user' = Idle
  /\ UNCHANGED <<bus, up, monitor, lists, batch, cblist, job, refs, told>>

DeregisterCallback(c) ==
  /\ Ready /\ c \in Armed /\ user.calls < MaxCalls
  /\ needsFree' = needsFree \union {c}
  /\ batch' = [batch EXCEPT !.deregistered = TRUE]
  /\ user' = Calling("idle")
  /\ UNCHANGED <<bus, up, monitor, lists, cbs, job, refs, told>>

CallbackCalls == (\E c \in Callbacks : RegisterCallback(c) \/ DeregisterCallback(c))
                 \/ (\E o \in Objects : FireForListed(o) \/ FreeSnapshot(o)) \/ Registered

-----------------------------------------------------------------------------
Init ==
  /\ plugged \in {f \in [Ports -> {NotPlugged, [addr |-> 1, serial |-> 1], [addr |-> 2, serial |-> 2]}] :
                    /\ f[Hub].addr # 2
                    /\ f[Leaf].addr = 2 <=> f[Leaf] # NotPlugged
                    /\ f[Hub] = NotPlugged => f[Leaf] = NotPlugged}
  /\ serial = Old /\ queue = <<>> /\ lost = FALSE
  /\ up = "down" /\ monitor = FALSE
  /\ objs = [o \in Objects |-> Free] /\ devs = <<>> /\ msgs = <<>>
  /\ batch = [on |-> FALSE, deregistered |-> FALSE, msgs |-> <<>>, rest |-> {}]
  /\ cbs = {} /\ needsFree = {} /\ job = NoJob
  /\ user = [pc |-> "idle", todo |-> {}, cb |-> None, obj |-> None,
             asked |-> [p \in Ports |-> NotPlugged], since |-> 0, cut |-> FALSE, calls |-> 0]
  /\ list = {} /\ snap = {} /\ handle = None
  /\ known = [c \in Callbacks |-> {}] /\ owed = [c \in Callbacks |-> {}]

Next == Kernel \/ Enumeration \/ Monitor \/ HotplugProcess
        \/ SetUpTearDown \/ DeviceLists \/ OpenAndClose \/ CallbackCalls

Spec == Init /\ [][Next]_vars

-----------------------------------------------------------------------------
Count(S) == Cardinality(S)
LeftIn(q, o) == Count({i \in DOMAIN q : q[i] = [event |-> "left", obj |-> o]})
One(b) == IF b THEN 1 ELSE 0

(* The references to a device: the list's, or after it the message's that  *)
(* says it left; one for each child; those of the work in progress; and    *)
(* the user's.                                                             *)
References(o) ==
  One(o \in Range(devs)) + LeftIn(msgs, o) + LeftIn(batch.msgs, o) + One(objs[o].leaked)
  + Count({d \in InUse : objs[d].parent = o})
  + One(job.obj = o /\ job.pc \in {"parent", "retry", "left", "drop"})
  + One(job.obj = o /\ job.pc = "left") + One(job.child = o)
  + One(o \in list) + One(o \in snap) + One(handle = o) + One(user.obj = o)

(* Every device has exactly as many references as there are places that    *)
(* use it: none is freed while somebody can reach it, and none outlives    *)
(* its last user, through unplugging, a failing open and libusb_exit       *)
(* (libusb_ref_device, libusb_unref_device; hotplug.c:320 and :219).  Only *)
(* a device that leaves before usbi_hotplug_init is never freed: no        *)
(* message takes over the list's reference.                                *)
RefsExact == \A o \in Objects : objs[o].refs = References(o)

Listed == {[addr |-> objs[o].addr, serial |-> objs[o].serial] : o \in Range(devs)}

(* When the monitor has read every uevent, the list holds the devices that *)
(* are plugged in and no other, whatever was plugged, unplugged and given  *)
(* an old address meanwhile, and whether the initial scan, the monitor, a  *)
(* poll or a failing open got there first; unless the socket overflowed    *)
(* (linux_enumerate_device, linux_device_disconnected).                    *)
ListInSync == up = "ready" /\ queue = <<>> /\ job = NoJob /\ ~lost
              => Listed = {plugged[p] : p \in Ports} \ {NotPlugged}

(* When every message is dispatched, a callback has been told of every     *)
(* listed device that arrived since it was registered and, if registered   *)
(* with LIBUSB_HOTPLUG_ENUMERATE, of those listed before; and one that is  *)
(* not enumerating believes in no device that is gone                      *)
(* (usbi_hotplug_process, libusb_hotplug_register_callback).               *)
CallbacksInformed ==
  msgs = <<>> /\ ~batch.on /\ job = NoJob /\ up = "ready"
  => \A c \in Armed \ {user.cb} : /\ owed[c] \subseteq known[c]
                                  /\ c \notin Enumerating => known[c] \subseteq Range(devs)

(* What a device list must hold when it is copied: what was plugged in     *)
(* when it was asked for and still is, and nothing that was gone by then.  *)
UpToDate ==
  LET serials == {objs[o].serial : o \in Range(devs)}
  IN  /\ \A p \in Ports : plugged[p] = user.asked[p] /\ plugged[p] # NotPlugged
                          => plugged[p].serial \in serials
      /\ \A s \in serials : s > user.since \/ \E p \in Ports : user.asked[p].serial = s

Copies == user.pc = "copy" /\ user'.pc = "idle"

(* libusb_get_device_list reflects every hotplug event that preceded it,   *)
(* though the monitor has not read it yet (libusb_get_device_list calling  *)
(* usbi_backend.hotplug_poll), unless the socket overflowed or the poll    *)
(* met a uevent that is not about a USB device.                            *)
ListIsFresh == [][Copies /\ ~lost /\ ~user.cut => UpToDate]_vars

=============================================================================
