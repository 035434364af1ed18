--------------------------- MODULE UsbDevicesProofs ---------------------------
(***************************************************************************)
(* Proofs about UsbDevices, for any memory, addresses and callbacks and    *)
(* for any bounds: the reference counts of devices are exact, hotplug      *)
(* callbacks are told of every device, the list agrees with the bus when   *)
(* every uevent is read, and a list that is asked for is up to date.       *)
(***************************************************************************)
EXTENDS UsbDevices, TLAPS, FiniteSetTheorems, SequenceTheorems, WellFoundedInduction

USE PortsAssumption, CallbacksAssumption, ObjectsAssumption, AddressesAssumption

-----------------------------------------------------------------------------
(* The types, and what a thread holds where it is.                         *)

Plugs    == [addr : Addresses \union {0}, serial : Nat]
Uevents  == [kind : {"add", "remove", "other"}, addr : Addresses \union {0}, port : Ports]
Messages == [event : {"arrived", "left"}, obj : Objects]
Device   == [refs : Nat, addr : Addresses \union {0}, port : Ports, serial : Nat,
             parent : Objects \union {None}, attached : BOOLEAN, leaked : BOOLEAN]
Batch    == [on : BOOLEAN, deregistered : BOOLEAN, msgs : Seq(Messages), rest : SUBSET Callbacks]

WorkPcs == {"parent", "retry", "arrived", "left", "drop"}
JobPcs  == WorkPcs \union {"idle", "enumerate", "disconnect", "more"}
Job     == [by : {"nobody", "monitor", "scan", "poll", "open"}, pc : JobPcs,
            addr : Addresses \union {0}, port : Ports,
            obj : Objects \union {None}, child : Objects \union {None}]

\* Work on a device has one in hand; a child waits only while its parent is enumerated.
Proper(j) ==
  /\ j \in Job
  /\ j.obj # None <=> j.pc \in WorkPcs
  /\ j.child # None => j.pc \in {"enumerate", "parent", "arrived"} /\ j.port = Hub

OpenPcs == {"open", "gone", "failed"}
UserPcs == OpenPcs \union {"idle", "start", "started", "scan", "scanned", "hotplug_exit", "free",
                           "poll", "copy", "fire", "free_list"}
User    == [pc : UserPcs, todo : SUBSET (Ports \union Objects), cb : Callbacks \union {None},
            obj : Objects \union {None}, asked : [Ports -> Plugs], since : Nat, cut : BOOLEAN,
            calls : Nat]

MemoryOK == objs \in [Objects -> Device]

BusOK   == /\ plugged \in [Ports -> Plugs] /\ serial \in Nat
           /\ queue \in Seq(Uevents) /\ lost \in BOOLEAN
ListsOK == devs \in Seq(Objects) /\ msgs \in Seq(Messages)
CbsOK   == /\ batch \in Batch /\ cbs \in SUBSET Callbacks /\ needsFree \in SUBSET Callbacks
           /\ known \in [Callbacks -> SUBSET Objects] /\ owed \in [Callbacks -> SUBSET Objects]
StepsOK == /\ up \in {"down", "scan", "ready", "stopping"} /\ monitor \in BOOLEAN
           /\ Proper(job) /\ user \in User /\ (user.obj # None <=> user.pc \in OpenPcs)
HeldOK  == list \in SUBSET Objects /\ snap \in SUBSET Objects /\ handle \in Objects \union {None}

TypeOK == MemoryOK /\ BusOK /\ ListsOK /\ CbsOK /\ StepsOK /\ HeldOK

PortInv == job.pc = "parent" => objs[job.obj].port = job.port

\* What the user thread keeps a reference by, and when.
UserInv ==
  /\ user.pc \in OpenPcs => handle = None
  /\ user.pc \in {"poll", "copy"} /\ user.cb = None => list = {}
  /\ user.pc # "fire" => snap = {}
  /\ ~ batch.on => batch.msgs = <<>>

\* Free memory is blank; a device behind the hub may know the hub as its parent.
Sound(mem) ==
  /\ mem \in [Objects -> Device]
  /\ \A o \in Objects : mem[o].refs = 0 => mem[o] = Free
  /\ \A o \in Objects :
       mem[o].parent # None => mem[o].port = Leaf /\ mem[mem[o].parent].port = Hub

\* One that is not listed yet has not looked for its parent.
FreshInv ==
  /\ job.pc \in {"parent", "retry"} => objs[job.obj].parent = None
  /\ job.child # None => objs[job.child].parent = None

-----------------------------------------------------------------------------
(* Where the references to a device are.                                   *)

Child(mem, d, o) == mem[d].refs > 0 /\ mem[d].parent = o
Children(mem, o) == Cardinality({d \in Objects : Child(mem, d, o)})

\* The reference a device is made with, while it is not the leaked one: that of the
\* list, of the message that says it left, and of the work that makes it or takes it
\* off the list.
ListRef(o)  == One(o \in Range(devs))
LeftRefs(o) == LeftIn(msgs, o) + LeftIn(batch.msgs, o)
MakeRef(o)  == One(job.obj = o /\ job.pc \in {"parent", "retry", "left"}) + One(job.child = o)
Tied(o)     == ListRef(o) + LeftRefs(o) + MakeRef(o)

\* Those that come and go.
WorkRef(o)  == One(job.obj = o /\ job.pc \in {"left", "drop"})
UserRefs(o) == One(o \in list) + One(o \in snap) + One(handle = o) + One(user.obj = o)

Held == [o \in Objects |-> Tied(o) + WorkRef(o) + UserRefs(o)]

\* Besides those that a place holds, each child has one, and one may be leaked.
Balanced(mem, held) ==
  \A o \in Objects : mem[o].refs = held[o] + One(mem[o].leaked) + Children(mem, o)

CountInv == Balanced(objs, Held)

OnceInv == \A o \in Objects : Tied(o) + One(objs[o].leaked) <= 1

ListedOnce == \A i, j \in DOMAIN devs : devs[i] = devs[j] => i = j

FlowInv == BusOK /\ ListsOK /\ CbsOK /\ StepsOK /\ HeldOK /\ UserInv

MemInv == Sound(objs) /\ PortInv /\ FreshInv /\ CountInv /\ OnceInv /\ ListedOnce

-----------------------------------------------------------------------------
(* Lists.                                                                  *)

\* A set of numbers has a least.
LEMMA Least ==
  ASSUME NEW S \in SUBSET Nat, S # {}
  PROVE  \E u \in S : \A v \in S : u <= v
<1> DEFINE T == {0..n : n \in S}
<1>1. T \subseteq FiniteSubsetsOf(Nat)
  <2>1. \A n \in S : 0..n \in SUBSET Nat /\ IsFiniteSet(0..n)
    BY FS_Interval
  <2>2. QED
    BY <2>1 DEF FiniteSubsetsOf
<1>2. IsWellFoundedOn(StrictSubsetOrdering(Nat), FiniteSubsetsOf(Nat))
  BY FS_StrictSubsetOrderingWellFounded, Zenon
<1>3. T # {}
  OBVIOUS
<1>4. PICK X \in T : \A Y \in T : ~ (<<Y, X>> \in StrictSubsetOrdering(Nat))
  <2> HIDE DEF T
  <2>1. QED
    BY <1>1, <1>2, <1>3, WFMin, Zenon
<1>5. PICK u \in S : X = 0..u
  OBVIOUS
<1>6. ASSUME NEW v \in S, v < u
      PROVE  FALSE
  <2>1. 0..v \in T
    OBVIOUS
  <2>2. 0..v \subseteq 0..u /\ 0..v # 0..u /\ 0..v \in SUBSET Nat /\ 0..u \in SUBSET Nat
    <3>1. u \in 0..u /\ u \notin 0..v
      BY <1>6
    <3>2. QED
      BY <3>1, <1>6
  <2>3. <<0..v, 0..u>> \in StrictSubsetOrdering(Nat)
    BY <2>2 DEF StrictSubsetOrdering
  <2>4. QED
    BY <2>1, <2>3, <1>4, <1>5
<1>7. QED
  BY <1>6

LEMMA MinIsLeast ==
  ASSUME NEW S \in SUBSET Nat, S # {}
  PROVE  Min(S) \in S /\ \A v \in S : Min(S) <= v
  BY Least DEF Min

\* A list without its k-th element.
LEMMA RemoveAtDoes ==
  ASSUME NEW S, NEW q \in Seq(S), NEW k \in DOMAIN q
  PROVE  /\ RemoveAt(q, k) \in Seq(S)
         /\ Len(RemoveAt(q, k)) = Len(q) - 1
         /\ \A i \in 1..Len(q) - 1 : RemoveAt(q, k)[i] = IF i < k THEN q[i] ELSE q[i + 1]
<1> DEFINE n == Len(q)
           a == SubSeq(q, 1, k - 1)
           b == SubSeq(q, k + 1, n)
<1>1. n \in Nat /\ k \in 1..n /\ \A i \in 1..n : q[i] \in S
  BY LenProperties, ElementOfSeq
<1>2. a \in Seq(S) /\ Len(a) = k - 1 /\ \A i \in 1..k - 1 : a[i] = q[i]
  <2>1. \A i \in 1..(k - 1) : q[i] \in S
    BY <1>1
  <2>2. 1 \in Int /\ k - 1 \in Int
    BY <1>1
  <2>3. /\ a \in Seq(S)
        /\ Len(a) = IF 1 <= k - 1 THEN (k - 1) - 1 + 1 ELSE 0
        /\ \A i \in 1..(k - 1) - 1 + 1 : a[i] = q[1 + i - 1]
    BY <2>1, <2>2, SubSeqProperties
  <2>4. \A i \in 1..k - 1 : i \in 1..(k - 1) - 1 + 1 /\ 1 + i - 1 = i
    BY <1>1
  <2>5. QED
    BY <1>1, <2>3, <2>4
<1>3. b \in Seq(S) /\ Len(b) = n - k /\ \A i \in 1..n - k : b[i] = q[k + i]
  <2>1. \A i \in (k + 1)..n : q[i] \in S
    BY <1>1
  <2>2. k + 1 \in Int /\ n \in Int
    BY <1>1
  <2>3. /\ b \in Seq(S)
        /\ Len(b) = IF k + 1 <= n THEN n - (k + 1) + 1 ELSE 0
        /\ \A i \in 1..n - (k + 1) + 1 : b[i] = q[(k + 1) + i - 1]
    BY <2>1, <2>2, SubSeqProperties
  <2>4. \A i \in 1..n - k : i \in 1..n - (k + 1) + 1 /\ (k + 1) + i - 1 = k + i
    BY <1>1
  <2>5. QED
    BY <1>1, <2>3, <2>4
<1>4. RemoveAt(q, k) = a \o b
  BY DEF RemoveAt
<1> HIDE DEF a, b
<1>5. /\ a \o b \in Seq(S) /\ Len(a \o b) = Len(a) + Len(b)
      /\ \A i \in 1..Len(a) + Len(b) : (a \o b)[i] = IF i <= Len(a) THEN a[i] ELSE b[i - Len(a)]
  <2>1. a \in Seq(S) /\ b \in Seq(S)
    BY <1>2, <1>3
  <2>2. QED
    BY <2>1, ConcatProperties
<1>6. ASSUME NEW i \in 1..n - 1
      PROVE  (a \o b)[i] = IF i < k THEN q[i] ELSE q[i + 1]
  <2>0. n \in Nat /\ k \in 1..n /\ Len(a) = k - 1 /\ Len(b) = n - k
    BY <1>1, <1>2, <1>3
  <2>1. CASE i < k
    <3>1. i \in 1..k - 1 /\ i \in 1..Len(a) + Len(b) /\ i <= Len(a)
      BY <2>0, <2>1
    <3>2. QED
      BY <1>2, <1>5, <2>1, <3>1
  <2>2. CASE ~ (i < k)
    <3>1. i - (k - 1) \in 1..n - k /\ i \in 1..Len(a) + Len(b) /\ ~ (i <= Len(a))
          /\ k + (i - (k - 1)) = i + 1 /\ i - Len(a) = i - (k - 1)
      BY <2>0, <2>2
    <3>2. (a \o b)[i] = b[i - (k - 1)]
      BY <1>5, <3>1
    <3>3. b[i - (k - 1)] = q[i + 1]
      BY <1>3, <3>1
    <3>4. QED
      BY <2>2, <3>2, <3>3
  <2>3. QED
    BY <2>1, <2>2
<1>7. Len(a \o b) = n - 1
  BY <1>1, <1>2, <1>3, <1>5
<1> HIDE DEF n
<1>8. QED
  BY <1>4, <1>5, <1>6, <1>7 DEF n

-----------------------------------------------------------------------------
(* Types are kept, and a thread holds what it should where it is.          *)

LEMMA BusKept   == BusOK /\ UNCHANGED bus => BusOK'
  BY DEF BusOK, bus
LEMMA ListsKept == ListsOK /\ UNCHANGED <<devs, msgs>> => ListsOK'
  BY DEF ListsOK
LEMMA CbsKept   == CbsOK /\ UNCHANGED <<batch, cblist, told>> => CbsOK'
  BY DEF CbsOK, cblist, told
LEMMA StepsKept == StepsOK /\ UNCHANGED <<up, monitor, job, user>> => StepsOK'
  BY DEF StepsOK
LEMMA HeldKept  == HeldOK /\ UNCHANGED refs => HeldOK'
  BY DEF HeldOK, refs

LEMMA NoJobProper == Proper(NoJob) /\ NoJob.obj = None /\ NoJob.child = None
  BY DEF Proper, NoJob, Job, JobPcs, WorkPcs, Ports

LEMMA WorkProper ==
  ASSUME NEW by \in {"nobody", "monitor", "scan", "poll", "open"}, NEW m,
         m.addr \in Addresses \union {0}, m.port \in Ports
  PROVE  LET j == Work(by, m)
         IN  Proper(j) /\ j.obj = None /\ j.child = None
             /\ j.by = by /\ j.pc \in {"enumerate", "disconnect"}
  BY DEF Proper, Work, NoJob, Job, JobPcs, WorkPcs, Ports

LEMMA ResumeProper ==
  ASSUME Proper(job)
  PROVE  /\ Proper(Resume) /\ Resume.child = None
         /\ job.child # None => /\ Resume.pc = "retry" /\ Resume.obj = job.child
                                /\ job.child \in Objects
         /\ job.child = None => Resume.pc \in {"idle", "more"} /\ Resume.obj = None
<1>1. CASE job.child # None
  <2>1. job \in Job /\ job.child \in Objects
    BY <1>1 DEF Proper, Job
  <2>2. /\ Resume \in Job /\ Resume.pc = "retry" /\ Resume.obj = job.child
        /\ Resume.child = None
    BY <1>1, <2>1 DEF Resume, Job, JobPcs, WorkPcs
  <2>3. QED
    BY <1>1, <2>1, <2>2 DEF Proper, WorkPcs
<1>2. CASE job.child = None
  <2>1. CASE job.by \in {"monitor", "open"}
    <3>1. Resume = NoJob
      BY <1>2, <2>1 DEF Resume
    <3>2. QED
      BY <1>2, <3>1, NoJobProper DEF NoJob
  <2>2. CASE job.by \notin {"monitor", "open"}
    <3>1. job \in Job /\ Resume = [NoJob EXCEPT !.by = job.by, !.pc = "more"]
      BY <1>2, <2>2 DEF Proper, Resume
    <3>2. Resume \in Job /\ Resume.pc = "more" /\ Resume.obj = None /\ Resume.child = None
      BY <3>1 DEF NoJob, Job, JobPcs, Ports
    <3>3. QED
      BY <1>2, <3>2 DEF Proper, WorkPcs
  <2>3. QED
    BY <2>1, <2>2
<1>3. QED
  BY <1>1, <1>2

LEMMA IdleType ==
  ASSUME user \in User
  PROVE  /\ Idle \in User /\ Idle.pc = "idle" /\ Idle.obj = None /\ Idle.cb = None
         /\ \A pc \in UserPcs : /\ Calling(pc) \in User /\ Calling(pc).pc = pc
                                /\ Calling(pc).obj = None /\ Calling(pc).cb = None
<1>1. NotPlugged \in Plugs
  BY DEF NotPlugged, Plugs
<1>2. [p \in Ports |-> NotPlugged] \in [Ports -> Plugs]
  BY <1>1
<1>3. user.calls \in Nat
  BY DEF User
<1>4. Idle \in User /\ Idle.pc = "idle" /\ Idle.obj = None /\ Idle.cb = None
  BY <1>2, <1>3 DEF Idle, User, UserPcs
<1>5. ASSUME NEW pc \in UserPcs
      PROVE  /\ Calling(pc) \in User /\ Calling(pc).pc = pc
             /\ Calling(pc).obj = None /\ Calling(pc).cb = None
  <2>1. Idle.calls + 1 \in Nat
    BY <1>3 DEF Idle
  <2>2. Calling(pc) = [Idle EXCEPT !.pc = pc, !.calls = Idle.calls + 1]
    BY DEF Calling
  <2>3. QED
    BY <1>4, <2>1, <2>2 DEF User
<1>6. QED
  BY <1>4, <1>5

LEMMA KernelFlow ==
  ASSUME FlowInv, Kernel
  PROVE  FlowInv'
<1>1. /\ UNCHANGED <<up, monitor, lists, batch, cblist, job, user, refs, told>>
      /\ serial' = serial + 1
      /\ \E m \in Uevents : Deliver(m)
      /\ plugged' \in [Ports -> Plugs]
  <2>1. plugged \in [Ports -> Plugs] /\ serial \in Nat /\ serial + 1 \in Nat
    BY DEF FlowInv, BusOK
  <2>2. CASE OtherUevent
    <3>1. [kind |-> "other", addr |-> 0, port |-> Hub] \in Uevents
      BY DEF Uevents, Ports
    <3>2. QED
      BY <2>1, <2>2, <3>1 DEF OtherUevent
  <2>3. ASSUME NEW p \in Ports, Plug(p) PROVE <1>1!:
    <3>1. PICK a \in Addresses :
            /\ plugged' = [plugged EXCEPT ![p] = [addr |-> a, serial |-> serial']]
            /\ Deliver([kind |-> "add", addr |-> a, port |-> p])
      BY <2>3 DEF Plug
    <3>2. serial' = serial + 1 /\ [addr |-> a, serial |-> serial'] \in Plugs
      BY <2>1, <2>3 DEF Plug, Plugs
    <3>3. [kind |-> "add", addr |-> a, port |-> p] \in Uevents
      BY DEF Uevents
    <3>4. QED
      BY <2>1, <2>3, <3>1, <3>2, <3>3 DEF Plug
  <2>4. ASSUME NEW p \in Ports, Unplug(p) PROVE <1>1!:
    <3>1. NotPlugged \in Plugs /\ plugged[p].addr \in Addresses \union {0}
      BY <2>1 DEF NotPlugged, Plugs
    <3>2. [kind |-> "remove", addr |-> plugged[p].addr, port |-> p] \in Uevents
      BY <3>1 DEF Uevents
    <3>3. QED
      BY <2>1, <2>4, <3>1, <3>2 DEF Unplug
  <2>5. QED
    BY <2>2, <2>3, <2>4 DEF Kernel
<1>2. BusOK'
  <2>1. /\ queue \in Seq(Uevents) /\ lost \in BOOLEAN /\ monitor \in BOOLEAN
        /\ serial \in Nat
    BY DEF FlowInv, BusOK, StepsOK
  <2>2. PICK m \in Uevents : Deliver(m)
    BY <1>1
  <2>3. queue' \in Seq(Uevents)
    BY <2>1, <2>2, AppendProperties DEF Deliver
  <2>4. lost' \in BOOLEAN
    BY <2>1, <2>2 DEF Deliver
  <2>5. QED
    BY <1>1, <2>1, <2>3, <2>4 DEF BusOK
<1>3. UserInv'
  BY <1>1 DEF FlowInv, UserInv, refs
<1>4. QED
  BY <1>1, <1>2, <1>3, ListsKept, CbsKept, StepsKept, HeldKept DEF FlowInv, lists

LEMMA UserInvKept == UserInv /\ UNCHANGED <<user, refs, batch>> => UserInv'
  BY DEF UserInv, refs

LEMMA NewestListed ==
  ASSUME devs \in Seq(Objects), NEW I \in SUBSET (DOMAIN devs), I # {}
  PROVE  Min(I) \in I /\ Min(I) \in DOMAIN devs /\ devs[Min(I)] \in Objects
<1>1. DOMAIN devs = 1..Len(devs) /\ Len(devs) \in Nat /\ I \in SUBSET Nat
  BY LenProperties
<1>2. Min(I) \in I
  BY <1>1, MinIsLeast
<1>3. QED
  BY <1>1, <1>2, ElementOfSeq

LEMMA PushType ==
  ASSUME NEW o \in Objects, devs \in Seq(Objects)
  PROVE  /\ <<o>> \o devs \in Seq(Objects) /\ Len(<<o>> \o devs) = Len(devs) + 1
         /\ (<<o>> \o devs)[1] = o
         /\ \A i \in 1..Len(devs) : (<<o>> \o devs)[i + 1] = devs[i]
<1> DEFINE s == <<o>>
           q == s \o devs
<1>1. s \in Seq(Objects) /\ Len(s) = 1 /\ s[1] = o /\ Len(devs) \in Nat
  BY LenProperties
<1> HIDE DEF s
<1>2. /\ q \in Seq(Objects) /\ Len(q) = 1 + Len(devs)
      /\ \A i \in 1..1 + Len(devs) : q[i] = IF i <= 1 THEN s[i] ELSE devs[i - 1]
  <2>1. /\ q \in Seq(Objects) /\ Len(q) = Len(s) + Len(devs)
        /\ \A i \in 1..Len(s) + Len(devs) : q[i] = IF i <= Len(s) THEN s[i] ELSE devs[i - Len(s)]
    BY <1>1, ConcatProperties
  <2> HIDE DEF q
  <2>2. QED
    BY <1>1, <2>1
<1>3. 1 \in 1..1 + Len(devs) /\ \A i \in 1..Len(devs) :
         i + 1 \in 1..1 + Len(devs) /\ ~ (i + 1 <= 1) /\ (i + 1) - 1 = i
  BY <1>1
<1> HIDE DEF q
<1>4. q \in Seq(Objects) /\ Len(q) = Len(devs) + 1 /\ q[1] = o
      /\ \A i \in 1..Len(devs) : q[i + 1] = devs[i]
  BY <1>1, <1>2, <1>3
<1>5. QED
  BY <1>4 DEF q, s

LEMMA NotificationType ==
  ASSUME msgs \in Seq(Messages), NEW event \in {"arrived", "left"}, NEW o \in Objects,
         Notification(event, o)
  PROVE  msgs' \in Seq(Messages)
<1>1. [event |-> event, obj |-> o] \in Messages
  BY DEF Messages
<1>2. QED
  BY <1>1, AppendProperties DEF Notification

LEMMA EnumerationFlow ==
  ASSUME FlowInv, PortInv, Enumeration
  PROVE  FlowInv'
<1>0. /\ BusOK /\ ListsOK /\ CbsOK /\ StepsOK /\ HeldOK /\ UserInv /\ Proper(job) /\ job \in Job
      /\ devs \in Seq(Objects) /\ msgs \in Seq(Messages) /\ lost \in BOOLEAN
      /\ known \in [Callbacks -> SUBSET Objects] /\ owed \in [Callbacks -> SUBSET Objects]
  BY DEF FlowInv, BusOK, ListsOK, CbsOK, StepsOK, Proper
<1>1. Proper(Resume)
  BY <1>0, ResumeProper
<1>2. job.pc \in WorkPcs => job.obj \in Objects
  BY <1>0 DEF Proper, Job
<1> DEFINE Kept == /\ UNCHANGED <<up, monitor, batch, cblist, user, refs>>
                   /\ BusOK' /\ devs' \in Seq(Objects) /\ msgs' \in Seq(Messages)
                   /\ Proper(job') /\ known' \in [Callbacks -> SUBSET Objects]
                   /\ owed' \in [Callbacks -> SUBSET Objects]
<1>3. ASSUME EnumerateDevice PROVE Kept
  <2>1. UNCHANGED <<plugged, serial, queue, up, monitor, devs, msgs, batch, cblist, user, refs, owed>>
    BY <1>3 DEF EnumerateDevice
  <2>2. CASE job' = Resume /\ lost' = (lost \/ InUse = Objects) /\ known' = known
    <3>1. lost' \in BOOLEAN
      BY <1>0, <2>2
    <3>2. BusOK'
      BY <1>0, <2>1, <3>1 DEF BusOK
    <3>3. QED
      BY <1>0, <1>1, <2>1, <2>2, <3>2
  <2>3. ASSUME NEW o \in Objects, job' = [job EXCEPT !.pc = "parent", !.obj = o], lost' = lost,
               known' = [c \in Callbacks |-> known[c] \ {o}], job.pc = "enumerate"
        PROVE  Kept
    <3>1. Proper(job')
      BY <1>0, <2>3 DEF Proper, Job, JobPcs, WorkPcs
    <3>2. BusOK'
      BY <1>0, <2>1, <2>3 DEF BusOK
    <3>3. known' \in [Callbacks -> SUBSET Objects]
      BY <1>0, <2>3
    <3>4. QED
      BY <1>0, <2>1, <3>1, <3>2, <3>3
  <2>4. InUse # Objects => (CHOOSE x \in Objects \ InUse : TRUE) \in Objects
    BY DEF InUse
  <2>5. QED
    BY Zenon, <1>3, <2>2, <2>3, <2>4 DEF EnumerateDevice
<1>4. ASSUME EnumerateParent PROVE Kept
  <2>0. job.pc = "parent" /\ job.child = None
    <3>1. job.pc = "parent" /\ job.port = Leaf
      BY <1>4 DEF EnumerateParent, ParentFirst, BehindHub, PortInv
    <3>2. QED
      BY <1>0, <3>1 DEF Proper
  <2>1. /\ job' = [job EXCEPT !.pc = "enumerate", !.child = job.obj, !.obj = None,
                              !.addr = plugged[Hub].addr, !.port = Hub]
        /\ UNCHANGED <<bus, up, monitor, lists, batch, cblist, user, refs, told>>
    BY <1>4 DEF EnumerateParent, GetDeviceAddress
  <2>2. plugged[Hub].addr \in Addresses \union {0} /\ Hub \in Ports
    BY <1>0 DEF BusOK, Plugs, Ports
  <2>3. Proper(job')
    BY <1>0, <2>0, <2>1, <2>2 DEF Proper, Job, JobPcs, WorkPcs
  <2>4. QED
    BY <1>0, <2>1, <2>3, BusKept DEF lists, told
<1>5. ASSUME ConnectDevice PROVE Kept
  <2>1. /\ job.pc \in {"parent", "retry"} /\ devs' = <<job.obj>> \o devs
        /\ owed' = [c \in Callbacks |-> IF c \in Armed THEN owed[c] \union {job.obj} ELSE owed[c]]
        /\ job' = [job EXCEPT !.pc = "arrived"]
        /\ UNCHANGED <<bus, up, monitor, msgs, batch, cblist, user, refs, known>>
    BY <1>5 DEF ConnectDevice, AttachDevice
  <2>2. job.obj \in Objects
    BY <1>2, <2>1 DEF WorkPcs
  <2>3. devs' \in Seq(Objects)
    BY <1>0, <2>1, <2>2, PushType
  <2>4. owed' \in [Callbacks -> SUBSET Objects]
    BY <1>0, <2>1, <2>2
  <2>5. Proper(job')
    BY <1>0, <2>1 DEF Proper, Job, JobPcs, WorkPcs
  <2>6. QED
    BY <1>0, <2>1, <2>3, <2>4, <2>5, BusKept
<1>6. ASSUME NotifyArrived PROVE Kept
  <2>1. /\ job.pc = "arrived" /\ Notification("arrived", job.obj) /\ job' = Resume
        /\ UNCHANGED <<bus, up, monitor, objs, devs, batch, cblist, user, refs, told>>
    BY <1>6 DEF NotifyArrived
  <2>2. msgs' \in Seq(Messages)
    BY <1>0, <1>2, <2>1, NotificationType DEF WorkPcs
  <2>3. QED
    BY <1>0, <1>1, <2>1, <2>2, BusKept DEF told
<1>7. ASSUME DeviceDisconnected PROVE Kept
  <2>1. UNCHANGED <<bus, up, monitor, msgs, batch, cblist, user, refs, known>>
    BY <1>7 DEF DeviceDisconnected
  <2>2. CASE WithSessionId(job.addr) = {}
    <3>1. job' = Resume /\ devs' = devs /\ owed' = owed
      BY <1>7, <2>2 DEF DeviceDisconnected
    <3>2. QED
      BY <1>0, <1>1, <2>1, <3>1, BusKept
  <2>3. CASE WithSessionId(job.addr) # {}
    <3> DEFINE i == Min(WithSessionId(job.addr))
    <3>1. i \in DOMAIN devs /\ devs[i] \in Objects
      BY <1>0, <2>3, NewestListed DEF WithSessionId
    <3>2. /\ job.pc = "disconnect" /\ devs' = RemoveAt(devs, i)
          /\ owed' = [c \in Callbacks |-> owed[c] \ {devs[i]}]
          /\ job' = [job EXCEPT !.pc = "left", !.obj = devs[i]]
      BY <1>7, <2>3 DEF DeviceDisconnected, DetachDevice
    <3>3. devs' \in Seq(Objects)
      BY <1>0, <3>1, <3>2, RemoveAtDoes
    <3>4. owed' \in [Callbacks -> SUBSET Objects]
      BY <1>0, <3>1, <3>2
    <3>5. Proper(job')
      BY <1>0, <3>1, <3>2 DEF Proper, Job, JobPcs, WorkPcs
    <3>6. QED
      BY <1>0, <2>1, <3>3, <3>4, <3>5, BusKept
  <2>4. QED
    BY <2>2, <2>3
<1>8. ASSUME NotifyLeft PROVE Kept
  <2>1. /\ job.pc = "left" /\ Notification("left", job.obj)
        /\ job' = [job EXCEPT !.pc = "drop"]
        /\ UNCHANGED <<bus, up, monitor, devs, batch, cblist, user, refs, told>>
    BY <1>8 DEF NotifyLeft
  <2>2. msgs' \in Seq(Messages)
    BY <1>0, <1>2, <2>1, NotificationType DEF WorkPcs
  <2>3. Proper(job')
    BY <1>0, <2>1 DEF Proper, Job, JobPcs, WorkPcs
  <2>4. QED
    BY <1>0, <2>1, <2>2, <2>3, BusKept DEF told
<1>9. ASSUME DropFound PROVE Kept
  <2>1. job' = Resume /\ UNCHANGED <<bus, up, monitor, devs, msgs, batch, cblist, user, refs, told>>
    BY <1>9 DEF DropFound
  <2>2. QED
    BY <1>0, <1>1, <2>1, BusKept DEF told
<1>10. Kept
  BY <1>3, <1>4, <1>5, <1>6, <1>7, <1>8, <1>9 DEF Enumeration
<1>11. ListsOK' /\ HeldOK' /\ UserInv'
  BY <1>0, <1>10, HeldKept, UserInvKept DEF ListsOK
<1>12. CbsOK'
  BY <1>0, <1>10 DEF CbsOK, cblist
<1>13. StepsOK'
  BY <1>0, <1>10 DEF StepsOK
<1>14. QED
  BY <1>10, <1>11, <1>12, <1>13 DEF FlowInv

LEMMA ReadType ==
  ASSUME BusOK, queue # <<>>, NEW by \in {"monitor", "poll"}, ReadMessage(by)
  PROVE  queue' \in Seq(Uevents) /\ Proper(job') /\ job'.obj = None /\ job'.child = None
<1>1. queue \in Seq(Uevents)
  BY DEF BusOK
<1>2. Head(queue) \in Uevents /\ Tail(queue) \in Seq(Uevents)
  BY <1>1, HeadTailProperties
<1>3. Head(queue).addr \in Addresses \union {0} /\ Head(queue).port \in Ports
  BY <1>2 DEF Uevents
<1>4. QED
  BY <1>2, <1>3, WorkProper, NoJobProper DEF ReadMessage

LEMMA MonitorFlow ==
  ASSUME FlowInv, Monitor
  PROVE  FlowInv'
<1>1. /\ queue # <<>> /\ ReadMessage("monitor")
      /\ UNCHANGED <<plugged, serial, lost, up, monitor, lists, batch, cblist, user, refs, told>>
  BY DEF Monitor
<1>2. queue' \in Seq(Uevents) /\ Proper(job')
  BY <1>1, ReadType DEF FlowInv
<1>3. BusOK' /\ StepsOK'
  BY <1>1, <1>2 DEF FlowInv, BusOK, StepsOK
<1>4. QED
  BY <1>1, <1>3, ListsKept, CbsKept, HeldKept, UserInvKept DEF FlowInv, lists

LEMMA HotplugFlow ==
  ASSUME FlowInv, HotplugProcess
  PROVE  FlowInv'
<1>0. /\ batch \in Batch /\ cbs \in SUBSET Callbacks /\ needsFree \in SUBSET Callbacks
      /\ known \in [Callbacks -> SUBSET Objects] /\ owed \in [Callbacks -> SUBSET Objects]
      /\ batch.msgs \in Seq(Messages) /\ batch.rest \in SUBSET Callbacks
      /\ (~ batch.on => batch.msgs = <<>>) /\ msgs \in Seq(Messages) /\ devs \in Seq(Objects)
  BY DEF FlowInv, CbsOK, UserInv, ListsOK, Batch
<1>1. /\ UNCHANGED <<bus, up, monitor, devs, job, user, refs>>
      /\ msgs' \in Seq(Messages) /\ CbsOK' /\ (~ batch'.on => batch'.msgs = <<>>)
  <2> DEFINE Kept == <1>1!:
  <2>1. ASSUME TakeMessages PROVE <1>1!:
    <3>1. /\ batch' = [on |-> TRUE, deregistered |-> FALSE, msgs |-> msgs, rest |-> cbs]
          /\ msgs' = <<>>
          /\ UNCHANGED <<bus, up, monitor, objs, devs, cblist, job, user, refs, told>>
      BY <2>1 DEF TakeMessages
    <3>2. batch' \in Batch /\ batch'.on
      BY <1>0, <3>1 DEF Batch
    <3>3. msgs' \in Seq(Messages)
      BY <3>1, EmptySeq
    <3>4. QED
      BY <1>0, <3>1, <3>2, <3>3 DEF CbsOK, cblist, told
  <2>2. ASSUME CallBack PROVE <1>1!:
    <3>1. /\ batch.on /\ batch.msgs # <<>>
          /\ UNCHANGED <<bus, up, monitor, lists, job, user, refs>>
      BY <2>2 DEF CallBack
    <3>2. PICK c \in batch.rest :
            /\ batch' = [batch EXCEPT !.rest = batch.rest \ {c}]
            /\ \/ UNCHANGED <<cblist, told>>
               \/ \E finished \in BOOLEAN :
                    /\ known' = [known EXCEPT ![c] = IF finished THEN {} ELSE Learn(c, Head(batch.msgs))]
                    /\ owed' = IF finished THEN [owed EXCEPT ![c] = {}] ELSE owed
                    /\ cbs' = IF finished THEN cbs \ {c} ELSE cbs
                    /\ needsFree' = needsFree
      BY <2>2 DEF CallBack
    <3>3. c \in Callbacks /\ batch' \in Batch /\ batch'.on
      BY <1>0, <3>1, <3>2 DEF Batch
    <3>4. Learn(c, Head(batch.msgs)) \in SUBSET Objects
      <4>1. Head(batch.msgs) \in Messages
        BY <1>0, <3>1, HeadTailProperties
      <4>2. Head(batch.msgs).obj \in Objects /\ known[c] \in SUBSET Objects
        BY <1>0, <3>3, <4>1 DEF Messages
      <4>3. QED
        BY <4>2 DEF Learn
    <3>5. /\ known' \in [Callbacks -> SUBSET Objects] /\ owed' \in [Callbacks -> SUBSET Objects]
          /\ cbs' \in SUBSET Callbacks /\ needsFree' \in SUBSET Callbacks
      BY <1>0, <3>2, <3>3, <3>4 DEF cblist, told
    <3>6. QED
      BY <1>0, <3>1, <3>3, <3>5 DEF CbsOK, lists
  <2>3. ASSUME MessageDone PROVE <1>1!:
    <3>1. /\ batch.on /\ batch.msgs # <<>>
          /\ batch' = [batch EXCEPT !.msgs = Tail(batch.msgs), !.rest = cbs]
          /\ UNCHANGED <<bus, up, monitor, devs, msgs, cblist, job, user, refs, told>>
      BY <2>3 DEF MessageDone
    <3>2. Tail(batch.msgs) \in Seq(Messages)
      BY <1>0, <3>1, HeadTailProperties
    <3>3. batch' \in Batch /\ batch'.on
      BY <1>0, <3>1, <3>2 DEF Batch
    <3>4. QED
      BY <1>0, <3>1, <3>3 DEF CbsOK, cblist, told
  <2>4. ASSUME FreeUnregistered PROVE <1>1!:
    <3>1. /\ batch.msgs = <<>> /\ cbs' = Armed /\ needsFree' = {}
          /\ batch' = [batch EXCEPT !.on = FALSE, !.rest = {}]
          /\ known' = [c \in Callbacks |-> IF c \in needsFree THEN {} ELSE known[c]]
          /\ owed' = [c \in Callbacks |-> IF c \in needsFree THEN {} ELSE owed[c]]
          /\ UNCHANGED <<bus, up, monitor, lists, job, user, refs>>
      BY <2>4 DEF FreeUnregistered
    <3>2. batch' \in Batch /\ batch'.msgs = <<>>
      BY <1>0, <3>1 DEF Batch
    <3>3. cbs' \in SUBSET Callbacks /\ needsFree' \in SUBSET Callbacks
      BY <1>0, <3>1 DEF Armed
    <3>4. known' \in [Callbacks -> SUBSET Objects] /\ owed' \in [Callbacks -> SUBSET Objects]
      BY <1>0, <3>1
    <3>5. QED
      BY <1>0, <3>1, <3>2, <3>3, <3>4 DEF CbsOK, lists
  <2>5. QED
    BY <2>1, <2>2, <2>3, <2>4 DEF HotplugProcess
<1>2. ListsOK'
  BY <1>0, <1>1 DEF ListsOK
<1>3. UserInv'
  BY <1>1 DEF FlowInv, UserInv, refs
<1>4. QED
  BY <1>1, <1>2, <1>3, BusKept, StepsKept, HeldKept DEF FlowInv

LEMMA SetUpFlow ==
  ASSUME FlowInv, SetUpTearDown
  PROVE  FlowInv'
<1>0. /\ BusOK /\ ListsOK /\ CbsOK /\ StepsOK /\ HeldOK /\ UserInv /\ Proper(job) /\ user \in User
      /\ devs \in Seq(Objects) /\ msgs \in Seq(Messages) /\ batch \in Batch
  BY DEF FlowInv, StepsOK, ListsOK, CbsOK
<1>1. /\ Idle \in User /\ Idle.pc = "idle" /\ Idle.obj = None
      /\ \A pc \in UserPcs : /\ Calling(pc) \in User /\ Calling(pc).pc = pc
                             /\ Calling(pc).obj = None
  BY <1>0, IdleType
<1> DEFINE Kept == /\ UNCHANGED refs /\ BusOK' /\ ListsOK' /\ CbsOK'
                   /\ batch'.on = batch.on /\ batch'.msgs = batch.msgs
                   /\ up' \in {"down", "scan", "ready", "stopping"} /\ monitor' \in BOOLEAN
                   /\ Proper(job') /\ user' \in User /\ user'.obj = None
                   /\ user'.pc \notin OpenPcs \union {"poll", "copy", "fire"} /\ user.pc # "fire"
<1>2. /\ up \in {"down", "scan", "ready", "stopping"} /\ monitor \in BOOLEAN
      /\ user.pc \notin OpenPcs => user.obj = None
  BY <1>0 DEF StepsOK
<1>3. \A pc \in UserPcs, todo \in SUBSET (Ports \union Objects) :
        LET u == [user EXCEPT !.pc = pc, !.todo = todo]
        IN  u \in User /\ u.pc = pc /\ u.obj = user.obj
  BY <1>0 DEF User
<1>4. \A pc \in UserPcs : LET u == [user EXCEPT !.pc = pc]
                         IN  u \in User /\ u.pc = pc /\ u.obj = user.obj
  BY <1>0 DEF User
<1>5. \A p : LET u == [user EXCEPT !.todo = @ \ {p}]
             IN  u \in User /\ u.pc = user.pc /\ u.obj = user.obj
  BY <1>0 DEF User
<1>6. ASSUME InitContext \/ HotplugInit PROVE Kept
  <2>1. /\ user.pc \in {"idle", "scanned"} /\ up' \in {"scan", "ready"}
        /\ user' \in {Calling("start"), Idle}
        /\ UNCHANGED <<bus, monitor, lists, batch, cblist, job, refs, told>>
    BY <1>6 DEF InitContext, HotplugInit
  <2>2. user' \in User /\ user'.pc \in {"start", "idle"} /\ user'.obj = None
    BY <1>1, <2>1 DEF UserPcs
  <2>3. QED
    BY <1>0, <1>2, <2>1, <2>2, BusKept, ListsKept, CbsKept DEF lists, OpenPcs
<1>7. ASSUME StartMonitor PROVE Kept
  <2>1. /\ user.pc = "start" /\ monitor' = TRUE /\ queue' = <<>> /\ lost' = FALSE
        /\ user' = [user EXCEPT !.pc = "started"]
        /\ UNCHANGED <<plugged, serial, up, lists, batch, cblist, job, refs, told>>
    BY <1>7 DEF StartMonitor
  <2>2. BusOK'
    BY <1>0, <2>1, EmptySeq DEF BusOK
  <2>3. QED
    BY <1>0, <1>2, <1>4, <2>1, <2>2, ListsKept, CbsKept DEF lists, OpenPcs, UserPcs
<1>8. ASSUME ScanDevices PROVE Kept
  <2>1. /\ user.pc = "started" /\ job' = [NoJob EXCEPT !.by = "scan", !.pc = "more"]
        /\ user' = [user EXCEPT !.pc = "scan", !.todo = Ports]
        /\ UNCHANGED <<bus, up, monitor, lists, batch, cblist, refs, told>>
    BY <1>8 DEF ScanDevices
  <2>2. Proper(job')
    BY <2>1 DEF Proper, NoJob, Job, JobPcs, WorkPcs, Ports
  <2>3. QED
    <3>1. "scan" \in UserPcs /\ Ports \in SUBSET (Ports \union Objects) /\ user.pc \notin OpenPcs
      BY <2>1 DEF UserPcs, OpenPcs
    <3>2. user' \in User /\ user'.pc = "scan" /\ user'.obj = None
      BY Zenon, <1>2, <1>3, <2>1, <3>1
    <3>3. QED
      BY <1>0, <1>2, <2>1, <2>2, <3>2, BusKept, ListsKept, CbsKept DEF lists, OpenPcs
<1>9. ASSUME NEW p \in Ports, ScanDevice(p) PROVE Kept
  <2>1. /\ user.pc = "scan" /\ user' = [user EXCEPT !.todo = @ \ {p}]
        /\ job' = job \/ job' = Work("scan", [kind |-> "add", addr |-> plugged[p].addr, port |-> p])
        /\ UNCHANGED <<bus, up, monitor, lists, batch, cblist, refs, told>>
    BY <1>9 DEF ScanDevice, GetDeviceAddress
  <2>2. plugged[p].addr \in Addresses \union {0}
    BY <1>0 DEF BusOK, Plugs
  <2>3. Proper(Work("scan", [kind |-> "add", addr |-> plugged[p].addr, port |-> p]))
    BY <2>2, WorkProper
  <2>4. QED
    BY <1>0, <1>2, <1>5, <2>1, <2>3, BusKept, ListsKept, CbsKept DEF lists, OpenPcs
<1>10. ASSUME ScanDone \/ Exit PROVE Kept
  <2>1. /\ user.pc \in {"scan", "idle"} /\ job' \in {NoJob, job} /\ up' \in {up, "stopping"}
        /\ user' \in {[user EXCEPT !.pc = "scanned"], [user EXCEPT !.pc = "hotplug_exit"]}
        /\ UNCHANGED <<bus, monitor, lists, batch, cblist, refs, told>>
    BY <1>10 DEF ScanDone, Exit
  <2>2. /\ user' \in User /\ user'.pc \in {"scanned", "hotplug_exit"} /\ user'.obj = None
        /\ user.pc \notin OpenPcs
    <3>1. user.pc \notin OpenPcs /\ user.obj = None
      BY <1>2, <2>1 DEF OpenPcs
    <3>2. "scanned" \in UserPcs /\ "hotplug_exit" \in UserPcs
      BY DEF UserPcs
    <3>3. \A pc \in {"scanned", "hotplug_exit"} : LET u == [user EXCEPT !.pc = pc]
                             IN  u \in User /\ u.pc = pc /\ u.obj = None
      BY <1>4, <3>1, <3>2
    <3>4. QED
      BY <2>1, <3>1, <3>3
  <2>3. QED
    BY <1>0, <1>2, <2>1, <2>2, NoJobProper, BusKept, ListsKept, CbsKept DEF lists, OpenPcs
<1>11. ASSUME HotplugExit PROVE Kept
  <2>1. /\ user.pc = "hotplug_exit" /\ cbs' = {} /\ needsFree' = {}
        /\ batch' = [batch EXCEPT !.deregistered = FALSE]
        /\ known' = [c \in Callbacks |-> {}] /\ owed' = [c \in Callbacks |-> {}]
        /\ user' = [user EXCEPT !.pc = "free"]
        /\ UNCHANGED <<bus, up, monitor, lists, job, refs>>
    BY <1>11 DEF HotplugExit
  <2>2. batch' \in Batch /\ batch'.on = batch.on /\ batch'.msgs = batch.msgs
    BY <1>0, <2>1 DEF Batch
  <2>3. CbsOK'
    BY <2>1, <2>2 DEF CbsOK
  <2>4. QED
    BY <1>0, <1>2, <1>4, <2>1, <2>2, <2>3, BusKept, ListsKept DEF lists, OpenPcs, UserPcs
<1>12. ASSUME FreeMessage \/ FreeDevice PROVE Kept
  <2>1. /\ user.pc = "free"
        /\ (msgs # <<>> /\ msgs' = Tail(msgs) /\ devs' = devs)
           \/ (devs # <<>> /\ devs' = Tail(devs) /\ msgs' = msgs)
        /\ UNCHANGED <<bus, up, monitor, batch, cblist, job, user, refs, told>>
    BY <1>12 DEF FreeMessage, FreeDevice
  <2>2. ListsOK'
    <3>1. msgs # <<>> => Tail(msgs) \in Seq(Messages)
      BY <1>0, HeadTailProperties
    <3>2. devs # <<>> => Tail(devs) \in Seq(Objects)
      BY <1>0, HeadTailProperties
    <3>3. QED
      BY <1>0, <2>1, <3>1, <3>2 DEF ListsOK
  <2>3. QED
    BY <1>0, <1>2, <2>1, <2>2, BusKept, CbsKept DEF OpenPcs
<1>13. ASSUME StopMonitor PROVE Kept
  <2>1. /\ user.pc = "free" /\ up' = "down" /\ monitor' = FALSE /\ queue' = <<>>
        /\ user' = Idle
        /\ UNCHANGED <<plugged, serial, lost, lists, batch, cblist, job, refs, told>>
    BY <1>13 DEF StopMonitor
  <2>2. BusOK'
    BY <1>0, <2>1, EmptySeq DEF BusOK
  <2>3. QED
    BY <1>0, <1>1, <1>2, <2>1, <2>2, ListsKept, CbsKept DEF lists, OpenPcs
<1>14. Kept
  BY <1>6, <1>7, <1>8, <1>9, <1>10, <1>11, <1>12, <1>13 DEF SetUpTearDown
<1>15. UserInv'
  <2>1. snap = {} /\ (~ batch.on => batch.msgs = <<>>)
    BY <1>0, <1>14 DEF UserInv
  <2>2. QED
    BY <1>14, <2>1 DEF UserInv, refs
<1>16. StepsOK' /\ HeldOK'
  BY <1>0, <1>14, HeldKept DEF StepsOK
<1>17. QED
  BY <1>14, <1>15, <1>16 DEF FlowInv

\* What the user thread turns to: an idle thread holds no more than its list and handle.
LEMMA UserFlow ==
  ASSUME FlowInv, BusOK', ListsOK', CbsOK', HeldOK',
         UNCHANGED <<up, monitor>>, batch'.on = batch.on, batch'.msgs = batch.msgs,
         Proper(job'), user' \in User, user'.obj # None <=> user'.pc \in OpenPcs,
         user'.pc \in OpenPcs => handle' = None,
         user'.pc \in {"poll", "copy"} /\ user'.cb = None => list' = {},
         user'.pc # "fire" => snap' = {}
  PROVE  FlowInv'
<1>1. UserInv'
  BY DEF FlowInv, UserInv
<1>2. StepsOK'
  BY DEF FlowInv, StepsOK
<1>3. QED
  BY <1>1, <1>2 DEF FlowInv

LEMMA RangeType ==
  ASSUME devs \in Seq(Objects)
  PROVE  Range(devs) \in SUBSET Objects
<1>1. \A i \in DOMAIN devs : devs[i] \in Objects
  BY LenProperties, ElementOfSeq
<1>2. QED
  BY <1>1 DEF Range

LEMMA DeviceListsFlow ==
  ASSUME FlowInv, DeviceLists
  PROVE  FlowInv'
<1>0. /\ BusOK /\ ListsOK /\ CbsOK /\ HeldOK /\ UserInv /\ Proper(job) /\ user \in User
      /\ user.obj # None <=> user.pc \in OpenPcs
      /\ devs \in Seq(Objects) /\ list \in SUBSET Objects /\ snap \in SUBSET Objects
  BY DEF FlowInv, StepsOK, ListsOK, HeldOK
<1>1. /\ Idle \in User /\ Idle.pc = "idle" /\ Idle.obj = None
      /\ Calling("poll") \in User /\ Calling("poll").pc = "poll" /\ Calling("poll").obj = None
  BY <1>0, IdleType DEF UserPcs
<1>2. CASE GetDeviceList
  <2>1. /\ user.pc = "idle" /\ list = {}
        /\ user' = [Calling("poll") EXCEPT !.asked = plugged, !.since = serial]
        /\ UNCHANGED <<bus, up, monitor, lists, batch, cblist, job, refs, told>>
    BY <1>2 DEF GetDeviceList, Ready
  <2>2. user' \in User /\ user'.pc = "poll" /\ user'.obj = None
    BY <1>0, <1>1, <2>1 DEF User, BusOK
  <2>3. snap' = {} /\ list' = {} /\ "poll" \notin OpenPcs
    BY <1>0, <2>1 DEF UserInv, refs, OpenPcs
  <2>4. BusOK' /\ ListsOK' /\ CbsOK' /\ HeldOK'
    BY <1>0, <2>1, BusKept, ListsKept, CbsKept, HeldKept DEF lists
  <2>5. QED
    BY <1>0, <2>1, <2>2, <2>3, <2>4, UserFlow
<1>3. CASE HotplugPoll
  <2>1. /\ user.pc = "poll" /\ "poll" \notin OpenPcs /\ "copy" \notin OpenPcs /\ "copy" \in UserPcs
        /\ UNCHANGED <<plugged, serial, lost, up, monitor, lists, batch, cblist, refs, told>>
    BY <1>3 DEF HotplugPoll, OpenPcs, UserPcs
  <2>2. queue' \in Seq(Uevents) /\ Proper(job')
    <3>1. CASE queue = <<>>
      BY <1>0, <1>3, <3>1, NoJobProper DEF HotplugPoll, BusOK
    <3>2. CASE queue # <<>>
      BY <1>0, <1>3, <3>2, ReadType DEF HotplugPoll
    <3>3. QED
      BY <3>1, <3>2
  <2>3. /\ user' \in User /\ user'.pc \in {"poll", "copy"} /\ user'.obj = None
        /\ user'.cb = user.cb
    <3>1. user' \in {user, [user EXCEPT !.pc = "copy"], [user EXCEPT !.pc = "copy", !.cut = TRUE]}
      BY <1>3 DEF HotplugPoll
    <3>2. user.obj = None
      BY <1>0, <2>1
    <3>3. CASE user' = user
      BY <1>0, <2>1, <3>2, <3>3
    <3>4. CASE user' = [user EXCEPT !.pc = "copy"]
      BY <1>0, <2>1, <3>2, <3>4 DEF User
    <3>5. CASE user' = [user EXCEPT !.pc = "copy", !.cut = TRUE]
      BY <1>0, <2>1, <3>2, <3>5 DEF User
    <3>6. QED
      BY <3>1, <3>3, <3>4, <3>5
  <2>4. snap' = {} /\ (user.cb = None => list' = {})
    BY <1>0, <2>1 DEF UserInv, refs
  <2>5. BusOK' /\ ListsOK' /\ CbsOK' /\ HeldOK'
    BY <1>0, <2>1, <2>2, ListsKept, CbsKept, HeldKept DEF lists, BusOK
  <2>6. QED
    BY <1>0, <2>1, <2>2, <2>3, <2>4, <2>5, UserFlow
<1>4. CASE CopyList
  <2>1. /\ user.pc = "copy" /\ handle' = handle
        /\ UNCHANGED <<bus, up, monitor, devs, msgs, batch, cblist, job, told>>
        /\ Range(devs) \in SUBSET Objects
    BY <1>0, <1>4, RangeType DEF CopyList
  <2>2. snap = {}
    BY <1>0, <2>1 DEF UserInv
  <2>3. CASE user.cb = None
    <3>1. list' = Range(devs) /\ user' = Idle /\ snap' = snap
      BY <1>4, <2>3 DEF CopyList
    <3>2. BusOK' /\ ListsOK' /\ CbsOK' /\ HeldOK' /\ "idle" \notin OpenPcs
      BY <1>0, <2>1, <3>1, BusKept, ListsKept, CbsKept DEF HeldOK, OpenPcs
    <3>3. QED
      BY <1>0, <1>1, <2>1, <2>2, <3>1, <3>2, UserFlow
  <2>4. CASE user.cb # None
    <3>1. snap' = Range(devs) /\ list' = list
          /\ user' = [user EXCEPT !.pc = "fire", !.todo = Range(devs)]
      BY <1>4, <2>4 DEF CopyList
    <3>2. user' \in User /\ user'.pc = "fire" /\ user'.obj = None
      BY <1>0, <2>1, <3>1 DEF User, UserPcs, OpenPcs
    <3>3. BusOK' /\ ListsOK' /\ CbsOK' /\ HeldOK' /\ "fire" \notin OpenPcs
      BY <1>0, <2>1, <3>1, BusKept, ListsKept, CbsKept DEF HeldOK, OpenPcs
    <3>4. QED
      BY <1>0, <2>1, <3>1, <3>2, <3>3, UserFlow
  <2>5. QED
    BY <2>3, <2>4
<1>5. ASSUME NEW o \in Objects, FreeDeviceList(o) PROVE FlowInv'
  <2>1. /\ user.pc \in {"idle", "free_list"} /\ list' = list \ {o}
        /\ \E pc \in {"idle", "free_list"} : user' = [user EXCEPT !.pc = pc]
        /\ UNCHANGED <<bus, up, monitor, devs, msgs, batch, cblist, job, snap, handle, told>>
    BY <1>5 DEF FreeDeviceList
  <2>2. /\ user.obj = None /\ snap = {} /\ "idle" \notin OpenPcs /\ "free_list" \notin OpenPcs
        /\ {"idle", "free_list"} \subseteq UserPcs
    BY <1>0, <2>1 DEF UserInv, OpenPcs, UserPcs
  <2>3. user' \in User /\ user'.pc \in {"idle", "free_list"} /\ user'.obj = None
    BY <1>0, <2>1, <2>2 DEF User
  <2>4. BusOK' /\ ListsOK' /\ CbsOK' /\ HeldOK'
    BY <1>0, <2>1, BusKept, ListsKept, CbsKept DEF HeldOK
  <2>5. QED
    BY <1>0, <2>1, <2>2, <2>3, <2>4, UserFlow
<1>6. QED
  BY <1>2, <1>3, <1>4, <1>5 DEF DeviceLists

LEMMA OpenAndCloseFlow ==
  ASSUME FlowInv, objs \in [Objects -> Device], OpenAndClose
  PROVE  FlowInv'
<1>0. /\ BusOK /\ ListsOK /\ CbsOK /\ HeldOK /\ UserInv /\ Proper(job) /\ user \in User
      /\ user.obj # None <=> user.pc \in OpenPcs
      /\ known \in [Callbacks -> SUBSET Objects] /\ list \in SUBSET Objects
      /\ snap \in SUBSET Objects
  BY DEF FlowInv, StepsOK, HeldOK, CbsOK
<1>1. /\ Idle \in User /\ Idle.pc = "idle" /\ Idle.obj = None
      /\ Calling("idle") \in User /\ Calling("idle").pc = "idle" /\ Calling("idle").obj = None
  BY <1>0, IdleType DEF UserPcs
<1>2. "idle" \notin OpenPcs /\ {"open", "gone", "failed"} \subseteq OpenPcs
      /\ {"open", "gone", "failed"} \subseteq UserPcs
  BY DEF OpenPcs, UserPcs
<1>3. \A pc \in {"open", "gone", "failed"} :
        /\ pc \in OpenPcs /\ pc \notin {"poll", "copy", "fire"}
        /\ LET u == [user EXCEPT !.pc = pc] IN u \in User /\ u.pc = pc /\ u.obj = user.obj
        /\ \A o \in Objects : LET u == [user EXCEPT !.pc = pc, !.obj = o]
                              IN  u \in User /\ u.pc = pc /\ u.obj = o
  BY Zenon, <1>0, <1>2 DEF User
<1>4. \A o \in Objects : o # None
  OBVIOUS
<1>5. user.pc # "fire" => snap = {}
  BY <1>0 DEF UserInv
<1>6. user.pc \in OpenPcs => handle = None
  BY <1>0 DEF UserInv
<1>7. ASSUME NEW o \in Objects, Open(o) PROVE FlowInv'
  <2>1. /\ user.pc = "idle" /\ handle = None /\ user' = [user EXCEPT !.pc = "open", !.obj = o]
        /\ UNCHANGED <<bus, up, monitor, devs, msgs, batch, cblist, job, refs, told>>
    BY <1>7 DEF Open, Ready
  <2>2. user' \in User /\ user'.pc = "open" /\ user'.obj # None /\ user'.pc \in OpenPcs
    <3> DEFINE u == [user EXCEPT !.pc = "open", !.obj = o]
    <3>1. u \in User /\ u.pc = "open" /\ u.obj = o /\ u.pc \in OpenPcs
      BY <1>0, <1>2 DEF User
    <3>2. user' = u
      BY <2>1
    <3> HIDE DEF u
    <3>3. QED
      BY <1>4, <3>1, <3>2
  <2>3. BusOK' /\ ListsOK' /\ CbsOK' /\ HeldOK'
    BY <1>0, <2>1, BusKept, ListsKept, CbsKept, HeldKept
  <2>4. snap' = {} /\ handle' = None
    BY <1>5, <2>1 DEF refs
  <2>5. QED
    BY <1>0, <2>1, <2>2, <2>3, <2>4, UserFlow
<1>8. CASE OpenBackend
  <2>1. /\ user.pc = "open" /\ user.obj \in Objects /\ handle = None
        /\ UNCHANGED <<bus, up, monitor, lists, batch, cblist, job, list, snap, told>>
    BY <1>0, <1>2, <1>6, <1>8 DEF OpenBackend, User
  <2>2. CASE handle' = user.obj /\ user' = Idle
    <3>1. BusOK' /\ ListsOK' /\ CbsOK' /\ HeldOK'
      BY <1>0, <2>1, <2>2, BusKept, ListsKept, CbsKept DEF HeldOK, lists
    <3>2. QED
      BY <1>0, <1>1, <1>2, <1>5, <2>1, <2>2, <3>1, UserFlow
  <2>3. CASE handle' = handle /\ user' = [user EXCEPT !.pc = "gone"]
    <3>1. user' \in User /\ user'.pc = "gone" /\ user'.pc \in OpenPcs /\ user'.obj # None
      BY Zenon, <1>0, <1>2, <1>3, <2>1, <2>3
    <3>2. BusOK' /\ ListsOK' /\ CbsOK' /\ HeldOK'
      BY <1>0, <2>1, <2>3, BusKept, ListsKept, CbsKept DEF HeldOK, lists
    <3>3. QED
      BY <1>0, <1>5, <2>1, <2>3, <3>1, <3>2, UserFlow
  <2>4. QED
    BY <1>8, <2>2, <2>3 DEF OpenBackend
<1>9. CASE DisconnectGone
  <2>1. /\ user.pc = "gone" /\ user' = [user EXCEPT !.pc = "failed"]
        /\ job' \in {NoJob, Work("open", [kind |-> "remove", addr |-> objs[user.obj].addr, port |-> Hub])}
        /\ UNCHANGED <<bus, up, monitor, lists, batch, cblist, refs, told>>
    BY <1>9 DEF DisconnectGone
  <2>2. user' \in User /\ user'.pc = "failed" /\ user'.pc \in OpenPcs /\ user'.obj # None
    BY Zenon, <1>0, <1>2, <1>3, <2>1
  <2>3. user.obj \in Objects
    BY <1>0, <1>2, <2>1 DEF User
  <2>4. objs[user.obj].addr \in Addresses \union {0} => Proper(job')
    <3>1. CASE job' = NoJob
      BY <3>1, NoJobProper
    <3>2. ASSUME job' # NoJob, objs[user.obj].addr \in Addresses \union {0}
          PROVE  Proper(job')
      <4> DEFINE m == [kind |-> "remove", addr |-> objs[user.obj].addr, port |-> Hub]
      <4>1. m.addr \in Addresses \union {0} /\ m.port \in Ports
        BY <3>2 DEF Ports
      <4>2. job' = Work("open", m)
        BY <2>1, <3>2
      <4> HIDE DEF m
      <4>3. QED
        BY <4>1, <4>2, WorkProper
    <3>3. QED
      BY <3>1, <3>2
  <2>5. objs[user.obj].addr \in Addresses \union {0}
    BY <2>3 DEF Device
  <2>6. BusOK' /\ ListsOK' /\ CbsOK' /\ HeldOK' /\ snap' = {} /\ handle' = None
    BY <1>0, <1>2, <1>5, <1>6, <2>1, BusKept, ListsKept, CbsKept, HeldKept DEF lists, refs
  <2>7. QED
    BY <1>0, <2>1, <2>2, <2>4, <2>5, <2>6, UserFlow
<1>10. CASE OpenFails \/ Close
  <2>1. /\ user' \in {Idle, user} /\ user'.pc = "idle" /\ handle' \in {None, handle}
        /\ user'.obj = None /\ user' \in User /\ user.pc # "fire"
        /\ UNCHANGED <<bus, up, monitor, devs, msgs, batch, cblist, job, list, snap, told>>
    <3>1. CASE OpenFails
      BY <1>1, <3>1 DEF OpenFails, refs
    <3>2. CASE Close
      BY <1>0, <1>2, <3>2 DEF Close
    <3>3. QED
      BY <1>10, <3>1, <3>2
  <2>2. BusOK' /\ ListsOK' /\ CbsOK' /\ HeldOK' /\ snap' = {}
    BY <1>0, <1>5, <2>1, BusKept, ListsKept, CbsKept DEF HeldOK
  <2>3. QED
    BY <1>0, <1>2, <2>1, <2>2, UserFlow
<1>11. CASE WrapSysDevice
  <2> DEFINE o == CHOOSE x \in Objects \ InUse : TRUE
  <2>1. /\ user.pc = "idle" /\ Objects \ InUse # {} /\ user' = Calling("idle") /\ handle' = o
        /\ known' = [c \in Callbacks |-> known[c] \ {o}]
        /\ UNCHANGED <<bus, up, monitor, devs, msgs, batch, cblist, job, list, snap, owed>>
    BY <1>11 DEF WrapSysDevice, Ready
  <2>2. o \in Objects
    BY <2>1
  <2> HIDE DEF o
  <2>3. CbsOK'
    BY <1>0, <2>1 DEF CbsOK, cblist
  <2>4. BusOK' /\ ListsOK' /\ HeldOK' /\ snap' = {}
    BY <1>0, <1>5, <2>1, <2>2, BusKept, ListsKept DEF HeldOK
  <2>5. QED
    BY <1>0, <1>1, <1>2, <2>1, <2>3, <2>4, UserFlow
<1>12. QED
  BY <1>7, <1>8, <1>9, <1>10, <1>11 DEF OpenAndClose

LEMMA CallbackCallsFlow ==
  ASSUME FlowInv, CallbackCalls
  PROVE  FlowInv'
<1>0. /\ BusOK /\ ListsOK /\ CbsOK /\ HeldOK /\ UserInv /\ Proper(job) /\ user \in User
      /\ user.obj # None <=> user.pc \in OpenPcs
      /\ known \in [Callbacks -> SUBSET Objects] /\ owed \in [Callbacks -> SUBSET Objects]
      /\ cbs \in SUBSET Callbacks /\ needsFree \in SUBSET Callbacks /\ batch \in Batch
      /\ list \in SUBSET Objects /\ snap \in SUBSET Objects /\ devs \in Seq(Objects)
  BY DEF FlowInv, StepsOK, HeldOK, CbsOK, ListsOK
<1>1. /\ Idle \in User /\ Idle.pc = "idle" /\ Idle.obj = None
      /\ \A pc \in {"idle", "poll"} : /\ Calling(pc) \in User /\ Calling(pc).pc = pc
                                      /\ Calling(pc).obj = None
  BY <1>0, IdleType DEF UserPcs
<1>2. "idle" \notin OpenPcs /\ "poll" \notin OpenPcs /\ "fire" \notin OpenPcs
  BY DEF OpenPcs
<1>3. user.pc # "fire" => snap = {}
  BY <1>0 DEF UserInv
<1>4. \A c \in Callbacks : c # None
  OBVIOUS
<1>5. ASSUME NEW c \in Callbacks, RegisterCallback(c) PROVE FlowInv'
  <2>1. /\ user.pc = "idle" /\ cbs' = cbs \union {c}
        /\ user' = IF c \in Enumerating THEN [Calling("poll") EXCEPT !.cb = c] ELSE Calling("idle")
        /\ owed' = [owed EXCEPT ![c] = IF c \in Enumerating THEN Range(devs) ELSE {}]
        /\ UNCHANGED <<bus, up, monitor, lists, batch, needsFree, job, refs, known>>
    BY <1>5 DEF RegisterCallback, Ready
  <2>2. /\ user' \in User /\ user'.obj = None /\ user'.pc \in {"idle", "poll"}
        /\ user'.pc = "poll" => user'.cb # None
    <3>1. CASE c \in Enumerating
      <4>1. user' = [Calling("poll") EXCEPT !.cb = c] /\ Calling("poll") \in User
            /\ Calling("poll").pc = "poll" /\ Calling("poll").obj = None
        BY <1>1, <2>1, <3>1
      <4>2. QED
        BY <1>4, <4>1 DEF User
    <3>2. CASE c \notin Enumerating
      BY <1>1, <2>1, <3>2
    <3>3. QED
      BY <3>1, <3>2
  <2>3. CbsOK'
    <3>1. Range(devs) \in SUBSET Objects
      BY <1>0, RangeType
    <3>2. owed' \in [Callbacks -> SUBSET Objects]
      BY <1>0, <2>1, <3>1
    <3>3. QED
      BY <1>0, <2>1, <3>2 DEF CbsOK
  <2>4. BusOK' /\ ListsOK' /\ HeldOK' /\ snap' = {}
    BY <1>0, <1>3, <2>1, BusKept, ListsKept, HeldKept DEF lists, refs
  <2>5. QED
    BY <1>0, <1>2, <2>1, <2>2, <2>3, <2>4, UserFlow
<1>6. ASSUME NEW c \in Callbacks, DeregisterCallback(c) PROVE FlowInv'
  <2>1. /\ user.pc = "idle" /\ needsFree' = needsFree \union {c}
        /\ batch' = [batch EXCEPT !.deregistered = TRUE] /\ user' = Calling("idle")
        /\ UNCHANGED <<bus, up, monitor, lists, cbs, job, refs, told>>
    BY <1>6 DEF DeregisterCallback, Ready
  <2>2. batch' \in Batch /\ batch'.on = batch.on /\ batch'.msgs = batch.msgs
    BY <1>0, <2>1 DEF Batch
  <2>3. CbsOK'
    BY <1>0, <2>1, <2>2 DEF CbsOK, told
  <2>4. BusOK' /\ ListsOK' /\ HeldOK' /\ snap' = {}
    BY <1>0, <1>3, <2>1, BusKept, ListsKept, HeldKept DEF lists, refs
  <2>5. QED
    BY <1>0, <1>1, <1>2, <2>1, <2>2, <2>3, <2>4, UserFlow
<1>7. ASSUME NEW o \in Objects, FireForListed(o) PROVE FlowInv'
  <2>1. /\ user.pc = "fire" /\ known' = [known EXCEPT ![user.cb] = @ \union {o}]
        /\ user' = [user EXCEPT !.todo = @ \ {o}]
        /\ UNCHANGED <<bus, up, monitor, lists, batch, cblist, job, refs, owed>>
    BY <1>7 DEF FireForListed
  <2>2. user' \in User /\ user'.pc = "fire" /\ user'.obj = None
    <3>1. user.obj = None
      BY <1>0, <1>2, <2>1
    <3>2. QED
      BY <1>0, <2>1, <3>1 DEF User
  <2>3. CbsOK'
    BY <1>0, <2>1 DEF CbsOK, cblist
  <2>4. BusOK' /\ ListsOK' /\ HeldOK'
    BY <1>0, <2>1, BusKept, ListsKept, HeldKept DEF lists
  <2>5. QED
    BY <1>0, <1>2, <2>1, <2>2, <2>3, <2>4, UserFlow
<1>8. ASSUME NEW o \in Objects, FreeSnapshot(o) PROVE FlowInv'
  <2>1. /\ user.pc = "fire" /\ snap' = snap \ {o}
        /\ UNCHANGED <<bus, up, monitor, devs, msgs, batch, cblist, job, user, list, handle, told>>
    BY <1>8 DEF FreeSnapshot
  <2>2. BusOK' /\ ListsOK' /\ CbsOK' /\ HeldOK'
    BY <1>0, <2>1, BusKept, ListsKept, CbsKept DEF HeldOK
  <2>3. QED
    BY <1>0, <1>2, <2>1, <2>2, UserFlow
<1>9. CASE Registered
  <2>1. /\ snap = {} /\ user' = Idle
        /\ UNCHANGED <<bus, up, monitor, lists, batch, cblist, job, refs, told>>
    BY <1>9 DEF Registered
  <2>2. BusOK' /\ ListsOK' /\ CbsOK' /\ HeldOK' /\ snap' = {}
    BY <1>0, <2>1, BusKept, ListsKept, CbsKept, HeldKept DEF lists, refs
  <2>3. QED
    BY <1>0, <1>1, <1>2, <2>1, <2>2, UserFlow
<1>10. QED
  BY <1>5, <1>6, <1>7, <1>8, <1>9 DEF CallbackCalls

LEMMA FlowInit ==
  ASSUME Init
  PROVE  FlowInv
<1>1. /\ plugged \in [Ports -> Plugs] /\ serial \in Nat
  <2>1. NotPlugged \in Plugs /\ [addr |-> 1, serial |-> 1] \in Plugs
        /\ [addr |-> 2, serial |-> 2] \in Plugs
    BY DEF NotPlugged, Plugs
  <2>2. plugged \in [Ports -> {NotPlugged, [addr |-> 1, serial |-> 1], [addr |-> 2, serial |-> 2]}]
    BY DEF Init
  <2>3. QED
    BY <2>1, <2>2 DEF Init, Old
<1>2. <<>> \in Seq(Uevents) /\ <<>> \in Seq(Messages) /\ <<>> \in Seq(Objects)
  BY EmptySeq
<1>3. BusOK
  BY <1>1, <1>2 DEF Init, BusOK
<1>4. ListsOK
  BY <1>2 DEF Init, ListsOK
<1>5. CbsOK
  <2>1. batch \in Batch
    BY <1>2 DEF Init, Batch
  <2>2. QED
    BY <2>1 DEF Init, CbsOK
<1>6. StepsOK
  <2>1. user \in User /\ user.pc = "idle" /\ user.obj = None
    <3>1. NotPlugged \in Plugs
      BY DEF NotPlugged, Plugs
    <3>2. [p \in Ports |-> NotPlugged] \in [Ports -> Plugs]
      BY <3>1
    <3>3. QED
      BY <3>2 DEF Init, User, UserPcs
  <2>2. QED
    BY <2>1, NoJobProper DEF Init, StepsOK, OpenPcs
<1>7. HeldOK /\ UserInv
  BY DEF Init, HeldOK, UserInv, OpenPcs
<1>8. QED
  BY <1>3, <1>4, <1>5, <1>6, <1>7 DEF FlowInv

-----------------------------------------------------------------------------
(* Counting.                                                               *)

LEMMA OneIs ==
  ASSUME NEW b
  PROVE  One(b) \in {0, 1} /\ (b => One(b) = 1) /\ (~ b => One(b) = 0)
  BY DEF One

LEMMA ChildrenNat ==
  ASSUME NEW mem, NEW o
  PROVE  /\ Children(mem, o) \in Nat
         /\ \A d \in Objects : Child(mem, d, o) => Children(mem, o) > 0
<1> DEFINE S == {d \in Objects : Child(mem, d, o)}
<1>1. IsFiniteSet(S)
  BY FS_Subset
<1>2. Cardinality(S) \in Nat
  BY <1>1, FS_CardinalityType
<1>3. Cardinality(S) = 0 <=> S = {}
  BY <1>1, FS_EmptySet
<1>4. ASSUME NEW d \in Objects, Child(mem, d, o)
      PROVE  S # {}
  BY <1>4
<1>5. Children(mem, o) = Cardinality(S)
  BY DEF Children
<1> HIDE DEF S
<1>6. QED
  BY <1>2, <1>3, <1>4, <1>5

LEMMA ChildrenSame ==
  ASSUME NEW mem, NEW mem2, NEW o,
         \A d \in Objects : Child(mem2, d, o) <=> Child(mem, d, o)
  PROVE  Children(mem2, o) = Children(mem, o)
<1>1. {d \in Objects : Child(mem2, d, o)} = {d \in Objects : Child(mem, d, o)}
  OBVIOUS
<1>2. QED
  BY <1>1 DEF Children

LEMMA ChildrenOneMore ==
  ASSUME NEW mem, NEW mem2, NEW o, NEW c \in Objects,
         Child(mem2, c, o), ~ Child(mem, c, o),
         \A d \in Objects \ {c} : Child(mem2, d, o) <=> Child(mem, d, o)
  PROVE  Children(mem2, o) = Children(mem, o) + 1
<1> DEFINE S == {d \in Objects : Child(mem, d, o)}
           T == {d \in Objects : Child(mem2, d, o)}
<1>1. T = S \union {c} /\ c \notin S
  OBVIOUS
<1>2. IsFiniteSet(S)
  BY FS_Subset
<1>3. Children(mem, o) = Cardinality(S) /\ Children(mem2, o) = Cardinality(T)
  BY DEF Children
<1> HIDE DEF S, T
<1>4. Cardinality(S \union {c}) = Cardinality(S) + 1
  BY <1>1, <1>2, FS_AddElement
<1>5. QED
  BY <1>1, <1>3, <1>4

-----------------------------------------------------------------------------
(* What a change of the memory does to the references.                     *)

\* A reference to each device of a set.
LEMMA RefKeeps ==
  ASSUME NEW mem, Sound(mem), NEW held \in [Objects -> Int], Balanced(mem, held),
         NEW S, \A o \in S \intersect Objects : mem[o].refs > 0,
         NEW mem2, mem2 = RefDevices(mem, S),
         NEW held2, held2 = [o \in Objects |-> held[o] + One(o \in S)]
  PROVE  /\ Sound(mem2) /\ Balanced(mem2, held2)
         /\ \A o \in Objects : /\ mem2[o].port = mem[o].port /\ mem2[o].parent = mem[o].parent
                               /\ mem2[o].leaked = mem[o].leaked
                               /\ mem2[o].refs > 0 <=> mem[o].refs > 0
<1>1. mem \in [Objects -> Device] /\ \A o \in Objects : mem[o] \in Device /\ mem[o].refs \in Nat
  BY DEF Sound, Device
<1>2. \A o \in Objects : mem2[o] = IF o \in S THEN [mem[o] EXCEPT !.refs = mem[o].refs + 1] ELSE mem[o]
  BY DEF RefDevices
<1>3. mem2 = [o \in Objects |-> IF o \in S THEN [mem[o] EXCEPT !.refs = mem[o].refs + 1] ELSE mem[o]]
  BY DEF RefDevices
<1>4. \A o \in Objects : /\ mem2[o] \in Device /\ mem2[o].refs = mem[o].refs + One(o \in S)
                         /\ mem2[o].port = mem[o].port /\ mem2[o].parent = mem[o].parent
                         /\ mem2[o].leaked = mem[o].leaked
  <2> TAKE o \in Objects
  <2>1. CASE o \in S
    <3>1. mem2[o] = [mem[o] EXCEPT !.refs = mem[o].refs + 1] /\ mem[o] \in Device
      BY <1>1, <1>2, <2>1
    <3>2. One(o \in S) = 1
      BY <2>1, OneIs
    <3>3. mem2[o].refs = mem[o].refs + 1
      BY <3>1 DEF Device
    <3>4. QED
      BY <3>1, <3>2, <3>3 DEF Device
  <2>2. CASE o \notin S
    <3>1. mem2[o] = mem[o] /\ mem[o] \in Device /\ mem[o].refs \in Nat
      BY <1>1, <1>2, <2>2
    <3>2. One(o \in S) = 0
      BY <2>2 DEF One
    <3>3. mem2[o].refs = mem[o].refs + One(o \in S)
      BY <3>1, <3>2
    <3>4. QED
      BY <3>1, <3>3
  <2>3. QED
    BY <2>1, <2>2
<1>5. \A o \in Objects : o \notin S => mem2[o] = mem[o]
  BY <1>2
<1>6. mem2 \in [Objects -> Device]
  <2>1. QED
    BY <1>3, <1>4
<1>7. \A o \in Objects : mem2[o].refs > 0 <=> mem[o].refs > 0
  <2> TAKE o \in Objects
  <2>1. CASE o \in S
    <3>1. mem[o].refs > 0 /\ mem2[o].refs = mem[o].refs + 1 /\ mem[o].refs \in Nat
      <4>1. One(o \in S) = 1
        BY <2>1, OneIs
      <4>2. QED
        BY <1>1, <1>4, <2>1, <4>1
    <3>2. QED
      BY <3>1
  <2>2. CASE o \notin S
    BY <1>5, <2>2
  <2>3. QED
    BY <2>1, <2>2
<1>8. Sound(mem2)
  <2>1. \A o \in Objects : mem2[o].refs = 0 => mem2[o] = Free
    <3> TAKE o \in Objects
    <3>1. mem2[o].refs = 0 => mem[o].refs = 0 /\ o \notin S
      BY <1>1, <1>4, <1>7
    <3>2. QED
      BY <1>5, <3>1 DEF Sound
  <2>2. \A o \in Objects : mem[o].parent # None => mem[o].parent \in Objects
    BY <1>1 DEF Device
  <2>3. QED
    BY <1>4, <1>6, <2>1, <2>2 DEF Sound
<1>9. Balanced(mem2, held2)
  <2>1. ASSUME NEW o \in Objects
        PROVE  mem2[o].refs = held2[o] + One(mem2[o].leaked) + Children(mem2, o)
    <3>1. Children(mem2, o) = Children(mem, o)
      <4>1. \A d \in Objects : Child(mem2, d, o) <=> Child(mem, d, o)
        BY <1>4, <1>7 DEF Child
      <4>2. QED
        BY <4>1, ChildrenSame
    <3>2. mem[o].refs = held[o] + One(mem[o].leaked) + Children(mem, o)
      BY DEF Balanced
    <3>3. /\ held[o] \in Int /\ One(mem[o].leaked) \in Int /\ Children(mem, o) \in Int
          /\ One(o \in S) \in Int /\ held2[o] = held[o] + One(o \in S)
      BY OneIs, ChildrenNat
    <3>4. QED
      BY <1>1, <1>4, <3>1, <3>2, <3>3
  <2>2. QED
    BY <2>1 DEF Balanced
<1>10. QED
  BY <1>4, <1>7, <1>8, <1>9

\* One reference is dropped: the last one frees the memory, and leaves the reference
\* it has on its parent to be dropped.
LEMMA DropKeeps ==
  ASSUME NEW mem, Sound(mem), NEW held \in [Objects -> Nat], Balanced(mem, held),
         NEW o \in Objects, held[o] > 0,
         NEW mem2, mem2 = Dropped(mem, o),
         NEW p, p = IF mem[o].refs = 1 THEN mem[o].parent ELSE None,
         NEW held2, held2 = [x \in Objects |-> held[x] - One(x = o) + One(x = p)]
  PROVE  /\ Sound(mem2) /\ Balanced(mem2, held2)
         /\ \A x \in Objects : mem2[x].refs > 0 => /\ mem2[x].port = mem[x].port
                                                   /\ mem2[x].parent = mem[x].parent
         /\ \A x \in Objects : mem2[x].leaked = mem[x].leaked
         /\ p # None => p \in Objects /\ p # o /\ mem2[p].parent = None
<1>1. /\ mem \in [Objects -> Device]
      /\ \A x \in Objects : mem[x] \in Device /\ mem[x].refs \in Nat
                            /\ mem[x].parent \in Objects \union {None} /\ mem[x].leaked \in BOOLEAN
  BY DEF Sound, Device
<1>2. \A x \in Objects : /\ mem[x].refs = held[x] + One(mem[x].leaked) + Children(mem, x)
                         /\ held[x] \in Nat /\ One(mem[x].leaked) \in Nat /\ Children(mem, x) \in Nat
  BY OneIs, ChildrenNat DEF Balanced
<1>3. mem[o].refs > 0
  BY <1>2
<1>4. \A x \in Objects : mem[x].parent # None => mem[x].port = Leaf /\ mem[mem[x].parent].port = Hub
  BY DEF Sound
<1>5. p # None => p \in Objects /\ p # o /\ mem[p].parent = None
  BY <1>1, <1>4
<1>6. Free \in Device /\ Free.refs = 0 /\ Free.parent = None /\ Free.leaked = FALSE /\ Free.port = Hub
  BY DEF Free, Device, Ports
\* The others are as they were.
<1>7. \A x \in Objects : x # o => mem2[x] = mem[x]
  BY <1>1 DEF Dropped
<1>8. CASE mem[o].refs = 1
  <2>1. mem2 = [mem EXCEPT ![o] = Free] /\ mem2[o] = Free /\ p = mem[o].parent
    BY <1>1, <1>8 DEF Dropped
  <2>2. held[o] = 1 /\ One(mem[o].leaked) = 0 /\ Children(mem, o) = 0
    BY <1>2, <1>8
  <2>3. mem[o].leaked = FALSE
    BY <1>1, <2>2, OneIs
  <2>4. mem2 \in [Objects -> Device]
    BY <1>1, <1>6, <2>1
  <2>5. \A x \in Objects : mem[x].refs > 0 => mem[x].parent # o
    BY <1>2, <2>2, ChildrenNat DEF Child
  <2>6. \A x \in Objects : mem[x].parent # o
    BY <1>6, <2>5, <1>1 DEF Sound
  <2>7. Sound(mem2)
    <3>1. \A x \in Objects : mem2[x].refs = 0 => mem2[x] = Free
      BY <1>7, <2>1 DEF Sound
    <3>2. ASSUME NEW x \in Objects, mem2[x].parent # None
          PROVE  mem2[x].port = Leaf /\ mem2[mem2[x].parent].port = Hub
      <4>1. x # o /\ mem2[x] = mem[x]
        BY <1>6, <1>7, <2>1, <3>2
      <4>2. mem[x].parent \in Objects /\ mem[x].parent # o
        BY <1>1, <2>6, <3>2, <4>1
      <4>3. QED
        BY <1>4, <1>7, <3>2, <4>1, <4>2
    <3>3. QED
      BY <2>4, <3>1, <3>2 DEF Sound
  <2>8. ASSUME NEW x \in Objects
        PROVE  mem2[x].refs = held2[x] + One(mem2[x].leaked) + Children(mem2, x)
    <3>1. Children(mem2, x) = Children(mem, x) - One(x = p)
      <4>1. CASE x = p
        <5>1. Children(mem, x) = Children(mem2, x) + 1
          <6>1. Child(mem, o, x) /\ ~ Child(mem2, o, x)
            BY <1>3, <1>6, <2>1, <4>1 DEF Child
          <6>2. \A d \in Objects \ {o} : Child(mem, d, x) <=> Child(mem2, d, x)
            BY <1>7 DEF Child
          <6>3. QED
            BY <6>1, <6>2, ChildrenOneMore
        <5>2. One(x = p) = 1
          BY <4>1 DEF One
        <5>3. Children(mem2, x) \in Nat
          BY ChildrenNat
        <5>4. QED
          BY <5>1, <5>2, <5>3
      <4>2. CASE x # p
        <5>1. Children(mem2, x) = Children(mem, x)
          <6>1. ~ Child(mem2, o, x) /\ ~ Child(mem, o, x)
            BY <1>6, <2>1, <4>2 DEF Child
          <6>2. \A d \in Objects : Child(mem2, d, x) <=> Child(mem, d, x)
            BY <1>7, <6>1 DEF Child
          <6>3. QED
            BY <6>2, ChildrenSame
        <5>2. One(x = p) = 0
          BY <4>2 DEF One
        <5>3. QED
          BY <1>2, <5>1, <5>2
      <4>3. QED
        BY <4>1, <4>2
    <3>2. mem2[x].refs = mem[x].refs - One(x = o) /\ mem2[x].leaked = mem[x].leaked
      <4>1. CASE x = o
        <5>1. One(x = o) = 1
          BY <4>1 DEF One
        <5>2. mem2[x] = Free /\ mem[x].refs = 1 /\ mem[x].leaked = FALSE
          BY <1>8, <2>1, <2>3, <4>1
        <5>3. mem2[x].refs = 0
          BY <1>6, <5>2
        <5>4. mem2[x].leaked = mem[x].leaked
          BY <1>6, <5>2, Zenon
        <5>5. QED
          BY <5>1, <5>2, <5>3, <5>4
      <4>2. CASE x # o
        <5>1. One(x = o) = 0
          BY <4>2 DEF One
        <5>2. QED
          BY <1>1, <1>7, <4>2, <5>1
      <4>3. QED
        BY <4>1, <4>2
    <3>3. held2[x] = held[x] - One(x = o) + One(x = p)
      OBVIOUS
    <3>4. One(x = p) \in Int /\ One(x = o) \in Int
      BY OneIs
    <3>5. QED
      BY <1>2, <3>1, <3>2, <3>3, <3>4
  <2>9. \A x \in Objects : mem2[x].leaked = mem[x].leaked
    BY <1>6, <1>7, <2>1, <2>3
  <2>10. \A x \in Objects : mem2[x].refs > 0 => mem2[x].port = mem[x].port /\ mem2[x].parent = mem[x].parent
    BY <1>6, <1>7, <2>1
  <2>11. p # None => p \in Objects /\ p # o /\ mem2[p].parent = None
    BY <1>5, <1>7
  <2>12. Balanced(mem2, held2)
    BY <2>8 DEF Balanced
  <2>13. QED
    BY <2>7, <2>9, <2>10, <2>11, <2>12
<1>9. CASE mem[o].refs # 1
  <2>1. mem2 = [mem EXCEPT ![o].refs = mem[o].refs - 1] /\ p = None
    BY <1>1, <1>9 DEF Dropped
  <2>2. mem[o].refs - 1 \in Nat /\ mem[o].refs - 1 > 0
    BY <1>1, <1>3, <1>9
  <2>3. /\ mem2[o] \in Device /\ mem2[o].refs = mem[o].refs - 1
        /\ mem2[o].port = mem[o].port /\ mem2[o].parent = mem[o].parent
        /\ mem2[o].leaked = mem[o].leaked
    <3>1. mem2[o] = [mem[o] EXCEPT !.refs = mem[o].refs - 1] /\ mem[o] \in Device
      BY <1>1, <2>1
    <3>2. QED
      BY <2>2, <3>1 DEF Device
  <2>4. mem2 \in [Objects -> Device]
    BY <1>1, <1>7, <2>1, <2>3
  <2>5. \A x \in Objects : /\ mem2[x].port = mem[x].port /\ mem2[x].parent = mem[x].parent
                           /\ mem2[x].leaked = mem[x].leaked
                           /\ mem2[x].refs = mem[x].refs - One(x = o)
                           /\ mem2[x].refs > 0 <=> mem[x].refs > 0
    <3> TAKE x \in Objects
    <3>1. CASE x = o
      <4>1. One(x = o) = 1
        BY <3>1 DEF One
      <4>2. QED
        BY <1>3, <2>2, <2>3, <3>1, <4>1
    <3>2. CASE x # o
      <4>1. One(x = o) = 0
        BY <3>2 DEF One
      <4>2. mem2[x] = mem[x] /\ mem[x].refs \in Nat
        BY <1>1, <1>7, <3>2
      <4>3. QED
        BY <4>1, <4>2
    <3>3. QED
      BY <3>1, <3>2
  <2>6. Sound(mem2)
    <3>1. \A x \in Objects : mem2[x].refs = 0 => mem2[x] = Free
      <4> TAKE x \in Objects
      <4>1. CASE x = o
        BY <2>2, <2>3, <4>1
      <4>2. CASE x # o
        BY <1>7, <4>2 DEF Sound
      <4>3. QED
        BY <4>1, <4>2
    <3>2. QED
      BY <1>1, <1>4, <2>4, <2>5, <3>1 DEF Sound
  <2>7. ASSUME NEW x \in Objects
        PROVE  mem2[x].refs = held2[x] + One(mem2[x].leaked) + Children(mem2, x)
    <3>1. Children(mem2, x) = Children(mem, x)
      <4>1. \A d \in Objects : Child(mem2, d, x) <=> Child(mem, d, x)
        BY <2>5 DEF Child
      <4>2. QED
        BY <4>1, ChildrenSame
    <3>2. One(x = p) = 0
      BY <2>1 DEF One
    <3>3. held2[x] = held[x] - One(x = o) + One(x = p)
      OBVIOUS
    <3>4. One(x = o) \in Int
      BY OneIs
    <3>5. QED
      BY <1>2, <2>5, <3>1, <3>2, <3>3, <3>4
  <2>8. Balanced(mem2, held2)
    BY <2>7 DEF Balanced
  <2>9. QED
    BY <2>1, <2>5, <2>6, <2>8
<1>10. QED
  BY <1>8, <1>9

LEMMA UnrefKeeps ==
  ASSUME NEW mem, Sound(mem), NEW held \in [Objects -> Nat], Balanced(mem, held),
         NEW o \in Objects, held[o] > 0, NEW mem2, mem2 = UnrefDevice(mem, o),
         NEW held2, held2 = [x \in Objects |-> held[x] - One(x = o)]
  PROVE  /\ Sound(mem2) /\ Balanced(mem2, held2)
         /\ \A x \in Objects : mem2[x].refs > 0 => /\ mem2[x].port = mem[x].port
                                                   /\ mem2[x].parent = mem[x].parent
         /\ \A x \in Objects : mem2[x].leaked = mem[x].leaked
<1> DEFINE mem1  == Dropped(mem, o)
           p     == IF mem[o].refs = 1 THEN mem[o].parent ELSE None
           held1 == [x \in Objects |-> held[x] - One(x = o) + One(x = p)]
<1>1. /\ Sound(mem1) /\ Balanced(mem1, held1)
      /\ \A x \in Objects : mem1[x].refs > 0 => /\ mem1[x].port = mem[x].port
                                                /\ mem1[x].parent = mem[x].parent
      /\ \A x \in Objects : mem1[x].leaked = mem[x].leaked
      /\ p # None => p \in Objects /\ p # o /\ mem1[p].parent = None
  BY DropKeeps
<1>2. mem2 = IF p # None THEN Dropped(mem1, p) ELSE mem1
  BY DEF UnrefDevice
<1>3. \A x \in Objects : held[x] \in Nat /\ held2[x] = held[x] - One(x = o)
                         /\ held1[x] = held[x] - One(x = o) + One(x = p)
  OBVIOUS
<1> HIDE DEF mem1, p, held1
<1>4. CASE p = None
  <2>1. \A x \in Objects : held1[x] = held2[x]
    <3> TAKE x \in Objects
    <3>1. One(x = p) = 0
      BY <1>4 DEF One
    <3>2. One(x = o) \in Int
      BY OneIs
    <3>3. QED
      BY <1>3, <3>1, <3>2
  <2>2. Balanced(mem1, held2)
    BY <1>1, <2>1 DEF Balanced
  <2>3. QED
    BY <1>1, <1>2, <1>4, <2>2
<1>5. CASE p # None
  <2>1. held1 \in [Objects -> Nat] /\ held1[p] > 0
    <3>1. held1 = [x \in Objects |-> held[x] - One(x = o) + One(x = p)]
      BY DEF held1
    <3>2. ASSUME NEW x \in Objects
          PROVE  held[x] - One(x = o) + One(x = p) \in Nat
      <4>1. One(x = p) \in Nat /\ held[x] \in Nat
        BY <1>3, OneIs
      <4>2. CASE x = o
        <5>1. One(x = o) = 1
          BY <4>2 DEF One
        <5>2. held[x] > 0
          BY <4>2
        <5>3. QED
          BY <4>1, <5>1, <5>2
      <4>3. CASE x # o
        <5>1. One(x = o) = 0
          BY <4>3 DEF One
        <5>2. QED
          BY <4>1, <5>1
      <4>4. QED
        BY <4>2, <4>3
    <3>3. held1[p] > 0
      <4>1. p \in Objects /\ p # o
        BY <1>1, <1>5
      <4>2. One(p = p) = 1 /\ One(p = o) = 0
        BY <4>1 DEF One
      <4>3. QED
        BY <1>3, <4>1, <4>2
    <3>4. QED
      BY <3>1, <3>2, <3>3
  <2> DEFINE q == IF mem1[p].refs = 1 THEN mem1[p].parent ELSE None
             heldD == [x \in Objects |-> held1[x] - One(x = p) + One(x = q)]
  <2>2. /\ Sound(mem2) /\ Balanced(mem2, heldD)
        /\ \A x \in Objects : mem2[x].refs > 0 => /\ mem2[x].port = mem1[x].port
                                                  /\ mem2[x].parent = mem1[x].parent
        /\ \A x \in Objects : mem2[x].leaked = mem1[x].leaked
    BY <1>1, <1>2, <1>5, <2>1, DropKeeps
  <2>3. q = None
    BY <1>1, <1>5
  <2>4. \A x \in Objects : heldD[x] = held1[x] - One(x = p) + One(x = q)
    OBVIOUS
  <2> HIDE DEF q, heldD
  <2>5. \A x \in Objects : heldD[x] = held2[x]
    <3> TAKE x \in Objects
    <3>1. One(x = q) = 0
      BY <2>3 DEF One
    <3>2. One(x = o) \in Int /\ One(x = p) \in Int
      BY OneIs
    <3>3. QED
      BY <1>3, <2>4, <3>1, <3>2
  <2>6. Balanced(mem2, held2)
    BY <2>2, <2>5 DEF Balanced
  <2>7. mem2 \in [Objects -> Device] /\ mem1 \in [Objects -> Device]
    BY <1>1, <2>2 DEF Sound
  <2>8. \A x \in Objects : mem2[x].refs > 0 => mem1[x].refs > 0
    <3>1. \A x \in Objects : mem2[x].refs > 0 => mem1[x].refs # 0
      <4>1. mem2 = Dropped(mem1, p)
        BY <1>2, <1>5
      <4>2. \A x \in Objects : x # p => mem2[x] = mem1[x]
        BY <2>7, <4>1 DEF Dropped
      <4>3. mem1[p].refs > 0
        <5>1. /\ mem1[p].refs = held1[p] + One(mem1[p].leaked) + Children(mem1, p)
              /\ One(mem1[p].leaked) \in Nat /\ Children(mem1, p) \in Nat /\ held1[p] \in Nat
          BY <1>1, <1>5, <2>1, OneIs, ChildrenNat DEF Balanced
        <5>2. QED
          BY <2>1, <5>1
      <4>4. QED
        BY <4>2, <4>3
    <3>2. \A x \in Objects : mem1[x].refs \in Nat
      BY <2>7 DEF Device
    <3>3. QED
      BY <3>1, <3>2
  <2>9. QED
    BY <1>1, <1>2, <1>5, <2>2, <2>6, <2>8
<1>6. QED
  BY <1>4, <1>5

\* Free memory is taken for a device.
Taken(mem, o, dev) == [mem EXCEPT ![o] = dev]

NewDevice(dev) == dev \in Device /\ dev.refs = 1 /\ dev.parent = None /\ dev.leaked = FALSE

LEMMA AllocKeeps ==
  ASSUME NEW mem, Sound(mem), NEW held \in [Objects -> Nat], Balanced(mem, held),
         NEW o \in Objects, mem[o].refs = 0, NEW dev, NewDevice(dev),
         NEW mem2, mem2 = Taken(mem, o, dev),
         NEW held2, held2 = [x \in Objects |-> held[x] + One(x = o)]
  PROVE  Sound(mem2) /\ Balanced(mem2, held2) /\ held[o] = 0
<1>0. /\ dev \in Device /\ dev.refs = 1 /\ dev.parent = None /\ dev.leaked = FALSE
      /\ mem2 = [mem EXCEPT ![o] = dev]
  BY DEF NewDevice, Taken
<1>1. /\ mem \in [Objects -> Device]
      /\ \A x \in Objects : mem[x].refs \in Nat /\ mem[x].parent \in Objects \union {None}
  BY DEF Sound, Device
<1>2. \A x \in Objects : /\ mem[x].refs = held[x] + One(mem[x].leaked) + Children(mem, x)
                         /\ held[x] \in Nat /\ One(mem[x].leaked) \in Nat /\ Children(mem, x) \in Nat
  BY OneIs, ChildrenNat DEF Balanced
<1>3. held[o] = 0 /\ One(mem[o].leaked) = 0 /\ Children(mem, o) = 0
  BY <1>2
<1>4. mem[o] = Free /\ mem[o].parent = None
  BY DEF Sound, Free
<1>5. \A x \in Objects : mem[x].parent # o
  <2>1. \A x \in Objects : mem[x].refs > 0 => mem[x].parent # o
    BY <1>2, <1>3, ChildrenNat DEF Child
  <2>2. \A x \in Objects : mem[x].refs = 0 => mem[x].parent = None
    BY DEF Sound, Free
  <2>3. QED
    BY <1>1, <2>1, <2>2
<1>6. /\ mem2 \in [Objects -> Device] /\ mem2[o] = dev
      /\ \A x \in Objects : x # o => mem2[x] = mem[x]
  BY <1>0, <1>1
<1>7. Sound(mem2)
  <2>1. \A x \in Objects : mem2[x].refs = 0 => mem2[x] = Free
    BY <1>0, <1>6 DEF Sound
  <2>2. ASSUME NEW x \in Objects, mem2[x].parent # None
        PROVE  mem2[x].port = Leaf /\ mem2[mem2[x].parent].port = Hub
    <3>1. x # o /\ mem2[x] = mem[x] /\ mem[x].parent # o /\ mem[x].parent \in Objects
      BY <1>0, <1>1, <1>5, <1>6, <2>2
    <3>2. mem[x].port = Leaf /\ mem[mem[x].parent].port = Hub
      BY <2>2, <3>1 DEF Sound
    <3>3. QED
      BY <1>6, <3>1, <3>2
  <2>3. QED
    BY <1>6, <2>1, <2>2 DEF Sound
<1>8. ASSUME NEW x \in Objects
      PROVE  mem2[x].refs = held2[x] + One(mem2[x].leaked) + Children(mem2, x)
  <2>1. Children(mem2, x) = Children(mem, x)
    <3>1. \A d \in Objects : Child(mem2, d, x) <=> Child(mem, d, x)
      BY <1>0, <1>4, <1>6 DEF Child
    <3>2. QED
      BY <3>1, ChildrenSame
  <2>2. held2[x] = held[x] + One(x = o)
    OBVIOUS
  <2>3. CASE x = o
    <3>1. One(x = o) = 1 /\ One(mem2[x].leaked) = 0 /\ mem2[x].refs = 1
      BY <1>0, <1>6, <2>3 DEF One
    <3>2. QED
      BY <1>3, <2>1, <2>2, <2>3, <3>1
  <2>4. CASE x # o
    <3>1. One(x = o) = 0 /\ mem2[x] = mem[x]
      BY <1>6, <2>4 DEF One
    <3>2. QED
      BY <1>2, <2>1, <2>2, <3>1
  <2>5. QED
    BY <2>3, <2>4
<1>9. Balanced(mem2, held2)
  BY <1>8 DEF Balanced
<1>10. QED
  BY <1>3, <1>7, <1>9

\* A change that is not about references.
Attached(mem, o, b) == [mem EXCEPT ![o].attached = b]

LEMMA AttachKeeps ==
  ASSUME NEW mem, Sound(mem), NEW held, Balanced(mem, held),
         NEW o \in Objects, mem[o].refs > 0, NEW b \in BOOLEAN,
         NEW mem2, mem2 = Attached(mem, o, b)
  PROVE  /\ Sound(mem2) /\ Balanced(mem2, held)
         /\ \A x \in Objects : /\ mem2[x].port = mem[x].port /\ mem2[x].parent = mem[x].parent
                               /\ mem2[x].leaked = mem[x].leaked
<1> USE DEF Attached
<1>1. /\ mem \in [Objects -> Device]
      /\ \A x \in Objects : mem[x].parent \in Objects \union {None}
  BY DEF Sound, Device
<1>2. /\ mem2[o] \in Device /\ mem2[o].refs = mem[o].refs /\ mem2[o].port = mem[o].port
      /\ mem2[o].parent = mem[o].parent /\ mem2[o].leaked = mem[o].leaked
  <2>1. mem[o] \in Device /\ mem2[o] = [mem[o] EXCEPT !.attached = b]
    BY <1>1
  <2>2. QED
    BY <2>1 DEF Device
<1>3. mem2 \in [Objects -> Device] /\ \A x \in Objects : x # o => mem2[x] = mem[x]
  BY <1>1, <1>2
<1>4. \A x \in Objects : /\ mem2[x].refs = mem[x].refs /\ mem2[x].port = mem[x].port
                         /\ mem2[x].parent = mem[x].parent /\ mem2[x].leaked = mem[x].leaked
  BY <1>2, <1>3
<1>5. Sound(mem2)
  <2>1. \A x \in Objects : mem2[x].refs = 0 => mem2[x] = Free
    BY <1>2, <1>3 DEF Sound
  <2>2. QED
    BY <1>1, <1>3, <1>4, <2>1 DEF Sound
<1>6. ASSUME NEW x \in Objects
      PROVE  mem2[x].refs = held[x] + One(mem2[x].leaked) + Children(mem2, x)
  <2>1. Children(mem2, x) = Children(mem, x)
    <3>1. \A d \in Objects : Child(mem2, d, x) <=> Child(mem, d, x)
      BY <1>4 DEF Child
    <3>2. QED
      BY <3>1, ChildrenSame
  <2>2. QED
    BY <1>4, <2>1 DEF Balanced
<1>7. QED
  BY <1>4, <1>5, <1>6 DEF Balanced

\* A reference that nobody is left to drop.
Leaked(mem, o) == [mem EXCEPT ![o].leaked = TRUE]

LEMMA LeakKeeps ==
  ASSUME NEW mem, Sound(mem), NEW held \in [Objects -> Int], Balanced(mem, held),
         NEW o \in Objects, mem[o].refs > 0, ~ mem[o].leaked,
         NEW mem2, mem2 = Leaked(mem, o),
         NEW held2, held2 = [x \in Objects |-> held[x] - One(x = o)]
  PROVE  /\ Sound(mem2) /\ Balanced(mem2, held2)
         /\ \A x \in Objects : /\ mem2[x].port = mem[x].port /\ mem2[x].parent = mem[x].parent
                               /\ One(mem2[x].leaked) = One(mem[x].leaked) + One(x = o)
<1> USE DEF Leaked
<1>1. /\ mem \in [Objects -> Device]
      /\ \A x \in Objects : mem[x].parent \in Objects \union {None}
  BY DEF Sound, Device
<1>2. /\ mem2[o] \in Device /\ mem2[o].refs = mem[o].refs /\ mem2[o].port = mem[o].port
      /\ mem2[o].parent = mem[o].parent /\ mem2[o].leaked = TRUE
  <2>1. mem[o] \in Device /\ mem2[o] = [mem[o] EXCEPT !.leaked = TRUE]
    BY <1>1
  <2>2. mem2[o].leaked = TRUE
    BY <2>1, Zenon DEF Device
  <2>3. /\ mem2[o] \in Device /\ mem2[o].refs = mem[o].refs /\ mem2[o].port = mem[o].port
        /\ mem2[o].parent = mem[o].parent
    <3>1. PICK b \in BOOLEAN : mem2[o] = [mem[o] EXCEPT !.leaked = b]
      BY <2>1
    <3>2. QED
      BY <2>1, <3>1 DEF Device
  <2>4. QED
    BY <2>2, <2>3
<1>3. mem2 \in [Objects -> Device] /\ \A x \in Objects : x # o => mem2[x] = mem[x]
  BY <1>1, <1>2
<1>4. \A x \in Objects : /\ mem2[x].refs = mem[x].refs /\ mem2[x].port = mem[x].port
                         /\ mem2[x].parent = mem[x].parent
  BY <1>2, <1>3
<1>5. Sound(mem2)
  <2>1. \A x \in Objects : mem2[x].refs = 0 => mem2[x] = Free
    BY <1>2, <1>3 DEF Sound
  <2>2. QED
    BY <1>1, <1>3, <1>4, <2>1 DEF Sound
<1> DEFINE l(x)  == One(mem[x].leaked)
           l2(x) == One(mem2[x].leaked)
           e(x)  == One(x = o)
<1>6. ASSUME NEW x \in Objects
      PROVE  l2(x) = l(x) + e(x)
  <2>0. l(x) \in Int
    BY OneIs
  <2>1. CASE x = o
    <3>1. l(x) = 0 /\ l2(x) = 1 /\ e(x) = 1
      BY <1>2, <2>1 DEF One
    <3> HIDE DEF l, l2, e
    <3>2. QED
      BY <3>1
  <2>2. CASE x # o
    <3>1. e(x) = 0 /\ l2(x) = l(x)
      BY <1>3, <2>2 DEF One
    <3> HIDE DEF l, l2, e
    <3>2. QED
      BY <2>0, <3>1
  <2>3. QED
    BY <2>1, <2>2
<1>7. ASSUME NEW x \in Objects
      PROVE  mem2[x].refs = held2[x] + l2(x) + Children(mem2, x)
  <2>1. Children(mem2, x) = Children(mem, x)
    <3>1. \A d \in Objects : Child(mem2, d, x) <=> Child(mem, d, x)
      BY <1>4 DEF Child
    <3>2. QED
      BY <3>1, ChildrenSame
  <2>2. held2[x] = held[x] - e(x) /\ held[x] \in Int
    OBVIOUS
  <2>3. mem[x].refs = held[x] + l(x) + Children(mem, x)
    BY DEF Balanced
  <2>4. l(x) \in Int /\ e(x) \in Int /\ Children(mem, x) \in Int
    BY OneIs, ChildrenNat
  <2>5. mem2[x].refs = mem[x].refs /\ l2(x) = l(x) + e(x)
    BY <1>4, <1>6
  <2> HIDE DEF l, l2, e
  <2>6. QED
    BY <2>1, <2>2, <2>3, <2>4, <2>5
<1>8. QED
  BY <1>4, <1>5, <1>6, <1>7 DEF Balanced

\* A device gets its parent, and with it a reference on it.
Parented(mem, c, hub) == [RefDevice(mem, hub) EXCEPT ![c].parent = hub]

LEMMA ConnectKeeps ==
  ASSUME NEW mem, Sound(mem), NEW held \in [Objects -> Int], Balanced(mem, held),
         NEW hub \in Objects, mem[hub].refs > 0, mem[hub].port = Hub,
         NEW c \in Objects, mem[c].refs > 0, mem[c].port = Leaf, mem[c].parent = None,
         NEW mem2, mem2 = Parented(mem, c, hub)
  PROVE  /\ Sound(mem2) /\ Balanced(mem2, held)
         /\ \A x \in Objects : /\ mem2[x].port = mem[x].port /\ mem2[x].leaked = mem[x].leaked
                               /\ mem2[x].refs > 0 <=> mem[x].refs > 0
                               /\ x # c => mem2[x].parent = mem[x].parent
<1> DEFINE mem1  == RefDevices(mem, {hub})
           held1 == [x \in Objects |-> held[x] + One(x \in {hub})]
<1>1. /\ Sound(mem1) /\ Balanced(mem1, held1)
      /\ \A x \in Objects : /\ mem1[x].port = mem[x].port /\ mem1[x].parent = mem[x].parent
                            /\ mem1[x].leaked = mem[x].leaked
                            /\ mem1[x].refs > 0 <=> mem[x].refs > 0
  BY RefKeeps
<1>2. mem2 = [mem1 EXCEPT ![c].parent = hub]
  BY DEF RefDevice, Parented
<1>3. \A x \in Objects : held1[x] = held[x] + One(x \in {hub})
  OBVIOUS
<1> HIDE DEF mem1, held1
<1>4. c # hub /\ mem1 \in [Objects -> Device]
  BY <1>1 DEF Sound
<1>5. /\ mem2[c] \in Device /\ mem2[c].refs = mem1[c].refs /\ mem2[c].port = mem1[c].port
      /\ mem2[c].parent = hub /\ mem2[c].leaked = mem1[c].leaked
  <2>1. mem1[c] \in Device /\ mem2[c] = [mem1[c] EXCEPT !.parent = hub]
    BY <1>2, <1>4
  <2>2. QED
    BY <2>1 DEF Device
<1>6. mem2 \in [Objects -> Device] /\ \A x \in Objects : x # c => mem2[x] = mem1[x]
  BY <1>2, <1>4, <1>5
<1>7. \A x \in Objects : /\ mem2[x].refs = mem1[x].refs /\ mem2[x].port = mem1[x].port
                         /\ mem2[x].leaked = mem1[x].leaked
                         /\ x # c => mem2[x].parent = mem1[x].parent
  BY <1>5, <1>6
<1>8. Sound(mem2)
  <2>1. \A x \in Objects : mem2[x].refs = 0 => mem2[x] = Free
    BY <1>1, <1>6, <1>7 DEF Sound
  <2>2. ASSUME NEW x \in Objects, mem2[x].parent # None
        PROVE  mem2[x].port = Leaf /\ mem2[mem2[x].parent].port = Hub
    <3>1. CASE x = c
      BY <1>1, <1>5, <1>7, <3>1
    <3>2. CASE x # c
      <4>1. mem1[x].parent \in Objects /\ mem2[x].parent = mem1[x].parent
        BY <1>4, <1>7, <2>2, <3>2 DEF Device
      <4>2. mem1[x].port = Leaf /\ mem1[mem1[x].parent].port = Hub
        BY <1>1, <2>2, <4>1 DEF Sound
      <4>3. QED
        BY <1>7, <4>1, <4>2
    <3>3. QED
      BY <3>1, <3>2
  <2>3. QED
    BY <1>6, <2>1, <2>2 DEF Sound
<1>9. ASSUME NEW x \in Objects
      PROVE  mem2[x].refs = held[x] + One(mem2[x].leaked) + Children(mem2, x)
  <2>1. Children(mem2, x) = Children(mem1, x) + One(x \in {hub})
    <3>1. CASE x = hub
      <4>1. Child(mem2, c, x) /\ ~ Child(mem1, c, x)
        BY <1>1, <1>5, <3>1 DEF Child
      <4>2. \A d \in Objects \ {c} : Child(mem2, d, x) <=> Child(mem1, d, x)
        BY <1>6 DEF Child
      <4>3. Children(mem2, x) = Children(mem1, x) + 1
        BY <4>1, <4>2, ChildrenOneMore
      <4>4. One(x \in {hub}) = 1
        BY <3>1 DEF One
      <4>5. QED
        BY <4>3, <4>4
    <3>2. CASE x # hub
      <4>1. ~ Child(mem2, c, x) /\ ~ Child(mem1, c, x)
        BY <1>1, <1>5, <3>2 DEF Child
      <4>2. \A d \in Objects : Child(mem2, d, x) <=> Child(mem1, d, x)
        BY <1>6, <4>1 DEF Child
      <4>3. Children(mem2, x) = Children(mem1, x)
        BY <4>2, ChildrenSame
      <4>4. One(x \in {hub}) = 0 /\ Children(mem1, x) \in Nat
        BY <3>2, ChildrenNat DEF One
      <4>5. QED
        BY <4>3, <4>4
    <3>3. QED
      BY <3>1, <3>2
  <2>2. mem1[x].refs = held1[x] + One(mem1[x].leaked) + Children(mem1, x)
    BY <1>1 DEF Balanced
  <2>3. /\ One(mem1[x].leaked) \in Int /\ One(x \in {hub}) \in Int /\ Children(mem1, x) \in Int
        /\ held[x] \in Int
    BY OneIs, ChildrenNat
  <2>4. QED
    BY <1>3, <1>7, <2>1, <2>2, <2>3
<1>10. QED
  BY <1>1, <1>7, <1>8, <1>9 DEF Balanced

-----------------------------------------------------------------------------
(* What a queue of messages holds.                                         *)

LeftMessage(o) == [event |-> "left", obj |-> o]

LEMMA LeftInType ==
  ASSUME NEW q \in Seq(Messages), NEW o
  PROVE  LeftIn(q, o) \in Nat /\ IsFiniteSet({i \in DOMAIN q : q[i] = LeftMessage(o)})
<1>1. DOMAIN q = 1..Len(q) /\ Len(q) \in Nat
  BY LenProperties
<1>2. IsFiniteSet({i \in DOMAIN q : q[i] = LeftMessage(o)})
  <2>1. IsFiniteSet(1..Len(q))
    BY <1>1, FS_Interval
  <2>2. {i \in DOMAIN q : q[i] = LeftMessage(o)} \in SUBSET (1..Len(q))
    BY <1>1
  <2>3. QED
    BY <2>1, <2>2, FS_Subset
<1>3. QED
  BY <1>2, FS_CardinalityType DEF LeftIn, Count, LeftMessage

LEMMA LeftInEmpty ==
  ASSUME NEW o
  PROVE  LeftIn(<<>>, o) = 0
<1>1. {i \in DOMAIN <<>> : <<>>[i] = LeftMessage(o)} = {}
  OBVIOUS
<1>2. QED
  BY <1>1, FS_EmptySet DEF LeftIn, Count, LeftMessage

LEMMA LeftInAppend ==
  ASSUME NEW q \in Seq(Messages), NEW m \in Messages, NEW o
  PROVE  LeftIn(Append(q, m), o) = LeftIn(q, o) + One(m = LeftMessage(o))
<1> DEFINE r == Append(q, m)
           n == Len(q)
           S == {i \in DOMAIN q : q[i] = LeftMessage(o)}
           T == {i \in DOMAIN r : r[i] = LeftMessage(o)}
<1>1. /\ n \in Nat /\ DOMAIN q = 1..n /\ r \in Seq(Messages) /\ Len(r) = n + 1
      /\ \A i \in 1..n : r[i] = q[i]
      /\ r[n + 1] = m
  BY LenProperties, AppendProperties
<1>2. DOMAIN r = 1..n + 1
  BY <1>1, LenProperties
<1>3. IsFiniteSet(S)
  BY LeftInType
<1>4. LeftIn(q, o) = Cardinality(S) /\ LeftIn(r, o) = Cardinality(T) /\ LeftIn(q, o) \in Nat
  BY LeftInType DEF LeftIn, Count, LeftMessage
<1> HIDE DEF r, n
<1>5. CASE m = LeftMessage(o)
  <2>1. T = S \union {n + 1} /\ n + 1 \notin S
    BY <1>1, <1>2, <1>5
  <2>2. One(m = LeftMessage(o)) = 1
    BY <1>5 DEF One
  <2> HIDE DEF S, T
  <2>3. Cardinality(S \union {n + 1}) = Cardinality(S) + 1
    BY <1>3, <2>1, FS_AddElement
  <2>4. QED
    BY <1>4, <2>1, <2>2, <2>3 DEF r
<1>6. CASE m # LeftMessage(o)
  <2>1. T = S
    BY <1>1, <1>2, <1>6
  <2>2. One(m = LeftMessage(o)) = 0
    BY <1>6 DEF One
  <2> HIDE DEF S, T
  <2>3. QED
    BY <1>4, <2>1, <2>2 DEF r
<1>7. QED
  BY <1>5, <1>6

LEMMA LeftInTail ==
  ASSUME NEW q \in Seq(Messages), q # <<>>, NEW o
  PROVE  LeftIn(q, o) = LeftIn(Tail(q), o) + One(Head(q) = LeftMessage(o))
<1> DEFINE r == Tail(q)
           n == Len(r)
           S == {i \in DOMAIN r : r[i] = LeftMessage(o)}
           T == {i \in DOMAIN q : q[i] = LeftMessage(o)}
           f == [i \in S |-> i + 1]
<1>1. /\ r \in Seq(Messages) /\ n \in Nat /\ DOMAIN r = 1..n /\ Len(q) = n + 1
      /\ \A i \in 1..n : r[i] = q[i + 1]
      /\ DOMAIN q = 1..n + 1 /\ q[1] = Head(q)
  <2>1. r \in Seq(Messages) /\ Len(r) = Len(q) - 1 /\ \A i \in 1..Len(r) : r[i] = q[i + 1]
    BY HeadTailProperties
  <2>2. Len(q) \in Nat /\ DOMAIN q = 1..Len(q)
    BY LenProperties
  <2> HIDE DEF r
  <2>3. n \in Nat /\ DOMAIN r = 1..n
    BY <2>1, LenProperties
  <2>4. QED
    BY <2>1, <2>2, <2>3
<1>2. IsFiniteSet(S) /\ IsFiniteSet(T)
  BY <1>1, LeftInType
<1>3. LeftIn(q, o) = Cardinality(T) /\ LeftIn(r, o) = Cardinality(S) /\ LeftIn(r, o) \in Nat
      /\ LeftIn(q, o) \in Nat
  BY <1>1, LeftInType DEF LeftIn, Count, LeftMessage
<1> HIDE DEF r, n
<1>4. Cardinality(T \ {1}) = Cardinality(S)
  <2>1. f \in Bijection(S, T \ {1})
    <3>1. \A i \in S : i + 1 \in T \ {1}
      BY <1>1
    <3>2. \A j \in T \ {1} : j - 1 \in S /\ (j - 1) + 1 = j
      BY <1>1
    <3>3. \A i \in S : i \in Nat
      BY <1>1
    <3> HIDE DEF S, T
    <3>4. f \in [S -> T \ {1}] /\ \A i, j \in S : f[i] = f[j] => i = j
      BY <3>1, <3>3
    <3>5. \A j \in T \ {1} : \E i \in S : f[i] = j
      BY <3>2
    <3> HIDE DEF f
    <3>6. QED
      BY <3>4, <3>5 DEF Bijection, Injection, Surjection, IsInjective
  <2> HIDE DEF S, T, f
  <2>2. ExistsBijection(S, T \ {1})
    BY <2>1 DEF ExistsBijection
  <2>3. QED
    BY <1>2, <2>2, FS_Bijection
<1>5. 1 \in T <=> Head(q) = LeftMessage(o)
  BY <1>1
<1> HIDE DEF S, T
<1>6. Cardinality(T \ {1}) = IF 1 \in T THEN Cardinality(T) - 1 ELSE Cardinality(T)
  BY <1>2, FS_RemoveElement
<1>7. CASE Head(q) = LeftMessage(o)
  <2>1. One(Head(q) = LeftMessage(o)) = 1
    BY <1>7 DEF One
  <2>2. QED
    BY <1>3, <1>4, <1>5, <1>6, <1>7, <2>1 DEF r
<1>8. CASE Head(q) # LeftMessage(o)
  <2>1. One(Head(q) = LeftMessage(o)) = 0
    BY <1>8 DEF One
  <2>2. QED
    BY <1>3, <1>4, <1>5, <1>6, <1>8, <2>1 DEF r
<1>9. QED
  BY <1>7, <1>8

-----------------------------------------------------------------------------
(* What a step does to the references.                                     *)

RefsOK ==
  /\ \A o \in Objects : /\ ListRef(o) \in Nat /\ LeftRefs(o) \in Nat /\ MakeRef(o) \in Nat
                        /\ WorkRef(o) \in Nat /\ UserRefs(o) \in Nat /\ Tied(o) \in Nat
                        /\ Tied(o) = ListRef(o) + LeftRefs(o) + MakeRef(o)
                        /\ Held[o] = Tied(o) + WorkRef(o) + UserRefs(o)
  /\ Held \in [Objects -> Nat]

LEMMA FlowTypes ==
  FlowInv => ListsOK /\ batch.msgs \in Seq(Messages) /\ Proper(job) /\ job \in Job
  BY DEF FlowInv, CbsOK, Batch, StepsOK, Proper

LEMMA RefTypes == FlowInv => RefsOK
<1> SUFFICES ASSUME FlowInv PROVE RefsOK
  OBVIOUS
<1>0. ListsOK /\ batch.msgs \in Seq(Messages)
  BY FlowTypes
<1>1. ASSUME NEW o \in Objects
      PROVE  /\ ListRef(o) \in {0, 1} /\ LeftRefs(o) \in Nat /\ MakeRef(o) \in Nat
             /\ WorkRef(o) \in {0, 1} /\ UserRefs(o) \in Nat /\ Tied(o) \in Nat
  <2>1. ListRef(o) \in {0, 1} /\ WorkRef(o) \in {0, 1}
    BY OneIs DEF ListRef, WorkRef
  <2>2. LeftIn(msgs, o) \in Nat /\ LeftIn(batch.msgs, o) \in Nat
    BY <1>0, LeftInType DEF ListsOK
  <2>3. LeftRefs(o) \in Nat
    BY <2>2 DEF LeftRefs
  <2>4. MakeRef(o) \in Nat
    <3>1. One(job.obj = o /\ job.pc \in {"parent", "retry", "left"}) \in {0, 1}
          /\ One(job.child = o) \in {0, 1}
      BY OneIs
    <3>2. QED
      BY <3>1 DEF MakeRef
  <2>5. UserRefs(o) \in Nat
    <3>1. One(o \in list) \in {0, 1} /\ One(o \in snap) \in {0, 1} /\ One(handle = o) \in {0, 1}
          /\ One(user.obj = o) \in {0, 1}
      BY OneIs
    <3>2. QED
      BY <3>1 DEF UserRefs
  <2>6. QED
    BY <2>1, <2>3, <2>4, <2>5 DEF Tied
<1>2. ASSUME NEW o \in Objects
      PROVE  Tied(o) + WorkRef(o) + UserRefs(o) \in Nat
  BY <1>1
<1>3. QED
  BY <1>1, <1>2 DEF RefsOK, Held, Tied

\* Whoever holds a device keeps it in memory.
LEMMA HeldLive ==
  ASSUME FlowInv, MemInv
  PROVE  \A o \in Objects : /\ objs[o].refs = 0 => Held[o] = 0
                            /\ Held[o] > 0 => objs[o].refs > 0
<1>1. Held \in [Objects -> Nat]
  BY RefTypes DEF RefsOK
<1> TAKE o \in Objects
<1>2. objs[o].refs = Held[o] + One(objs[o].leaked) + Children(objs, o)
  BY DEF MemInv, CountInv, Balanced
<1>3. Held[o] \in Nat /\ One(objs[o].leaked) \in Nat /\ Children(objs, o) \in Nat
  BY <1>1, OneIs, ChildrenNat
<1>4. QED
  BY <1>2, <1>3

LEMMA MemStep ==
  ASSUME Sound(objs'), PortInv', FreshInv', ListedOnce',
         NEW held2, Balanced(objs', held2),
         \A o \in Objects : held2[o] = Held[o]',
         \A o \in Objects : Tied(o)' + One(objs[o].leaked)' <= 1
  PROVE  MemInv'
<1>1. Balanced(objs', Held')
  BY DEF Balanced
<1>2. OnceInv'
  BY DEF OnceInv
<1>3. QED
  BY <1>1, <1>2 DEF MemInv, CountInv

\* What has not changed.
LEMMA ListRefKept   == UNCHANGED devs => ListedOnce' = ListedOnce /\ \A o : ListRef(o)' = ListRef(o)
  BY DEF ListedOnce, ListRef
LEMMA LeftRefsKept  == msgs' = msgs /\ batch'.msgs = batch.msgs => \A o : LeftRefs(o)' = LeftRefs(o)
  BY DEF LeftRefs
LEMMA MakeRefKept   == UNCHANGED job => \A o : MakeRef(o)' = MakeRef(o) /\ WorkRef(o)' = WorkRef(o)
  BY DEF MakeRef, WorkRef
LEMMA UserRefsKept  == UNCHANGED refs /\ user'.obj = user.obj => \A o : UserRefs(o)' = UserRefs(o)
  BY DEF UserRefs, refs
LEMMA PortFreshKept == PortInv /\ FreshInv /\ UNCHANGED <<objs, job>> => PortInv' /\ FreshInv'
  BY DEF PortInv, FreshInv

\* Work without a device in hand.
NoneInHand == /\ \A o \in Objects : MakeRef(o) = 0 /\ WorkRef(o) = 0
              /\ PortInv /\ FreshInv

LEMMA NoDevice == Proper(job) /\ job.obj = None /\ job.child = None => NoneInHand
<1> SUFFICES ASSUME Proper(job), job.obj = None, job.child = None
             PROVE  NoneInHand
  OBVIOUS
<1>1. ASSUME NEW o \in Objects
      PROVE  MakeRef(o) = 0 /\ WorkRef(o) = 0
  <2>1. job.obj # o /\ job.child # o
    OBVIOUS
  <2>2. QED
    BY <2>1 DEF MakeRef, WorkRef, One
<1>2. PortInv /\ FreshInv
  BY DEF Proper, PortInv, FreshInv, WorkPcs
<1>3. QED
  BY <1>1, <1>2 DEF NoneInHand

\* References change hands, or nothing happens to them.
LEMMA SameRefs ==
  ASSUME FlowInv, FlowInv', MemInv, UNCHANGED <<objs, devs>>,
         \A o \in Objects : LeftRefs(o)' + MakeRef(o)' = LeftRefs(o) + MakeRef(o),
         \A o \in Objects : WorkRef(o)' + UserRefs(o)' = WorkRef(o) + UserRefs(o),
         PortInv', FreshInv'
  PROVE  MemInv'
<1>1. /\ Sound(objs') /\ Balanced(objs', Held) /\ ListedOnce'
      /\ \A o \in Objects : ListRef(o)' = ListRef(o)
  BY ListRefKept DEF MemInv, CountInv
<1>2. \A o \in Objects : /\ ListRef(o) \in Nat /\ LeftRefs(o) \in Nat /\ MakeRef(o) \in Nat
                         /\ WorkRef(o) \in Nat /\ UserRefs(o) \in Nat
                         /\ Tied(o) = ListRef(o) + LeftRefs(o) + MakeRef(o)
                         /\ Held[o] = Tied(o) + WorkRef(o) + UserRefs(o)
  BY RefTypes DEF RefsOK
<1>3. \A o \in Objects : /\ ListRef(o)' \in Nat /\ LeftRefs(o)' \in Nat /\ MakeRef(o)' \in Nat
                         /\ WorkRef(o)' \in Nat /\ UserRefs(o)' \in Nat
                         /\ Tied(o)' = ListRef(o)' + LeftRefs(o)' + MakeRef(o)'
                         /\ Held[o]' = Tied(o)' + WorkRef(o)' + UserRefs(o)'
  <2>1. RefsOK'
    BY RefTypes, PTL
  <2>2. QED
    BY <2>1 DEF RefsOK
<1>4. \A o \in Objects : Tied(o)' = Tied(o) /\ Held[o] = Held[o]'
  BY <1>1, <1>2, <1>3
<1>5. \A o \in Objects : Tied(o)' + One(objs[o].leaked)' <= 1
  BY <1>4 DEF MemInv, OnceInv
<1>6. QED
  BY <1>1, <1>4, <1>5, MemStep

\* A change of memory leaves the device alone that work is on.
LEMMA WorkKept ==
  ASSUME FlowInv, FlowInv', MemInv, Sound(objs'), UNCHANGED job,
         NEW held2, Balanced(objs', held2),
         \A o \in Objects : held2[o] = Held[o]',
         \A o \in Objects : objs'[o].refs > 0 => /\ objs'[o].port = objs[o].port
                                                 /\ objs'[o].parent = objs[o].parent
  PROVE  PortInv' /\ FreshInv'
<1>1. RefsOK'
  BY RefTypes, PTL
<1>2. ASSUME NEW o \in Objects, MakeRef(o)' > 0
      PROVE  objs'[o].port = objs[o].port /\ objs'[o].parent = objs[o].parent
  <2>1. /\ objs'[o].refs = held2[o] + One(objs'[o].leaked) + Children(objs', o)
        /\ held2[o] = Held[o]'
    BY DEF Balanced
  <2>2. Held[o]' \in Nat /\ Held[o]' > 0
    BY <1>1, <1>2 DEF RefsOK
  <2>3. One(objs'[o].leaked) \in Nat /\ Children(objs', o) \in Nat
    BY OneIs, ChildrenNat
  <2>4. objs'[o].refs > 0
    BY <2>1, <2>2, <2>3
  <2>5. QED
    BY <2>4
<1>3. Proper(job) /\ job \in Job /\ PortInv /\ FreshInv
  BY FlowTypes DEF MemInv
<1>4. ASSUME job.pc \in {"parent", "retry"}
      PROVE  /\ job.obj \in Objects
             /\ objs'[job.obj].port = objs[job.obj].port /\ objs'[job.obj].parent = objs[job.obj].parent
  <2>1. job.obj \in Objects
    BY <1>3, <1>4 DEF Proper, Job, WorkPcs
  <2>2. One(job.obj = job.obj /\ job.pc \in {"parent", "retry", "left"}) = 1
    BY <1>4 DEF One
  <2>3. MakeRef(job.obj)' = 1 + One(job.child = job.obj) /\ One(job.child = job.obj) \in Nat
    BY <2>2, OneIs DEF MakeRef
  <2>4. QED
    BY <1>2, <2>1, <2>3
<1>5. ASSUME job.child # None
      PROVE  objs'[job.child].parent = objs[job.child].parent
  <2>1. job.child \in Objects
    BY <1>3, <1>5 DEF Job
  <2>2. One(job.child = job.child) = 1
    BY DEF One
  <2>3. /\ MakeRef(job.child)' = One(job.obj = job.child /\ job.pc \in {"parent", "retry", "left"}) + 1
        /\ One(job.obj = job.child /\ job.pc \in {"parent", "retry", "left"}) \in Nat
    BY <2>2, OneIs DEF MakeRef
  <2>4. QED
    BY <1>2, <2>1, <2>3
<1>6. QED
  BY <1>3, <1>4, <1>5 DEF PortInv, FreshInv

\* A place gives its reference up.
LEMMA UnrefStep ==
  ASSUME FlowInv, FlowInv', MemInv, NEW o \in Objects,
         objs' = UnrefDevice(objs, o), UNCHANGED job, ListedOnce',
         \A x \in Objects : ListRef(x)' + LeftRefs(x)' <= ListRef(x) + LeftRefs(x),
         \A x \in Objects : ListRef(x)' + LeftRefs(x)' + UserRefs(x)'
                            = ListRef(x) + LeftRefs(x) + UserRefs(x) - One(x = o)
  PROVE  MemInv'
<1>1. /\ Held \in [Objects -> Nat]
      /\ \A x \in Objects : /\ ListRef(x) \in Nat /\ LeftRefs(x) \in Nat /\ MakeRef(x) \in Nat
                            /\ WorkRef(x) \in Nat /\ UserRefs(x) \in Nat
                            /\ Tied(x) = ListRef(x) + LeftRefs(x) + MakeRef(x)
                            /\ Held[x] = Tied(x) + WorkRef(x) + UserRefs(x)
  BY RefTypes DEF RefsOK
<1>2. \A x \in Objects : /\ ListRef(x)' \in Nat /\ LeftRefs(x)' \in Nat
                         /\ WorkRef(x)' \in Nat /\ UserRefs(x)' \in Nat
                         /\ Tied(x)' = ListRef(x)' + LeftRefs(x)' + MakeRef(x)'
                         /\ Held[x]' = Tied(x)' + WorkRef(x)' + UserRefs(x)'
  <2>1. RefsOK'
    BY RefTypes, PTL
  <2>2. QED
    BY <2>1 DEF RefsOK
<1>3. \A x \in Objects : MakeRef(x)' = MakeRef(x) /\ WorkRef(x)' = WorkRef(x)
  BY MakeRefKept
<1> DEFINE held2 == [x \in Objects |-> Held[x] - One(x = o)]
<1>4. Held[o] > 0
  <2>1. One(o = o) = 1
    BY DEF One
  <2>2. ListRef(o)' + LeftRefs(o)' + UserRefs(o)' = ListRef(o) + LeftRefs(o) + UserRefs(o) - 1
    BY <2>1
  <2>3. QED
    BY <1>1, <1>2, <2>2
<1>5. /\ Sound(objs') /\ Balanced(objs', held2)
      /\ \A x \in Objects : objs'[x].refs > 0 => /\ objs'[x].port = objs[x].port
                                                 /\ objs'[x].parent = objs[x].parent
      /\ \A x \in Objects : objs'[x].leaked = objs[x].leaked
  <2>1. Sound(objs) /\ Balanced(objs, Held)
    BY DEF MemInv, CountInv
  <2>2. QED
    BY <1>1, <1>4, <2>1, UnrefKeeps
<1>6. ASSUME NEW x \in Objects
      PROVE  held2[x] = Held[x]'
  <2>1. held2[x] = Held[x] - One(x = o) /\ One(x = o) \in Int
    BY OneIs
  <2> HIDE DEF held2
  <2>2. ListRef(x)' + LeftRefs(x)' + UserRefs(x)'
        = ListRef(x) + LeftRefs(x) + UserRefs(x) - One(x = o)
    OBVIOUS
  <2>3. QED
    BY <1>1, <1>2, <1>3, <2>1, <2>2
<1> HIDE DEF held2
<1>7. ASSUME NEW x \in Objects
      PROVE  Tied(x)' + One(objs[x].leaked)' <= 1
  <2>1. Tied(x)' <= Tied(x)
    <3>1. ListRef(x)' + LeftRefs(x)' <= ListRef(x) + LeftRefs(x)
      OBVIOUS
    <3>2. QED
      BY <1>1, <1>2, <1>3, <3>1
  <2>2. Tied(x) + One(objs[x].leaked) <= 1
    BY DEF MemInv, OnceInv
  <2>3. One(objs[x].leaked)' = One(objs[x].leaked) /\ One(objs[x].leaked) \in Nat
    BY <1>5, OneIs
  <2>4. Tied(x) \in Nat /\ Tied(x)' \in Nat
    BY <1>1, <1>2, <1>3
  <2>5. QED
    BY <2>1, <2>2, <2>3, <2>4
<1>8. PortInv' /\ FreshInv'
  BY <1>5, <1>6, WorkKept
<1>9. QED
  BY <1>5, <1>6, <1>7, <1>8, MemStep

\* Places take references to devices that somebody holds.
LEMMA RefStep ==
  ASSUME FlowInv, FlowInv', MemInv, NEW S, \A x \in S \intersect Objects : objs[x].refs > 0,
         objs' = RefDevices(objs, S), UNCHANGED <<job, devs>>,
         \A x \in Objects : LeftRefs(x)' = LeftRefs(x),
         \A x \in Objects : UserRefs(x)' = UserRefs(x) + One(x \in S)
  PROVE  MemInv'
<1>1. /\ Held \in [Objects -> Nat]
      /\ \A x \in Objects : /\ ListRef(x) \in Nat /\ LeftRefs(x) \in Nat /\ MakeRef(x) \in Nat
                            /\ WorkRef(x) \in Nat /\ UserRefs(x) \in Nat
                            /\ Tied(x) = ListRef(x) + LeftRefs(x) + MakeRef(x)
                            /\ Held[x] = Tied(x) + WorkRef(x) + UserRefs(x)
  BY RefTypes DEF RefsOK
<1>2. \A x \in Objects : /\ UserRefs(x)' \in Nat
                         /\ Tied(x)' = ListRef(x)' + LeftRefs(x)' + MakeRef(x)'
                         /\ Held[x]' = Tied(x)' + WorkRef(x)' + UserRefs(x)'
  <2>1. RefsOK'
    BY RefTypes, PTL
  <2>2. QED
    BY <2>1 DEF RefsOK
<1>3. /\ \A x \in Objects : MakeRef(x)' = MakeRef(x) /\ WorkRef(x)' = WorkRef(x)
      /\ \A x \in Objects : ListRef(x)' = ListRef(x)
      /\ ListedOnce'
  BY MakeRefKept, ListRefKept DEF MemInv
<1> DEFINE held2 == [x \in Objects |-> Held[x] + One(x \in S)]
<1>4. /\ Sound(objs') /\ Balanced(objs', held2)
      /\ \A x \in Objects : /\ objs'[x].port = objs[x].port /\ objs'[x].parent = objs[x].parent
                            /\ objs'[x].leaked = objs[x].leaked
  <2>1. Sound(objs) /\ Balanced(objs, Held) /\ Held \in [Objects -> Int]
    BY <1>1 DEF MemInv, CountInv
  <2>2. QED
    BY <2>1, RefKeeps
<1>5. ASSUME NEW x \in Objects
      PROVE  held2[x] = Held[x]' /\ Tied(x)' = Tied(x)
  <2>1. held2[x] = Held[x] + One(x \in S) /\ One(x \in S) \in Int
    BY OneIs
  <2> HIDE DEF held2
  <2>2. UserRefs(x)' = UserRefs(x) + One(x \in S) /\ LeftRefs(x)' = LeftRefs(x)
    OBVIOUS
  <2>3. Tied(x)' = Tied(x)
    BY <1>1, <1>2, <1>3, <2>2
  <2>4. QED
    BY <1>1, <1>2, <1>3, <2>1, <2>2, <2>3
<1> HIDE DEF held2
<1>6. \A x \in Objects : Tied(x)' + One(objs[x].leaked)' <= 1
  BY <1>4, <1>5 DEF MemInv, OnceInv
<1>7. PortInv' /\ FreshInv'
  BY <1>4, <1>5, WorkKept
<1>8. QED
  BY <1>3, <1>4, <1>5, <1>6, <1>7, MemStep

\* A device nobody holds is not one that work is on.
LEMMA NotInHand ==
  ASSUME FlowInv, NEW o \in Objects, Held[o] = 0
  PROVE  (job.pc \in {"parent", "retry"} => job.obj # o) /\ job.child # o
<1>1. MakeRef(o) = 0
  <2>1. /\ ListRef(o) \in Nat /\ LeftRefs(o) \in Nat /\ MakeRef(o) \in Nat
        /\ WorkRef(o) \in Nat /\ UserRefs(o) \in Nat
        /\ Tied(o) = ListRef(o) + LeftRefs(o) + MakeRef(o)
        /\ Held[o] = Tied(o) + WorkRef(o) + UserRefs(o)
    BY RefTypes DEF RefsOK
  <2>2. QED
    BY <2>1
<1>2. /\ One(job.obj = o /\ job.pc \in {"parent", "retry", "left"}) = 0
      /\ One(job.child = o) = 0
  <2>1. /\ One(job.obj = o /\ job.pc \in {"parent", "retry", "left"}) \in Nat
        /\ One(job.child = o) \in Nat
    BY OneIs
  <2>2. QED
    BY <1>1, <2>1 DEF MakeRef
<1>3. job.child # o
  BY <1>2 DEF One
<1>4. job.pc \in {"parent", "retry"} => job.obj # o
  BY <1>2 DEF One
<1>5. QED
  BY <1>3, <1>4

\* Memory is taken for a device, and someone holds it.
LEMMA AllocStep ==
  ASSUME FlowInv, FlowInv', MemInv, NEW o \in Objects, objs[o].refs = 0,
         NEW dev, NewDevice(dev), objs' = Taken(objs, o, dev), UNCHANGED devs,
         \A x \in Objects : LeftRefs(x)' = LeftRefs(x),
         \A x \in Objects : MakeRef(x)' + UserRefs(x)' = MakeRef(x) + UserRefs(x) + One(x = o),
         \A x \in Objects : MakeRef(x)' <= MakeRef(x) + One(x = o),
         \A x \in Objects : WorkRef(x)' = WorkRef(x), PortInv', FreshInv'
  PROVE  MemInv'
<1>1. /\ Held \in [Objects -> Nat]
      /\ \A x \in Objects : /\ ListRef(x) \in Nat /\ LeftRefs(x) \in Nat /\ MakeRef(x) \in Nat
                            /\ WorkRef(x) \in Nat /\ UserRefs(x) \in Nat
                            /\ Tied(x) = ListRef(x) + LeftRefs(x) + MakeRef(x)
                            /\ Held[x] = Tied(x) + WorkRef(x) + UserRefs(x)
  BY RefTypes DEF RefsOK
<1>2. \A x \in Objects : /\ MakeRef(x)' \in Nat /\ UserRefs(x)' \in Nat
                         /\ Tied(x)' = ListRef(x)' + LeftRefs(x)' + MakeRef(x)'
                         /\ Held[x]' = Tied(x)' + WorkRef(x)' + UserRefs(x)'
  <2>1. RefsOK'
    BY RefTypes, PTL
  <2>2. QED
    BY <2>1 DEF RefsOK
<1>3. ListedOnce' /\ \A x \in Objects : ListRef(x)' = ListRef(x)
  BY ListRefKept DEF MemInv
<1> DEFINE held2 == [x \in Objects |-> Held[x] + One(x = o)]
<1>4. Sound(objs') /\ Balanced(objs', held2) /\ Held[o] = 0
  <2>1. Sound(objs) /\ Balanced(objs, Held)
    BY DEF MemInv, CountInv
  <2>2. held2 = [x \in Objects |-> Held[x] + One(x = o)]
    OBVIOUS
  <2>3. Held \in [Objects -> Nat] /\ objs[o].refs = 0
    BY <1>1
  <2> HIDE DEF held2
  <2>4. QED
    BY <2>1, <2>2, <2>3, AllocKeeps
<1>5. ASSUME NEW x \in Objects
      PROVE  held2[x] = Held[x]'
  <2>1. held2[x] = Held[x] + One(x = o) /\ One(x = o) \in Int
    BY OneIs
  <2> HIDE DEF held2
  <2>2. MakeRef(x)' + UserRefs(x)' = MakeRef(x) + UserRefs(x) + One(x = o)
        /\ LeftRefs(x)' = LeftRefs(x) /\ WorkRef(x)' = WorkRef(x)
    OBVIOUS
  <2>3. QED
    BY <1>1, <1>2, <1>3, <2>1, <2>2
<1> HIDE DEF held2
<1>6. ASSUME NEW x \in Objects
      PROVE  Tied(x)' + One(objs[x].leaked)' <= 1
  <2>0. MakeRef(x)' <= MakeRef(x) + One(x = o) /\ LeftRefs(x)' = LeftRefs(x)
    OBVIOUS
  <2>1. CASE x = o
    <3>1. Tied(x) = 0 /\ One(x = o) = 1
      <4>1. Held[x] = 0
        BY <1>4, <2>1
      <4>2. One(x = o) = 1
        BY <2>1 DEF One
      <4>3. QED
        BY <1>1, <4>1, <4>2
    <3>2. Tied(x)' <= 1
      BY <1>1, <1>2, <1>3, <2>0, <3>1
    <3>3. objs[x]' = dev
      BY <2>1 DEF MemInv, Sound, Taken
    <3>4. One(objs[x].leaked)' = 0
      BY <3>3 DEF One, NewDevice
    <3>5. QED
      BY <1>2, <1>1, <1>3, <2>0, <3>2, <3>4
  <2>2. CASE x # o
    <3>1. One(x = o) = 0 /\ objs[x]' = objs[x]
      BY <2>2 DEF One, MemInv, Sound, Taken
    <3>2. Tied(x) + One(objs[x].leaked) <= 1
      BY DEF MemInv, OnceInv
    <3>3. One(objs[x].leaked)' = One(objs[x].leaked) /\ One(objs[x].leaked) \in Nat
      BY <3>1, OneIs
    <3>4. Tied(x)' <= Tied(x)
      BY <1>1, <1>2, <1>3, <2>0, <3>1
    <3>5. Tied(x) \in Nat /\ Tied(x)' \in Nat
      BY <1>1, <1>2, <1>3, <2>0
    <3>6. QED
      BY <3>2, <3>3, <3>4, <3>5
  <2>3. QED
    BY <2>1, <2>2
<1>7. QED
  BY <1>3, <1>4, <1>5, <1>6, MemStep

\* Steps that have nothing to do with references.
LEMMA Untouched ==
  ASSUME FlowInv, FlowInv', MemInv, UNCHANGED <<objs, devs, msgs, job, refs>>,
         batch'.msgs = batch.msgs, user'.obj = user.obj
  PROVE  MemInv'
<1>1. /\ \A o : LeftRefs(o)' = LeftRefs(o)
      /\ \A o : MakeRef(o)' = MakeRef(o) /\ WorkRef(o)' = WorkRef(o)
      /\ \A o : UserRefs(o)' = UserRefs(o)
  BY LeftRefsKept, MakeRefKept, UserRefsKept
<1>2. PortInv' /\ FreshInv'
  BY PortFreshKept DEF MemInv
<1>3. QED
  BY <1>1, <1>2, SameRefs

\* Work begins or ends, with no device in hand.
LEMMA NewWork ==
  ASSUME FlowInv, FlowInv', MemInv, UNCHANGED <<objs, devs, msgs, refs>>,
         batch'.msgs = batch.msgs, user'.obj = user.obj,
         job.obj = None, job.child = None, job'.obj = None, job'.child = None
  PROVE  MemInv'
<1>1. Proper(job) /\ Proper(job)'
  BY FlowTypes, PTL
<1>2. NoneInHand
  BY <1>1, NoDevice
<1>3. NoneInHand'
  <2>1. (Proper(job) /\ job.obj = None /\ job.child = None)'
    BY <1>1
  <2>2. QED
    BY <2>1, NoDevice, PTL
<1>4. /\ \A o : LeftRefs(o)' = LeftRefs(o)
      /\ \A o : UserRefs(o)' = UserRefs(o)
  BY LeftRefsKept, UserRefsKept
<1>5. QED
  BY <1>2, <1>3, <1>4, SameRefs DEF NoneInHand

-----------------------------------------------------------------------------
(* Every step keeps the counts exact.                                      *)

\* The user thread has a device in hand only while it opens one.
LEMMA NotOpening == FlowInv => (user.pc \notin OpenPcs => user.obj = None)
  BY DEF FlowInv, StepsOK

\* No work without a name: what a thread starts with, and ends with.
LEMMA WorkBare ==
  ASSUME Proper(job), job = NoJob \/ job.pc = "more"
  PROVE  job.obj = None /\ job.child = None
<1>1. CASE job = NoJob
  BY <1>1, NoJobProper
<1>2. CASE job.pc = "more"
  BY <1>2 DEF Proper, WorkPcs
<1>3. QED
  BY <1>1, <1>2

LEMMA KernelMem ==
  ASSUME FlowInv, FlowInv', MemInv, Kernel
  PROVE  MemInv'
<1>1. UNCHANGED <<up, monitor, lists, batch, cblist, job, user, refs, told>>
  BY DEF Kernel, OtherUevent, Plug, Unplug
<1>2. UNCHANGED <<objs, devs, msgs, job, refs>> /\ batch'.msgs = batch.msgs /\ user'.obj = user.obj
  BY <1>1 DEF lists
<1>3. QED
  BY <1>2, Untouched

LEMMA MonitorMem ==
  ASSUME FlowInv, FlowInv', MemInv, Monitor
  PROVE  MemInv'
<1>1. /\ job = NoJob /\ queue # <<>> /\ ReadMessage("monitor")
      /\ UNCHANGED <<plugged, serial, lost, up, monitor, lists, batch, cblist, user, refs, told>>
  BY DEF Monitor
<1>2. job'.obj = None /\ job'.child = None
  BY <1>1, ReadType DEF FlowInv
<1>3. job.obj = None /\ job.child = None
  BY <1>1, NoJobProper
<1>4. UNCHANGED <<objs, devs, msgs, refs>> /\ batch'.msgs = batch.msgs /\ user'.obj = user.obj
  BY <1>1 DEF lists
<1>5. QED
  BY <1>2, <1>3, <1>4, NewWork

\* The first message of a queue is dispatched: if it says that a device left, the
\* reference it holds is dropped.
LEMMA FreeFirstStep ==
  ASSUME FlowInv, FlowInv', MemInv, NEW q \in Seq(Messages), q # <<>>, FreeFirst(q),
         UNCHANGED <<job, devs>>, \A x \in Objects : UserRefs(x)' = UserRefs(x),
         \A x \in Objects : LeftRefs(x)' = LeftRefs(x) - One(Head(q) = LeftMessage(x))
  PROVE  MemInv'
<1>1. Head(q) \in Messages /\ Head(q).obj \in Objects /\ Head(q).event \in {"arrived", "left"}
      /\ Head(q) = [event |-> Head(q).event, obj |-> Head(q).obj]
  <2>1. Head(q) \in Messages
    BY HeadTailProperties
  <2>2. QED
    BY <2>1 DEF Messages
<1>2. /\ ListedOnce' /\ \A x \in Objects : ListRef(x)' = ListRef(x)
      /\ \A x \in Objects : MakeRef(x)' = MakeRef(x) /\ WorkRef(x)' = WorkRef(x)
  BY ListRefKept, MakeRefKept DEF MemInv
<1>3. \A x \in Objects : /\ ListRef(x) \in Nat /\ LeftRefs(x) \in Nat /\ UserRefs(x) \in Nat
  BY RefTypes DEF RefsOK
<1>4. CASE Head(q).event = "left"
  <2>1. objs' = UnrefDevice(objs, Head(q).obj)
    BY <1>4 DEF FreeFirst
  <2>2. ASSUME NEW x \in Objects
        PROVE  LeftRefs(x)' = LeftRefs(x) - One(x = Head(q).obj)
    <3>1. Head(q) = LeftMessage(x) <=> x = Head(q).obj
      BY <1>1, <1>4 DEF LeftMessage
    <3>2. One(Head(q) = LeftMessage(x)) = One(x = Head(q).obj)
      BY <3>1 DEF One
    <3>3. LeftRefs(x)' = LeftRefs(x) - One(Head(q) = LeftMessage(x))
      OBVIOUS
    <3>4. QED
      BY <3>2, <3>3
  <2>3. \A x \in Objects : ListRef(x)' + LeftRefs(x)' <= ListRef(x) + LeftRefs(x)
    <3> TAKE x \in Objects
    <3>1. One(x = Head(q).obj) \in Nat
      BY OneIs
    <3>2. QED
      BY <1>2, <1>3, <2>2, <3>1
  <2>4. \A x \in Objects : ListRef(x)' + LeftRefs(x)' + UserRefs(x)'
                           = ListRef(x) + LeftRefs(x) + UserRefs(x) - One(x = Head(q).obj)
    <3> TAKE x \in Objects
    <3>1. One(x = Head(q).obj) \in Nat
      BY OneIs
    <3>2. UserRefs(x)' = UserRefs(x)
      OBVIOUS
    <3>3. QED
      BY <1>2, <1>3, <2>2, <3>1, <3>2
  <2>5. QED
    BY <1>1, <1>2, <2>1, <2>3, <2>4, UnrefStep
<1>5. CASE Head(q).event # "left"
  <2>1. UNCHANGED objs
    BY <1>5 DEF FreeFirst
  <2>2. ASSUME NEW x \in Objects
        PROVE  LeftRefs(x)' = LeftRefs(x)
    <3>1. Head(q) # LeftMessage(x)
      BY <1>5 DEF LeftMessage
    <3>2. One(Head(q) = LeftMessage(x)) = 0
      BY <3>1 DEF One
    <3>3. LeftRefs(x)' = LeftRefs(x) - One(Head(q) = LeftMessage(x))
      OBVIOUS
    <3>4. QED
      BY <1>3, <3>2, <3>3
  <2>3. PortInv' /\ FreshInv'
    BY <2>1, PortFreshKept DEF MemInv
  <2>4. QED
    BY <1>2, <2>1, <2>2, <2>3, SameRefs
<1>6. QED
  BY <1>4, <1>5

LEMMA HotplugMem ==
  ASSUME FlowInv, FlowInv', MemInv, HotplugProcess
  PROVE  MemInv'
<1>0. /\ msgs \in Seq(Messages) /\ batch.msgs \in Seq(Messages)
      /\ (~ batch.on => batch.msgs = <<>>) /\ batch \in Batch
  BY FlowTypes DEF ListsOK, FlowInv, UserInv, CbsOK
<1>1. CASE TakeMessages
  <2>1. /\ batch.msgs = <<>> /\ batch'.msgs = msgs /\ msgs' = <<>>
        /\ UNCHANGED <<bus, up, monitor, objs, devs, cblist, job, user, refs, told>>
    BY <1>0, <1>1 DEF TakeMessages
  <2>2. \A x : LeftRefs(x)' = LeftRefs(x)
    <3> TAKE x
    <3>1. LeftIn(batch.msgs, x) = 0 /\ LeftIn(msgs', x) = 0
      BY <2>1, LeftInEmpty
    <3>2. LeftIn(msgs, x) \in Nat /\ LeftIn(batch'.msgs, x) = LeftIn(msgs, x)
      BY <1>0, <2>1, LeftInType
    <3>3. QED
      BY <3>1, <3>2 DEF LeftRefs
  <2>3. /\ \A o : MakeRef(o)' = MakeRef(o) /\ WorkRef(o)' = WorkRef(o)
        /\ \A o : UserRefs(o)' = UserRefs(o)
    BY <2>1, MakeRefKept, UserRefsKept
  <2>4. PortInv' /\ FreshInv'
    BY <2>1, PortFreshKept DEF MemInv
  <2>5. QED
    BY <2>1, <2>2, <2>3, <2>4, SameRefs
<1>2. CASE CallBack
  <2>1. /\ UNCHANGED <<bus, up, monitor, lists, job, user, refs>>
        /\ \E c : batch' = [batch EXCEPT !.rest = @ \ {c}]
    BY <1>2 DEF CallBack
  <2>2. batch'.msgs = batch.msgs
    BY <1>0, <2>1 DEF Batch
  <2>3. UNCHANGED <<objs, devs, msgs, job, refs>> /\ user'.obj = user.obj
    BY <2>1 DEF lists
  <2>4. QED
    BY <2>2, <2>3, Untouched
<1>3. CASE MessageDone
  <2>1. /\ batch.msgs # <<>> /\ FreeFirst(batch.msgs)
        /\ batch' = [batch EXCEPT !.msgs = Tail(batch.msgs), !.rest = cbs]
        /\ UNCHANGED <<bus, up, monitor, devs, msgs, cblist, job, user, refs, told>>
    BY <1>3 DEF MessageDone
  <2>2. batch'.msgs = Tail(batch.msgs)
    BY <1>0, <2>1 DEF Batch
  <2>3. ASSUME NEW x \in Objects
        PROVE  LeftRefs(x)' = LeftRefs(x) - One(Head(batch.msgs) = LeftMessage(x))
    <3>1. LeftIn(batch.msgs, x) = LeftIn(Tail(batch.msgs), x) + One(Head(batch.msgs) = LeftMessage(x))
      BY <1>0, <2>1, LeftInTail
    <3>2. Tail(batch.msgs) \in Seq(Messages)
      BY <1>0, <2>1, HeadTailProperties
    <3>3. /\ LeftIn(batch.msgs, x) \in Nat /\ LeftIn(Tail(batch.msgs), x) \in Nat
          /\ LeftIn(msgs, x) \in Nat
      BY <1>0, <3>2, LeftInType
    <3>4. LeftRefs(x)' = LeftIn(msgs, x) + LeftIn(Tail(batch.msgs), x)
      BY <2>1, <2>2 DEF LeftRefs
    <3>5. LeftRefs(x) = LeftIn(msgs, x) + LeftIn(batch.msgs, x)
      BY DEF LeftRefs
    <3>6. One(Head(batch.msgs) = LeftMessage(x)) \in Nat
      BY OneIs
    <3>7. QED
      BY <3>1, <3>3, <3>4, <3>5, <3>6
  <2>4. \A x : UserRefs(x)' = UserRefs(x)
    BY <2>1, UserRefsKept
  <2>5. QED
    BY <1>0, <2>1, <2>3, <2>4, FreeFirstStep
<1>4. CASE FreeUnregistered
  <2>1. /\ UNCHANGED <<bus, up, monitor, lists, job, user, refs>>
        /\ batch' = [batch EXCEPT !.on = FALSE, !.rest = {}]
    BY <1>4 DEF FreeUnregistered
  <2>2. batch'.msgs = batch.msgs
    BY <1>0, <2>1 DEF Batch
  <2>3. UNCHANGED <<objs, devs, msgs, job, refs>> /\ user'.obj = user.obj
    BY <2>1 DEF lists
  <2>4. QED
    BY <2>2, <2>3, Untouched
<1>5. QED
  BY <1>1, <1>2, <1>3, <1>4 DEF HotplugProcess

\* A device leaves the list.
LEMMA RemovedFrom ==
  ASSUME devs \in Seq(Objects), devs' \in Seq(Objects), ListedOnce, NEW k \in DOMAIN devs,
         Len(devs') = Len(devs) - 1,
         \A i \in 1..Len(devs) - 1 : devs'[i] = IF i < k THEN devs[i] ELSE devs[i + 1]
  PROVE  ListedOnce' /\ \A x \in Objects : ListRef(x)' = ListRef(x) - One(x = devs[k])
<1> DEFINE n == Len(devs)
           src(i) == IF i < k THEN i ELSE i + 1
<1>1. n \in Nat /\ DOMAIN devs = 1..n /\ k \in 1..n /\ DOMAIN devs' = 1..n - 1
  BY LenProperties
<1>2. \A i \in 1..n - 1 : src(i) \in 1..n /\ src(i) # k /\ devs'[i] = devs[src(i)]
  BY <1>1
<1>3. \A i, j \in 1..n - 1 : src(i) = src(j) => i = j
  BY <1>1
<1>4. \A i, j \in 1..n : devs[i] = devs[j] => i = j
  BY <1>1 DEF ListedOnce
<1>5. ASSUME NEW j \in 1..n, j # k
      PROVE  \E i \in 1..n - 1 : src(i) = j
  <2>1. CASE j < k
    BY <1>1, <1>5, <2>1
  <2>2. CASE ~ (j < k)
    <3>1. j - 1 \in 1..n - 1 /\ src(j - 1) = j
      BY <1>1, <1>5, <2>2
    <3>2. QED
      BY <3>1
  <2>3. QED
    BY <2>1, <2>2
<1> HIDE DEF n, src
<1>6. ListedOnce'
  <2>1. \A i, j \in 1..n - 1 : devs'[i] = devs'[j] => i = j
    BY <1>2, <1>3, <1>4
  <2>2. QED
    BY <1>1, <2>1 DEF ListedOnce
<1>7. ASSUME NEW x \in Objects
      PROVE  ListRef(x)' = ListRef(x) - One(x = devs[k])
  <2>1. x \in Range(devs) <=> \E j \in 1..n : devs[j] = x
    BY <1>1 DEF Range
  <2>2. x \in Range(devs') <=> \E i \in 1..n - 1 : devs'[i] = x
    BY <1>1 DEF Range
  <2>3. CASE x = devs[k]
    <3>1. x \in Range(devs) /\ x \notin Range(devs')
      BY <1>1, <1>2, <1>4, <2>1, <2>2, <2>3
    <3>2. One(x \in Range(devs)) = 1 /\ One(x \in Range(devs')) = 0 /\ One(x = devs[k]) = 1
      BY <2>3, <3>1 DEF One
    <3>3. QED
      BY <3>2 DEF ListRef
  <2>4. CASE x # devs[k]
    <3>1. x \in Range(devs') <=> x \in Range(devs)
      BY <1>2, <1>5, <2>1, <2>2, <2>4
    <3>2. One(x \in Range(devs)) = One(x \in Range(devs')) /\ One(x = devs[k]) = 0
      BY <2>4, <3>1 DEF One
    <3>3. One(x \in Range(devs)) \in Nat
      BY OneIs
    <3>4. QED
      BY <3>2, <3>3 DEF ListRef
  <2>5. QED
    BY <2>3, <2>4
<1>8. QED
  BY <1>6, <1>7

LEMMA SameUser ==
  ASSUME FlowInv, FlowInv', user.pc \notin OpenPcs, user'.pc \notin OpenPcs
  PROVE  user'.obj = user.obj
<1>1. (user.pc \notin OpenPcs => user.obj = None)'
  <2>1. FlowInv'
    OBVIOUS
  <2>2. QED
    BY <2>1, NotOpening, PTL
<1>2. user'.obj = None
  BY <1>1
<1>3. QED
  BY <1>2, NotOpening

LEMMA SetUpMem ==
  ASSUME FlowInv, FlowInv', MemInv, SetUpTearDown
  PROVE  MemInv'
<1>0. /\ msgs \in Seq(Messages) /\ devs \in Seq(Objects) /\ batch \in Batch
      /\ user \in User /\ Proper(job)
  BY FlowTypes DEF ListsOK, FlowInv, CbsOK, StepsOK
<1>1. /\ Idle \in User /\ Idle.pc = "idle"
      /\ Calling("start") \in User /\ Calling("start").pc = "start"
  BY <1>0, IdleType DEF UserPcs
<1>2. \A pc \in {"idle", "start", "started", "scan", "scanned", "hotplug_exit", "free"} : pc \notin OpenPcs
  BY DEF OpenPcs
<1>3. CASE InitContext \/ HotplugInit
  <2>1. /\ user.pc \in {"idle", "scanned"} /\ user' \in {Calling("start"), Idle}
        /\ UNCHANGED <<bus, monitor, lists, batch, cblist, job, refs, told>>
    BY <1>3 DEF InitContext, HotplugInit
  <2>2. user'.obj = user.obj
    BY <1>1, <1>2, <2>1, SameUser
  <2>3. UNCHANGED <<objs, devs, msgs, job, refs>> /\ batch'.msgs = batch.msgs
    BY <2>1 DEF lists
  <2>4. QED
    BY <2>2, <2>3, Untouched
<1>4. CASE StartMonitor \/ Exit \/ HotplugExit
  <2>1. /\ \E pc : user' = [user EXCEPT !.pc = pc]
        /\ \/ UNCHANGED batch
           \/ batch' = [batch EXCEPT !.deregistered = FALSE]
        /\ UNCHANGED <<lists, job, refs>>
    BY <1>4 DEF StartMonitor, Exit, HotplugExit
  <2>2. user'.obj = user.obj /\ batch'.msgs = batch.msgs
    BY <1>0, <2>1 DEF User, Batch
  <2>3. UNCHANGED <<objs, devs, msgs, job, refs>>
    BY <2>1 DEF lists
  <2>4. QED
    BY <2>2, <2>3, Untouched
<1>5. ASSUME ScanDevices \/ ScanDone \/ \E p \in Ports : ScanDevice(p)
      PROVE  MemInv'
  <2>1. /\ job = NoJob \/ job.pc = "more"
        /\ user'.obj = user.obj
        /\ UNCHANGED <<bus, up, monitor, lists, batch, cblist, refs, told>>
    <3>1. CASE ScanDevices
      BY <1>0, <3>1 DEF ScanDevices, User
    <3>2. CASE ScanDone
      BY <1>0, <3>2 DEF ScanDone, User
    <3>3. ASSUME NEW p \in Ports, ScanDevice(p) PROVE <2>1!:
      BY <1>0, <3>3 DEF ScanDevice, User
    <3>4. QED
      BY <1>5, <3>1, <3>2, <3>3
  <2>2. job'.obj = None /\ job'.child = None
    <3>1. CASE ScanDevices
      BY <3>1 DEF ScanDevices, NoJob
    <3>2. CASE ScanDone
      BY <3>2, NoJobProper DEF ScanDone
    <3>3. ASSUME NEW p \in Ports, ScanDevice(p)
          PROVE  job'.obj = None /\ job'.child = None
      <4>1. job.obj = None /\ job.child = None
        BY <1>0, <2>1, WorkBare
      <4>2. CASE job' = job
        BY <4>1, <4>2
      <4>3. CASE job' # job
        BY <3>3, <4>3 DEF ScanDevice, Work, NoJob
      <4>4. QED
        BY <4>2, <4>3
    <3>4. QED
      BY <1>5, <3>1, <3>2, <3>3
  <2>3. job.obj = None /\ job.child = None
    BY <1>0, <2>1, WorkBare
  <2>4. UNCHANGED <<objs, devs, msgs, refs>> /\ batch'.msgs = batch.msgs
    BY <2>1 DEF lists
  <2>5. QED
    BY <2>1, <2>2, <2>3, <2>4, NewWork
<1>6. CASE FreeMessage
  <2>1. /\ msgs # <<>> /\ FreeFirst(msgs) /\ msgs' = Tail(msgs)
        /\ UNCHANGED <<bus, up, monitor, devs, batch, cblist, job, user, refs, told>>
    BY <1>6 DEF FreeMessage
  <2>2. ASSUME NEW x \in Objects
        PROVE  LeftRefs(x)' = LeftRefs(x) - One(Head(msgs) = LeftMessage(x))
    <3>1. LeftIn(msgs, x) = LeftIn(Tail(msgs), x) + One(Head(msgs) = LeftMessage(x))
      BY <1>0, <2>1, LeftInTail
    <3>2. Tail(msgs) \in Seq(Messages) /\ batch.msgs \in Seq(Messages)
      BY <1>0, <2>1, HeadTailProperties DEF Batch
    <3>3. /\ LeftIn(batch.msgs, x) \in Nat /\ LeftIn(Tail(msgs), x) \in Nat
          /\ LeftIn(msgs, x) \in Nat
      BY <1>0, <3>2, LeftInType
    <3>4. LeftRefs(x)' = LeftIn(Tail(msgs), x) + LeftIn(batch.msgs, x)
      BY <2>1 DEF LeftRefs
    <3>5. LeftRefs(x) = LeftIn(msgs, x) + LeftIn(batch.msgs, x)
      BY DEF LeftRefs
    <3>6. One(Head(msgs) = LeftMessage(x)) \in Nat
      BY OneIs
    <3>7. QED
      BY <3>1, <3>3, <3>4, <3>5, <3>6
  <2>3. \A x : UserRefs(x)' = UserRefs(x)
    BY <2>1, UserRefsKept
  <2>4. QED
    BY <1>0, <2>1, <2>2, <2>3, FreeFirstStep
<1>7. CASE FreeDevice
  <2>1. /\ devs # <<>> /\ objs' = UnrefDevice(objs, Head(devs)) /\ devs' = Tail(devs)
        /\ UNCHANGED <<bus, up, monitor, msgs, batch, cblist, job, user, refs, told>>
    BY <1>7 DEF FreeDevice
  <2>2. /\ Head(devs) \in Objects /\ devs' \in Seq(Objects) /\ Len(devs') = Len(devs) - 1
        /\ \A i \in 1..Len(devs') : devs'[i] = devs[i + 1]
    BY <1>0, <2>1, HeadTailProperties
  <2>3. 1 \in DOMAIN devs /\ Head(devs) = devs[1]
    <3>1. DOMAIN devs = 1..Len(devs) /\ Len(devs) \in Nat /\ Len(devs) # 0
      BY <1>0, <2>1, LenProperties, EmptySeq
    <3>2. QED
      BY <1>0, <2>1, <3>1
  <2>4. \A i \in 1..Len(devs) - 1 : devs'[i] = IF i < 1 THEN devs[i] ELSE devs[i + 1]
    BY <2>2
  <2>5. ListedOnce' /\ \A x \in Objects : ListRef(x)' = ListRef(x) - One(x = Head(devs))
    BY <1>0, <2>2, <2>3, <2>4, RemovedFrom DEF MemInv
  <2>6. /\ \A x : LeftRefs(x)' = LeftRefs(x)
        /\ \A x : UserRefs(x)' = UserRefs(x)
    BY <2>1, LeftRefsKept, UserRefsKept
  <2>7. \A x \in Objects : ListRef(x) \in Nat /\ LeftRefs(x) \in Nat /\ UserRefs(x) \in Nat
    BY RefTypes DEF RefsOK
  <2>8. \A x \in Objects : ListRef(x)' + LeftRefs(x)' <= ListRef(x) + LeftRefs(x)
    <3> TAKE x \in Objects
    <3>1. One(x = Head(devs)) \in Nat
      BY OneIs
    <3>2. QED
      BY <2>5, <2>6, <2>7, <3>1
  <2>9. \A x \in Objects : ListRef(x)' + LeftRefs(x)' + UserRefs(x)'
                           = ListRef(x) + LeftRefs(x) + UserRefs(x) - One(x = Head(devs))
    <3> TAKE x \in Objects
    <3>1. One(x = Head(devs)) \in Nat
      BY OneIs
    <3>2. QED
      BY <2>5, <2>6, <2>7, <3>1
  <2>10. QED
    BY <2>1, <2>2, <2>5, <2>8, <2>9, UnrefStep
<1>8. CASE StopMonitor
  <2>1. /\ user.pc = "free" /\ user' = Idle
        /\ UNCHANGED <<plugged, serial, lost, lists, batch, cblist, job, refs, told>>
    BY <1>8 DEF StopMonitor
  <2>2. user'.obj = user.obj
    BY <1>1, <1>2, <2>1, SameUser
  <2>3. UNCHANGED <<objs, devs, msgs, job, refs>> /\ batch'.msgs = batch.msgs
    BY <2>1 DEF lists
  <2>4. QED
    BY <2>2, <2>3, Untouched
<1>9. QED
  BY <1>3, <1>4, <1>5, <1>6, <1>7, <1>8 DEF SetUpTearDown

\* The user takes references to devices where it had none, and gives one back.
LEMMA UserTakes ==
  ASSUME NEW S, handle' = handle, user'.obj = user.obj,
         \/ list = {} /\ list' = S /\ snap' = snap
         \/ snap = {} /\ snap' = S /\ list' = list
  PROVE  \A x \in Objects : UserRefs(x)' = UserRefs(x) + One(x \in S)
<1> TAKE x \in Objects
<1>1. /\ One(handle = x)' = One(handle = x) /\ One(user.obj = x)' = One(user.obj = x)
      /\ One(handle = x) \in Nat /\ One(user.obj = x) \in Nat /\ One(x \in S) \in Nat
      /\ One(x \in list) \in Nat /\ One(x \in snap) \in Nat
  BY OneIs
<1>2. One(x \in list)' + One(x \in snap)' = One(x \in list) + One(x \in snap) + One(x \in S)
  <2>1. One(x \in {}) = 0
    BY DEF One
  <2>2. CASE list = {} /\ list' = S /\ snap' = snap
    BY <1>1, <2>1, <2>2
  <2>3. CASE snap = {} /\ snap' = S /\ list' = list
    BY <1>1, <2>1, <2>3
  <2>4. QED
    BY <2>2, <2>3
<1>3. One(x \in list)' \in Nat /\ One(x \in snap)' \in Nat
  BY OneIs
<1>4. QED
  BY <1>1, <1>2, <1>3 DEF UserRefs

LEMMA UserDrops ==
  ASSUME NEW o \in Objects,
         \/ o \in list /\ list' = list \ {o} /\ UNCHANGED <<snap, handle>> /\ user'.obj = user.obj
         \/ o \in snap /\ snap' = snap \ {o} /\ UNCHANGED <<list, handle>> /\ user'.obj = user.obj
         \/ handle = o /\ handle' = None /\ UNCHANGED <<list, snap>> /\ user'.obj = user.obj
         \/ user.obj = o /\ user'.obj = None /\ UNCHANGED <<list, snap, handle>>
  PROVE  \A x \in Objects : UserRefs(x)' = UserRefs(x) - One(x = o)
<1> TAKE x \in Objects
<1> DEFINE a == One(x \in list)
           b == One(x \in snap)
           c == One(handle = x)
           d == One(user.obj = x)
           e == One(x = o)
<1>1. /\ a \in {0, 1} /\ b \in {0, 1} /\ c \in {0, 1} /\ d \in {0, 1} /\ e \in {0, 1}
      /\ a' \in {0, 1} /\ b' \in {0, 1} /\ c' \in {0, 1} /\ d' \in {0, 1}
  BY OneIs
<1>2. UserRefs(x) = a + b + c + d /\ UserRefs(x)' = a' + b' + c' + d'
  BY DEF UserRefs
<1>3. CASE o \in list /\ list' = list \ {o} /\ UNCHANGED <<snap, handle>> /\ user'.obj = user.obj
  <2>1. a' = a - e /\ b' = b /\ c' = c /\ d' = d
    BY <1>3 DEF One
  <2> HIDE DEF a, b, c, d, e
  <2>2. QED
    BY <1>1, <1>2, <2>1 DEF e
<1>4. CASE o \in snap /\ snap' = snap \ {o} /\ UNCHANGED <<list, handle>> /\ user'.obj = user.obj
  <2>1. a' = a /\ b' = b - e /\ c' = c /\ d' = d
    BY <1>4 DEF One
  <2> HIDE DEF a, b, c, d, e
  <2>2. QED
    BY <1>1, <1>2, <2>1 DEF e
<1>5. CASE handle = o /\ handle' = None /\ UNCHANGED <<list, snap>> /\ user'.obj = user.obj
  <2>1. a' = a /\ b' = b /\ c' = c - e /\ d' = d
    BY <1>5 DEF One
  <2> HIDE DEF a, b, c, d, e
  <2>2. QED
    BY <1>1, <1>2, <2>1 DEF e
<1>6. CASE user.obj = o /\ user'.obj = None /\ UNCHANGED <<list, snap, handle>>
  <2>1. a' = a /\ b' = b /\ c' = c /\ d' = d - e
    BY <1>6 DEF One
  <2> HIDE DEF a, b, c, d, e
  <2>2. QED
    BY <1>1, <1>2, <2>1 DEF e
<1>7. QED
  BY <1>3, <1>4, <1>5, <1>6

\* The user gives a reference back, and no other changes.
LEMMA UserUnref ==
  ASSUME FlowInv, FlowInv', MemInv, NEW o \in Objects,
         objs' = UnrefDevice(objs, o), UNCHANGED <<devs, msgs, job>>, batch'.msgs = batch.msgs,
         \A x \in Objects : UserRefs(x)' = UserRefs(x) - One(x = o)
  PROVE  MemInv'
<1>1. /\ ListedOnce' /\ \A x : ListRef(x)' = ListRef(x)
      /\ \A x : LeftRefs(x)' = LeftRefs(x)
  BY ListRefKept, LeftRefsKept DEF MemInv
<1>2. \A x \in Objects : ListRef(x) \in Nat /\ LeftRefs(x) \in Nat /\ UserRefs(x) \in Nat
  BY RefTypes DEF RefsOK
<1>3. \A x \in Objects : ListRef(x)' + LeftRefs(x)' <= ListRef(x) + LeftRefs(x)
  BY <1>1, <1>2
<1>4. \A x \in Objects : ListRef(x)' + LeftRefs(x)' + UserRefs(x)'
                         = ListRef(x) + LeftRefs(x) + UserRefs(x) - One(x = o)
  <2> TAKE x \in Objects
  <2>1. One(x = o) \in Nat /\ UserRefs(x)' = UserRefs(x) - One(x = o)
    BY OneIs
  <2>2. QED
    BY <1>1, <1>2, <2>1
<1>5. QED
  BY <1>1, <1>3, <1>4, UnrefStep

LEMMA DeviceListsMem ==
  ASSUME FlowInv, FlowInv', MemInv, DeviceLists
  PROVE  MemInv'
<1>0. /\ devs \in Seq(Objects) /\ user \in User /\ Proper(job) /\ UserInv /\ list \in SUBSET Objects
  BY FlowTypes DEF ListsOK, FlowInv, StepsOK, HeldOK
<1>1. /\ Idle.obj = None /\ Calling("poll") \in User /\ Calling("poll").obj = None
      /\ Calling("poll").pc = "poll"
  BY <1>0, IdleType DEF UserPcs
<1>2. /\ \A pc \in {"idle", "poll", "copy", "free_list"} : pc \notin OpenPcs
      /\ user.pc \in {"idle", "poll", "copy", "free_list"} => user.obj = None
  BY NotOpening DEF OpenPcs
<1>3. CASE GetDeviceList
  <2>1. /\ user.pc = "idle"
        /\ user' = [Calling("poll") EXCEPT !.asked = plugged, !.since = serial]
        /\ UNCHANGED <<bus, up, monitor, lists, batch, cblist, job, refs, told>>
    BY <1>3 DEF GetDeviceList, Ready
  <2>2. user'.obj = user.obj
    BY <1>1, <1>2, <2>1 DEF User
  <2>3. UNCHANGED <<objs, devs, msgs, job, refs>> /\ batch'.msgs = batch.msgs
    BY <2>1 DEF lists
  <2>4. QED
    BY <2>2, <2>3, Untouched
<1>4. CASE HotplugPoll
  <2>1. /\ user.pc = "poll" /\ (job = NoJob \/ job.pc = "more")
        /\ UNCHANGED <<plugged, serial, lost, up, monitor, lists, batch, cblist, refs, told>>
    BY <1>4 DEF HotplugPoll
  <2>2. job.obj = None /\ job.child = None
    BY <1>0, <2>1, WorkBare
  <2>3. job'.obj = None /\ job'.child = None
    <3>1. CASE queue = <<>>
      BY <1>4, <3>1, NoJobProper DEF HotplugPoll
    <3>2. CASE queue # <<>>
      <4>1. ReadMessage("poll") /\ BusOK
        BY <1>4, <3>2 DEF HotplugPoll, FlowInv
      <4>2. QED
        BY <3>2, <4>1, ReadType
    <3>3. QED
      BY <3>1, <3>2
  <2>4. user'.obj = user.obj
    <3>1. user' \in {user, [user EXCEPT !.pc = "copy"], [user EXCEPT !.pc = "copy", !.cut = TRUE]}
      BY <1>4 DEF HotplugPoll
    <3>2. QED
      BY <1>0, <3>1 DEF User
  <2>5. UNCHANGED <<objs, devs, msgs, refs>> /\ batch'.msgs = batch.msgs
    BY <2>1 DEF lists
  <2>6. QED
    BY <2>2, <2>3, <2>4, <2>5, NewWork
<1>5. CASE CopyList
  <2>1. /\ user.pc = "copy" /\ objs' = RefDevices(objs, Range(devs)) /\ handle' = handle
        /\ UNCHANGED <<bus, up, monitor, devs, msgs, batch, cblist, job, told>>
    BY <1>5 DEF CopyList, Discovered
  <2>2. user'.obj = user.obj
    <3>1. user' \in {Idle, [user EXCEPT !.pc = "fire", !.todo = Range(devs)]}
      BY <1>5 DEF CopyList
    <3>2. QED
      BY <1>0, <1>1, <1>2, <2>1, <3>1 DEF User
  <2>3. \/ list = {} /\ list' = Range(devs) /\ snap' = snap
        \/ snap = {} /\ snap' = Range(devs) /\ list' = list
    BY <1>0, <1>5, <2>1 DEF CopyList, UserInv
  <2>4. \A x \in Objects : UserRefs(x)' = UserRefs(x) + One(x \in Range(devs))
    BY <2>1, <2>2, <2>3, UserTakes
  <2>5. \A x \in Objects : LeftRefs(x)' = LeftRefs(x)
    BY <2>1, LeftRefsKept
  <2>6. \A x \in Range(devs) \intersect Objects : objs[x].refs > 0
    <3> TAKE x \in Range(devs) \intersect Objects
    <3>1. ListRef(x) = 1
      BY DEF ListRef, One
    <3>2. Held[x] > 0
      BY <3>1, RefTypes DEF RefsOK
    <3>3. QED
      BY <3>2, HeldLive
  <2>7. QED
    BY <2>1, <2>4, <2>5, <2>6, RefStep
<1>6. ASSUME NEW o \in Objects, FreeDeviceList(o) PROVE MemInv'
  <2>1. /\ user.pc \in {"idle", "free_list"} /\ o \in list /\ list' = list \ {o}
        /\ objs' = UnrefDevice(objs, o)
        /\ \E pc : user' = [user EXCEPT !.pc = pc]
        /\ UNCHANGED <<bus, up, monitor, devs, msgs, batch, cblist, job, snap, handle, told>>
    BY <1>6 DEF FreeDeviceList
  <2>2. user'.obj = user.obj
    BY <1>0, <2>1 DEF User
  <2>3. \A x \in Objects : UserRefs(x)' = UserRefs(x) - One(x = o)
    BY <2>1, <2>2, UserDrops
  <2>4. QED
    BY <2>1, <2>3, UserUnref
<1>7. QED
  BY <1>3, <1>4, <1>5, <1>6 DEF DeviceLists

\* Memory that is taken is not that of a device somebody works on.
LEMMA OthersKept ==
  ASSUME FlowInv, MemInv, NEW o \in Objects, objs[o].refs = 0, NEW dev,
         objs' = Taken(objs, o, dev), UNCHANGED job
  PROVE  PortInv' /\ FreshInv'
<1>1. (job.pc \in {"parent", "retry"} => job.obj # o) /\ job.child # o
  <2>1. Held[o] = 0
    BY HeldLive
  <2>2. QED
    BY <2>1, NotInHand
<1>2. \A x : x # o => objs'[x] = objs[x]
  BY DEF Taken
<1>3. PortInv /\ FreshInv
  BY DEF MemInv
<1>4. QED
  BY <1>1, <1>2, <1>3 DEF PortInv, FreshInv

LEMMA OpenAndCloseMem ==
  ASSUME FlowInv, FlowInv', MemInv, OpenAndClose
  PROVE  MemInv'
<1>0. /\ user \in User /\ Proper(job) /\ UserInv /\ list \in SUBSET Objects
      /\ handle \in Objects \union {None} /\ objs \in [Objects -> Device]
      /\ user.obj # None <=> user.pc \in OpenPcs
  BY FlowTypes DEF FlowInv, StepsOK, HeldOK, MemInv, Sound
<1>1. Idle.obj = None /\ Calling("idle").obj = None
  BY <1>0, IdleType DEF UserPcs
<1>2. "idle" \notin OpenPcs /\ \A pc \in {"open", "gone", "failed"} : pc \in OpenPcs
  BY DEF OpenPcs
<1>3. ASSUME NEW o \in Objects, Open(o) PROVE MemInv'
  <2>1. /\ user.pc = "idle" /\ o \in list /\ objs' = RefDevices(objs, {o})
        /\ user' = [user EXCEPT !.pc = "open", !.obj = o]
        /\ UNCHANGED <<bus, up, monitor, devs, msgs, batch, cblist, job, refs, told>>
    BY <1>3 DEF Open, Ready, RefDevice
  <2>2. user.obj = None /\ user'.obj = o
    BY <1>0, <1>2, <2>1 DEF User
  <2>3. ASSUME NEW x \in Objects
        PROVE  UserRefs(x)' = UserRefs(x) + One(x \in {o})
    <3>1. One(user.obj = x) = 0 /\ One(user'.obj = x) = One(x \in {o})
      BY <2>2 DEF One
    <3>2. /\ One(x \in list) \in Nat /\ One(x \in snap) \in Nat /\ One(handle = x) \in Nat
          /\ One(x \in {o}) \in Nat
      BY OneIs
    <3>3. UserRefs(x)' = One(x \in list) + One(x \in snap) + One(handle = x) + One(user'.obj = x)
      BY <2>1 DEF UserRefs, refs
    <3>4. UserRefs(x) = One(x \in list) + One(x \in snap) + One(handle = x) + One(user.obj = x)
      BY DEF UserRefs
    <3>5. QED
      BY <3>1, <3>2, <3>3, <3>4
  <2>4. \A x \in Objects : LeftRefs(x)' = LeftRefs(x)
    BY <2>1, LeftRefsKept
  <2>5. objs[o].refs > 0
    <3>0. One(o \in list) = 1
      BY <2>1 DEF One
    <3>1. One(o \in snap) \in Nat /\ One(handle = o) \in Nat /\ One(user.obj = o) \in Nat
      BY OneIs
    <3>2. UserRefs(o) > 0
      BY <3>0, <3>1 DEF UserRefs
    <3>3. Held[o] > 0
      BY <3>2, RefTypes DEF RefsOK
    <3>4. QED
      BY <3>3, HeldLive
  <2>6. \A x \in {o} \intersect Objects : objs[x].refs > 0
    BY <2>5
  <2>7. QED
    BY <2>1, <2>3, <2>4, <2>6, RefStep
<1>4. CASE OpenBackend
  <2>1. /\ user.pc = "open" /\ user.obj \in Objects /\ handle = None
        /\ UNCHANGED <<bus, up, monitor, lists, batch, cblist, job, list, snap, told>>
    BY <1>0, <1>2, <1>4 DEF OpenBackend, User, UserInv
  <2>2. CASE handle' = user.obj /\ user' = Idle
    <3>1. ASSUME NEW x \in Objects
          PROVE  UserRefs(x)' = UserRefs(x)
      <4>1. One(handle = x) = 0 /\ One(user'.obj = x) = 0
        <5>1. x # None /\ handle # x /\ user'.obj # x
          BY <1>1, <2>1, <2>2
        <5>2. QED
          BY <5>1 DEF One
      <4>0. One(handle' = x) = One(user.obj = x) /\ One(user.obj = x) \in Nat
        <5>1. One(user.obj = x) \in Nat
          BY OneIs
        <5>2. QED
          BY <2>2, <5>1
      <4>2. One(x \in list) \in Nat /\ One(x \in snap) \in Nat
        BY OneIs
      <4>3. UserRefs(x)' = One(x \in list) + One(x \in snap) + One(handle' = x) + One(user'.obj = x)
        BY <2>1 DEF UserRefs
      <4>4. UserRefs(x) = One(x \in list) + One(x \in snap) + One(handle = x) + One(user.obj = x)
        BY DEF UserRefs
      <4>5. QED
        BY <4>0, <4>1, <4>2, <4>3, <4>4
    <3>2. UNCHANGED <<objs, devs, msgs, job>> /\ batch'.msgs = batch.msgs
      BY <2>1 DEF lists
    <3>3. /\ \A o : LeftRefs(o)' = LeftRefs(o)
          /\ \A o : MakeRef(o)' = MakeRef(o) /\ WorkRef(o)' = WorkRef(o)
      BY <3>2, LeftRefsKept, MakeRefKept
    <3>4. PortInv' /\ FreshInv'
      BY <3>2, PortFreshKept DEF MemInv
    <3>5. QED
      BY <3>1, <3>2, <3>3, <3>4, SameRefs
  <2>3. CASE handle' = handle /\ user' = [user EXCEPT !.pc = "gone"]
    <3>1. /\ UNCHANGED <<objs, devs, msgs, job, refs>> /\ batch'.msgs = batch.msgs
          /\ user'.obj = user.obj
      BY <1>0, <2>1, <2>3 DEF lists, refs, User
    <3>2. QED
      BY <3>1, Untouched
  <2>4. QED
    BY <1>4, <2>2, <2>3 DEF OpenBackend
<1>5. CASE DisconnectGone
  <2>1. /\ user.pc = "gone" /\ job = NoJob /\ user' = [user EXCEPT !.pc = "failed"]
        /\ job' \in {NoJob, Work("open", [kind |-> "remove", addr |-> objs[user.obj].addr, port |-> Hub])}
        /\ UNCHANGED <<bus, up, monitor, lists, batch, cblist, refs, told>>
    BY <1>5 DEF DisconnectGone
  <2>2. job.obj = None /\ job.child = None
    BY <2>1, NoJobProper
  <2>3. job'.obj = None /\ job'.child = None
    <3> DEFINE m == [kind |-> "remove", addr |-> objs[user.obj].addr, port |-> Hub]
    <3>1. job' = NoJob \/ job' = Work("open", m)
      BY <2>1
    <3> HIDE DEF m
    <3>2. Work("open", m).obj = None /\ Work("open", m).child = None
      BY DEF Work, NoJob
    <3>3. QED
      BY <3>1, <3>2, NoJobProper
  <2>4. UNCHANGED <<objs, devs, msgs, refs>> /\ batch'.msgs = batch.msgs /\ user'.obj = user.obj
    BY <1>0, <2>1 DEF lists, User
  <2>5. QED
    BY <2>2, <2>3, <2>4, NewWork
<1>6. CASE OpenFails
  <2>1. /\ user.pc = "failed" /\ objs' = UnrefDevice(objs, user.obj) /\ user' = Idle
        /\ UNCHANGED <<bus, up, monitor, devs, msgs, batch, cblist, job, list, snap, handle, told>>
    BY <1>6 DEF OpenFails, refs
  <2>2. user.obj \in Objects /\ user'.obj = None
    BY <1>0, <1>1, <1>2, <2>1 DEF User
  <2>3. \A x \in Objects : UserRefs(x)' = UserRefs(x) - One(x = user.obj)
    BY <2>1, <2>2, UserDrops
  <2>4. QED
    BY <2>1, <2>2, <2>3, UserUnref
<1>7. CASE Close
  <2>1. /\ handle \in Objects /\ objs' = UnrefDevice(objs, handle) /\ handle' = None
        /\ UNCHANGED <<bus, up, monitor, devs, msgs, batch, cblist, job, user, list, snap, told>>
    BY <1>0, <1>7 DEF Close
  <2>2. \A x \in Objects : UserRefs(x)' = UserRefs(x) - One(x = handle)
    BY <2>1, UserDrops
  <2>3. QED
    BY <2>1, <2>2, UserUnref
<1>8. CASE WrapSysDevice
  <2> DEFINE o == CHOOSE x \in Objects \ InUse : TRUE
  <2>1. /\ user.pc = "idle" /\ handle = None /\ Objects \ InUse # {} /\ user' = Calling("idle")
        /\ handle' = o /\ objs' = Taken(objs, o, WrappedDevice)
        /\ UNCHANGED <<bus, up, monitor, devs, msgs, batch, cblist, job, list, snap, owed>>
    BY <1>8 DEF WrapSysDevice, Ready, Taken
  <2>2. o \in Objects /\ o \notin InUse
    BY <2>1
  <2> HIDE DEF o
  <2>3. objs[o].refs = 0
    BY <1>0, <2>2 DEF InUse, Device
  <2>4. NewDevice(WrappedDevice)
    BY DEF NewDevice, WrappedDevice, AllocDevice, Free, Device, Ports
  <2>5. PortInv' /\ FreshInv'
    BY <2>1, <2>2, <2>3, OthersKept
  <2>6. user.obj = None /\ user'.obj = None
    BY <1>0, <1>1, <1>2, <2>1
  <2>7. ASSUME NEW x \in Objects
        PROVE  UserRefs(x)' = UserRefs(x) + One(x = o)
    <3>1. One(handle = x) = 0 /\ One(handle' = x) = One(x = o) /\ One(x = o) \in Nat
      BY <2>1, OneIs DEF One
    <3>2. One(x \in list) \in Nat /\ One(x \in snap) \in Nat /\ One(user.obj = x) \in Nat
      BY OneIs
    <3>3. UserRefs(x)' = One(x \in list) + One(x \in snap) + One(handle' = x) + One(user.obj = x)
      BY <2>1, <2>6 DEF UserRefs
    <3>4. UserRefs(x) = One(x \in list) + One(x \in snap) + One(handle = x) + One(user.obj = x)
      BY DEF UserRefs
    <3>5. QED
      BY <3>1, <3>2, <3>3, <3>4
  <2>8. /\ \A x \in Objects : LeftRefs(x)' = LeftRefs(x)
        /\ \A x \in Objects : MakeRef(x)' = MakeRef(x) /\ WorkRef(x)' = WorkRef(x)
    BY <2>1, LeftRefsKept, MakeRefKept
  <2>9. \A x \in Objects : MakeRef(x) \in Nat /\ UserRefs(x) \in Nat
    BY RefTypes DEF RefsOK
  <2>10. ASSUME NEW x \in Objects
         PROVE  /\ MakeRef(x)' + UserRefs(x)' = MakeRef(x) + UserRefs(x) + One(x = o)
                /\ MakeRef(x)' <= MakeRef(x) + One(x = o)
    <3>1. One(x = o) \in Nat
      BY OneIs
    <3>2. QED
      BY <2>7, <2>8, <2>9, <3>1
  <2>11. QED
    BY <2>1, <2>2, <2>3, <2>4, <2>5, <2>8, <2>10, AllocStep
<1>9. QED
  BY <1>3, <1>4, <1>5, <1>6, <1>7, <1>8 DEF OpenAndClose

LEMMA CallbackCallsMem ==
  ASSUME FlowInv, FlowInv', MemInv, CallbackCalls
  PROVE  MemInv'
<1>0. user \in User /\ batch \in Batch /\ snap \in SUBSET Objects
  BY DEF FlowInv, StepsOK, HeldOK, CbsOK
<1>1. /\ Idle.obj = None
      /\ \A pc \in {"idle", "poll"} : /\ Calling(pc) \in User /\ Calling(pc).obj = None
  BY <1>0, IdleType DEF UserPcs
<1>2. user.pc \in {"idle", "fire"} => user.obj = None
  BY NotOpening DEF OpenPcs
<1>3. ASSUME NEW c \in Callbacks, RegisterCallback(c) \/ DeregisterCallback(c) PROVE MemInv'
  <2>1. /\ user.pc = "idle"
        /\ user' \in {[Calling("poll") EXCEPT !.cb = c], Calling("idle")}
        /\ UNCHANGED <<bus, up, monitor, lists, job, refs>>
        /\ batch' \in {batch, [batch EXCEPT !.deregistered = TRUE]}
    BY <1>3 DEF RegisterCallback, DeregisterCallback, Ready
  <2>2. user'.obj = user.obj /\ batch'.msgs = batch.msgs
    BY <1>0, <1>1, <1>2, <2>1 DEF User, Batch
  <2>3. UNCHANGED <<objs, devs, msgs, job, refs>>
    BY <2>1 DEF lists
  <2>4. QED
    BY <2>2, <2>3, Untouched
<1>4. ASSUME NEW o \in Objects, FireForListed(o) PROVE MemInv'
  <2>1. /\ user' = [user EXCEPT !.todo = @ \ {o}]
        /\ UNCHANGED <<bus, up, monitor, lists, batch, cblist, job, refs, owed>>
    BY <1>4 DEF FireForListed
  <2>2. UNCHANGED <<objs, devs, msgs, job, refs>> /\ user'.obj = user.obj
    BY <1>0, <2>1 DEF lists, User
  <2>3. QED
    BY <2>1, <2>2, Untouched
<1>5. ASSUME NEW o \in Objects, FreeSnapshot(o) PROVE MemInv'
  <2>1. /\ o \in snap /\ snap' = snap \ {o} /\ objs' = UnrefDevice(objs, o)
        /\ UNCHANGED <<bus, up, monitor, devs, msgs, batch, cblist, job, user, list, handle, told>>
    BY <1>5 DEF FreeSnapshot
  <2>2. \A x \in Objects : UserRefs(x)' = UserRefs(x) - One(x = o)
    BY <2>1, UserDrops
  <2>3. QED
    BY <2>1, <2>2, UserUnref
<1>6. CASE Registered
  <2>1. /\ user.pc = "fire" /\ user' = Idle
        /\ UNCHANGED <<bus, up, monitor, lists, batch, cblist, job, refs, told>>
    BY <1>6 DEF Registered
  <2>2. UNCHANGED <<objs, devs, msgs, job, refs>> /\ user'.obj = user.obj
    BY <1>1, <1>2, <2>1 DEF lists
  <2>3. QED
    BY <2>1, <2>2, Untouched
<1>7. QED
  BY <1>3, <1>4, <1>5, <1>6 DEF CallbackCalls

\* What the work holds, by where it is.
JobRefs ==
  \A x \in Objects :
    /\ job.pc \in {"parent", "retry", "left"} => MakeRef(x) = One(x = job.obj) + One(x = job.child)
    /\ job.pc \notin {"parent", "retry", "left"} => MakeRef(x) = One(x = job.child)
    /\ job.pc \in {"left", "drop"} => WorkRef(x) = One(x = job.obj)
    /\ job.pc \notin {"left", "drop"} => WorkRef(x) = 0
    /\ One(x = job.obj) \in {0, 1} /\ One(x = job.child) \in {0, 1}
    /\ job.obj = None => One(x = job.obj) = 0
    /\ job.child = None => One(x = job.child) = 0

LEMMA JobRefsHold == JobRefs
<1>1. ASSUME NEW x \in Objects
      PROVE  /\ job.pc \in {"parent", "retry", "left"} => MakeRef(x) = One(x = job.obj) + One(x = job.child)
             /\ job.pc \notin {"parent", "retry", "left"} => MakeRef(x) = One(x = job.child)
             /\ job.pc \in {"left", "drop"} => WorkRef(x) = One(x = job.obj)
             /\ job.pc \notin {"left", "drop"} => WorkRef(x) = 0
             /\ One(x = job.obj) \in {0, 1} /\ One(x = job.child) \in {0, 1}
             /\ job.obj = None => One(x = job.obj) = 0
             /\ job.child = None => One(x = job.child) = 0
  <2>1. x # None
    OBVIOUS
  <2>2. One(x = job.obj) \in {0, 1} /\ One(x = job.child) \in {0, 1}
    BY OneIs
  <2>3. /\ job.obj = None => One(x = job.obj) = 0
        /\ job.child = None => One(x = job.child) = 0
    BY <2>1 DEF One
  <2>4. One(job.child = x) = One(x = job.child)
    BY DEF One
  <2>5. /\ job.pc \in {"parent", "retry", "left"}
             => One(job.obj = x /\ job.pc \in {"parent", "retry", "left"}) = One(x = job.obj)
        /\ job.pc \notin {"parent", "retry", "left"}
             => One(job.obj = x /\ job.pc \in {"parent", "retry", "left"}) = 0
    BY DEF One
  <2>6. /\ job.pc \in {"left", "drop"} => WorkRef(x) = One(x = job.obj)
        /\ job.pc \notin {"left", "drop"} => WorkRef(x) = 0
    BY DEF One, WorkRef
  <2>7. MakeRef(x) = One(job.obj = x /\ job.pc \in {"parent", "retry", "left"}) + One(job.child = x)
    BY DEF MakeRef
  <2>8. QED
    BY <2>2, <2>3, <2>4, <2>5, <2>6, <2>7
<1>2. QED
  BY <1>1 DEF JobRefs

\* Work that is over hands on the child that waits for it.
LEMMA ResumeRefs ==
  ASSUME Proper(job), job' = Resume,
         job.child # None => objs'[job.child].parent = None
  PROVE  /\ \A x \in Objects : MakeRef(x)' = One(x = job.child) /\ WorkRef(x)' = 0
         /\ PortInv' /\ FreshInv'
<1>1. /\ job'.child = None
      /\ job.child # None => job'.pc = "retry" /\ job'.obj = job.child
      /\ job.child = None => job'.pc \in {"idle", "more"} /\ job'.obj = None
  BY ResumeProper
<1>2. JobRefs'
  BY JobRefsHold, PTL
<1>3. ASSUME NEW x \in Objects
      PROVE  MakeRef(x)' = One(x = job.child) /\ WorkRef(x)' = 0
  <2>1. CASE job.child # None
    <3>1. job'.pc = "retry" /\ job'.obj = job.child /\ job'.child = None
      BY <1>1, <2>1
    <3>2. MakeRef(x)' = One(x = job'.obj) + One(x = job'.child) /\ WorkRef(x)' = 0
          /\ One(x = job'.child) = 0 /\ One(x = job'.obj) \in {0, 1}
      BY <1>2, <3>1 DEF JobRefs
    <3>3. QED
      BY <3>1, <3>2
  <2>2. CASE job.child = None
    <3>1. job'.pc \in {"idle", "more"} /\ job'.child = None
      BY <1>1, <2>2
    <3>2. MakeRef(x)' = One(x = job'.child) /\ WorkRef(x)' = 0
      BY <1>2, <3>1 DEF JobRefs
    <3>3. QED
      BY <2>2, <3>1, <3>2
  <2>3. QED
    BY <2>1, <2>2
<1>4. PortInv' /\ FreshInv'
  BY <1>1 DEF PortInv, FreshInv
<1>5. QED
  BY <1>3, <1>4

LEMMA EnumerateDeviceMem ==
  ASSUME FlowInv, FlowInv', MemInv, EnumerateDevice
  PROVE  MemInv'
<1>0. /\ Proper(job) /\ job \in Job /\ PortInv /\ FreshInv /\ objs \in [Objects -> Device]
      /\ plugged \in [Ports -> Plugs]
  BY FlowTypes DEF MemInv, Sound, FlowInv, BusOK
<1>1. /\ job.pc = "enumerate"
      /\ UNCHANGED <<plugged, serial, queue, up, monitor, devs, msgs, batch, cblist, user, refs, owed>>
  BY DEF EnumerateDevice
<1>2. /\ \A x : LeftRefs(x)' = LeftRefs(x)
      /\ \A x : UserRefs(x)' = UserRefs(x)
  BY <1>1, LeftRefsKept, UserRefsKept
<1>3. JobRefs
  BY JobRefsHold
<1>4. \A x \in Objects : MakeRef(x) = One(x = job.child) /\ WorkRef(x) = 0
  BY <1>1, <1>3 DEF JobRefs
<1>5. CASE job' = Resume /\ objs' = objs
  <2>1. job.child # None => objs'[job.child].parent = None
    BY <1>0, <1>5 DEF FreshInv
  <2>2. /\ \A x \in Objects : MakeRef(x)' = One(x = job.child) /\ WorkRef(x)' = 0
        /\ PortInv' /\ FreshInv'
    BY <1>0, <1>5, <2>1, ResumeRefs
  <2>3. QED
    BY <1>1, <1>2, <1>4, <1>5, <2>2, SameRefs
<1>6. ASSUME NEW o \in Objects, o \notin InUse,
             job' = [job EXCEPT !.pc = "parent", !.obj = o],
             objs' = [objs EXCEPT ![o] = InitializeDevice(job.addr, job.port)]
      PROVE  MemInv'
  <2> DEFINE dev == InitializeDevice(job.addr, job.port)
  <2>1. objs[o].refs = 0
    BY <1>0, <1>6 DEF InUse, Device
  <2>2. NewDevice(dev) /\ dev.port = job.port
    <3>1. job.addr \in Addresses \union {0} /\ job.port \in Ports /\ plugged[job.port].serial \in Nat
      BY <1>0 DEF Job, Plugs
    <3>2. QED
      BY <3>1 DEF NewDevice, InitializeDevice, AllocDevice, Free, Device
  <2> HIDE DEF dev
  <2>3. objs' = Taken(objs, o, dev)
    BY <1>6 DEF Taken, dev
  <2>4. job'.pc = "parent" /\ job'.obj = o /\ job'.child = job.child /\ job'.port = job.port
    BY <1>0, <1>6 DEF Job
  <2>5. JobRefs'
    BY JobRefsHold, PTL
  <2>6. \A x \in Objects : MakeRef(x)' = One(x = o) + One(x = job.child) /\ WorkRef(x)' = 0
    <3>1. \A x \in Objects : MakeRef(x)' = One(x = job'.obj) + One(x = job'.child) /\ WorkRef(x)' = 0
      BY <2>4, <2>5 DEF JobRefs
    <3>2. QED
      BY <2>4, <3>1
  <2>7. job.child # o
    <3>1. Held[o] = 0
      BY <2>1, HeldLive
    <3>2. QED
      BY <3>1, NotInHand
  <2>8. objs'[o] = dev /\ \A x : x # o => objs'[x] = objs[x]
    BY <1>0, <2>3 DEF Taken
  <2>9. PortInv' /\ FreshInv'
    BY <1>0, <2>2, <2>4, <2>7, <2>8 DEF PortInv, FreshInv, NewDevice
  <2>10. \A x \in Objects : UserRefs(x) \in Nat /\ One(x = job.child) \in Nat
    BY <1>3, RefTypes DEF RefsOK, JobRefs
  <2>11. ASSUME NEW x \in Objects
         PROVE  /\ MakeRef(x)' + UserRefs(x)' = MakeRef(x) + UserRefs(x) + One(x = o)
                /\ MakeRef(x)' <= MakeRef(x) + One(x = o) /\ WorkRef(x)' = WorkRef(x)
    <3>1. One(x = o) \in Nat
      BY OneIs
    <3>2. QED
      BY <1>2, <1>4, <2>6, <2>10, <3>1
  <2>12. QED
    BY <1>1, <1>2, <2>1, <2>2, <2>3, <2>9, <2>11, AllocStep
<1>7. InUse # Objects => (CHOOSE x \in Objects \ InUse : TRUE) \in Objects \ InUse
  BY DEF InUse
<1>8. QED
  BY Zenon, <1>5, <1>6, <1>7 DEF EnumerateDevice

LEMMA EnumerateParentMem ==
  ASSUME FlowInv, FlowInv', MemInv, EnumerateParent
  PROVE  MemInv'
<1>0. Proper(job) /\ job \in Job /\ PortInv /\ FreshInv
  BY FlowTypes DEF MemInv
<1>1. /\ job' = [job EXCEPT !.pc = "enumerate", !.child = job.obj, !.obj = None,
                            !.addr = GetDeviceAddress(Hub), !.port = Hub]
      /\ UNCHANGED <<bus, up, monitor, lists, batch, cblist, user, refs, told>>
  BY DEF EnumerateParent
<1>2. job.pc = "parent" /\ job.child = None
  <2>1. job.pc = "parent" /\ job.port = Leaf
    BY <1>0 DEF EnumerateParent, ParentFirst, BehindHub, PortInv
  <2>2. QED
    BY <1>0, <2>1 DEF Proper
<1>3. job'.pc = "enumerate" /\ job'.child = job.obj /\ job'.obj = None
  BY <1>0, <1>1 DEF Job
<1>4. JobRefs /\ JobRefs'
  BY JobRefsHold, PTL
<1>5. ASSUME NEW x \in Objects
      PROVE  MakeRef(x)' = MakeRef(x) /\ WorkRef(x)' = WorkRef(x)
  <2>1. /\ MakeRef(x) = One(x = job.obj) + One(x = job.child) /\ WorkRef(x) = 0
        /\ One(x = job.child) = 0 /\ One(x = job.obj) \in {0, 1}
    BY <1>2, <1>4 DEF JobRefs
  <2>2. MakeRef(x)' = One(x = job'.child) /\ WorkRef(x)' = 0
    BY <1>3, <1>4 DEF JobRefs
  <2>3. QED
    BY <1>3, <2>1, <2>2
<1>6. UNCHANGED <<objs, devs, msgs>> /\ batch'.msgs = batch.msgs
  BY <1>1 DEF lists
<1>7. PortInv' /\ FreshInv'
  BY <1>0, <1>2, <1>3, <1>6 DEF PortInv, FreshInv
<1>8. /\ \A x : LeftRefs(x)' = LeftRefs(x)
      /\ \A x : UserRefs(x)' = UserRefs(x)
  BY <1>1, <1>6, LeftRefsKept, UserRefsKept
<1>9. QED
  BY <1>5, <1>6, <1>7, <1>8, SameRefs

LEMMA NotifyArrivedMem ==
  ASSUME FlowInv, FlowInv', MemInv, NotifyArrived
  PROVE  MemInv'
<1>0. Proper(job) /\ job \in Job /\ FreshInv /\ msgs \in Seq(Messages) /\ batch.msgs \in Seq(Messages)
  BY FlowTypes DEF MemInv, ListsOK
<1>1. /\ job.pc = "arrived" /\ Notification("arrived", job.obj) /\ job' = Resume
      /\ UNCHANGED <<bus, up, monitor, objs, devs, batch, cblist, user, refs, told>>
  BY DEF NotifyArrived
<1>2. JobRefs
  BY JobRefsHold
<1>3. \A x \in Objects : MakeRef(x) = One(x = job.child) /\ WorkRef(x) = 0
  BY <1>1, <1>2 DEF JobRefs
<1>4. job.child # None => objs'[job.child].parent = None
  BY <1>0, <1>1 DEF FreshInv
<1>5. /\ \A x \in Objects : MakeRef(x)' = One(x = job.child) /\ WorkRef(x)' = 0
      /\ PortInv' /\ FreshInv'
  BY <1>0, <1>1, <1>4, ResumeRefs
<1>6. ASSUME NEW x \in Objects
      PROVE  LeftRefs(x)' = LeftRefs(x)
  <2> DEFINE m == [event |-> "arrived", obj |-> job.obj]
  <2>1. m \in Messages /\ m # LeftMessage(x)
    BY <1>0, <1>1 DEF Messages, Proper, Job, WorkPcs, LeftMessage
  <2>2. msgs' = Append(msgs, m) \/ msgs' = msgs
    BY <1>1 DEF Notification
  <2> HIDE DEF m
  <2>3. LeftIn(Append(msgs, m), x) = LeftIn(msgs, x) + One(m = LeftMessage(x))
    BY <1>0, <2>1, LeftInAppend
  <2>4. One(m = LeftMessage(x)) = 0 /\ LeftIn(msgs, x) \in Nat
    BY <1>0, <2>1, LeftInType DEF One
  <2>5. LeftIn(msgs', x) = LeftIn(msgs, x)
    <3>1. CASE msgs' = msgs
      BY <3>1
    <3>2. CASE msgs' = Append(msgs, m)
      <4>1. LeftIn(msgs', x) = LeftIn(msgs, x) + One(m = LeftMessage(x))
        BY <2>3, <3>2
      <4>2. QED
        BY <2>4, <4>1
    <3>3. QED
      BY <2>2, <3>1, <3>2
  <2>6. QED
    BY <1>1, <2>5 DEF LeftRefs
<1>7. \A x : UserRefs(x)' = UserRefs(x)
  BY <1>1, UserRefsKept
<1>8. QED
  BY <1>1, <1>3, <1>5, <1>6, <1>7, SameRefs

\* A device joins the list.
LEMMA PushedTo ==
  ASSUME devs \in Seq(Objects), ListedOnce, NEW o \in Objects, o \notin Range(devs),
         devs' = <<o>> \o devs
  PROVE  ListedOnce' /\ \A x \in Objects : ListRef(x)' = ListRef(x) + One(x = o)
<1> DEFINE n == Len(devs)
<1>1. /\ n \in Nat /\ DOMAIN devs = 1..n /\ DOMAIN devs' = 1..n + 1 /\ devs'[1] = o
      /\ \A i \in 1..n : devs'[i + 1] = devs[i]
  <2>1. /\ devs' \in Seq(Objects) /\ Len(devs') = n + 1 /\ devs'[1] = o
        /\ \A i \in 1..n : devs'[i + 1] = devs[i]
    BY PushType
  <2>2. QED
    BY <2>1, LenProperties
<1> HIDE DEF n
<1>2. \A i \in 1..n : devs[i] # o
  BY <1>1 DEF Range
<1>3. \A i \in 1..n + 1 : i = 1 \/ (i - 1 \in 1..n /\ devs'[i] = devs[i - 1])
  <2> TAKE i \in 1..n + 1
  <2>1. i # 1 => i - 1 \in 1..n /\ (i - 1) + 1 = i
    BY <1>1
  <2>2. QED
    BY <1>1, <2>1
<1>4. \A i, j \in 1..n + 1 : devs'[i] = devs'[j] => i = j
  <2> TAKE i, j \in 1..n + 1
  <2> HAVE devs'[i] = devs'[j]
  <2>1. \A u, v \in 1..n : devs[u] = devs[v] => u = v
    BY <1>1 DEF ListedOnce
  <2>2. CASE i = 1 \/ j = 1
    BY <1>1, <1>2, <1>3, <2>2
  <2>3. CASE i # 1 /\ j # 1
    <3>1. i - 1 \in 1..n /\ j - 1 \in 1..n /\ devs[i - 1] = devs[j - 1]
      BY <1>3, <2>3
    <3>2. i - 1 = j - 1
      BY <2>1, <3>1
    <3>3. QED
      BY <1>1, <3>2
  <2>4. QED
    BY <2>2, <2>3
<1>5. ASSUME NEW x \in Objects
      PROVE  ListRef(x)' = ListRef(x) + One(x = o)
  <2>1. x \in Range(devs) <=> \E j \in 1..n : devs[j] = x
    BY <1>1 DEF Range
  <2>2. x \in Range(devs') <=> \E i \in 1..n + 1 : devs'[i] = x
    BY <1>1 DEF Range
  <2>3. 1 \in 1..n + 1 /\ \A j \in 1..n : j + 1 \in 1..n + 1
    BY <1>1
  <2>4. x \in Range(devs') <=> x \in Range(devs) \/ x = o
    BY <1>1, <1>3, <2>1, <2>2, <2>3
  <2>5. CASE x = o
    <3>1. One(x \in Range(devs)) = 0 /\ One(x \in Range(devs')) = 1 /\ One(x = o) = 1
      BY <2>4, <2>5 DEF One
    <3>2. QED
      BY <3>1 DEF ListRef
  <2>6. CASE x # o
    <3>1. One(x \in Range(devs')) = One(x \in Range(devs)) /\ One(x = o) = 0
      BY <2>4, <2>6 DEF One
    <3>2. One(x \in Range(devs)) \in Nat
      BY OneIs
    <3>3. QED
      BY <3>1, <3>2 DEF ListRef
  <2>7. QED
    BY <2>5, <2>6
<1>6. QED
  BY <1>1, <1>4, <1>5 DEF ListedOnce

\* The device in hand is in memory, is nobody's parent's work, and is not listed.
LEMMA InHand ==
  ASSUME FlowInv, MemInv, job.pc \in {"parent", "retry", "left"}
  PROVE  /\ job.obj \in Objects /\ objs[job.obj].refs > 0 /\ objs[job.obj].leaked = FALSE
         /\ job.child # job.obj /\ job.obj \notin Range(devs)
<1> DEFINE o == job.obj
<1>1. o \in Objects
  BY FlowTypes DEF Proper, Job, WorkPcs
<1>2. MakeRef(o) = One(o = o) + One(o = job.child) /\ One(o = job.child) \in {0, 1}
  BY <1>1, JobRefsHold DEF JobRefs
<1>3. One(o = o) = 1
  BY DEF One
<1>4. /\ ListRef(o) \in Nat /\ LeftRefs(o) \in Nat /\ WorkRef(o) \in Nat /\ UserRefs(o) \in Nat
      /\ Tied(o) = ListRef(o) + LeftRefs(o) + MakeRef(o)
      /\ Held[o] = Tied(o) + WorkRef(o) + UserRefs(o)
  BY <1>1, RefTypes DEF RefsOK
<1>5. Tied(o) + One(objs[o].leaked) <= 1 /\ One(objs[o].leaked) \in Nat
  BY <1>1, OneIs DEF MemInv, OnceInv
<1> HIDE DEF o
<1>6. One(o = job.child) = 0 /\ ListRef(o) = 0 /\ One(objs[o].leaked) = 0 /\ Held[o] > 0
  BY <1>2, <1>3, <1>4, <1>5
<1>7. job.child # o /\ o \notin Range(devs) /\ ~ objs[o].leaked
  BY <1>6 DEF One, ListRef
<1>8. objs[o].refs > 0 /\ objs[o].leaked \in BOOLEAN
  BY <1>1, <1>6, HeldLive DEF MemInv, Sound, Device
<1>9. QED
  BY <1>1, <1>7, <1>8 DEF o

LEMMA ConnectDeviceMem ==
  ASSUME FlowInv, FlowInv', MemInv, ConnectDevice
  PROVE  MemInv'
<1> DEFINE o == job.obj
<1>0. /\ Proper(job) /\ job \in Job /\ FreshInv /\ devs \in Seq(Objects) /\ ListedOnce
      /\ Sound(objs) /\ Balanced(objs, Held) /\ OnceInv
  BY FlowTypes DEF MemInv, ListsOK, CountInv
<1>1. /\ job.pc \in {"parent", "retry"} /\ devs' = <<o>> \o devs
      /\ objs' = [WithParent EXCEPT ![o].attached = TRUE]
      /\ job' = [job EXCEPT !.pc = "arrived"]
      /\ UNCHANGED <<bus, up, monitor, msgs, batch, cblist, user, refs, known>>
  BY DEF ConnectDevice, AttachDevice
<1>2. /\ o \in Objects /\ objs[o].refs > 0 /\ job.child # o /\ o \notin Range(devs)
      /\ objs[o].parent = None
  BY <1>0, <1>1, InHand DEF FreshInv
<1>3. RefsOK /\ RefsOK' /\ JobRefs /\ JobRefs'
  BY RefTypes, JobRefsHold, PTL
<1>4. /\ Sound(WithParent) /\ Balanced(WithParent, Held)
      /\ \A x \in Objects : /\ WithParent[x].leaked = objs[x].leaked
                            /\ WithParent[x].refs > 0 <=> objs[x].refs > 0
                            /\ x # o => WithParent[x].parent = objs[x].parent
  <2>1. CASE BehindHub /\ HubsListed # {}
    <3> DEFINE hub == devs[Min(HubsListed)]
    <3>1. Min(HubsListed) \in HubsListed /\ Min(HubsListed) \in DOMAIN devs /\ hub \in Objects
      <4>1. HubsListed \in SUBSET (DOMAIN devs)
        BY DEF HubsListed
      <4>2. QED
        BY <1>0, <2>1, <4>1, NewestListed
    <3>2. objs[hub].port = Hub
      BY <3>1 DEF HubsListed
    <3>3. objs[hub].refs > 0
      <4>1. hub \in Range(devs)
        BY <3>1 DEF Range
      <4>2. ListRef(hub) = 1
        BY <4>1 DEF ListRef, One
      <4> HIDE DEF hub
      <4>3. Held[hub] > 0
        BY <1>3, <3>1, <4>2 DEF RefsOK
      <4>4. QED
        BY <3>1, <4>3, HeldLive
    <3>4. WithParent = Parented(objs, o, hub)
      BY <2>1 DEF WithParent, Parented
    <3>5. objs[o].port = Leaf
      BY <2>1 DEF BehindHub
    <3>6. Held \in [Objects -> Int]
      BY <1>3 DEF RefsOK
    <3> HIDE DEF hub, o
    <3>7. /\ Sound(objs) /\ Balanced(objs, Held) /\ hub \in Objects /\ o \in Objects
          /\ objs[o].refs > 0 /\ objs[o].parent = None
      BY <1>0, <1>2, <3>1
    <3>8. /\ Sound(WithParent) /\ Balanced(WithParent, Held)
          /\ \A x \in Objects : /\ WithParent[x].port = objs[x].port
                                /\ WithParent[x].leaked = objs[x].leaked
                                /\ WithParent[x].refs > 0 <=> objs[x].refs > 0
                                /\ x # o => WithParent[x].parent = objs[x].parent
      BY <3>2, <3>3, <3>4, <3>5, <3>6, <3>7, ConnectKeeps
    <3>9. QED
      BY <3>8
  <2>2. CASE ~ (BehindHub /\ HubsListed # {})
    <3>1. WithParent = objs
      BY <2>2 DEF WithParent
    <3>2. QED
      BY <1>0, <3>1
  <2>3. QED
    BY <2>1, <2>2
<1> HIDE DEF o
<1>5. /\ Sound(objs') /\ Balanced(objs', Held)
      /\ \A x \in Objects : /\ objs'[x].leaked = objs[x].leaked
                            /\ x # o => objs'[x].parent = objs[x].parent
  <2>1. WithParent[o].refs > 0
    BY <1>2, <1>4
  <2>2. /\ Sound(objs') /\ Balanced(objs', Held)
        /\ \A x \in Objects : /\ objs'[x].port = WithParent[x].port
                              /\ objs'[x].parent = WithParent[x].parent
                              /\ objs'[x].leaked = WithParent[x].leaked
    <3>1. Sound(WithParent) /\ Balanced(WithParent, Held) /\ o \in Objects
      BY <1>2, <1>4
    <3>2. PICK b \in BOOLEAN : objs' = Attached(WithParent, o, b)
      BY <1>1 DEF Attached
    <3>3. QED
      BY <2>1, <3>1, <3>2, AttachKeeps
  <2>3. QED
    BY <1>4, <2>2
<1>6. ListedOnce' /\ \A x \in Objects : ListRef(x)' = ListRef(x) + One(x = o)
  BY <1>0, <1>1, <1>2, PushedTo
<1>7. job'.pc = "arrived" /\ job'.obj = o /\ job'.child = job.child
  BY <1>0, <1>1 DEF Job, o
<1>8. PortInv' /\ FreshInv'
  <2>1. job.child # None => job.child \in Objects
    BY <1>0 DEF Job
  <2>2. QED
    BY <1>0, <1>2, <1>5, <1>7, <2>1 DEF PortInv, FreshInv
<1>9. /\ \A x : LeftRefs(x)' = LeftRefs(x)
      /\ \A x : UserRefs(x)' = UserRefs(x)
  BY <1>1, LeftRefsKept, UserRefsKept
<1>10. ASSUME NEW x \in Objects
       PROVE  Tied(x)' = Tied(x) /\ Held[x] = Held[x]'
  <2>1. /\ MakeRef(x) = One(x = o) + One(x = job.child) /\ WorkRef(x) = 0
        /\ One(x = o) \in {0, 1} /\ One(x = job.child) \in {0, 1}
    BY <1>1, <1>3 DEF JobRefs, o
  <2>2. MakeRef(x)' = One(x = job.child) /\ WorkRef(x)' = 0
    <3>1. MakeRef(x)' = One(x = job'.child) /\ WorkRef(x)' = 0
      BY <1>3, <1>7 DEF JobRefs
    <3>2. QED
      BY <1>7, <3>1
  <2>3. /\ ListRef(x) \in Nat /\ LeftRefs(x) \in Nat /\ UserRefs(x) \in Nat
        /\ Tied(x) = ListRef(x) + LeftRefs(x) + MakeRef(x)
        /\ Held[x] = Tied(x) + WorkRef(x) + UserRefs(x)
        /\ Tied(x)' = ListRef(x)' + LeftRefs(x)' + MakeRef(x)'
        /\ Held[x]' = Tied(x)' + WorkRef(x)' + UserRefs(x)'
    BY <1>3 DEF RefsOK
  <2>4. QED
    BY <1>6, <1>9, <2>1, <2>2, <2>3
<1>11. ASSUME NEW x \in Objects
       PROVE  Tied(x)' + One(objs[x].leaked)' <= 1
  BY <1>0, <1>5, <1>10 DEF OnceInv
<1>12. QED
  BY <1>5, <1>6, <1>8, <1>10, <1>11, MemStep

LEMMA DeviceDisconnectedMem ==
  ASSUME FlowInv, FlowInv', MemInv, DeviceDisconnected
  PROVE  MemInv'
<1>0. /\ Proper(job) /\ job \in Job /\ FreshInv /\ devs \in Seq(Objects) /\ ListedOnce
      /\ Sound(objs) /\ Balanced(objs, Held) /\ OnceInv
  BY FlowTypes DEF MemInv, ListsOK, CountInv
<1>1. job.pc = "disconnect" /\ UNCHANGED <<bus, up, monitor, msgs, batch, cblist, user, refs, known>>
  BY DEF DeviceDisconnected
<1>2. job.child = None
  BY <1>0, <1>1 DEF Proper
<1>3. RefsOK /\ RefsOK' /\ JobRefs /\ JobRefs'
  BY RefTypes, JobRefsHold, PTL
<1>4. \A x \in Objects : MakeRef(x) = 0 /\ WorkRef(x) = 0
  BY <1>1, <1>2, <1>3 DEF JobRefs
<1>5. /\ \A x : LeftRefs(x)' = LeftRefs(x)
      /\ \A x : UserRefs(x)' = UserRefs(x)
  BY <1>1, LeftRefsKept, UserRefsKept
<1>6. CASE WithSessionId(job.addr) = {}
  <2>1. job' = Resume /\ UNCHANGED <<objs, devs>>
    BY <1>6 DEF DeviceDisconnected
  <2>2. /\ \A x \in Objects : MakeRef(x)' = One(x = job.child) /\ WorkRef(x)' = 0
        /\ PortInv' /\ FreshInv'
    BY <1>0, <1>2, <2>1, ResumeRefs
  <2>3. \A x \in Objects : One(x = job.child) = 0
    BY <1>2, <1>3 DEF JobRefs
  <2>4. QED
    BY <1>4, <1>5, <2>1, <2>2, <2>3, SameRefs
<1>7. CASE WithSessionId(job.addr) # {}
  <2> DEFINE i == Min(WithSessionId(job.addr))
             o == devs[i]
             mem1 == RefDevices(objs, {o})
             held1 == [x \in Objects |-> Held[x] + One(x \in {o})]
  <2>1. i \in DOMAIN devs /\ o \in Objects
    BY <1>0, <1>7, NewestListed DEF WithSessionId
  <2>2. /\ devs' = RemoveAt(devs, i) /\ objs' = [mem1 EXCEPT ![o].attached = FALSE]
        /\ job' = [job EXCEPT !.pc = "left", !.obj = o]
    BY <1>7 DEF DeviceDisconnected, DetachDevice, RefDevice
  <2>3. ListedOnce' /\ \A x \in Objects : ListRef(x)' = ListRef(x) - One(x = o)
    <3>1. /\ devs' \in Seq(Objects) /\ Len(devs') = Len(devs) - 1
          /\ \A k \in 1..Len(devs) - 1 : devs'[k] = IF k < i THEN devs[k] ELSE devs[k + 1]
      BY <1>0, <2>1, <2>2, RemoveAtDoes
    <3> HIDE DEF i
    <3>2. QED
      BY <1>0, <2>1, <3>1, RemovedFrom
  <2>4. ListRef(o) = 1
    <3>1. o \in Range(devs)
      BY <2>1 DEF Range
    <3>2. QED
      BY <3>1 DEF ListRef, One
  <2> HIDE DEF i, o
  <2>5. objs[o].refs > 0
    <3>1. Held[o] > 0
      BY <1>3, <2>1, <2>4 DEF RefsOK
    <3>2. QED
      BY <2>1, <3>1, HeldLive
  <2>6. /\ Sound(mem1) /\ Balanced(mem1, held1)
        /\ \A x \in Objects : mem1[x].leaked = objs[x].leaked /\ (mem1[x].refs > 0 <=> objs[x].refs > 0)
    <3>1. /\ mem1 = RefDevices(objs, {o})
          /\ held1 = [x \in Objects |-> Held[x] + One(x \in {o})]
          /\ \A x \in {o} \intersect Objects : objs[x].refs > 0
          /\ Held \in [Objects -> Int]
      BY <1>3, <2>5 DEF RefsOK
    <3> HIDE DEF mem1, held1
    <3>2. Sound(objs) /\ Balanced(objs, Held)
      BY <1>0
    <3>3. /\ Sound(mem1) /\ Balanced(mem1, held1)
          /\ \A x \in Objects : /\ mem1[x].port = objs[x].port /\ mem1[x].parent = objs[x].parent
                                /\ mem1[x].leaked = objs[x].leaked
                                /\ mem1[x].refs > 0 <=> objs[x].refs > 0
      BY <3>1, <3>2, RefKeeps
    <3>4. QED
      BY <3>3
  <2> HIDE DEF mem1
  <2>7. /\ Sound(objs') /\ Balanced(objs', held1)
        /\ \A x \in Objects : objs'[x].leaked = objs[x].leaked
    <3> HIDE DEF held1
    <3>1. mem1[o].refs > 0
      BY <2>1, <2>5, <2>6
    <3>2. /\ Sound(objs') /\ Balanced(objs', held1)
          /\ \A x \in Objects : /\ objs'[x].port = mem1[x].port
                                /\ objs'[x].parent = mem1[x].parent
                                /\ objs'[x].leaked = mem1[x].leaked
      <4>1. Sound(mem1) /\ Balanced(mem1, held1) /\ o \in Objects
        BY <2>1, <2>6
      <4>2. PICK b \in BOOLEAN : objs' = Attached(mem1, o, b)
        BY <2>2 DEF Attached
      <4>3. QED
        BY <3>1, <4>1, <4>2, AttachKeeps
    <3>3. QED
      BY <2>6, <3>2
  <2>8. job'.pc = "left" /\ job'.obj = o /\ job'.child = None
    BY <1>0, <1>2, <2>2 DEF Job
  <2>9. PortInv' /\ FreshInv'
    BY <2>8 DEF PortInv, FreshInv
  <2>10. ASSUME NEW x \in Objects
         PROVE  Tied(x)' = Tied(x) /\ held1[x] = Held[x]'
    <3>1. MakeRef(x)' = One(x = o) /\ WorkRef(x)' = One(x = o) /\ One(x = o) \in {0, 1}
      <4>1. /\ MakeRef(x)' = One(x = job'.obj) + One(x = job'.child)
            /\ WorkRef(x)' = One(x = job'.obj) /\ One(x = job'.child) = 0
            /\ One(x = job'.obj) \in {0, 1}
        BY <1>3, <2>8 DEF JobRefs
      <4>2. QED
        BY <2>8, <4>1
    <3>2. held1[x] = Held[x] + One(x = o)
      <4>1. One(x \in {o}) = One(x = o)
        BY DEF One
      <4>2. QED
        BY <4>1
    <3> HIDE DEF held1
    <3>3. /\ ListRef(x) \in Nat /\ LeftRefs(x) \in Nat /\ UserRefs(x) \in Nat
          /\ Tied(x) = ListRef(x) + LeftRefs(x) + MakeRef(x)
          /\ Held[x] = Tied(x) + WorkRef(x) + UserRefs(x)
          /\ Tied(x)' = ListRef(x)' + LeftRefs(x)' + MakeRef(x)'
          /\ Held[x]' = Tied(x)' + WorkRef(x)' + UserRefs(x)'
      BY <1>3 DEF RefsOK
    <3>4. QED
      BY <1>4, <1>5, <2>3, <3>1, <3>2, <3>3
  <2> HIDE DEF held1
  <2>11. ASSUME NEW x \in Objects
         PROVE  Tied(x)' + One(objs[x].leaked)' <= 1
    BY <1>0, <2>7, <2>10 DEF OnceInv
  <2>12. QED
    BY <2>3, <2>7, <2>9, <2>10, <2>11, MemStep
<1>8. QED
  BY <1>6, <1>7

LEMMA NotifyLeftMem ==
  ASSUME FlowInv, FlowInv', MemInv, NotifyLeft
  PROVE  MemInv'
<1> DEFINE o == job.obj
<1>0. /\ Proper(job) /\ job \in Job /\ Sound(objs) /\ Balanced(objs, Held) /\ OnceInv
      /\ ListedOnce /\ msgs \in Seq(Messages) /\ batch.msgs \in Seq(Messages)
  BY FlowTypes DEF MemInv, ListsOK, CountInv
<1>1. /\ job.pc = "left" /\ Notification("left", o)
      /\ objs' = [objs EXCEPT ![o].leaked = (up # "ready")]
      /\ job' = [job EXCEPT !.pc = "drop"]
      /\ UNCHANGED <<bus, up, monitor, devs, batch, cblist, user, refs, told>>
  BY DEF NotifyLeft
<1>2. o \in Objects /\ objs[o].refs > 0 /\ objs[o].leaked = FALSE
  BY <1>1, InHand
<1>3. RefsOK /\ RefsOK' /\ JobRefs /\ JobRefs'
  BY RefTypes, JobRefsHold, PTL
<1>4. job.child = None /\ job'.pc = "drop" /\ job'.obj = o /\ job'.child = None
  <2>1. job.child = None
    BY <1>0, <1>1 DEF Proper
  <2>2. QED
    BY <1>0, <1>1, <2>1 DEF Job
<1> HIDE DEF o
<1> DEFINE b     == up # "ready"
           held2 == [x \in Objects |-> Held[x] - One(x = o /\ b)]
<1>6. /\ Sound(objs') /\ Balanced(objs', held2)
      /\ \A x \in Objects : One(objs'[x].leaked) = One(objs[x].leaked) + One(x = o /\ b)
  <2>1. Held \in [Objects -> Int] /\ objs \in [Objects -> Device]
    BY <1>0, <1>3 DEF RefsOK, Sound
  <2>2. CASE b
    <3>1. \A x : One(x = o /\ b) = One(x = o)
      BY <2>2 DEF One
    <3>2. objs' = Leaked(objs, o) /\ held2 = [x \in Objects |-> Held[x] - One(x = o)]
      BY <1>1, <2>2, <3>1 DEF Leaked
    <3>3. ~ objs[o].leaked /\ Sound(objs) /\ Balanced(objs, Held)
      BY <1>0, <1>2
    <3> HIDE DEF held2, b
    <3>4. /\ Sound(objs') /\ Balanced(objs', held2)
          /\ \A x \in Objects : /\ objs'[x].port = objs[x].port
                                /\ objs'[x].parent = objs[x].parent
                                /\ One(objs'[x].leaked) = One(objs[x].leaked) + One(x = o)
      BY <1>2, <2>1, <3>2, <3>3, LeakKeeps
    <3>5. QED
      BY <3>1, <3>4
  <2>3. CASE ~ b
    <3>1. \A x : One(x = o /\ b) = 0
      BY <2>3 DEF One
    <3>2. [objs EXCEPT ![o].leaked = FALSE] = objs
      <4>1. [objs[o] EXCEPT !.leaked = FALSE] = objs[o]
        BY <1>2, <2>1, Zenon DEF Device
      <4>2. QED
        BY <2>1, <4>1
    <3>3. objs' = objs
      BY <1>1, <2>3, <3>2
    <3>4. ASSUME NEW x \in Objects
          PROVE  held2[x] = Held[x]
      <4>1. held2[x] = Held[x] - One(x = o /\ b) /\ Held[x] \in Int
        BY <2>1
      <4>2. One(x = o /\ b) = 0
        BY <3>1
      <4> HIDE DEF held2, b
      <4>3. QED
        BY <4>1, <4>2
    <3>5. Balanced(objs', held2)
      <4> HIDE DEF held2
      <4>1. QED
        BY <1>0, <3>3, <3>4 DEF Balanced
    <3>6. ASSUME NEW x \in Objects
          PROVE  One(objs'[x].leaked) = One(objs[x].leaked) + One(x = o /\ b)
      <4>1. One(x = o /\ b) = 0 /\ One(objs'[x].leaked) = One(objs[x].leaked)
        BY <3>1, <3>3
      <4>2. One(objs[x].leaked) \in Int
        BY OneIs
      <4> HIDE DEF b
      <4>3. QED
        BY <4>1, <4>2
    <3>7. Sound(objs')
      BY <1>0, <3>3
    <3>8. QED
      BY <3>5, <3>6, <3>7
  <2>4. QED
    BY <2>2, <2>3
<1>7. \A x \in Objects : held2[x] = Held[x] - One(x = o /\ b)
  OBVIOUS
<1> HIDE DEF held2, b
<1>8. ASSUME NEW x \in Objects
      PROVE  LeftRefs(x)' + One(x = o /\ b) = LeftRefs(x) + One(x = o)
  <2> DEFINE m == [event |-> "left", obj |-> o]
  <2>1. m \in Messages /\ (m = LeftMessage(x) <=> x = o)
    BY <1>2 DEF Messages, LeftMessage
  <2>2. msgs' = IF b THEN msgs ELSE Append(msgs, m)
    BY <1>1 DEF Notification, b
  <2> HIDE DEF m
  <2>3. LeftIn(Append(msgs, m), x) = LeftIn(msgs, x) + One(m = LeftMessage(x))
    BY <1>0, <2>1, LeftInAppend
  <2>4. One(m = LeftMessage(x)) = One(x = o)
    BY <2>1 DEF One
  <2>5. /\ LeftIn(msgs, x) \in Nat /\ LeftIn(batch.msgs, x) \in Nat
        /\ One(x = o) \in Nat
    <3>1. LeftIn(msgs, x) \in Nat /\ LeftIn(batch.msgs, x) \in Nat
      BY <1>0, LeftInType
    <3>2. One(x = o) \in Nat
      BY OneIs
    <3>3. QED
      BY <3>1, <3>2
  <2>6. LeftRefs(x)' = LeftIn(msgs', x) + LeftIn(batch.msgs, x)
    BY <1>1 DEF LeftRefs
  <2>7. LeftRefs(x) = LeftIn(msgs, x) + LeftIn(batch.msgs, x)
    BY DEF LeftRefs
  <2>8. CASE b
    <3>1. One(x = o /\ b) = One(x = o) /\ msgs' = msgs
      BY <2>2, <2>8 DEF One
    <3>2. LeftIn(msgs', x) = LeftIn(msgs, x)
      BY <3>1
    <3>3. QED
      BY <2>5, <2>6, <2>7, <3>1, <3>2
  <2>9. CASE ~ b
    <3>1. One(x = o /\ b) = 0 /\ msgs' = Append(msgs, m)
      BY <2>2, <2>9 DEF One
    <3>2. LeftIn(msgs', x) = LeftIn(msgs, x) + One(x = o)
      BY <2>3, <2>4, <3>1
    <3>3. QED
      BY <2>5, <2>6, <2>7, <3>1, <3>2
  <2>10. QED
    BY <2>8, <2>9
<1>9. /\ ListedOnce' /\ \A x : ListRef(x)' = ListRef(x)
      /\ \A x : UserRefs(x)' = UserRefs(x)
  BY <1>0, <1>1, ListRefKept, UserRefsKept
<1>10. PortInv' /\ FreshInv'
  BY <1>4 DEF PortInv, FreshInv
<1>11. ASSUME NEW x \in Objects
       PROVE  Tied(x)' + One(x = o /\ b) = Tied(x) /\ held2[x] = Held[x]'
  <2>1. /\ MakeRef(x) = One(x = o) /\ WorkRef(x) = One(x = o) /\ One(x = o) \in {0, 1}
    <3>1. /\ MakeRef(x) = One(x = job.obj) + One(x = job.child) /\ WorkRef(x) = One(x = job.obj)
          /\ One(x = job.child) = 0 /\ One(x = job.obj) \in {0, 1}
      BY <1>1, <1>3, <1>4 DEF JobRefs
    <3>2. QED
      BY <3>1 DEF o
  <2>2. MakeRef(x)' = 0 /\ WorkRef(x)' = One(x = o)
    <3>1. MakeRef(x)' = One(x = job'.child) /\ WorkRef(x)' = One(x = job'.obj)
          /\ One(x = job'.child) = 0
      BY <1>3, <1>4 DEF JobRefs
    <3>2. QED
      BY <1>4, <3>1
  <2>3. /\ ListRef(x) \in Nat /\ LeftRefs(x) \in Nat /\ UserRefs(x) \in Nat
        /\ LeftRefs(x)' \in Nat
        /\ Tied(x) = ListRef(x) + LeftRefs(x) + MakeRef(x)
        /\ Held[x] = Tied(x) + WorkRef(x) + UserRefs(x)
        /\ Tied(x)' = ListRef(x)' + LeftRefs(x)' + MakeRef(x)'
        /\ Held[x]' = Tied(x)' + WorkRef(x)' + UserRefs(x)'
    BY <1>3 DEF RefsOK
  <2>4. One(x = o /\ b) \in Nat
    BY OneIs
  <2>5. LeftRefs(x)' + One(x = o /\ b) = LeftRefs(x) + One(x = o)
    BY <1>8
  <2>6. ListRef(x)' = ListRef(x) /\ UserRefs(x)' = UserRefs(x)
    BY <1>9
  <2>7. held2[x] = Held[x] - One(x = o /\ b)
    BY <1>7
  <2>8. QED
    BY <2>1, <2>2, <2>3, <2>4, <2>5, <2>6, <2>7
<1>12. ASSUME NEW x \in Objects
       PROVE  Tied(x)' + One(objs[x].leaked)' <= 1
  <2>1. Tied(x) + One(objs[x].leaked) <= 1
    BY <1>0 DEF OnceInv
  <2>2. One(objs[x].leaked)' = One(objs[x].leaked) + One(x = o /\ b)
    BY <1>6
  <2>3. One(x = o /\ b) \in Nat /\ One(objs[x].leaked) \in Nat
    BY OneIs
  <2>4. Tied(x) \in Nat /\ Tied(x)' \in Nat /\ Tied(x)' + One(x = o /\ b) = Tied(x)
    BY <1>3, <1>11 DEF RefsOK
  <2>5. QED
    BY <2>1, <2>2, <2>3, <2>4
<1>13. QED
  BY <1>6, <1>9, <1>10, <1>11, <1>12, MemStep

LEMMA DropFoundMem ==
  ASSUME FlowInv, FlowInv', MemInv, DropFound
  PROVE  MemInv'
<1> DEFINE o == job.obj
<1>0. /\ Proper(job) /\ job \in Job /\ Sound(objs) /\ Balanced(objs, Held) /\ OnceInv /\ ListedOnce
  BY FlowTypes DEF MemInv, CountInv
<1>1. /\ job.pc = "drop" /\ objs' = UnrefDevice(objs, o) /\ job' = Resume
      /\ UNCHANGED <<bus, up, monitor, devs, msgs, batch, cblist, user, refs, told>>
  BY DEF DropFound
<1>2. o \in Objects /\ job.child = None
  BY <1>0, <1>1 DEF Proper, Job, WorkPcs
<1>3. RefsOK /\ RefsOK' /\ JobRefs
  BY RefTypes, JobRefsHold, PTL
<1>4. /\ \A x \in Objects : MakeRef(x)' = 0 /\ WorkRef(x)' = 0
      /\ PortInv' /\ FreshInv'
  <2>1. /\ \A x \in Objects : MakeRef(x)' = One(x = job.child) /\ WorkRef(x)' = 0
        /\ PortInv' /\ FreshInv'
    BY <1>0, <1>1, <1>2, ResumeRefs
  <2>2. \A x \in Objects : One(x = job.child) = 0
    BY <1>2, <1>3 DEF JobRefs
  <2>3. QED
    BY <2>1, <2>2
<1>5. \A x \in Objects : MakeRef(x) = 0 /\ WorkRef(x) = One(x = o) /\ One(x = o) \in {0, 1}
  BY <1>1, <1>2, <1>3 DEF JobRefs
<1> HIDE DEF o
<1>6. /\ ListedOnce' /\ \A x : ListRef(x)' = ListRef(x)
      /\ \A x : LeftRefs(x)' = LeftRefs(x)
      /\ \A x : UserRefs(x)' = UserRefs(x)
  BY <1>0, <1>1, ListRefKept, LeftRefsKept, UserRefsKept
<1> DEFINE held2 == [x \in Objects |-> Held[x] - One(x = o)]
<1>7. /\ Sound(objs') /\ Balanced(objs', held2)
      /\ \A x \in Objects : objs'[x].leaked = objs[x].leaked
  <2>1. Held[o] > 0
    <3>1. WorkRef(o) = 1
      BY <1>2, <1>5 DEF One
    <3>2. QED
      BY <1>2, <1>3, <3>1 DEF RefsOK
  <2>2. /\ Held \in [Objects -> Nat] /\ held2 = [x \in Objects |-> Held[x] - One(x = o)]
        /\ Sound(objs) /\ Balanced(objs, Held)
    BY <1>0, <1>3 DEF RefsOK
  <2> HIDE DEF held2
  <2>3. /\ Sound(objs') /\ Balanced(objs', held2)
        /\ \A x \in Objects : objs'[x].refs > 0 => /\ objs'[x].port = objs[x].port
                                                   /\ objs'[x].parent = objs[x].parent
        /\ \A x \in Objects : objs'[x].leaked = objs[x].leaked
    BY <1>1, <1>2, <2>1, <2>2, UnrefKeeps
  <2>4. QED
    BY <2>3
<1>8. \A x \in Objects : held2[x] = Held[x] - One(x = o)
  OBVIOUS
<1> HIDE DEF held2
<1>9. ASSUME NEW x \in Objects
      PROVE  Tied(x)' = Tied(x) /\ held2[x] = Held[x]'
  <2>1. /\ ListRef(x) \in Nat /\ LeftRefs(x) \in Nat /\ UserRefs(x) \in Nat
        /\ Tied(x) = ListRef(x) + LeftRefs(x) + MakeRef(x)
        /\ Held[x] = Tied(x) + WorkRef(x) + UserRefs(x)
        /\ Tied(x)' = ListRef(x)' + LeftRefs(x)' + MakeRef(x)'
        /\ Held[x]' = Tied(x)' + WorkRef(x)' + UserRefs(x)'
    BY <1>3 DEF RefsOK
  <2>2. QED
    BY <1>4, <1>5, <1>6, <1>8, <2>1
<1>10. ASSUME NEW x \in Objects
       PROVE  Tied(x)' + One(objs[x].leaked)' <= 1
  BY <1>0, <1>7, <1>9 DEF OnceInv
<1>11. QED
  BY <1>4, <1>6, <1>7, <1>9, <1>10, MemStep

LEMMA EnumerationMem ==
  ASSUME FlowInv, FlowInv', MemInv, Enumeration
  PROVE  MemInv'
BY EnumerateDeviceMem, EnumerateParentMem, ConnectDeviceMem, NotifyArrivedMem,
   DeviceDisconnectedMem, NotifyLeftMem, DropFoundMem DEF Enumeration

-----------------------------------------------------------------------------
LEMMA FlowNext ==
  ASSUME FlowInv, MemInv, [Next]_vars
  PROVE  FlowInv'
<1>1. PortInv /\ objs \in [Objects -> Device]
  BY DEF MemInv, Sound
<1>2. CASE Next
  BY <1>1, <1>2, KernelFlow, EnumerationFlow, MonitorFlow, HotplugFlow, SetUpFlow,
     DeviceListsFlow, OpenAndCloseFlow, CallbackCallsFlow DEF Next
<1>3. CASE UNCHANGED vars
  <2>1. UNCHANGED <<bus, up, monitor, lists, batch, cblist, job, user, refs, told>>
    BY <1>3 DEF vars
  <2>2. BusOK' /\ ListsOK' /\ CbsOK' /\ StepsOK' /\ HeldOK' /\ UserInv'
    BY <2>1, BusKept, ListsKept, CbsKept, StepsKept, HeldKept, UserInvKept DEF FlowInv, lists
  <2>3. QED
    BY <2>2 DEF FlowInv
<1>4. QED
  BY <1>2, <1>3

LEMMA MemNext ==
  ASSUME FlowInv, MemInv, [Next]_vars
  PROVE  MemInv'
<1>1. FlowInv'
  BY FlowNext
<1>2. CASE Next
  BY <1>1, <1>2, KernelMem, EnumerationMem, MonitorMem, HotplugMem, SetUpMem,
     DeviceListsMem, OpenAndCloseMem, CallbackCallsMem DEF Next
<1>3. CASE UNCHANGED vars
  <2>1. /\ UNCHANGED <<objs, devs, msgs, job, refs>>
        /\ batch'.msgs = batch.msgs /\ user'.obj = user.obj
    BY <1>3 DEF vars, lists
  <2>2. QED
    BY <1>1, <2>1, Untouched
<1>4. QED
  BY <1>2, <1>3

LEMMA MemInit ==
  ASSUME Init
  PROVE  MemInv
<1>1. /\ objs = [o \in Objects |-> Free] /\ devs = <<>> /\ msgs = <<>> /\ batch.msgs = <<>>
      /\ job = NoJob /\ user.obj = None /\ list = {} /\ snap = {} /\ handle = None
  BY DEF Init
<1>2. RefsOK
  BY FlowInit, RefTypes
<1>3. NoneInHand
  BY <1>1, NoJobProper, NoDevice
<1>4. Sound(objs)
  <2>1. Free \in Device
    BY DEF Free, Device, Ports
  <2>2. QED
    BY <1>1, <2>1 DEF Sound, Free
<1>5. ListedOnce
  BY <1>1 DEF ListedOnce
<1>6. ASSUME NEW o \in Objects
      PROVE  Tied(o) = 0 /\ Held[o] = 0 /\ objs[o].refs = 0 /\ One(objs[o].leaked) = 0
             /\ Children(objs, o) = 0
  <2>1. ListRef(o) = 0
    BY <1>1 DEF ListRef, One, Range
  <2>2. LeftIn(msgs, o) = 0 /\ LeftIn(batch.msgs, o) = 0
    BY <1>1, LeftInEmpty
  <2>3. LeftRefs(o) = 0
    BY <2>2 DEF LeftRefs
  <2>4. UserRefs(o) = 0
    <3>1. One(o \in list) = 0 /\ One(o \in snap) = 0 /\ One(handle = o) = 0 /\ One(user.obj = o) = 0
      BY <1>1 DEF One
    <3>2. QED
      BY <3>1 DEF UserRefs
  <2>5. objs[o] = Free /\ Free.refs = 0 /\ One(Free.leaked) = 0
    BY <1>1 DEF Free, One
  <2>6. {d \in Objects : Child(objs, d, o)} = {}
    BY <1>1 DEF Child, Free
  <2>7. Children(objs, o) = 0
    BY <2>6, FS_EmptySet DEF Children
  <2>8. Tied(o) = 0 /\ Held[o] = 0
    BY <1>2, <1>3, <2>1, <2>3, <2>4 DEF RefsOK, NoneInHand
  <2>9. QED
    BY <2>5, <2>7, <2>8
<1>7. CountInv /\ OnceInv
  BY <1>6 DEF CountInv, Balanced, OnceInv
<1>8. QED
  BY <1>3, <1>4, <1>5, <1>7 DEF MemInv, NoneInHand

LEMMA DevicesInvariant == Spec => [](FlowInv /\ MemInv)
<1>1. Init => FlowInv /\ MemInv
  BY FlowInit, MemInit
<1>2. FlowInv /\ MemInv /\ [Next]_vars => (FlowInv /\ MemInv)'
  BY FlowNext, MemNext
<1>3. QED
  BY <1>1, <1>2, PTL DEF Spec

\* The counts of the invariant are those the property adds up.
LEMMA CountsAre == FlowInv /\ MemInv => RefsExact
<1> SUFFICES ASSUME FlowInv, MemInv, NEW o \in Objects
             PROVE  objs[o].refs = References(o)
  BY DEF RefsExact
<1>1. objs[o].refs = Held[o] + One(objs[o].leaked) + Children(objs, o)
  BY DEF MemInv, CountInv, Balanced
<1>2. Held[o] = Tied(o) + WorkRef(o) + UserRefs(o)
  BY RefTypes DEF RefsOK
<1>3. Children(objs, o) = Count({d \in InUse : objs[d].parent = o})
  <2>1. {d \in Objects : Child(objs, d, o)} = {d \in InUse : objs[d].parent = o}
    BY DEF Child, InUse
  <2>2. QED
    BY <2>1 DEF Children, Count
<1> DEFINE a == One(job.obj = o /\ job.pc \in {"parent", "retry", "left", "drop"})
           b == One(job.obj = o /\ job.pc = "left")
           c == One(job.child = o)
           k == Count({d \in InUse : objs[d].parent = o})
           l == One(objs[o].leaked)
<1>4. MakeRef(o) + WorkRef(o) = a + b + c
  <2>1. One(job.obj = o /\ job.pc \in {"parent", "retry", "left"})
        + One(job.obj = o /\ job.pc \in {"left", "drop"}) = a + b
    BY DEF One
  <2>2. /\ a \in Nat /\ b \in Nat /\ c \in Nat
        /\ One(job.obj = o /\ job.pc \in {"parent", "retry", "left"}) \in Nat
        /\ One(job.obj = o /\ job.pc \in {"left", "drop"}) \in Nat
    BY OneIs
  <2> HIDE DEF a, b, c
  <2>3. QED
    BY <2>1, <2>2 DEF MakeRef, WorkRef, c
<1>5. a \in Nat /\ b \in Nat /\ c \in Nat /\ l \in Nat /\ k \in Nat
  BY <1>3, OneIs, ChildrenNat
<1>6. References(o) = ListRef(o) + LeftIn(msgs, o) + LeftIn(batch.msgs, o) + l + k + a + b + c
                      + One(o \in list) + One(o \in snap) + One(handle = o) + One(user.obj = o)
  BY DEF References, ListRef
<1>7. UserRefs(o) = One(o \in list) + One(o \in snap) + One(handle = o) + One(user.obj = o)
  BY DEF UserRefs
<1>8. LeftRefs(o) = LeftIn(msgs, o) + LeftIn(batch.msgs, o)
  BY DEF LeftRefs
<1>9. /\ One(o \in list) \in Nat /\ One(o \in snap) \in Nat /\ One(handle = o) \in Nat
      /\ One(user.obj = o) \in Nat
  BY OneIs
<1>10. LeftIn(msgs, o) \in Nat /\ LeftIn(batch.msgs, o) \in Nat
  BY FlowTypes, LeftInType DEF ListsOK
<1>11. /\ ListRef(o) \in Nat /\ MakeRef(o) \in Nat /\ WorkRef(o) \in Nat
       /\ Tied(o) = ListRef(o) + LeftRefs(o) + MakeRef(o)
  BY RefTypes DEF RefsOK
<1>12. objs[o].refs = Held[o] + l + k
  BY <1>1, <1>3
<1> HIDE DEF a, b, c, k, l
<1>13. QED
  BY <1>2, <1>4, <1>5, <1>6, <1>7, <1>8, <1>9, <1>10, <1>11, <1>12

-----------------------------------------------------------------------------
(* Every variable keeps its type, whatever is plugged, unplugged, opened   *)
(* and registered, and wherever its four actors are.                       *)
THEOREM TypeCorrect == Spec => []TypeOK
<1>1. FlowInv /\ MemInv => TypeOK
  BY DEF FlowInv, MemInv, Sound, TypeOK, MemoryOK
<1>2. QED
  BY <1>1, DevicesInvariant, PTL

(* Every device has exactly as many references as there are places that    *)
(* use it (libusb_ref_device, libusb_unref_device, and whoever calls them: *)
(* the list, the messages, the enumeration, the children, the device lists *)
(* and handles of the user): none is freed in use, and none is kept.       *)
THEOREM ReferencesAreExact == Spec => []RefsExact
BY DevicesInvariant, CountsAre, PTL

-----------------------------------------------------------------------------
(* What callbacks know.                                                    *)

\* Where the user thread is, and what there is of the context then.
SetUpPcs == {"start", "started", "scan", "scanned"}
ExitPcs  == {"hotplug_exit", "free"}
CallPcs  == {"poll", "copy", "fire"}

CtxInv ==
  /\ up = "scan" <=> user.pc \in SetUpPcs
  /\ up = "stopping" <=> user.pc \in ExitPcs
  /\ user.pc \in CallPcs \union OpenPcs => up = "ready"
  /\ up \in {"down", "scan"} \/ user.pc = "free" => cbs = {}
  /\ up \in {"down", "scan"} => msgs = <<>>
  /\ up # "ready" => ~ batch.on
  /\ up = "down" \/ user.pc = "start" => ~ monitor /\ devs = <<>> /\ job = NoJob
  /\ up = "ready" \/ user.pc \in {"started", "scan", "scanned"} => monitor

\* The user thread registers a callback.
RegInv ==
  /\ user.cb # None => user.pc \in CallPcs /\ user.cb \in Armed \cap Enumerating
  /\ user.pc = "fire" => user.cb # None
  /\ needsFree \subseteq cbs

\* A callback that is not registered knows nothing and is owed nothing.
BlankInv == \A c \in Callbacks \ cbs : known[c] = {} /\ owed[c] = {}

\* A message about a device, behind the n-th.
Message(event, o) == [event |-> event, obj |-> o]
Later(q, n, event, o) == \E i \in DOMAIN q : i > n /\ q[i] = Message(event, o)

\* What is said to have arrived is in S, or is said to have left later.
Followed(q, S) ==
  \A i \in DOMAIN q : q[i].event = "arrived" => q[i].obj \in S \/ Later(q, i, "left", q[i].obj)

\* A message that is about to be sent.
Ahead(event, o) == job.pc = event /\ job.obj = o

Accounted     == Range(devs) \union {o \in Objects : Ahead("left", o)}
LeavesLater   == {o \in Objects : Later(msgs, 0, "left", o)}
FollowInv     == up = "ready" => /\ Followed(msgs, Accounted)
                                 /\ Followed(batch.msgs, Accounted \union LeavesLater)
ArrivedInv    == up # "stopping" /\ job.pc = "arrived" => job.obj \in Range(devs)

\* A message that c will get, if it stays.
Coming(c, event, o) ==
  \/ Later(batch.msgs, IF c \in batch.rest THEN 0 ELSE 1, event, o)
  \/ Later(msgs, 0, event, o)
  \/ Ahead(event, o)

\* The registration of c will tell it of o.
Registering(c, o) == user.cb = c /\ (user.pc = "fire" => o \in user.todo)

OwedListed == \A c \in Callbacks : owed[c] \subseteq Range(devs)
OwedInv == up = "ready" =>
  \A c \in Armed : \A o \in owed[c] :
    o \in known[c] \/ Coming(c, "arrived", o) \/ Registering(c, o)

KnownInv == up = "ready" =>
  \A c \in Armed \ Enumerating : \A o \in known[c] : o \in Range(devs) \/ Coming(c, "left", o)

StoryInv == BlankInv /\ FollowInv /\ ArrivedInv /\ OwedListed /\ OwedInv /\ KnownInv

-----------------------------------------------------------------------------
LEMMA LaterTail ==
  ASSUME NEW q \in Seq(Messages), q # <<>>, NEW event, NEW o
  PROVE  /\ Later(Tail(q), 0, event, o) <=> Later(q, 1, event, o)
         /\ Later(q, 0, event, o) <=> (Head(q) = Message(event, o) \/ Later(q, 1, event, o))
<1> DEFINE r == Tail(q)
           n == Len(q)
<1>1. /\ n \in Nat \ {0} /\ DOMAIN q = 1..n /\ DOMAIN r = 1..n - 1 /\ q[1] = Head(q)
      /\ \A i \in 1..n - 1 : r[i] = q[i + 1]
  <2>1. r \in Seq(Messages) /\ Len(r) = Len(q) - 1 /\ \A i \in 1..Len(r) : r[i] = q[i + 1]
        /\ q[1] = Head(q)
    BY HeadTailProperties
  <2>2. Len(q) \in Nat /\ DOMAIN q = 1..Len(q) /\ Len(q) # 0 /\ DOMAIN r = 1..Len(r)
    BY <2>1, LenProperties, EmptySeq
  <2>3. QED
    BY <2>1, <2>2
<1> HIDE DEF r, n
<1>2. Later(r, 0, event, o) => Later(q, 1, event, o)
  <2>1. ASSUME NEW i \in DOMAIN r, i > 0, r[i] = Message(event, o)
        PROVE  i + 1 \in DOMAIN q /\ i + 1 > 1 /\ q[i + 1] = Message(event, o)
    BY <1>1, <2>1
  <2>2. QED
    BY <2>1 DEF Later
<1>3. Later(q, 1, event, o) => Later(r, 0, event, o)
  <2>1. ASSUME NEW i \in DOMAIN q, i > 1, q[i] = Message(event, o)
        PROVE  i - 1 \in DOMAIN r /\ i - 1 > 0 /\ r[i - 1] = Message(event, o)
    <3>1. i - 1 \in 1..n - 1 /\ (i - 1) + 1 = i
      BY <1>1, <2>1
    <3>2. QED
      BY <1>1, <2>1, <3>1
  <2>2. QED
    BY <2>1 DEF Later
<1>4. Later(q, 0, event, o) => Head(q) = Message(event, o) \/ Later(q, 1, event, o)
  <2>1. ASSUME NEW i \in DOMAIN q, q[i] = Message(event, o)
        PROVE  q[1] = Message(event, o) \/ i > 1
    BY <1>1, <2>1
  <2>2. QED
    BY <1>1, <2>1 DEF Later
<1>5. Head(q) = Message(event, o) \/ Later(q, 1, event, o) => Later(q, 0, event, o)
  <2>1. 1 \in DOMAIN q /\ 1 > 0
    BY <1>1
  <2>2. \A i \in DOMAIN q : i > 1 => i > 0
    BY <1>1
  <2>3. QED
    BY <1>1, <2>1, <2>2 DEF Later
<1>6. QED
  BY <1>2, <1>3, <1>4, <1>5 DEF r

LEMMA LaterAppend ==
  ASSUME NEW q \in Seq(Messages), NEW m \in Messages, NEW n \in Nat, NEW event, NEW o
  PROVE  /\ Later(q, n, event, o) => Later(Append(q, m), n, event, o)
         /\ n <= Len(q) /\ m = Message(event, o) => Later(Append(q, m), n, event, o)
         /\ Later(Append(q, m), n, event, o) => Later(q, n, event, o) \/ m = Message(event, o)
<1> DEFINE r == Append(q, m)
           k == Len(q)
<1>1. /\ k \in Nat /\ DOMAIN q = 1..k /\ DOMAIN r = 1..k + 1 /\ r[k + 1] = m
      /\ \A i \in 1..k : r[i] = q[i]
  BY LenProperties, AppendProperties
<1> HIDE DEF r, k
<1>2. Later(q, n, event, o) => Later(r, n, event, o)
  <2>1. \A i \in DOMAIN q : i \in DOMAIN r /\ r[i] = q[i]
    BY <1>1
  <2>2. QED
    BY <2>1 DEF Later
<1>3. n <= k /\ m = Message(event, o) => Later(r, n, event, o)
  <2>1. n <= k => k + 1 \in DOMAIN r /\ k + 1 > n
    BY <1>1
  <2>2. QED
    BY <1>1, <2>1 DEF Later
<1>4. Later(r, n, event, o) => Later(q, n, event, o) \/ m = Message(event, o)
  <2>1. \A i \in DOMAIN r : i \in DOMAIN q \/ i = k + 1
    BY <1>1
  <2>2. QED
    BY <1>1, <2>1 DEF Later
<1>5. QED
  BY <1>2, <1>3, <1>4 DEF r, k

LEMMA LaterEmpty ==
  ASSUME NEW n, NEW event, NEW o
  PROVE  ~ Later(<<>>, n, event, o)
  BY DEF Later

LEMMA FollowedEmpty ==
  ASSUME NEW S
  PROVE  Followed(<<>>, S)
  BY DEF Followed

LEMMA FollowedMore ==
  ASSUME NEW q, NEW S, NEW T, Followed(q, S), S \subseteq T
  PROVE  Followed(q, T)
  BY DEF Followed

\* A message less, a message more.
LEMMA FollowedTail ==
  ASSUME NEW q \in Seq(Messages), q # <<>>, NEW S, Followed(q, S)
  PROVE  /\ Followed(Tail(q), S)
         /\ Head(q).event = "arrived" => Head(q).obj \in S \/ Later(q, 1, "left", Head(q).obj)
<1> DEFINE r == Tail(q)
           n == Len(q)
<1>1. /\ n \in Nat \ {0} /\ DOMAIN q = 1..n /\ DOMAIN r = 1..n - 1 /\ q[1] = Head(q)
      /\ \A i \in 1..n - 1 : r[i] = q[i + 1]
  <2>1. r \in Seq(Messages) /\ Len(r) = Len(q) - 1 /\ \A i \in 1..Len(r) : r[i] = q[i + 1]
        /\ q[1] = Head(q)
    BY HeadTailProperties
  <2>2. Len(q) \in Nat /\ DOMAIN q = 1..Len(q) /\ Len(q) # 0 /\ DOMAIN r = 1..Len(r)
    BY <2>1, LenProperties, EmptySeq
  <2>3. QED
    BY <2>1, <2>2
<1> HIDE DEF r, n
<1>2. ASSUME NEW i \in DOMAIN r, r[i].event = "arrived", r[i].obj \notin S
      PROVE  Later(r, i, "left", r[i].obj)
  <2>1. i + 1 \in DOMAIN q /\ q[i + 1] = r[i]
    BY <1>1
  <2>2. PICK j \in DOMAIN q : j > i + 1 /\ q[j] = Message("left", r[i].obj)
    BY <1>2, <2>1 DEF Followed, Later
  <2>3. j - 1 \in 1..n - 1 /\ j - 1 > i /\ (j - 1) + 1 = j
    BY <1>1, <2>1, <2>2
  <2>4. r[j - 1] = q[j] /\ j - 1 \in DOMAIN r
    BY <1>1, <2>3
  <2>5. QED
    BY <2>2, <2>3, <2>4 DEF Later
<1>3. 1 \in DOMAIN q
  BY <1>1
<1>4. QED
  BY <1>1, <1>2, <1>3 DEF Followed, r

LEMMA FollowedAppend ==
  ASSUME NEW q \in Seq(Messages), NEW m \in Messages, NEW S, NEW T, Followed(q, S),
         \A o \in S : o \in T \/ m = Message("left", o),
         m.event = "arrived" => m.obj \in T
  PROVE  Followed(Append(q, m), T)
<1> DEFINE r == Append(q, m)
           k == Len(q)
<1>1. /\ k \in Nat /\ DOMAIN q = 1..k /\ DOMAIN r = 1..k + 1 /\ r[k + 1] = m
      /\ \A i \in 1..k : r[i] = q[i]
  BY LenProperties, AppendProperties
<1>2. ASSUME NEW i \in 1..k, q[i].event = "arrived", q[i].obj \notin T
      PROVE  Later(r, i, "left", q[i].obj)
  <2>1. i \in Nat /\ i <= k
    BY <1>1
  <2>2. q[i].obj \in S \/ Later(q, i, "left", q[i].obj)
    BY <1>1, <1>2 DEF Followed
  <2>3. m = Message("left", q[i].obj) \/ Later(q, i, "left", q[i].obj)
    BY <1>2, <2>2
  <2> HIDE DEF r
  <2>4. QED
    BY <2>1, <2>3, LaterAppend DEF r
<1> HIDE DEF r, k
<1>3. ASSUME NEW i \in DOMAIN r, r[i].event = "arrived"
      PROVE  r[i].obj \in T \/ Later(r, i, "left", r[i].obj)
  <2>1. CASE i \in 1..k
    BY <1>1, <1>2, <1>3, <2>1
  <2>2. CASE i = k + 1
    BY <1>1, <1>3, <2>2
  <2>3. QED
    BY <1>1, <2>1, <2>2
<1>4. QED
  BY <1>3 DEF Followed, r

-----------------------------------------------------------------------------
(* Where the user thread is.                                               *)

Resting == {"idle", "free_list"}

LEMMA CtxSame ==
  ASSUME CtxInv, UNCHANGED <<up, monitor>>,
         user'.pc = user.pc \/ {user.pc, user'.pc} \subseteq Resting,
         cbs = {} => cbs' = {},
         msgs' = msgs \/ up \in {"ready", "stopping"},
         batch'.on = batch.on \/ up = "ready",
         up = "down" \/ user.pc = "start" => UNCHANGED <<devs, job>>
  PROVE  CtxInv'
  BY DEF CtxInv, Resting, SetUpPcs, ExitPcs, CallPcs, OpenPcs

LEMMA CtxCall ==
  ASSUME CtxInv, up = "ready", UNCHANGED <<up, monitor>>, user'.pc \notin SetUpPcs \union ExitPcs
  PROVE  CtxInv'
  BY DEF CtxInv, SetUpPcs, ExitPcs

LEMMA RegSame ==
  ASSUME RegInv, user'.cb = user.cb, user'.pc = user.pc \/ user.pc = "idle",
         user'.pc # "fire" \/ user'.pc = user.pc, user'.pc \in CallPcs \/ user'.pc = user.pc,
         user.cb \in Armed => user.cb \in Armed',
         UNCHANGED cblist \/ needsFree' \subseteq cbs'
  PROVE  RegInv'
  BY DEF RegInv, cblist

LEMMA RegNone ==
  ASSUME RegInv, user'.cb = None, user'.pc # "fire", UNCHANGED cblist \/ needsFree' \subseteq cbs'
  PROVE  RegInv'
  BY DEF RegInv, cblist

LEMMA UserFields ==
  ASSUME user \in User
  PROVE  /\ \A pc : LET u == [user EXCEPT !.pc = pc]
                    IN  u.pc = pc /\ u.cb = user.cb /\ u.todo = user.todo /\ u.obj = user.obj
         /\ \A pc, S : LET u == [user EXCEPT !.pc = pc, !.todo = S]
                       IN  u.pc = pc /\ u.cb = user.cb /\ u.todo = S /\ u.obj = user.obj
         /\ \A pc, o : LET u == [user EXCEPT !.pc = pc, !.obj = o]
                       IN  u.pc = pc /\ u.cb = user.cb /\ u.todo = user.todo /\ u.obj = o
         /\ \A S : LET u == [user EXCEPT !.todo = S]
                   IN  u.pc = user.pc /\ u.cb = user.cb /\ u.todo = S /\ u.obj = user.obj
         /\ Idle.pc = "idle" /\ Idle.cb = None /\ Idle.obj = None
         /\ \A pc : Calling(pc).pc = pc /\ Calling(pc).cb = None /\ Calling(pc).obj = None
         /\ \A pc, x : LET u == [Calling(pc) EXCEPT !.cb = x]
                       IN  u.pc = pc /\ u.cb = x /\ u.obj = None
         /\ \A pc, x, y : LET u == [Calling(pc) EXCEPT !.asked = x, !.since = y]
                          IN  u.pc = pc /\ u.cb = None /\ u.obj = None
         /\ \A pc, b : LET u == [user EXCEPT !.pc = pc, !.cut = b]
                       IN  u.pc = pc /\ u.cb = user.cb /\ u.todo = user.todo /\ u.obj = user.obj
  BY DEF User, Idle, Calling

LEMMA CtxOthers ==
  ASSUME FlowInv, CtxInv, RegInv, Kernel \/ Enumeration \/ Monitor \/ UNCHANGED vars
  PROVE  CtxInv' /\ RegInv'
<1>1. CASE Kernel
  <2>1. UNCHANGED <<up, monitor, lists, batch, cblist, job, user, refs, told>>
    BY <1>1 DEF Kernel, Plug, Unplug, OtherUevent
  <2>2. QED
    BY <2>1, CtxSame, RegSame DEF lists, cblist, Armed
<1>2. CASE Enumeration
  <2>1. UNCHANGED <<up, monitor, batch, cblist, user>>
    BY <1>2 DEF Enumeration, EnumerateDevice, EnumerateParent, ParentFirst, ConnectDevice,
                NotifyArrived, DeviceDisconnected, NotifyLeft, DropFound, lists
  <2>2. msgs' = msgs \/ up = "ready"
    BY <1>2 DEF Enumeration, EnumerateDevice, EnumerateParent, ParentFirst, ConnectDevice,
                NotifyArrived, DeviceDisconnected, NotifyLeft, DropFound, Notification, lists
  <2>3. job # NoJob
    BY <1>2 DEF Enumeration, EnumerateDevice, EnumerateParent, ParentFirst, ConnectDevice,
                NotifyArrived, DeviceDisconnected, NotifyLeft, DropFound, NoJob
  <2>4. up # "down" /\ user.pc # "start"
    BY <2>3 DEF CtxInv
  <2>5. QED
    BY <2>1, <2>2, <2>4, CtxSame, RegSame DEF cblist, Armed
<1>3. CASE Monitor
  <2>1. monitor /\ UNCHANGED <<up, monitor, lists, batch, cblist, user>>
    BY <1>3 DEF Monitor
  <2>2. up # "down" /\ user.pc # "start"
    BY <2>1 DEF CtxInv
  <2>3. QED
    BY <2>1, <2>2, CtxSame, RegSame DEF cblist, lists, Armed
<1>4. CASE UNCHANGED vars
  BY <1>4, CtxSame, RegSame DEF vars, lists, cblist, Armed
<1>5. QED
  BY <1>1, <1>2, <1>3, <1>4

LEMMA CtxHotplug ==
  ASSUME FlowInv, CtxInv, RegInv, HotplugProcess
  PROVE  CtxInv' /\ RegInv'
<1>0. batch \in Batch
  BY DEF FlowInv, CbsOK
<1>1. up = "ready" /\ UNCHANGED <<up, monitor, user>>
  <2>1. batch.on => up = "ready"
    BY DEF CtxInv
  <2>2. QED
    BY <2>1 DEF HotplugProcess, TakeMessages, CallBack, MessageDone, FreeUnregistered
<1>2. CtxInv'
  BY <1>1, CtxCall DEF CtxInv, SetUpPcs, ExitPcs
<1>3. user.cb \in Armed => user.cb \in Armed'
  <2>1. CASE TakeMessages \/ MessageDone
    BY <2>1 DEF TakeMessages, MessageDone, cblist, Armed
  <2>2. CASE CallBack
    <3>1. PICK c \in batch.rest :
            \/ UNCHANGED cblist
            \/ \E finished \in IF user.cb = c THEN {FALSE} ELSE BOOLEAN :
                 /\ cbs' = IF finished THEN cbs \ {c} ELSE cbs
                 /\ UNCHANGED needsFree
      BY <2>2 DEF CallBack
    <3>2. CASE UNCHANGED cblist
      BY <3>2 DEF cblist, Armed
    <3>3. CASE user.cb = c /\ cbs' = cbs /\ UNCHANGED needsFree
      BY <3>3 DEF Armed
    <3>4. CASE user.cb # c /\ cbs' \in {cbs, cbs \ {c}} /\ UNCHANGED needsFree
      BY <3>4 DEF Armed
    <3>5. QED
      BY <3>1, <3>2, <3>3, <3>4
  <2>3. CASE FreeUnregistered
    BY <2>3 DEF FreeUnregistered, Armed
  <2>4. QED
    BY <2>1, <2>2, <2>3 DEF HotplugProcess
<1>4. needsFree' \subseteq cbs'
  <2>1. needsFree \subseteq cbs
    BY DEF RegInv, cblist
  <2>2. CASE CallBack
    <3>1. PICK c \in batch.rest :
            \/ UNCHANGED cblist
            \/ c \notin needsFree /\ UNCHANGED needsFree /\ cbs' \in {cbs, cbs \ {c}}
      BY <2>2 DEF CallBack
    <3>2. QED
      BY <2>1, <3>1 DEF cblist
  <2>3. QED
    BY <2>1, <2>2 DEF HotplugProcess, TakeMessages, MessageDone, FreeUnregistered, cblist
<1>5. QED
  BY <1>1, <1>2, <1>3, <1>4, RegSame

LEMMA CtxSetUp ==
  ASSUME FlowInv, CtxInv, RegInv, SetUpTearDown
  PROVE  CtxInv' /\ RegInv'
<1>0. user \in User /\ batch \in Batch /\ user.pc \notin CallPcs
      /\ job \in Job /\ Proper(job)
  BY DEF FlowInv, StepsOK, CbsOK, Proper, SetUpTearDown, InitContext, StartMonitor, ScanDevices, ScanDevice, ScanDone, HotplugInit,
         Exit, HotplugExit, FreeMessage, FreeDevice, StopMonitor, CallPcs
<1>1. user.cb = None
  BY <1>0 DEF RegInv
<1>2. CASE InitContext
  <2>1. /\ up = "down" /\ up' = "scan" /\ user' = Calling("start")
        /\ UNCHANGED <<monitor, lists, batch, cblist, job>>
    BY <1>2 DEF InitContext
  <2>2. user'.pc = "start" /\ user'.cb = None
    BY <1>0, <2>1, UserFields
  <2>3. QED
    BY <2>1, <2>2, RegNone DEF CtxInv, SetUpPcs, ExitPcs, CallPcs, OpenPcs, cblist, lists
<1>3. CASE StartMonitor
  <2>1. /\ user.pc = "start" /\ monitor' = TRUE /\ user' = [user EXCEPT !.pc = "started"]
        /\ UNCHANGED <<up, lists, batch, cblist, job>>
    BY <1>3 DEF StartMonitor
  <2>2. user'.pc = "started" /\ user'.cb = None
    BY <1>0, <1>1, <2>1, UserFields
  <2>3. QED
    BY <2>1, <2>2, RegNone DEF CtxInv, SetUpPcs, ExitPcs, CallPcs, OpenPcs, cblist, lists
<1>4. CASE ScanDevices \/ ScanDone \/ \E p \in Ports : ScanDevice(p)
  <2>1. /\ user.pc \in {"started", "scan"} /\ user'.pc \in {"scan", "scanned"} /\ user'.cb = None
        /\ UNCHANGED <<up, monitor, lists, batch, cblist>>
    <3>1. CASE ScanDevices
      <4>1. user' = [user EXCEPT !.pc = "scan", !.todo = Ports]
        BY <3>1 DEF ScanDevices
      <4>2. QED
        BY <1>0, <1>1, <3>1, <4>1, UserFields DEF ScanDevices
    <3>2. CASE ScanDone
      <4>1. user' = [user EXCEPT !.pc = "scanned"]
        BY <3>2 DEF ScanDone
      <4>2. QED
        BY <1>0, <1>1, <3>2, <4>1, UserFields DEF ScanDone
    <3>3. ASSUME NEW p \in Ports, ScanDevice(p) PROVE <2>1!:
      <4>1. user' = [user EXCEPT !.todo = user.todo \ {p}]
        BY <3>3 DEF ScanDevice
      <4>2. QED
        BY <1>0, <1>1, <3>3, <4>1, UserFields DEF ScanDevice
    <3>4. QED
      BY <1>4, <3>1, <3>2, <3>3
  <2>2. QED
    BY <2>1, RegNone DEF CtxInv, SetUpPcs, ExitPcs, CallPcs, OpenPcs, cblist, lists
<1>5. CASE HotplugInit
  <2>1. /\ user.pc = "scanned" /\ up' = "ready" /\ user' = Idle
        /\ UNCHANGED <<monitor, lists, batch, cblist, job>>
    BY <1>5 DEF HotplugInit
  <2>2. user'.pc = "idle" /\ user'.cb = None
    BY <1>0, <2>1, UserFields
  <2>3. QED
    BY <2>1, <2>2, RegNone DEF CtxInv, SetUpPcs, ExitPcs, CallPcs, OpenPcs, cblist, lists
<1>6. CASE Exit
  <2>1. /\ up = "ready" /\ ~ batch.on /\ up' = "stopping" /\ user' = [user EXCEPT !.pc = "hotplug_exit"]
        /\ UNCHANGED <<monitor, lists, batch, cblist, job>>
    BY <1>6 DEF Exit
  <2>2. user'.pc = "hotplug_exit" /\ user'.cb = None
    BY <1>0, <1>1, <2>1, UserFields
  <2>3. QED
    BY <2>1, <2>2, RegNone DEF CtxInv, SetUpPcs, ExitPcs, CallPcs, OpenPcs, cblist, lists
<1>7. CASE HotplugExit
  <2>1. /\ user.pc = "hotplug_exit" /\ cbs' = {} /\ needsFree' = {} /\ user' = [user EXCEPT !.pc = "free"]
        /\ batch' = [batch EXCEPT !.deregistered = FALSE]
        /\ UNCHANGED <<up, monitor, lists, job>>
    BY <1>7 DEF HotplugExit
  <2>2. user'.pc = "free" /\ user'.cb = None /\ batch'.on = batch.on
    BY <1>0, <1>1, <2>1, UserFields DEF Batch
  <2>3. QED
    BY <2>1, <2>2, RegNone DEF CtxInv, SetUpPcs, ExitPcs, CallPcs, OpenPcs, lists
<1>8. CASE FreeMessage \/ FreeDevice
  <2>1. user.pc = "free" /\ UNCHANGED <<up, monitor, batch, cblist, job, user>>
    BY <1>8 DEF FreeMessage, FreeDevice
  <2>2. up = "stopping"
    BY <2>1 DEF CtxInv, ExitPcs
  <2>3. QED
    BY <2>1, <2>2, CtxSame, RegSame DEF cblist, Armed
<1>9. CASE StopMonitor
  <2>1. /\ user.pc = "free" /\ msgs = <<>> /\ devs = <<>> /\ job = NoJob
        /\ up' = "down" /\ monitor' = FALSE /\ user' = Idle
        /\ UNCHANGED <<lists, batch, cblist, job>>
    BY <1>9 DEF StopMonitor
  <2>2. user'.pc = "idle" /\ user'.cb = None
    BY <1>0, <2>1, UserFields
  <2>3. QED
    BY <2>1, <2>2, RegNone DEF CtxInv, SetUpPcs, ExitPcs, CallPcs, OpenPcs, cblist, lists
<1>10. QED
  BY <1>2, <1>3, <1>4, <1>5, <1>6, <1>7, <1>8, <1>9 DEF SetUpTearDown

LEMMA CtxUser ==
  ASSUME FlowInv, CtxInv, RegInv, DeviceLists \/ OpenAndClose \/ CallbackCalls
  PROVE  CtxInv' /\ RegInv'
<1>0. /\ user \in User /\ batch \in Batch
      /\ user.pc = "idle" => user.cb = None
  BY DEF FlowInv, StepsOK, CbsOK, RegInv, CallPcs
<1>1. CASE DeviceLists
  <2>1. CASE GetDeviceList
    <3>1. up = "ready" /\ user' = [Calling("poll") EXCEPT !.asked = plugged, !.since = serial]
          /\ UNCHANGED <<up, monitor, cblist>>
      BY <2>1 DEF GetDeviceList, Ready
    <3>2. user'.pc = "poll" /\ user'.cb = None
      BY <1>0, <3>1, UserFields
    <3>3. QED
      BY <3>1, <3>2, CtxCall, RegNone DEF SetUpPcs, ExitPcs
  <2>2. CASE HotplugPoll
    <3>1. /\ user.pc = "poll" /\ UNCHANGED <<up, monitor, cblist>>
          /\ \/ user' = [user EXCEPT !.pc = "copy"]
             \/ user' = user
             \/ user' = [user EXCEPT !.pc = "copy", !.cut = TRUE]
      BY <2>2 DEF HotplugPoll
    <3>2. user'.pc \in {"poll", "copy"} /\ user'.cb = user.cb /\ up = "ready"
      <4>1. up = "ready"
        BY <3>1 DEF CtxInv, CallPcs
      <4>2. QED
        BY <1>0, <3>1, <4>1 DEF User
    <3>3. RegInv'
      BY <3>1, <3>2 DEF RegInv, CallPcs, Armed, cblist
    <3>4. QED
      BY <3>1, <3>2, <3>3, CtxCall DEF SetUpPcs, ExitPcs
  <2>3. CASE CopyList
    <3>1. /\ user.pc = "copy" /\ UNCHANGED <<up, monitor, cblist>>
          /\ \/ user.cb = None /\ user' = Idle
             \/ user.cb # None /\ user' = [user EXCEPT !.pc = "fire", !.todo = Range(devs)]
      BY <2>3 DEF CopyList
    <3>2. /\ user'.pc \in {"idle", "fire"} /\ user'.cb = user.cb /\ up = "ready"
          /\ user.cb = None => user'.pc = "idle"
          /\ user.cb # None => user'.pc = "fire"
      <4>1. up = "ready"
        BY <3>1 DEF CtxInv, CallPcs
      <4>2. CASE user.cb = None
        BY <1>0, <3>1, <4>1, <4>2, UserFields
      <4>3. CASE user.cb # None
        BY <1>0, <3>1, <4>1, <4>3 DEF User
      <4>4. QED
        BY <4>2, <4>3
    <3>3. RegInv'
      BY <3>1, <3>2 DEF RegInv, CallPcs, Armed, cblist
    <3>4. QED
      BY <3>1, <3>2, <3>3, CtxCall DEF SetUpPcs, ExitPcs
  <2>4. ASSUME NEW o \in Objects, FreeDeviceList(o) PROVE CtxInv' /\ RegInv'
    <3>1. /\ user.pc \in Resting /\ UNCHANGED <<up, monitor, devs, msgs, batch, cblist, job>>
          /\ user' = [user EXCEPT !.pc = IF list' = {} THEN "idle" ELSE "free_list"]
      BY <2>4 DEF FreeDeviceList, Resting
    <3>2. user'.pc \in Resting /\ user'.cb = None
      <4>1. user.cb = None
        BY <3>1 DEF RegInv, Resting, CallPcs
      <4>2. QED
        BY <1>0, <3>1, <4>1, UserFields DEF Resting
    <3>3. QED
      BY <3>1, <3>2, CtxSame, RegNone DEF cblist, Resting
  <2>5. QED
    BY <1>1, <2>1, <2>2, <2>3, <2>4 DEF DeviceLists
<1>2. CASE OpenAndClose
  <2>1. CASE WrapSysDevice \/ \E o \in Objects : Open(o)
    <3>1. /\ up = "ready" /\ UNCHANGED <<up, monitor, cblist>>
          /\ user.pc = "idle"
          /\ \/ user' = Calling("idle")
             \/ \E o \in Objects : user' = [user EXCEPT !.pc = "open", !.obj = o]
      BY Zenon, <2>1 DEF WrapSysDevice, Open, Ready
    <3>2. user'.pc \in {"idle", "open"} /\ user'.cb = None
      <4>1. user.cb = None
        BY Zenon, <1>0, <2>1 DEF WrapSysDevice, Open, Ready
      <4>2. CASE user' = Calling("idle")
        BY <1>0, <4>2, UserFields
      <4>3. ASSUME NEW o, user' = [user EXCEPT !.pc = "open", !.obj = o]
            PROVE  user'.pc = "open" /\ user'.cb = None
        BY <1>0, <4>1, <4>3 DEF User
      <4>4. QED
        BY Zenon, <3>1, <4>2, <4>3
    <3>3. QED
      BY Zenon, <3>1, <3>2, CtxCall, RegNone DEF SetUpPcs, ExitPcs
  <2>2. CASE OpenBackend \/ DisconnectGone \/ OpenFails
    <3>1. /\ user.pc \in OpenPcs /\ UNCHANGED <<up, monitor, cblist>>
          /\ user' \in {Idle, [user EXCEPT !.pc = "gone"], [user EXCEPT !.pc = "failed"]}
      BY <2>2 DEF OpenBackend, DisconnectGone, OpenFails, OpenPcs
    <3>2. user'.pc \in {"idle", "gone", "failed"} /\ user'.cb = None /\ up = "ready"
      <4>1. user.cb = None
        BY <3>1 DEF RegInv, OpenPcs, CallPcs
      <4>2. up = "ready"
        BY <3>1 DEF CtxInv
      <4>3. Idle.pc = "idle" /\ Idle.cb = None
        BY <1>0, UserFields
      <4>4. QED
        BY <1>0, <3>1, <4>1, <4>2, <4>3 DEF User
    <3>3. QED
      BY <3>1, <3>2, CtxCall, RegNone DEF SetUpPcs, ExitPcs
  <2>3. CASE Close
    <3>1. UNCHANGED <<up, monitor, devs, msgs, batch, cblist, job, user>>
      BY <2>3 DEF Close
    <3>2. QED
      BY <3>1, CtxSame, RegSame DEF cblist, Armed
  <2>4. QED
    BY <1>2, <2>1, <2>2, <2>3 DEF OpenAndClose
<1>3. CASE CallbackCalls
  <2>1. ASSUME NEW c \in Callbacks, RegisterCallback(c) PROVE CtxInv' /\ RegInv'
    <3>1. /\ up = "ready" /\ UNCHANGED <<up, monitor, needsFree>> /\ cbs' = cbs \union {c}
          /\ \/ c \in Enumerating /\ user' = [Calling("poll") EXCEPT !.cb = c]
             \/ user' = Calling("idle")
      BY <2>1 DEF RegisterCallback, Ready
    <3>2. \/ c \in Enumerating /\ user'.pc = "poll" /\ user'.cb = c
          \/ user'.pc = "idle" /\ user'.cb = None
      <4>1. Calling("idle").pc = "idle" /\ Calling("idle").cb = None
        BY <1>0, UserFields
      <4>2. [Calling("poll") EXCEPT !.cb = c].pc = "poll" /\ [Calling("poll") EXCEPT !.cb = c].cb = c
        BY <1>0, UserFields
      <4>3. QED
        BY <3>1, <4>1, <4>2
    <3>3. c \notin needsFree
      BY <2>1 DEF RegisterCallback, RegInv
    <3>4. QED
      BY <3>1, <3>2, <3>3, CtxCall, RegNone DEF SetUpPcs, ExitPcs, RegInv, CallPcs, Armed
  <2>2. ASSUME NEW c \in Callbacks, DeregisterCallback(c) PROVE CtxInv' /\ RegInv'
    <3>1. /\ up = "ready" /\ UNCHANGED <<up, monitor>> /\ user' = Calling("idle")
          /\ needsFree' \subseteq cbs'
      BY <2>2 DEF DeregisterCallback, Ready, RegInv, Armed
    <3>2. user'.pc = "idle" /\ user'.cb = None
      BY <1>0, <3>1, UserFields
    <3>3. QED
      BY <3>1, <3>2, CtxCall, RegNone DEF SetUpPcs, ExitPcs
  <2>3. CASE (\E o \in Objects : FireForListed(o) \/ FreeSnapshot(o)) \/ Registered
    <3>1. /\ user.pc = "fire" /\ UNCHANGED <<up, monitor, cblist>>
          /\ user' \in {Idle, user} \/ \E o \in Objects : user' = [user EXCEPT !.todo = user.todo \ {o}]
      BY <2>3 DEF FireForListed, FreeSnapshot, Registered
    <3>2. /\ up = "ready"
          /\ (user'.pc = "idle" /\ user'.cb = None) \/ (user'.pc = user.pc /\ user'.cb = user.cb)
      <4>1. up = "ready"
        BY <3>1 DEF CtxInv, CallPcs
      <4>2. Idle.pc = "idle" /\ Idle.cb = None
        BY <1>0, UserFields
      <4>3. ASSUME NEW o, user' = [user EXCEPT !.todo = user.todo \ {o}]
            PROVE  user'.pc = user.pc /\ user'.cb = user.cb
        BY <1>0, <4>3 DEF User
      <4>4. QED
        BY <3>1, <4>1, <4>2, <4>3
    <3>3. RegInv'
      BY <3>1, <3>2, RegNone, RegSame DEF Armed, cblist
    <3>4. QED
      BY <3>1, <3>2, <3>3, CtxCall DEF SetUpPcs, ExitPcs
  <2>4. QED
    BY <1>3, <2>1, <2>2, <2>3 DEF CallbackCalls
<1>4. QED
  BY <1>1, <1>2, <1>3

LEMMA CtxInit ==
  ASSUME Init
  PROVE  CtxInv /\ RegInv
  BY DEF Init, CtxInv, RegInv, SetUpPcs, ExitPcs, CallPcs, OpenPcs

LEMMA CtxNext ==
  ASSUME FlowInv, CtxInv, RegInv, [Next]_vars
  PROVE  CtxInv' /\ RegInv'
  BY CtxOthers, CtxHotplug, CtxSetUp, CtxUser DEF Next

-----------------------------------------------------------------------------
(* What callbacks know, and what they are owed.                            *)

LEMMA HeldInMemory ==
  ASSUME FlowInv, MemInv, NEW o \in Range(devs)
  PROVE  o \in Objects /\ objs[o].refs > 0 /\ LeftRefs(o) = 0
<1>1. o \in Objects
  <2>1. DOMAIN devs = 1..Len(devs) /\ \A i \in DOMAIN devs : devs[i] \in Objects
    BY FlowTypes, LenProperties, ElementOfSeq DEF ListsOK
  <2>2. QED
    BY <2>1 DEF Range
<1>2. ListRef(o) = 1
  BY DEF ListRef, One
<1>3. /\ ListRef(o) \in Nat /\ LeftRefs(o) \in Nat /\ MakeRef(o) \in Nat
      /\ WorkRef(o) \in Nat /\ UserRefs(o) \in Nat /\ Tied(o) \in Nat
      /\ Tied(o) = ListRef(o) + LeftRefs(o) + MakeRef(o)
      /\ Held[o] = Tied(o) + WorkRef(o) + UserRefs(o)
  BY <1>1, RefTypes DEF RefsOK
<1>4. Tied(o) + One(objs[o].leaked) <= 1 /\ One(objs[o].leaked) \in Nat
  BY <1>1, OneIs DEF MemInv, OnceInv
<1>5. Held[o] > 0 => objs[o].refs > 0
  BY <1>1, HeldLive
<1> HIDE DEF Tied
<1>6. QED
  BY <1>1, <1>2, <1>3, <1>4, <1>5

\* No message says that a listed device left.
LEMMA ListedStays ==
  ASSUME FlowInv, MemInv, NEW o \in Range(devs), NEW n
  PROVE  ~ Later(msgs, n, "left", o) /\ ~ Later(batch.msgs, n, "left", o)
<1>1. LeftRefs(o) = 0
  BY HeldInMemory
<1>2. LeftIn(msgs, o) = 0 /\ LeftIn(batch.msgs, o) = 0
  <2>1. LeftIn(msgs, o) \in Nat /\ LeftIn(batch.msgs, o) \in Nat
    BY FlowTypes, LeftInType DEF ListsOK
  <2>2. QED
    BY <1>1, <2>1 DEF LeftRefs
<1>3. ASSUME NEW q \in Seq(Messages), LeftIn(q, o) = 0
      PROVE  ~ Later(q, n, "left", o)
  <2> DEFINE S == {i \in DOMAIN q : q[i] = LeftMessage(o)}
  <2>1. Cardinality(S) = 0 /\ IsFiniteSet(S)
    BY <1>3, LeftInType DEF LeftIn, Count, LeftMessage
  <2>2. S = {}
    <3> HIDE DEF S
    <3>1. QED
      BY <2>1, FS_EmptySet
  <2>3. QED
    BY <2>2 DEF Later, Message, LeftMessage
<1>4. QED
  BY <1>2, <1>3, FlowTypes DEF ListsOK

\* Nothing that matters to a callback.
LEMMA StoryKept ==
  ASSUME FlowInv, MemInv, StoryInv, UNCHANGED <<devs, msgs, cbs, owed>>, Armed' \subseteq Armed,
         batch'.msgs = batch.msgs, batch'.rest = batch.rest,
         UNCHANGED job \/ (job.pc \notin {"arrived", "left"} /\ job'.pc \notin {"arrived", "left"}),
         UNCHANGED known \/ \E o \in Objects : /\ objs[o].refs = 0
                                               /\ known' = [c \in Callbacks |-> known[c] \ {o}],
         user'.cb = user.cb \/ (user.pc = "fire" /\ user.todo = {}),
         user'.pc = "fire" => \/ user.pc = "fire" /\ user'.todo = user.todo
                              \/ user'.todo = Range(devs),
         up' = "ready" => up = "ready",
         up = "stopping" => up' = "stopping" \/ job'.pc # "arrived"
  PROVE  StoryInv'
<1>1. \A event, o : event \in {"arrived", "left"} => Ahead(event, o)' = Ahead(event, o)
  BY DEF Ahead
<1>2. /\ Accounted' = Accounted /\ LeavesLater' = LeavesLater
      /\ \A c, event, o : event \in {"arrived", "left"} => Coming(c, event, o)' = Coming(c, event, o)
  BY <1>1 DEF Accounted, LeavesLater, Coming
<1>3. \A c \in Callbacks : known'[c] \subseteq known[c]
  BY DEF FlowInv, CbsOK
<1>4. ASSUME NEW c \in Callbacks, NEW o \in owed[c], o \in known[c]
      PROVE  o \in known'[c]
  <2>1. o \in Range(devs)
    BY <1>4 DEF StoryInv, OwedListed
  <2>2. objs[o].refs # 0
    BY <2>1, HeldInMemory
  <2>3. QED
    BY <1>4, <2>2
<1>5. BlankInv'
  BY <1>3 DEF StoryInv, BlankInv
<1>6. FollowInv'
  BY <1>2 DEF StoryInv, FollowInv
<1>7. ArrivedInv'
  BY DEF StoryInv, ArrivedInv
<1>8. OwedListed'
  BY DEF StoryInv, OwedListed
<1>9. Armed' \subseteq Armed /\ Armed \subseteq Callbacks
  BY DEF Armed, FlowInv, CbsOK
<1>10. OwedInv'
  <2>1. SUFFICES ASSUME up' = "ready", NEW c \in Armed, NEW o \in owed[c]
                 PROVE  o \in known'[c] \/ Coming(c, "arrived", o)' \/ Registering(c, o)'
    BY <1>9 DEF OwedInv
  <2>2. o \in known[c] \/ Coming(c, "arrived", o) \/ Registering(c, o)
    BY <2>1 DEF StoryInv, OwedInv
  <2>3. o \in Range(devs)
    BY <1>9 DEF StoryInv, OwedListed
  <2>4. Registering(c, o) => Registering(c, o)'
    BY <2>3 DEF Registering
  <2>5. QED
    BY <1>2, <1>4, <1>9, <2>2, <2>4
<1>11. KnownInv'
  <2>1. SUFFICES ASSUME up' = "ready", NEW c \in Armed \ Enumerating, NEW o \in known'[c]
                 PROVE  o \in Range(devs) \/ Coming(c, "left", o)'
    BY <1>9 DEF KnownInv
  <2>2. o \in known[c]
    BY <1>3, <1>9
  <2>3. QED
    BY <1>2, <2>1, <2>2 DEF StoryInv, KnownInv
<1>12. QED
  BY <1>5, <1>6, <1>7, <1>8, <1>10, <1>11 DEF StoryInv

\* While the context is being set up or torn down there is nothing to tell.
LEMMA StoryVoid ==
  ASSUME FlowInv', up' # "ready" \/ (cbs' = {} /\ msgs' = <<>> /\ batch'.msgs = <<>>),
         BlankInv', ArrivedInv', OwedListed'
  PROVE  StoryInv'
<1>1. FollowInv'
  BY FollowedEmpty DEF FollowInv
<1>2. OwedInv' /\ KnownInv'
  BY DEF OwedInv, KnownInv, Armed
<1>3. QED
  BY <1>1, <1>2 DEF StoryInv

LEMMA StoryKernel ==
  ASSUME FlowInv, MemInv, CtxInv, StoryInv, Kernel \/ Monitor \/ UNCHANGED vars
  PROVE  StoryInv'
<1>0. UNCHANGED cblist => UNCHANGED cbs /\ Armed' = Armed
  BY DEF cblist, Armed
<1>1. /\ UNCHANGED <<up, lists, batch, cblist, user, told>>
      /\ UNCHANGED job \/ (job.pc \notin {"arrived", "left"} /\ job'.pc \notin {"arrived", "left"})
  <2>1. CASE Kernel
    BY <2>1 DEF Kernel, Plug, Unplug, OtherUevent
  <2>2. CASE Monitor
    <3>1. NoJob.pc = "idle" /\ \A by, m : Work(by, m).pc \in {"enumerate", "disconnect"}
      BY DEF NoJob, Work
    <3>2. QED
      BY <2>2, <3>1 DEF Monitor, ReadMessage
  <2>3. CASE UNCHANGED vars
    BY <2>3 DEF vars
  <2>4. QED
    BY <2>1, <2>2, <2>3
<1>2. up = "stopping" => up' = "stopping" \/ job'.pc # "arrived"
  BY <1>1
<1>3. QED
  BY <1>0, <1>1, <1>2, StoryKept DEF lists, told

-----------------------------------------------------------------------------
(* What enumeration and disconnection do to the list.                      *)

LEMMA RangeIs ==
  ASSUME NEW q \in Seq(Objects), NEW o
  PROVE  o \in Range(q) <=> \E i \in 1..Len(q) : q[i] = o
  BY LenProperties DEF Range

LEMMA ConnectDoes ==
  ASSUME FlowInv, MemInv, ConnectDevice
  PROVE  /\ job.obj \in Objects /\ devs' \in Seq(Objects) /\ Len(devs') = Len(devs) + 1
         /\ devs'[1] = job.obj /\ \A i \in 1..Len(devs) : devs'[i + 1] = devs[i]
         /\ Range(devs') = Range(devs) \union {job.obj}
         /\ job'.pc = "arrived" /\ job'.obj = job.obj /\ job'.child = job.child
         /\ job'.addr = job.addr /\ job'.port = job.port /\ job'.by = job.by
<1>1. /\ job.pc \in {"parent", "retry"} /\ devs' = <<job.obj>> \o devs
      /\ job' = [job EXCEPT !.pc = "arrived"]
  BY DEF ConnectDevice, AttachDevice
<1>2. devs \in Seq(Objects) /\ Proper(job) /\ job \in Job
  BY FlowTypes DEF ListsOK
<1>3. job.obj \in Objects
  BY <1>1, <1>2 DEF Proper, Job, WorkPcs
<1>4. /\ devs' \in Seq(Objects) /\ Len(devs') = Len(devs) + 1
      /\ devs'[1] = job.obj /\ \A i \in 1..Len(devs) : devs'[i + 1] = devs[i]
  BY <1>1, <1>2, <1>3, PushType
<1>5. Range(devs') = Range(devs) \union {job.obj}
  <2>1. Len(devs) \in Nat
    BY <1>2, LenProperties
  <2>2. \A i \in 1..Len(devs) : i + 1 \in 1..Len(devs')
    BY <1>4, <2>1
  <2>3. \A i \in 1..Len(devs') : i = 1 \/ (i - 1 \in 1..Len(devs) /\ (i - 1) + 1 = i)
    BY <1>4, <2>1
  <2>4. 1 \in 1..Len(devs')
    BY <1>4, <2>1
  <2>5. \A o : o \in Range(devs') => o \in Range(devs) \union {job.obj}
    <3> SUFFICES ASSUME NEW o \in Range(devs') PROVE o \in Range(devs) \union {job.obj}
      OBVIOUS
    <3>1. PICK i \in 1..Len(devs') : devs'[i] = o
      BY <1>4, RangeIs
    <3>2. CASE i = 1
      BY <1>4, <3>1, <3>2
    <3>3. CASE i # 1
      <4>1. i - 1 \in 1..Len(devs) /\ devs[i - 1] = o
        BY <1>4, <2>3, <3>1, <3>3
      <4>2. QED
        BY <1>2, <4>1, RangeIs
    <3>4. QED
      BY <3>2, <3>3
  <2>6. \A o : o \in Range(devs) \union {job.obj} => o \in Range(devs')
    <3>1. job.obj \in Range(devs')
      BY <1>4, <2>4, RangeIs
    <3>2. ASSUME NEW o \in Range(devs) PROVE o \in Range(devs')
      <4>1. PICK i \in 1..Len(devs) : devs[i] = o
        BY <1>2, RangeIs
      <4>2. i + 1 \in 1..Len(devs') /\ devs'[i + 1] = o
        BY <1>4, <2>2, <4>1
      <4>3. QED
        BY <1>4, <4>2, RangeIs
    <3>3. QED
      BY <3>1, <3>2
  <2>7. QED
    BY <2>5, <2>6
<1>6. QED
  BY <1>1, <1>2, <1>3, <1>4, <1>5 DEF Job

\* The newest device with the address goes.
LEMMA DisconnectDoes ==
  ASSUME FlowInv, MemInv, DeviceDisconnected, WithSessionId(job.addr) # {}
  PROVE  \E k \in 1..Len(devs) :
           /\ objs[devs[k]].addr = job.addr /\ devs[k] \in Objects
           /\ \A j \in 1..Len(devs) : objs[devs[j]].addr = job.addr => k <= j
           /\ devs' \in Seq(Objects) /\ Len(devs') = Len(devs) - 1
           /\ \A i \in 1..Len(devs) - 1 : devs'[i] = IF i < k THEN devs[i] ELSE devs[i + 1]
           /\ Range(devs') = Range(devs) \ {devs[k]}
           /\ objs' = [RefDevices(objs, {devs[k]}) EXCEPT ![devs[k]].attached = FALSE]
           /\ owed' = [c \in Callbacks |-> owed[c] \ {devs[k]}]
           /\ job'.pc = "left" /\ job'.obj = devs[k] /\ job'.child = job.child
<1> DEFINE found == WithSessionId(job.addr)
           k == Min(found)
<1>1. /\ devs' = RemoveAt(devs, k)
      /\ objs' = [RefDevices(objs, {devs[k]}) EXCEPT ![devs[k]].attached = FALSE]
      /\ owed' = [c \in Callbacks |-> owed[c] \ {devs[k]}]
      /\ job' = [job EXCEPT !.pc = "left", !.obj = devs[k]]
  BY DEF DeviceDisconnected, DetachDevice, RefDevice
<1>2. devs \in Seq(Objects) /\ job \in Job /\ ListedOnce
  BY FlowTypes DEF ListsOK, MemInv
<1>3. DOMAIN devs = 1..Len(devs) /\ Len(devs) \in Nat /\ \A i \in 1..Len(devs) : devs[i] \in Objects
  BY <1>2, LenProperties, ElementOfSeq
<1>4. found # {} /\ found \in SUBSET Nat /\ found = {i \in 1..Len(devs) : objs[devs[i]].addr = job.addr}
  BY <1>3 DEF WithSessionId
<1>5. k \in found /\ \A j \in found : k <= j
  <2> HIDE DEF found
  <2>1. QED
    BY <1>4, MinIsLeast
<1>6. k \in 1..Len(devs) /\ objs[devs[k]].addr = job.addr /\ devs[k] \in Objects
  BY <1>3, <1>4, <1>5
<1>7. \A j \in 1..Len(devs) : objs[devs[j]].addr = job.addr => k <= j
  BY <1>4, <1>5
<1> HIDE DEF k, found
<1>8. /\ devs' \in Seq(Objects) /\ Len(devs') = Len(devs) - 1
      /\ \A i \in 1..Len(devs) - 1 : devs'[i] = IF i < k THEN devs[i] ELSE devs[i + 1]
  BY Zenon, <1>1, <1>2, <1>3, <1>6, RemoveAtDoes
<1>9. \A x \in Objects : ListRef(x)' = ListRef(x) - One(x = devs[k])
  BY <1>2, <1>3, <1>6, <1>8, RemovedFrom
<1>10. Range(devs') = Range(devs) \ {devs[k]}
  <2>1. ASSUME NEW x \in Objects
        PROVE  x \in Range(devs') <=> x \in Range(devs) \ {devs[k]}
    <3> DEFINE a == One(x \in Range(devs))
               b == One(x \in Range(devs'))
               e == One(x = devs[k])
    <3>1. b = a - e
      BY <1>9 DEF ListRef
    <3>2. /\ a \in {0, 1} /\ b \in {0, 1} /\ e \in {0, 1}
          /\ (x \in Range(devs) <=> a = 1) /\ (x \in Range(devs') <=> b = 1) /\ (x = devs[k] <=> e = 1)
      BY DEF One
    <3> HIDE DEF a, b, e
    <3>3. QED
      BY <3>1, <3>2
  <2>2. \A x : x \in Range(devs) \/ x \in Range(devs') => x \in Objects
    <3>1. \A i \in 1..Len(devs') : devs'[i] \in Objects
      BY <1>8, ElementOfSeq, LenProperties
    <3>2. QED
      BY <1>2, <1>3, <1>8, <3>1, RangeIs
  <2>3. QED
    BY <2>1, <2>2
<1>11. job'.pc = "left" /\ job'.obj = devs[k] /\ job'.child = job.child
  BY <1>1, <1>2 DEF Job
<1>12. QED
  BY <1>1, <1>6, <1>7, <1>8, <1>10, <1>11

LEMMA ResumePc ==
  ASSUME FlowInv
  PROVE  Resume.pc \notin {"arrived", "left"}
  BY ResumeProper, FlowTypes

LEMMA StoryEnumeration ==
  ASSUME FlowInv, MemInv, CtxInv, StoryInv, EnumerateDevice \/ EnumerateParent \/ DropFound
  PROVE  StoryInv'
<1>1. /\ UNCHANGED <<up, devs, msgs, batch, cblist, user, owed>>
      /\ job.pc \notin {"arrived", "left"} /\ job'.pc \notin {"arrived", "left"}
      /\ UNCHANGED known \/ \E o \in Objects : /\ objs[o].refs = 0
                                               /\ known' = [c \in Callbacks |-> known[c] \ {o}]
  <2>0. job \in Job /\ Resume.pc \notin {"arrived", "left"}
    BY FlowTypes, ResumePc
  <2>1. CASE EnumerateDevice
    <3>1. job.pc = "enumerate" /\ UNCHANGED <<up, devs, msgs, batch, cblist, user, owed>>
      BY <2>1 DEF EnumerateDevice
    <3>2. CASE job' = Resume /\ UNCHANGED known
      BY <2>0, <3>1, <3>2
    <3>3. CASE ~ (job' = Resume /\ UNCHANGED known)
      <4> DEFINE o == CHOOSE x \in Objects \ InUse : TRUE
      <4>1. /\ InUse # Objects /\ known' = [c \in Callbacks |-> known[c] \ {o}]
            /\ job' = [job EXCEPT !.pc = "parent", !.obj = o]
        BY <2>1, <3>3 DEF EnumerateDevice
      <4>2. o \in Objects \ InUse
        BY <4>1 DEF InUse
      <4>3. o \in Objects /\ objs[o].refs = 0
        BY <4>2 DEF InUse, MemInv, Sound, Device
      <4>4. job'.pc = "parent"
        BY <2>0, <4>1 DEF Job
      <4> HIDE DEF o
      <4>5. QED
        BY <3>1, <4>1, <4>3, <4>4
    <3>4. QED
      BY <3>2, <3>3
  <2>2. CASE EnumerateParent
    <3>1. job.pc = "parent" /\ UNCHANGED <<up, devs, msgs, batch, cblist, user, told>>
      BY <2>2 DEF EnumerateParent, ParentFirst, lists
    <3>2. job'.pc = "enumerate"
      BY <2>0, <2>2 DEF EnumerateParent, Job
    <3>3. QED
      BY <3>1, <3>2 DEF told
  <2>3. CASE DropFound
    BY <2>0, <2>3 DEF DropFound, told
  <2>4. QED
    BY <2>1, <2>2, <2>3
<1>2. user'.cb = user.cb /\ (user'.pc = "fire" => user.pc = "fire" /\ user'.todo = user.todo)
      /\ batch'.msgs = batch.msgs /\ batch'.rest = batch.rest /\ UNCHANGED cbs /\ Armed' = Armed
  BY <1>1 DEF cblist, Armed
<1>3. QED
  BY <1>1, <1>2, StoryKept

LEMMA StoryConnect ==
  ASSUME FlowInv, MemInv, CtxInv, StoryInv, ConnectDevice
  PROVE  StoryInv'
<1>1. /\ UNCHANGED <<up, msgs, batch, cblist, user, known>> /\ job.pc \in {"parent", "retry"}
      /\ owed' = [c \in Callbacks |-> IF c \in Armed THEN owed[c] \union {job.obj} ELSE owed[c]]
  BY DEF ConnectDevice
<1>2. /\ Range(devs') = Range(devs) \union {job.obj} /\ job'.pc = "arrived" /\ job'.obj = job.obj
      /\ job.obj \in Objects
  BY ConnectDoes
<1>3. /\ \A event, o : event \in {"arrived", "left"} => ~ Ahead(event, o)
      /\ \A o : ~ Ahead("left", o)'
      /\ \A o : o = job.obj => Ahead("arrived", o)'
  BY <1>1, <1>2 DEF Ahead
<1>4. Armed' = Armed /\ Armed \subseteq Callbacks /\ Armed \subseteq cbs
  BY <1>1 DEF Armed, cblist, FlowInv, CbsOK
<1>5. \A c, event, o : event \in {"arrived", "left"} /\ Coming(c, event, o) => Coming(c, event, o)'
  BY <1>1, <1>3 DEF Coming
<1>6. BlankInv'
  BY <1>1, <1>4 DEF StoryInv, BlankInv, cblist
<1>7. FollowInv'
  <2>1. Accounted \subseteq Accounted' /\ LeavesLater' = LeavesLater
    BY <1>1, <1>2, <1>3 DEF Accounted, LeavesLater
  <2>2. Accounted \union LeavesLater \subseteq Accounted' \union LeavesLater'
    BY <2>1
  <2>3. QED
    BY <1>1, <2>1, <2>2, FollowedMore DEF StoryInv, FollowInv
<1>8. ArrivedInv'
  BY <1>2 DEF ArrivedInv
<1>9. OwedListed'
  BY <1>1, <1>2 DEF StoryInv, OwedListed
<1>10. OwedInv'
  <2>1. SUFFICES ASSUME up' = "ready", NEW c \in Armed, NEW o \in owed'[c]
                 PROVE  o \in known'[c] \/ Coming(c, "arrived", o)' \/ Registering(c, o)'
    BY <1>4 DEF OwedInv
  <2>2. CASE o = job.obj
    BY <1>3, <2>2 DEF Coming
  <2>3. CASE o \in owed[c]
    <3>1. o \in known[c] \/ Coming(c, "arrived", o) \/ Registering(c, o)
      BY <1>1, <2>1, <2>3 DEF StoryInv, OwedInv
    <3>2. Registering(c, o)' <=> Registering(c, o)
      BY <1>1 DEF Registering
    <3>3. QED
      BY <1>1, <1>5, <3>1, <3>2
  <2>4. QED
    BY <1>1, <1>4, <2>1, <2>2, <2>3
<1>11. KnownInv'
  BY <1>1, <1>2, <1>4, <1>5 DEF StoryInv, KnownInv
<1>12. QED
  BY <1>6, <1>7, <1>8, <1>9, <1>10, <1>11 DEF StoryInv

LEMMA StoryDisconnected ==
  ASSUME FlowInv, MemInv, CtxInv, StoryInv, DeviceDisconnected
  PROVE  StoryInv'
<1>1. /\ UNCHANGED <<up, msgs, batch, cblist, user, known>> /\ job.pc = "disconnect"
  BY DEF DeviceDisconnected
<1>2. CASE WithSessionId(job.addr) = {}
  <2>1. job' = Resume /\ UNCHANGED <<devs, owed>>
    BY <1>2 DEF DeviceDisconnected
  <2>2. UNCHANGED cbs /\ Armed' = Armed
    BY <1>1 DEF cblist, Armed
  <2>3. QED
    BY <1>1, <2>1, <2>2, ResumePc, StoryKept
<1>3. CASE WithSessionId(job.addr) # {}
  <2>1. PICK d \in Objects : /\ Range(devs') = Range(devs) \ {d} /\ job'.pc = "left" /\ job'.obj = d
                             /\ owed' = [c \in Callbacks |-> owed[c] \ {d}]
    BY <1>3, DisconnectDoes
  <2>2. /\ \A event, o : event \in {"arrived", "left"} => ~ Ahead(event, o)
        /\ \A o : Ahead("left", o)' <=> o = d
        /\ \A o : ~ Ahead("arrived", o)'
    BY <1>1, <2>1 DEF Ahead
  <2>3. Armed' = Armed /\ Armed \subseteq Callbacks
    BY <1>1 DEF Armed, cblist, FlowInv, CbsOK
  <2>4. /\ \A c, o : Coming(c, "arrived", o) => Coming(c, "arrived", o)'
        /\ \A c, o : Coming(c, "left", o) \/ o = d => Coming(c, "left", o)'
    BY <1>1, <2>2 DEF Coming
  <2>5. BlankInv'
    BY <1>1, <2>1 DEF StoryInv, BlankInv, cblist
  <2>6. FollowInv'
    <3>1. Accounted \subseteq Accounted' /\ LeavesLater' = LeavesLater
      BY <1>1, <2>1, <2>2 DEF Accounted, LeavesLater
    <3>2. Accounted \union LeavesLater \subseteq Accounted' \union LeavesLater'
      BY <3>1
    <3>3. QED
      BY <1>1, <3>1, <3>2, FollowedMore DEF StoryInv, FollowInv
  <2>7. ArrivedInv'
    BY <2>1 DEF ArrivedInv
  <2>8. OwedListed'
    BY <2>1 DEF StoryInv, OwedListed
  <2>9. OwedInv'
    <3>1. SUFFICES ASSUME up' = "ready", NEW c \in Armed, NEW o \in owed'[c]
                   PROVE  o \in known'[c] \/ Coming(c, "arrived", o)' \/ Registering(c, o)'
      BY <2>3 DEF OwedInv
    <3>2. o \in owed[c]
      BY <2>1, <2>3, <3>1
    <3>3. o \in known[c] \/ Coming(c, "arrived", o) \/ Registering(c, o)
      BY <1>1, <3>1, <3>2 DEF StoryInv, OwedInv
    <3>4. Registering(c, o)' <=> Registering(c, o)
      BY <1>1 DEF Registering
    <3>5. QED
      BY <1>1, <2>4, <3>3, <3>4
  <2>10. KnownInv'
    BY <1>1, <2>1, <2>3, <2>4 DEF StoryInv, KnownInv
  <2>11. QED
    BY <2>5, <2>6, <2>7, <2>8, <2>9, <2>10 DEF StoryInv
<1>4. QED
  BY <1>2, <1>3

LEMMA StoryArrived ==
  ASSUME FlowInv, FlowInv', MemInv, CtxInv, StoryInv, NotifyArrived
  PROVE  StoryInv'
<1>1. /\ UNCHANGED <<up, devs, batch, cblist, user, told>> /\ job.pc = "arrived" /\ job' = Resume
      /\ Notification("arrived", job.obj)
  BY DEF NotifyArrived
<1>2. /\ msgs \in Seq(Messages) /\ Resume.pc \notin {"arrived", "left"} /\ job.obj \in Objects
  BY <1>1, FlowTypes, ResumePc DEF ListsOK, Proper, Job, WorkPcs
<1>3. BlankInv' /\ OwedListed'
  BY <1>1 DEF StoryInv, BlankInv, OwedListed, cblist, told
<1>4. ArrivedInv'
  BY <1>1, <1>2 DEF ArrivedInv
<1>5. CASE up # "ready"
  BY <1>1, <1>3, <1>4, <1>5, StoryVoid
<1>6. CASE up = "ready"
  <2> DEFINE m == Message("arrived", job.obj)
  <2>1. msgs' = Append(msgs, m) /\ m \in Messages
    BY <1>1, <1>2, <1>6 DEF Notification, Message, Messages
  <2>2. job.obj \in Range(devs)
    BY <1>1, <1>6 DEF StoryInv, ArrivedInv
  <2>3. /\ \A o : ~ Ahead("left", o) /\ ~ Ahead("left", o)'
        /\ \A o : Ahead("arrived", o) => o = job.obj
    BY <1>1, <1>2 DEF Ahead
  <2>4. \A event, o : Later(msgs, 0, event, o) \/ m = Message(event, o) => Later(msgs', 0, event, o)
    <3>1. 0 <= Len(msgs)
      BY <1>2, LenProperties
    <3> HIDE DEF m
    <3>2. QED
      BY <1>2, <2>1, <3>1, LaterAppend
  <2>5. Followed(msgs, Accounted) /\ Followed(batch.msgs, Accounted \union LeavesLater)
    BY <1>6 DEF StoryInv, FollowInv
  <2>6. Accounted' = Accounted /\ Accounted = Range(devs)
    BY <1>1, <2>3 DEF Accounted
  <2>7. LeavesLater \subseteq LeavesLater'
    BY <2>4 DEF LeavesLater
  <2>8. FollowInv'
    <3>1. m.event = "arrived" => m.obj \in Range(devs)
      BY <2>2 DEF Message
    <3> HIDE DEF m
    <3>2. Followed(Append(msgs, m), Range(devs))
      BY <1>2, <2>1, <2>5, <2>6, <3>1, FollowedAppend
    <3>3. Followed(batch.msgs, Accounted' \union LeavesLater')
      <4>1. Accounted \union LeavesLater \subseteq Accounted' \union LeavesLater'
        BY <2>6, <2>7
      <4>2. QED
        BY <2>5, <4>1, FollowedMore
    <3>4. QED
      BY <1>1, <2>1, <2>6, <3>2, <3>3 DEF FollowInv
  <2>9. \A c, o : Coming(c, "arrived", o) => Coming(c, "arrived", o)'
    <3>1. \A o : Ahead("arrived", o) => Later(msgs', 0, "arrived", o)
      BY <2>3, <2>4
    <3>2. \A o : Later(msgs, 0, "arrived", o) => Later(msgs', 0, "arrived", o)
      BY <2>4
    <3>3. QED
      BY <1>1, <3>1, <3>2 DEF Coming
  <2>10. \A c, o : Coming(c, "left", o) => Coming(c, "left", o)'
    <3>1. \A o : Later(msgs, 0, "left", o) => Later(msgs', 0, "left", o)
      BY <2>4
    <3>2. QED
      BY <1>1, <2>3, <3>1 DEF Coming
  <2>11. Armed' = Armed
    BY <1>1 DEF Armed, cblist
  <2>12. OwedInv'
    <3>1. \A c, o : Registering(c, o)' <=> Registering(c, o)
      BY <1>1 DEF Registering
    <3>2. QED
      BY <1>1, <2>9, <2>11, <3>1 DEF StoryInv, OwedInv, told
  <2>13. KnownInv'
    BY <1>1, <2>10, <2>11 DEF StoryInv, KnownInv, told
  <2>14. QED
    BY <1>3, <1>4, <2>8, <2>12, <2>13 DEF StoryInv
<1>7. QED
  BY <1>5, <1>6

LEMMA StoryLeft ==
  ASSUME FlowInv, FlowInv', MemInv, CtxInv, StoryInv, NotifyLeft
  PROVE  StoryInv'
<1>1. /\ UNCHANGED <<up, devs, batch, cblist, user, told>> /\ job.pc = "left"
      /\ job' = [job EXCEPT !.pc = "drop"] /\ Notification("left", job.obj)
  BY DEF NotifyLeft
<1>2. /\ msgs \in Seq(Messages) /\ job'.pc = "drop" /\ job.obj \in Objects
  BY <1>1, FlowTypes DEF ListsOK, Proper, Job, WorkPcs
<1>3. BlankInv' /\ OwedListed'
  BY <1>1 DEF StoryInv, BlankInv, OwedListed, cblist, told
<1>4. ArrivedInv'
  BY <1>2 DEF ArrivedInv
<1>5. CASE up # "ready"
  BY <1>1, <1>3, <1>4, <1>5, StoryVoid
<1>6. CASE up = "ready"
  <2> DEFINE m == Message("left", job.obj)
  <2>1. msgs' = Append(msgs, m) /\ m \in Messages
    BY <1>1, <1>2, <1>6 DEF Notification, Message, Messages
  <2>3. /\ \A o : ~ Ahead("arrived", o) /\ ~ Ahead("left", o)'
        /\ \A o : Ahead("left", o) <=> o = job.obj
    BY <1>1, <1>2 DEF Ahead
  <2>4. \A event, o : Later(msgs, 0, event, o) \/ m = Message(event, o) => Later(msgs', 0, event, o)
    <3>1. 0 <= Len(msgs)
      BY <1>2, LenProperties
    <3> HIDE DEF m
    <3>2. QED
      BY <1>2, <2>1, <3>1, LaterAppend
  <2>5. Followed(msgs, Accounted) /\ Followed(batch.msgs, Accounted \union LeavesLater)
    BY <1>6 DEF StoryInv, FollowInv
  <2>6. Accounted' = Range(devs) /\ Accounted = Range(devs) \union {job.obj}
    BY <1>1, <1>2, <2>3 DEF Accounted
  <2>7. LeavesLater \union {job.obj} \subseteq LeavesLater'
    BY <1>2, <2>4 DEF LeavesLater
  <2>8. FollowInv'
    <3>1. m.event # "arrived" /\ \A o : o = job.obj => m = Message("left", o)
      BY DEF Message
    <3> HIDE DEF m
    <3>2. Followed(Append(msgs, m), Range(devs))
      <4>1. \A o \in Accounted : o \in Range(devs) \/ m = Message("left", o)
        BY <2>6, <3>1
      <4>2. QED
        BY <1>2, <2>1, <2>5, <3>1, <4>1, FollowedAppend
    <3>3. Followed(batch.msgs, Accounted' \union LeavesLater')
      <4>1. Accounted \union LeavesLater \subseteq Accounted' \union LeavesLater'
        BY <2>6, <2>7
      <4>2. QED
        BY <2>5, <4>1, FollowedMore
    <3>4. QED
      BY <1>1, <2>1, <2>6, <3>2, <3>3 DEF FollowInv
  <2>9. \A c, o : Coming(c, "left", o) => Coming(c, "left", o)'
    <3>1. \A o : Ahead("left", o) => Later(msgs', 0, "left", o)
      BY <2>3, <2>4
    <3>2. \A o : Later(msgs, 0, "left", o) => Later(msgs', 0, "left", o)
      BY <2>4
    <3>3. QED
      BY <1>1, <3>1, <3>2 DEF Coming
  <2>10. \A c, o : Coming(c, "arrived", o) => Coming(c, "arrived", o)'
    <3>1. \A o : Later(msgs, 0, "arrived", o) => Later(msgs', 0, "arrived", o)
      BY <2>4
    <3>2. QED
      BY <1>1, <2>3, <3>1 DEF Coming
  <2>11. Armed' = Armed
    BY <1>1 DEF Armed, cblist
  <2>12. OwedInv'
    <3>1. \A c, o : Registering(c, o)' <=> Registering(c, o)
      BY <1>1 DEF Registering
    <3>2. QED
      BY <1>1, <2>10, <2>11, <3>1 DEF StoryInv, OwedInv, told
  <2>13. KnownInv'
    BY <1>1, <2>9, <2>11 DEF StoryInv, KnownInv, told
  <2>14. QED
    BY <1>3, <1>4, <2>8, <2>12, <2>13 DEF StoryInv
<1>7. QED
  BY <1>5, <1>6

\* A message is only on its way to callbacks that are registered.
RestInv == batch.rest \subseteq cbs /\ (~ batch.on => batch.rest = {})

LEMMA RestNext ==
  ASSUME FlowInv, CtxInv, RegInv, RestInv, [Next]_vars
  PROVE  RestInv'
<1>0. batch \in Batch /\ needsFree \subseteq cbs
  BY DEF FlowInv, CbsOK, RegInv
<1>1. CASE UNCHANGED <<batch, cbs>>
  BY <1>1 DEF RestInv
<1>2. CASE HotplugProcess
  <2>1. CASE TakeMessages
    <3>1. batch'.rest = cbs /\ cbs' = cbs /\ batch'.on
      BY <2>1 DEF TakeMessages, cblist
    <3>2. QED
      BY <3>1 DEF RestInv
  <2>2. CASE CallBack
    <3>1. PICK d \in batch.rest : /\ batch' = [batch EXCEPT !.rest = batch.rest \ {d}]
                                  /\ cbs' \in {cbs, cbs \ {d}}
      BY <2>2 DEF CallBack, cblist
    <3>2. batch'.rest = batch.rest \ {d} /\ batch'.on = batch.on
      BY <1>0, <3>1 DEF Batch
    <3>3. QED
      BY <3>1, <3>2 DEF RestInv
  <2>3. CASE MessageDone
    <3>1. batch'.rest = cbs /\ cbs' = cbs /\ batch'.on
      BY <1>0, <2>3 DEF MessageDone, cblist, Batch
    <3>2. QED
      BY <3>1 DEF RestInv
  <2>4. CASE FreeUnregistered
    <3>1. batch'.rest = {}
      BY <1>0, <2>4 DEF FreeUnregistered, Batch
    <3>2. QED
      BY <3>1 DEF RestInv
  <2>5. QED
    BY <1>2, <2>1, <2>2, <2>3, <2>4 DEF HotplugProcess
<1>3. CASE HotplugExit
  <2>1. batch'.rest = batch.rest /\ batch'.on = batch.on /\ up # "ready"
    BY <1>0, <1>3 DEF HotplugExit, Batch, CtxInv, ExitPcs
  <2>2. ~ batch.on
    BY <2>1 DEF CtxInv
  <2>3. QED
    BY <2>1, <2>2 DEF RestInv
<1>4. ASSUME NEW c \in Callbacks, RegisterCallback(c)
      PROVE  RestInv'
  BY <1>4 DEF RegisterCallback, RestInv
<1>5. ASSUME NEW c \in Callbacks, DeregisterCallback(c)
      PROVE  RestInv'
  <2>1. batch'.rest = batch.rest /\ batch'.on = batch.on /\ cbs' = cbs
    BY <1>0, <1>5 DEF DeregisterCallback, Batch
  <2>2. QED
    BY <2>1 DEF RestInv
<1>6. CASE Kernel \/ Enumeration \/ Monitor \/ UNCHANGED vars
  <2>1. UNCHANGED <<batch, cbs>>
    BY <1>6 DEF Kernel, Plug, Unplug, OtherUevent, Monitor, Enumeration, EnumerateDevice,
                EnumerateParent, ConnectDevice, NotifyArrived, DeviceDisconnected, NotifyLeft,
                DropFound, vars, cblist
  <2>2. QED
    BY <1>1, <2>1
<1>7. CASE SetUpTearDown /\ ~ HotplugExit
  <2>1. UNCHANGED <<batch, cbs>>
    BY <1>7 DEF SetUpTearDown, InitContext, StartMonitor, ScanDevices, ScanDevice, ScanDone,
                HotplugInit, Exit, FreeMessage, FreeDevice, StopMonitor, cblist
  <2>2. QED
    BY <1>1, <2>1
<1>8. CASE DeviceLists \/ OpenAndClose
  <2>1. UNCHANGED <<batch, cbs>>
    BY Zenon, <1>8 DEF DeviceLists, GetDeviceList, HotplugPoll, CopyList, FreeDeviceList, OpenAndClose,
                Open, OpenBackend, DisconnectGone, OpenFails, WrapSysDevice, Close, cblist
  <2>2. QED
    BY <1>1, <2>1
<1>9. CASE CallbackCalls
  <2>1. CASE Registered \/ \E o \in Objects : FireForListed(o) \/ FreeSnapshot(o)
    <3>1. UNCHANGED <<batch, cbs>>
      BY <2>1 DEF Registered, FireForListed, FreeSnapshot, cblist
    <3>2. QED
      BY <1>1, <3>1
  <2>2. QED
    BY <1>4, <1>5, <1>9, <2>1 DEF CallbackCalls
<1>10. QED
  BY <1>2, <1>3, <1>6, <1>7, <1>8, <1>9 DEF Next

LEMMA StoryTake ==
  ASSUME FlowInv, MemInv, CtxInv, StoryInv, TakeMessages
  PROVE  StoryInv'
<1>1. /\ UNCHANGED <<up, devs, cblist, job, user, told>> /\ ~ batch.on /\ msgs' = <<>>
      /\ batch'.msgs = msgs /\ batch'.rest = cbs /\ up = "ready"
  BY DEF TakeMessages
<1>2. batch.msgs = <<>>
  BY <1>1 DEF FlowInv, UserInv
<1>3. BlankInv' /\ OwedListed' /\ ArrivedInv'
  BY <1>1 DEF StoryInv, BlankInv, OwedListed, ArrivedInv, cblist, told
<1>4. Armed' = Armed /\ Armed \subseteq cbs
  BY <1>1 DEF Armed, cblist
<1>5. \A event, o : Ahead(event, o)' = Ahead(event, o)
  BY <1>1 DEF Ahead
<1>6. \A c \in Armed : \A event, o : Coming(c, event, o) => Coming(c, event, o)'
  <2> SUFFICES ASSUME NEW c \in Armed, NEW event, NEW o, Coming(c, event, o)
               PROVE  Coming(c, event, o)'
    OBVIOUS
  <2>1. ~ Later(batch.msgs, IF c \in batch.rest THEN 0 ELSE 1, event, o)
    BY <1>2, LaterEmpty
  <2>2. Later(msgs, 0, event, o) \/ Ahead(event, o)
    BY <2>1 DEF Coming
  <2>3. c \in batch'.rest
    BY <1>1, <1>4
  <2>4. QED
    BY <1>1, <1>5, <2>2, <2>3 DEF Coming
<1>7. FollowInv'
  <2>1. Followed(msgs, Accounted)
    BY <1>1 DEF StoryInv, FollowInv
  <2>2. Accounted' = Accounted
    BY <1>1, <1>5 DEF Accounted
  <2>3. Followed(msgs, Accounted' \union LeavesLater')
    BY <2>1, <2>2, FollowedMore
  <2>4. QED
    BY <1>1, <2>2, <2>3, FollowedEmpty DEF FollowInv
<1>8. OwedInv'
  <2>1. \A c, o : Registering(c, o)' <=> Registering(c, o)
    BY <1>1 DEF Registering
  <2>2. QED
    BY <1>1, <1>4, <1>6, <2>1 DEF StoryInv, OwedInv, told
<1>9. KnownInv'
  BY <1>1, <1>4, <1>6 DEF StoryInv, KnownInv, told
<1>10. QED
  BY <1>3, <1>7, <1>8, <1>9 DEF StoryInv

LEMMA StoryDone ==
  ASSUME FlowInv, MemInv, CtxInv, StoryInv, MessageDone
  PROVE  StoryInv'
<1>1. /\ UNCHANGED <<up, devs, msgs, cblist, job, user, told>> /\ batch.on
      /\ batch.msgs # <<>> /\ batch.rest = {}
      /\ batch' = [batch EXCEPT !.msgs = Tail(batch.msgs), !.rest = cbs]
  BY DEF MessageDone
<1>2. /\ batch'.msgs = Tail(batch.msgs) /\ batch'.rest = cbs /\ batch.msgs \in Seq(Messages)
      /\ up = "ready"
  BY <1>1 DEF FlowInv, CbsOK, Batch, CtxInv
<1>3. BlankInv' /\ OwedListed' /\ ArrivedInv'
  BY <1>1 DEF StoryInv, BlankInv, OwedListed, ArrivedInv, cblist, told
<1>4. Armed' = Armed /\ Armed \subseteq cbs
  BY <1>1 DEF Armed, cblist
<1>5. \A event, o : Ahead(event, o)' = Ahead(event, o)
  BY <1>1 DEF Ahead
<1>6. \A c \in Armed : \A event, o : Coming(c, event, o) => Coming(c, event, o)'
  <2> SUFFICES ASSUME NEW c \in Armed, NEW event, NEW o, Coming(c, event, o)
               PROVE  Coming(c, event, o)'
    OBVIOUS
  <2>1. Later(batch.msgs, 1, event, o) => Later(batch'.msgs, 0, event, o)
    BY <1>1, <1>2, LaterTail
  <2>2. Later(batch.msgs, 1, event, o) \/ Later(msgs, 0, event, o) \/ Ahead(event, o)
    BY <1>1 DEF Coming
  <2>3. c \in batch'.rest
    BY <1>2, <1>4
  <2>4. QED
    BY <1>1, <1>5, <2>1, <2>2, <2>3 DEF Coming
<1>7. FollowInv'
  <2>1. Followed(msgs, Accounted) /\ Followed(batch.msgs, Accounted \union LeavesLater)
    BY <1>2 DEF StoryInv, FollowInv
  <2>2. Accounted' = Accounted /\ LeavesLater' = LeavesLater
    BY <1>1, <1>5 DEF Accounted, LeavesLater
  <2>3. Followed(Tail(batch.msgs), Accounted \union LeavesLater)
    BY <1>1, <1>2, <2>1, FollowedTail
  <2>4. QED
    BY <1>1, <1>2, <2>1, <2>2, <2>3 DEF FollowInv
<1>8. OwedInv'
  <2>1. \A c, o : Registering(c, o)' <=> Registering(c, o)
    BY <1>1 DEF Registering
  <2>2. QED
    BY <1>1, <1>4, <1>6, <2>1 DEF StoryInv, OwedInv, told
<1>9. KnownInv'
  BY <1>1, <1>4, <1>6 DEF StoryInv, KnownInv, told
<1>10. QED
  BY <1>3, <1>7, <1>8, <1>9 DEF StoryInv

LEMMA StoryFree ==
  ASSUME FlowInv, MemInv, CtxInv, StoryInv, FreeUnregistered
  PROVE  StoryInv'
<1>1. /\ UNCHANGED <<up, lists, job, user>> /\ batch.on /\ batch.msgs = <<>>
      /\ cbs' = Armed /\ needsFree' = {} /\ batch' = [batch EXCEPT !.on = FALSE, !.rest = {}]
      /\ known' = [c \in Callbacks |-> IF c \in needsFree THEN {} ELSE known[c]]
      /\ owed' = [c \in Callbacks |-> IF c \in needsFree THEN {} ELSE owed[c]]
  BY DEF FreeUnregistered
<1>2. batch'.msgs = <<>> /\ up = "ready" /\ devs' = devs /\ msgs' = msgs
  BY <1>1 DEF FlowInv, CbsOK, Batch, CtxInv, lists
<1>3. Armed' = Armed /\ Armed \subseteq Callbacks \ needsFree
  BY <1>1 DEF Armed, FlowInv, CbsOK
<1>4. \A event, o : Ahead(event, o)' = Ahead(event, o)
  BY <1>1 DEF Ahead
<1>5. \A c, event, o : Coming(c, event, o) => Coming(c, event, o)'
  <2>1. \A n, event, o : ~ Later(batch.msgs, n, event, o)
    BY <1>1, LaterEmpty
  <2>2. QED
    BY <1>2, <1>4, <2>1 DEF Coming
<1>6. BlankInv'
  BY <1>1 DEF StoryInv, BlankInv, Armed
<1>7. OwedListed' /\ ArrivedInv'
  BY <1>1, <1>2 DEF StoryInv, OwedListed, ArrivedInv
<1>8. FollowInv'
  <2>1. Followed(msgs, Accounted)
    BY <1>2 DEF StoryInv, FollowInv
  <2>2. Accounted' = Accounted
    BY <1>1, <1>2, <1>4 DEF Accounted
  <2>3. QED
    BY <1>2, <2>1, <2>2, FollowedEmpty DEF FollowInv
<1>9. OwedInv'
  <2>1. \A c, o : Registering(c, o)' <=> Registering(c, o)
    BY <1>1 DEF Registering
  <2>2. \A c \in Armed : owed'[c] = owed[c] /\ known'[c] = known[c]
    BY <1>1, <1>3
  <2>3. QED
    BY <1>2, <1>3, <1>5, <2>1, <2>2 DEF StoryInv, OwedInv
<1>10. KnownInv'
  <2>1. \A c \in Armed : known'[c] = known[c]
    BY <1>1, <1>3
  <2>2. QED
    BY <1>2, <1>3, <1>5, <2>1 DEF StoryInv, KnownInv
<1>11. QED
  BY <1>6, <1>7, <1>8, <1>9, <1>10 DEF StoryInv

LEMMA StoryCallBack ==
  ASSUME FlowInv, MemInv, CtxInv, RestInv, StoryInv, CallBack
  PROVE  StoryInv'
<1> DEFINE q == batch.msgs
           m == Head(q)
<1>1. PICK d \in batch.rest :
        /\ batch' = [batch EXCEPT !.rest = batch.rest \ {d}]
        /\ IF d \in needsFree THEN UNCHANGED <<cblist, told>>
           ELSE \E finished \in IF user.cb = d THEN {FALSE} ELSE BOOLEAN :
                 /\ known' = [known EXCEPT ![d] = IF finished THEN {} ELSE Learn(d, m)]
                 /\ owed' = IF finished THEN [owed EXCEPT ![d] = {}] ELSE owed
                 /\ cbs' = IF finished THEN cbs \ {d} ELSE cbs
                 /\ UNCHANGED needsFree
  BY DEF CallBack
<1>2. UNCHANGED <<up, lists, job, user>> /\ batch.on /\ q # <<>>
  BY DEF CallBack
<1>3. /\ batch'.msgs = q /\ batch'.rest = batch.rest \ {d} /\ q \in Seq(Messages) /\ d \in Callbacks
      /\ up = "ready" /\ devs' = devs /\ msgs' = msgs
      /\ known \in [Callbacks -> SUBSET Objects] /\ owed \in [Callbacks -> SUBSET Objects]
      /\ cbs \in SUBSET Callbacks
  BY <1>1, <1>2 DEF FlowInv, CbsOK, Batch, CtxInv, lists
<1>4. m \in Messages /\ m.obj \in Objects /\ m = Message(m.event, m.obj)
  <2>1. m \in Messages
    BY <1>2, <1>3, HeadTailProperties
  <2>2. QED
    BY <2>1 DEF Messages, Message
<1>5. \A event, o : Ahead(event, o)' = Ahead(event, o)
  BY <1>2 DEF Ahead
<1>6. \A event, o : Later(q, 0, event, o) <=> (m = Message(event, o) \/ Later(q, 1, event, o))
  BY <1>2, <1>3, LaterTail
<1>7. \A c, event, o : c # d /\ Coming(c, event, o) => Coming(c, event, o)'
  BY <1>3, <1>5 DEF Coming
<1>8. \A event, o : Coming(d, event, o) => m = Message(event, o) \/ Coming(d, event, o)'
  BY <1>1, <1>3, <1>5, <1>6 DEF Coming
<1>9. \A c, o : Registering(c, o)' <=> Registering(c, o)
  BY <1>2 DEF Registering
<1>10. FollowInv'
  <2>1. Accounted' = Accounted /\ LeavesLater' = LeavesLater
    BY <1>3, <1>5 DEF Accounted, LeavesLater
  <2>2. QED
    BY <1>2, <1>3, <2>1 DEF StoryInv, FollowInv
<1>11. ArrivedInv'
  BY <1>2, <1>3 DEF StoryInv, ArrivedInv
<1> HIDE DEF m
<1> DEFINE Others == /\ \A c \in Callbacks : c # d => known'[c] = known[c] /\ owed'[c] = owed[c]
                     /\ \A c \in Callbacks : c # d /\ c \in Armed' => c \in Armed
<1>12. ASSUME BlankInv', OwedListed', Others,
              d \in Armed' => \A o \in owed'[d] :
                 o \in known'[d] \/ Coming(d, "arrived", o)' \/ Registering(d, o)',
              d \in Armed' \ Enumerating => \A o \in known'[d] :
                 o \in Range(devs) \/ Coming(d, "left", o)'
       PROVE  StoryInv'
  <2>1. Armed' \subseteq Callbacks
    BY <1>1, <1>3 DEF Armed, cblist
  <2>2. OwedInv'
    BY <1>3, <1>7, <1>9, <1>12, <2>1 DEF StoryInv, OwedInv
  <2>3. KnownInv'
    BY <1>3, <1>7, <1>12, <2>1 DEF StoryInv, KnownInv
  <2>4. QED
    BY <1>10, <1>11, <1>12, <2>2, <2>3 DEF StoryInv
<1> HIDE DEF q
<1>13. CASE d \in needsFree
  <2>1. UNCHANGED <<cbs, needsFree, known, owed>>
    BY <1>1, <1>13 DEF cblist, told
  <2>2. BlankInv' /\ OwedListed' /\ Others /\ d \notin Armed'
    BY <1>3, <1>13, <2>1 DEF StoryInv, BlankInv, OwedListed, Armed
  <2>3. QED
    BY <1>12, <2>2
<1>14. d \in cbs
  BY DEF RestInv
<1>15. CASE /\ d \notin needsFree /\ cbs' = cbs \ {d} /\ UNCHANGED needsFree
            /\ known' = [known EXCEPT ![d] = {}] /\ owed' = [owed EXCEPT ![d] = {}]
  <2>1. BlankInv' /\ OwedListed' /\ Others /\ d \notin Armed'
    BY <1>3, <1>15 DEF StoryInv, BlankInv, OwedListed, Armed
  <2>2. QED
    BY <1>12, <2>1
<1>16. CASE /\ d \notin needsFree /\ cbs' = cbs /\ UNCHANGED needsFree
            /\ known' = [known EXCEPT ![d] = Learn(d, m)] /\ owed' = owed
  <2>1. BlankInv' /\ OwedListed' /\ Others /\ Armed' = Armed
    BY <1>3, <1>14, <1>16 DEF StoryInv, BlankInv, OwedListed, Armed
  <2>2. known'[d] = Learn(d, m)
    BY <1>3, <1>16
  <2>3. ASSUME d \in Armed, NEW o \in owed'[d]
        PROVE  o \in known'[d] \/ Coming(d, "arrived", o)' \/ Registering(d, o)'
    <3>1. o \in known[d] \/ Coming(d, "arrived", o) \/ Registering(d, o)
      BY <1>3, <1>16, <2>3 DEF StoryInv, OwedInv
    <3>2. o \in Range(devs)
      BY <1>3, <1>16 DEF StoryInv, OwedListed
    <3>3. m # Message("left", o)
      <4>1. ~ Later(q, 0, "left", o)
        BY <3>2, ListedStays DEF q
      <4>2. QED
        BY <1>6, <4>1
    <3>4. o \in known[d] => o \in Learn(d, m)
      <4>1. m.event \in {"arrived", "left"}
        BY <1>4 DEF Messages
      <4>2. m.event = "left" => m.obj # o
        BY <1>4, <3>3
      <4>3. QED
        BY <4>1, <4>2 DEF Learn
    <3>5. m = Message("arrived", o) => o \in Learn(d, m)
      BY DEF Learn, Message
    <3>6. QED
      BY <1>8, <1>9, <2>2, <3>1, <3>4, <3>5
  <2>4. ASSUME d \in Armed \ Enumerating, NEW o \in known'[d]
        PROVE  o \in Range(devs) \/ Coming(d, "left", o)'
    <3>1. CASE o \in known[d] /\ m # Message("left", o)
      BY <1>3, <1>8, <2>4, <3>1 DEF StoryInv, KnownInv
    <3>2. CASE o = m.obj /\ m.event = "arrived"
      <4>1. /\ \A x : Ahead("left", x) => Coming(d, "left", x)'
            /\ \A x : Later(msgs, 0, "left", x) => Coming(d, "left", x)'
        BY <1>3, <1>5 DEF Coming
      <4>2. \A x : Later(q, 1, "left", x) => Coming(d, "left", x)'
        <5>1. d \notin batch'.rest
          BY <1>3
        <5>2. QED
          BY <1>3, <5>1 DEF Coming
      <4>3. o \in Accounted \union LeavesLater \/ Later(q, 1, "left", o)
        <5>1. Followed(q, Accounted \union LeavesLater)
          BY <1>3 DEF StoryInv, FollowInv, q
        <5>2. QED
          BY <1>2, <1>3, <3>2, <5>1, FollowedTail DEF m
      <4>4. QED
        BY <4>1, <4>2, <4>3 DEF Accounted, LeavesLater
    <3>3. QED
      <4>1. CASE m.event = "arrived"
        <5>1. m # Message("left", o)
          BY <4>1 DEF Message
        <5>2. QED
          BY <2>2, <3>1, <3>2, <4>1, <5>1 DEF Learn
      <4>2. CASE m.event # "arrived"
        <5>1. o \in known[d] /\ o # m.obj
          BY <2>2, <4>2 DEF Learn
        <5>2. m # Message("left", o)
          BY <5>1 DEF Message
        <5>3. QED
          BY <3>1, <5>1, <5>2
      <4>3. QED
        BY <4>1, <4>2
  <2>5. QED
    BY <1>12, <2>1, <2>3, <2>4
<1>17. QED
  <2>1. CASE d \in needsFree
    BY <1>13, <2>1
  <2>2. CASE d \notin needsFree
    <3>1. PICK finished \in BOOLEAN :
            /\ known' = [known EXCEPT ![d] = IF finished THEN {} ELSE Learn(d, m)]
            /\ owed' = IF finished THEN [owed EXCEPT ![d] = {}] ELSE owed
            /\ cbs' = IF finished THEN cbs \ {d} ELSE cbs
            /\ UNCHANGED needsFree
      BY <1>1, <2>2 DEF m, q
    <3>2. CASE finished
      BY <1>15, <2>2, <3>1, <3>2
    <3>3. CASE ~ finished
      BY <1>16, <2>2, <3>1, <3>3
    <3>4. QED
      BY <3>2, <3>3
  <2>3. QED
    BY <2>1, <2>2

LEMMA StorySetUp ==
  ASSUME FlowInv, FlowInv', MemInv, CtxInv, StoryInv, SetUpTearDown
  PROVE  StoryInv'
<1>0. job \in Job /\ batch \in Batch /\ known \in [Callbacks -> SUBSET Objects]
      /\ NoJob.pc = "idle" /\ \A by, m : Work(by, m).pc \in {"enumerate", "disconnect"}
  BY DEF FlowInv, StepsOK, CbsOK, Proper, NoJob, Work
<1>1. ASSUME UNCHANGED <<devs, cblist, told>>, up' # "ready",
             up' = "stopping" \/ job'.pc # "arrived" \/ (UNCHANGED job /\ up # "stopping")
      PROVE  StoryInv'
  <2>1. BlankInv' /\ OwedListed' /\ ArrivedInv'
    BY <1>1 DEF StoryInv, BlankInv, OwedListed, ArrivedInv, cblist, told
  <2>2. QED
    BY <1>1, <2>1, StoryVoid
<1>2. CASE InitContext \/ StartMonitor
  <2>1. /\ UNCHANGED <<devs, cblist, told, job>> /\ user.pc \in {"idle", "start"}
        /\ up' \in {"scan", up} /\ (user.pc = "idle" => up' = "scan" /\ up = "down")
    BY <1>2 DEF InitContext, StartMonitor, lists
  <2>2. up' # "ready" /\ up # "stopping"
    BY <2>1 DEF CtxInv, SetUpPcs
  <2>3. QED
    BY <1>1, <2>1, <2>2
<1>3. CASE ScanDevices \/ ScanDone \/ \E p \in Ports : ScanDevice(p)
  <2>1. UNCHANGED <<devs, cblist, told, up>> /\ user.pc \in {"started", "scan"}
    BY <1>3 DEF ScanDevices, ScanDone, ScanDevice, lists
  <2>2. up = "scan"
    BY <2>1 DEF CtxInv, SetUpPcs
  <2>3. job'.pc # "arrived"
    <3>1. [NoJob EXCEPT !.by = "scan", !.pc = "more"].pc = "more"
      BY DEF NoJob
    <3>2. QED
      BY <1>0, <1>3, <3>1 DEF ScanDevices, ScanDone, ScanDevice
  <2>4. QED
    BY <1>1, <2>1, <2>2, <2>3
<1>4. CASE HotplugInit
  <2>1. UNCHANGED <<lists, cblist, told, job, batch>> /\ user.pc = "scanned"
    BY <1>4 DEF HotplugInit
  <2>2. up = "scan" /\ cbs = {} /\ msgs = <<>> /\ ~ batch.on
    BY <2>1 DEF CtxInv, SetUpPcs
  <2>3. batch.msgs = <<>>
    BY <2>2 DEF FlowInv, UserInv
  <2>4. BlankInv' /\ OwedListed' /\ ArrivedInv'
    BY <2>1, <2>2 DEF StoryInv, BlankInv, OwedListed, ArrivedInv, cblist, told, lists
  <2>5. cbs' = {} /\ msgs' = <<>> /\ batch'.msgs = <<>>
    BY <2>1, <2>2, <2>3 DEF cblist, lists
  <2>6. QED
    BY <2>4, <2>5, StoryVoid
<1>5. CASE Exit
  <2>1. UNCHANGED <<devs, cblist, told>> /\ up' = "stopping"
    BY <1>5 DEF Exit, lists
  <2>2. QED
    BY <1>1, <2>1
<1>6. CASE HotplugExit
  <2>1. /\ known' = [c \in Callbacks |-> {}] /\ owed' = known' /\ up' = up /\ user.pc = "hotplug_exit"
    BY <1>6 DEF HotplugExit
  <2>2. up' = "stopping"
    BY <2>1 DEF CtxInv, ExitPcs
  <2>3. BlankInv' /\ OwedListed' /\ ArrivedInv'
    BY <2>1, <2>2 DEF BlankInv, OwedListed, ArrivedInv
  <2>4. QED
    BY <2>2, <2>3, StoryVoid
<1>7. CASE FreeMessage \/ FreeDevice
  <2>1. UNCHANGED <<cblist, told, up>> /\ user.pc = "free"
    BY <1>7 DEF FreeMessage, FreeDevice
  <2>2. up' = "stopping" /\ cbs = {}
    BY <2>1 DEF CtxInv, ExitPcs
  <2>3. BlankInv' /\ ArrivedInv'
    BY <2>1, <2>2 DEF StoryInv, BlankInv, ArrivedInv, cblist, told
  <2>4. OwedListed'
    <3>1. \A c \in Callbacks : owed[c] = {}
      BY <2>2 DEF StoryInv, BlankInv
    <3>2. QED
      BY <2>1, <3>1 DEF OwedListed, told
  <2>5. QED
    BY <2>2, <2>3, <2>4, StoryVoid
<1>8. CASE StopMonitor
  <2>1. UNCHANGED <<devs, cblist, told>> /\ up' = "down" /\ job' = NoJob
    BY <1>8 DEF StopMonitor, lists
  <2>2. QED
    BY <1>0, <1>1, <2>1
<1>9. QED
  BY <1>2, <1>3, <1>4, <1>5, <1>6, <1>7, <1>8 DEF SetUpTearDown

LEMMA StoryDeviceLists ==
  ASSUME FlowInv, MemInv, CtxInv, RegInv, StoryInv, DeviceLists
  PROVE  StoryInv'
<1>0. /\ user \in User /\ job \in Job
      /\ user.pc = "idle" => user.cb = None
      /\ UNCHANGED cblist => UNCHANGED cbs /\ Armed' = Armed
      /\ NoJob.pc = "idle" /\ \A by, m : Work(by, m).pc \in {"enumerate", "disconnect"}
  BY DEF FlowInv, StepsOK, Proper, RegInv, CallPcs, NoJob, Work, cblist, Armed
<1>1. CASE GetDeviceList
  <2>1. /\ UNCHANGED <<up, lists, batch, cblist, job, told>> /\ user.pc = "idle"
        /\ user' = [Calling("poll") EXCEPT !.asked = plugged, !.since = serial]
    BY <1>1 DEF GetDeviceList, Ready
  <2>2. user'.pc = "poll" /\ user'.cb = None
    BY <1>0, <2>1, UserFields
  <2>3. QED
    BY <1>0, <2>1, <2>2, StoryKept DEF lists, told
<1>2. CASE HotplugPoll
  <2>1. /\ UNCHANGED <<up, lists, batch, cblist, told>> /\ user.pc = "poll"
        /\ job.pc \notin {"arrived", "left"} /\ job'.pc \notin {"arrived", "left"}
    BY <1>0, <1>2 DEF HotplugPoll, ReadMessage
  <2>2. user'.pc \in {"poll", "copy"} /\ user'.cb = user.cb
    <3>1. user' \in {user, [user EXCEPT !.pc = "copy"], [user EXCEPT !.pc = "copy", !.cut = TRUE]}
      BY <1>2 DEF HotplugPoll
    <3>2. QED
      BY <1>0, <2>1, <3>1 DEF User
  <2>3. up # "stopping"
    BY <2>1 DEF CtxInv, CallPcs
  <2>4. QED
    BY <1>0, <2>1, <2>2, <2>3, StoryKept DEF lists, told
<1>3. CASE CopyList
  <2>1. /\ UNCHANGED <<up, devs, msgs, batch, cblist, job, told>>
        /\ IF user.cb = None THEN user' = Idle
                             ELSE user' = [user EXCEPT !.pc = "fire", !.todo = Range(devs)]
    BY <1>3 DEF CopyList
  <2>2. /\ user'.cb = user.cb
        /\ user'.pc = "fire" => user'.todo = Range(devs)
    <3>1. CASE user.cb = None
      <4>1. Idle.pc = "idle" /\ Idle.cb = None
        BY <1>0, UserFields
      <4>2. QED
        BY <2>1, <3>1, <4>1
    <3>2. CASE user.cb # None
      <4> DEFINE S == Range(devs)
      <4>1. user' = [user EXCEPT !.pc = "fire", !.todo = S]
        BY <2>1, <3>2
      <4> HIDE DEF S
      <4>2. user'.cb = user.cb /\ user'.todo = S
        BY <1>0, <4>1 DEF User
      <4>3. QED
        BY <4>2 DEF S
    <3>3. QED
      BY <3>1, <3>2
  <2>3. QED
    BY <1>0, <2>1, <2>2, StoryKept DEF told
<1>4. ASSUME NEW o \in Objects, FreeDeviceList(o)
      PROVE  StoryInv'
  <2>1. /\ UNCHANGED <<up, devs, msgs, batch, cblist, job, told>>
        /\ user' = [user EXCEPT !.pc = IF list' = {} THEN "idle" ELSE "free_list"]
    BY <1>4 DEF FreeDeviceList
  <2>2. user'.cb = user.cb /\ user'.pc # "fire"
    BY <1>0, <2>1 DEF User
  <2>3. QED
    BY <1>0, <2>1, <2>2, StoryKept DEF told
<1>5. QED
  BY <1>1, <1>2, <1>3, <1>4 DEF DeviceLists

LEMMA StoryOpenAndClose ==
  ASSUME FlowInv, MemInv, CtxInv, RegInv, StoryInv, OpenAndClose
  PROVE  StoryInv'
<1>0. /\ user \in User /\ job \in Job
      /\ user.pc \in OpenPcs \union {"idle"} => user.cb = None
      /\ UNCHANGED cblist => UNCHANGED cbs /\ Armed' = Armed
      /\ NoJob.pc = "idle" /\ \A by, m : Work(by, m).pc \in {"enumerate", "disconnect"}
      /\ Idle.pc = "idle" /\ Idle.cb = None /\ Calling("idle").pc = "idle" /\ Calling("idle").cb = None
  <2>1. user \in User /\ job \in Job
    BY DEF FlowInv, StepsOK, Proper
  <2>2. QED
    BY <2>1, UserFields DEF RegInv, CallPcs, NoJob, Work, cblist, Armed, OpenPcs
<1>1. CASE OpenBackend \/ DisconnectGone \/ OpenFails \/ Close \/ \E o \in Objects : Open(o)
  <2>1. /\ UNCHANGED <<up, devs, msgs, batch, cblist, told>> /\ user.pc \in OpenPcs \union {"idle"}
    BY Zenon, <1>1 DEF OpenBackend, DisconnectGone, OpenFails, Close, Open, Ready, OpenPcs, lists
  <2>2. UNCHANGED job \/ (job.pc \notin {"arrived", "left"} /\ job'.pc \notin {"arrived", "left"})
    BY Zenon, <1>0, <1>1 DEF OpenBackend, DisconnectGone, OpenFails, Close, Open
  <2>3. user'.cb = None /\ user'.pc # "fire"
    <3>1. \/ user' \in {user, Idle, [user EXCEPT !.pc = "gone"], [user EXCEPT !.pc = "failed"]}
          \/ \E o \in Objects : user' = [user EXCEPT !.pc = "open", !.obj = o]
      BY Zenon, <1>1 DEF OpenBackend, DisconnectGone, OpenFails, Close, Open
    <3>2. user.cb = None /\ user.pc # "fire"
      BY <1>0, <2>1 DEF OpenPcs
    <3>3. QED
      BY Zenon, <1>0, <3>1, <3>2 DEF User
  <2>4. up = "stopping" => up' = "stopping" \/ job'.pc # "arrived"
    BY <2>1
  <2>5. QED
    BY <1>0, <2>1, <2>2, <2>3, <2>4, StoryKept DEF told
<1>2. CASE WrapSysDevice
  <2> DEFINE o == CHOOSE x \in Objects \ InUse : TRUE
  <2>1. /\ UNCHANGED <<up, devs, msgs, batch, cblist, job, owed>> /\ user.pc = "idle"
        /\ user' = Calling("idle") /\ known' = [c \in Callbacks |-> known[c] \ {o}]
        /\ Objects \ InUse # {}
    BY <1>2 DEF WrapSysDevice, Ready
  <2>2. o \in Objects \ InUse
    BY <2>1
  <2>3. o \in Objects /\ objs[o].refs = 0
    BY <2>2 DEF InUse, MemInv, Sound, Device
  <2> HIDE DEF o
  <2>4. user'.cb = user.cb /\ user'.pc # "fire"
    BY <1>0, <2>1
  <2>5. \E x \in Objects : objs[x].refs = 0 /\ known' = [c \in Callbacks |-> known[c] \ {x}]
    BY <2>1, <2>3
  <2>6. QED
    BY <1>0, <2>1, <2>4, <2>5, StoryKept
<1>3. QED
  BY <1>1, <1>2 DEF OpenAndClose

LEMMA StoryRegister ==
  ASSUME FlowInv, MemInv, CtxInv, RegInv, StoryInv, NEW d \in Callbacks, RegisterCallback(d)
  PROVE  StoryInv'
<1>1. /\ UNCHANGED <<up, lists, batch, needsFree, job, known>> /\ cbs' = cbs \union {d}
      /\ d \notin cbs /\ user.pc = "idle" /\ up = "ready"
      /\ user' = IF d \in Enumerating THEN [Calling("poll") EXCEPT !.cb = d] ELSE Calling("idle")
      /\ owed' = [owed EXCEPT ![d] = IF d \in Enumerating THEN Range(devs) ELSE {}]
  BY DEF RegisterCallback, Ready
<1>2. /\ user \in User /\ user.cb = None /\ needsFree \subseteq cbs /\ d # None
      /\ owed \in [Callbacks -> SUBSET Objects] /\ cbs \subseteq Callbacks
  BY <1>1, PortsAssumption DEF FlowInv, StepsOK, CbsOK, RegInv, CallPcs
<1>3. devs' = devs /\ msgs' = msgs /\ known[d] = {} /\ known' = known
      /\ \A c \in Callbacks : c # d => owed'[c] = owed[c]
  BY <1>1, <1>2 DEF lists, StoryInv, BlankInv
<1>4. Armed' = Armed \union {d} /\ Armed \subseteq Callbacks /\ d \notin Armed
  BY <1>1, <1>2 DEF Armed
<1>5. \A event, o : Ahead(event, o)' = Ahead(event, o)
  BY <1>1 DEF Ahead
<1>6. \A c, event, o : Coming(c, event, o)' = Coming(c, event, o)
  BY <1>1, <1>3, <1>5 DEF Coming
<1>7. \A c \in Armed : \A o : ~ Registering(c, o)
  BY <1>2, <1>4, PortsAssumption DEF Registering
<1>8. d \in Enumerating => \A o : Registering(d, o)'
  <2>1. [Calling("poll") EXCEPT !.cb = d].pc = "poll" /\ [Calling("poll") EXCEPT !.cb = d].cb = d
    BY <1>2, UserFields
  <2>2. QED
    BY <1>1, <2>1 DEF Registering
<1>9. owed'[d] \subseteq Range(devs) /\ (d \notin Enumerating => owed'[d] = {})
  BY <1>1, <1>2
<1>10. BlankInv'
  BY <1>1, <1>3 DEF StoryInv, BlankInv
<1>11. OwedListed'
  BY <1>3, <1>9 DEF StoryInv, OwedListed
<1>12. FollowInv' /\ ArrivedInv'
  <2>1. Accounted' = Accounted /\ LeavesLater' = LeavesLater
    BY <1>3, <1>5 DEF Accounted, LeavesLater
  <2>2. QED
    BY <1>1, <1>3, <2>1 DEF StoryInv, FollowInv, ArrivedInv
<1>13. OwedInv'
  <2>1. SUFFICES ASSUME NEW c \in Armed', NEW o \in owed'[c]
                 PROVE  o \in known[c] \/ Coming(c, "arrived", o) \/ Registering(c, o)'
    BY <1>3, <1>6 DEF OwedInv
  <2>2. CASE c = d
    BY <1>8, <1>9, <2>1, <2>2
  <2>3. CASE c # d
    <3>1. c \in Armed /\ o \in owed[c]
      BY <1>3, <1>4, <2>1, <2>3
    <3>2. QED
      BY <1>1, <1>7, <3>1 DEF StoryInv, OwedInv
  <2>4. QED
    BY <2>2, <2>3
<1>14. KnownInv'
  <2>1. SUFFICES ASSUME NEW c \in Armed' \ Enumerating, NEW o \in known[c]
                 PROVE  o \in Range(devs) \/ Coming(c, "left", o)
    BY <1>3, <1>6 DEF KnownInv
  <2>2. c \in Armed
    BY <1>3, <1>4, <2>1
  <2>3. QED
    BY <1>1, <2>1, <2>2 DEF StoryInv, KnownInv
<1>15. QED
  BY <1>10, <1>11, <1>12, <1>13, <1>14 DEF StoryInv

LEMMA StoryFire ==
  ASSUME FlowInv, MemInv, CtxInv, RegInv, StoryInv, NEW x \in Objects, FireForListed(x)
  PROVE  StoryInv'
<1> DEFINE d == user.cb
<1>1. /\ UNCHANGED <<up, lists, batch, cblist, job, owed>> /\ user.pc = "fire" /\ x \in user.todo
      /\ known' = [known EXCEPT ![d] = known[d] \union {x}]
      /\ user' = [user EXCEPT !.todo = user.todo \ {x}]
  BY DEF FireForListed
<1>2. /\ d \in Armed \cap Enumerating /\ d \in Callbacks /\ d \in cbs
      /\ user'.pc = "fire" /\ user'.cb = d /\ user'.todo = user.todo \ {x}
      /\ known \in [Callbacks -> SUBSET Objects] /\ devs' = devs /\ msgs' = msgs
  <2>1. d \in Armed \cap Enumerating /\ d \in Callbacks /\ d \in cbs
    BY <1>1, CallbacksAssumption DEF RegInv, Armed
  <2>2. user \in User /\ known \in [Callbacks -> SUBSET Objects]
    BY DEF FlowInv, StepsOK, CbsOK
  <2>3. QED
    BY <1>1, <2>1, <2>2 DEF User, lists
<1> HIDE DEF d
<1>3. \A c \in Callbacks : known'[c] = IF c = d THEN known[c] \union {x} ELSE known[c]
  BY <1>1, <1>2
<1>4. Armed' = Armed /\ Armed \subseteq Callbacks
  BY <1>1 DEF Armed, cblist, FlowInv, CbsOK
<1>5. \A event, o : Ahead(event, o)' = Ahead(event, o)
  BY <1>1 DEF Ahead
<1>6. \A c, event, o : Coming(c, event, o)' = Coming(c, event, o)
  BY <1>1, <1>2, <1>5 DEF Coming
<1>7. \A c, o : Registering(c, o) => Registering(c, o)' \/ (c = d /\ o = x)
  BY <1>1, <1>2 DEF Registering, d
<1>8. BlankInv' /\ OwedListed'
  BY <1>1, <1>2, <1>3 DEF StoryInv, BlankInv, OwedListed, cblist
<1>9. FollowInv' /\ ArrivedInv'
  <2>1. Accounted' = Accounted /\ LeavesLater' = LeavesLater
    BY <1>2, <1>5 DEF Accounted, LeavesLater
  <2>2. QED
    BY <1>1, <1>2, <2>1 DEF StoryInv, FollowInv, ArrivedInv
<1>10. OwedInv'
  <2>1. SUFFICES ASSUME up = "ready", NEW c \in Armed, NEW o \in owed[c]
                 PROVE  o \in known'[c] \/ Coming(c, "arrived", o) \/ Registering(c, o)'
    BY <1>1, <1>4, <1>6 DEF OwedInv
  <2>2. o \in known[c] \/ Coming(c, "arrived", o) \/ Registering(c, o)
    BY <2>1 DEF StoryInv, OwedInv
  <2>3. QED
    BY <1>3, <1>4, <1>7, <2>2
<1>11. KnownInv'
  <2>1. SUFFICES ASSUME up = "ready", NEW c \in Armed \ Enumerating, NEW o \in known'[c]
                 PROVE  o \in Range(devs) \/ Coming(c, "left", o)
    BY <1>1, <1>2, <1>4, <1>6 DEF KnownInv
  <2>2. o \in known[c]
    BY <1>2, <1>3, <1>4, <2>1
  <2>3. QED
    BY <2>1, <2>2 DEF StoryInv, KnownInv
<1>12. QED
  BY <1>8, <1>9, <1>10, <1>11 DEF StoryInv

LEMMA StoryCallbackCalls ==
  ASSUME FlowInv, MemInv, CtxInv, RegInv, StoryInv, CallbackCalls
  PROVE  StoryInv'
<1>0. /\ user \in User /\ batch \in Batch /\ Idle.pc = "idle" /\ Idle.cb = None
      /\ Calling("idle").pc = "idle" /\ Calling("idle").cb = None
      /\ user.pc = "idle" => user.cb = None
  <2>1. user \in User /\ batch \in Batch
    BY DEF FlowInv, StepsOK, CbsOK
  <2>2. QED
    BY <2>1, UserFields DEF RegInv, CallPcs
<1>1. ASSUME NEW d \in Callbacks, DeregisterCallback(d)
      PROVE  StoryInv'
  <2>1. /\ UNCHANGED <<up, lists, cbs, job, told>> /\ needsFree' = needsFree \union {d}
        /\ user' = Calling("idle") /\ user.pc = "idle"
        /\ batch' = [batch EXCEPT !.deregistered = TRUE]
    BY <1>1 DEF DeregisterCallback, Ready
  <2>2. /\ Armed' \subseteq Armed /\ batch'.msgs = batch.msgs /\ batch'.rest = batch.rest
    BY <1>0, <2>1 DEF Armed, Batch
  <2>3. QED
    BY <1>0, <2>1, <2>2, StoryKept DEF lists, told
<1>2. CASE Registered \/ \E o \in Objects : FreeSnapshot(o)
  <2>1. /\ UNCHANGED <<up, devs, msgs, batch, cbs, job, told>> /\ Armed' = Armed
        /\ user.pc = "fire" /\ user.todo = {} /\ user' \in {user, Idle}
    BY <1>2 DEF Registered, FreeSnapshot, lists, cblist, Armed
  <2>2. QED
    BY <1>0, <2>1, StoryKept DEF told
<1>3. QED
  BY <1>1, <1>2, StoryRegister, StoryFire DEF CallbackCalls

LEMMA StoryInit ==
  ASSUME Init
  PROVE  StoryInv /\ RestInv
<1>1. /\ cbs = {} /\ msgs = <<>> /\ batch.msgs = <<>> /\ batch.rest = {} /\ job.pc = "idle" /\ up = "down"
      /\ \A c \in Callbacks : known[c] = {} /\ owed[c] = {}
  BY DEF Init, NoJob
<1>2. BlankInv /\ OwedListed /\ ArrivedInv /\ FollowInv /\ OwedInv /\ KnownInv /\ RestInv
  BY <1>1 DEF BlankInv, OwedListed, ArrivedInv, FollowInv, OwedInv, KnownInv, RestInv
<1>3. QED
  BY <1>2 DEF StoryInv

LEMMA StoryNext ==
  ASSUME FlowInv, FlowInv', MemInv, CtxInv, RegInv, RestInv, StoryInv, [Next]_vars
  PROVE  StoryInv'
<1>1. CASE Kernel \/ Monitor \/ UNCHANGED vars
  BY <1>1, StoryKernel
<1>2. CASE Enumeration
  BY <1>2, StoryEnumeration, StoryConnect, StoryArrived, StoryDisconnected, StoryLeft DEF Enumeration
<1>3. CASE HotplugProcess
  BY <1>3, StoryTake, StoryDone, StoryFree, StoryCallBack DEF HotplugProcess
<1>4. CASE SetUpTearDown \/ DeviceLists \/ OpenAndClose \/ CallbackCalls
  BY <1>4, StorySetUp, StoryDeviceLists, StoryOpenAndClose, StoryCallbackCalls
<1>5. QED
  BY <1>1, <1>2, <1>3, <1>4 DEF Next

CallbackInv == CtxInv /\ RegInv /\ RestInv /\ StoryInv

LEMMA CallbackInvariant == Spec => [](FlowInv /\ MemInv /\ CallbackInv)
<1>1. Init => CallbackInv
  BY CtxInit, StoryInit DEF CallbackInv
<1>2. FlowInv /\ FlowInv' /\ MemInv /\ CallbackInv /\ [Next]_vars => CallbackInv'
  BY CtxNext, RestNext, StoryNext DEF CallbackInv
<1>3. QED
  BY <1>1, <1>2, DevicesInvariant, PTL DEF Spec

(* With no message left to dispatch, a callback knows every device it is   *)
(* owed, and one that is not enumerating believes in no device that is     *)
(* gone (usbi_hotplug_process, libusb_hotplug_register_callback): however  *)
(* plugging, enumeration, dispatching and registration interleave.         *)
THEOREM CallbacksAreInformed == Spec => []CallbacksInformed
<1>1. FlowInv /\ MemInv /\ CallbackInv => CallbacksInformed
  <2> SUFFICES ASSUME FlowInv, CallbackInv, msgs = <<>>, ~ batch.on, job = NoJob, up = "ready",
                      NEW c \in Armed \ {user.cb}
               PROVE  owed[c] \subseteq known[c] /\ (c \notin Enumerating => known[c] \subseteq Range(devs))
    BY DEF CallbacksInformed
  <2>1. batch.msgs = <<>>
    BY DEF FlowInv, UserInv
  <2>2. \A event, o : event \in {"arrived", "left"} => ~ Coming(c, event, o)
    <3>1. \A event, o : event \in {"arrived", "left"} => ~ Ahead(event, o)
      BY DEF Ahead, NoJob
    <3>2. \A n, event, o : ~ Later(batch.msgs, n, event, o) /\ ~ Later(msgs, n, event, o)
      BY <2>1, LaterEmpty
    <3>3. QED
      BY <3>1, <3>2 DEF Coming
  <2>3. \A o : ~ Registering(c, o)
    BY DEF Registering
  <2>4. \A o \in owed[c] : o \in known[c]
    BY <2>2, <2>3 DEF CallbackInv, StoryInv, OwedInv
  <2>5. c \notin Enumerating => \A o \in known[c] : o \in Range(devs)
    BY <2>2 DEF CallbackInv, StoryInv, KnownInv
  <2>6. QED
    BY <2>4, <2>5
<1>2. QED
  BY <1>1, CallbackInvariant, PTL

-----------------------------------------------------------------------------
(* The list and the bus.                                                   *)

\* Uevents about an address, and what is behind the i-th.
Of(m, kind, addr)       == m.kind = kind /\ m.addr = addr
Has(q, kind, addr)      == \E i \in DOMAIN q : Of(q[i], kind, addr)
After(q, i, kind, addr) == \E j \in DOMAIN q : j > i /\ Of(q[j], kind, addr)
Twice(q, kind, addr)    == \E i \in DOMAIN q : Of(q[i], kind, addr) /\ After(q, i, kind, addr)

\* A removal is outdated only if the address is added again behind it; an addition only
\* if the address is removed behind it.
At(bus_, addr) == \E p \in Ports : bus_[p].addr = addr
Current(q, i, bus_) ==
  /\ q[i].kind = "remove" /\ At(bus_, q[i].addr) => After(q, i, "add", q[i].addr)
  /\ q[i].kind = "add" => bus_[q[i].port].addr = q[i].addr \/ After(q, i, "remove", q[i].addr)
Orderly(q, bus_) == \A i \in DOMAIN q : Current(q, i, bus_)
Addressed(q)     == \A i \in DOMAIN q : q[i].kind # "other" => q[i].addr # 0

LEMMA QueueAppend ==
  ASSUME NEW q \in Seq(Uevents), NEW m \in Uevents, NEW r, r = Append(q, m), NEW kind, NEW addr
  PROVE  /\ Has(q, kind, addr) \/ Of(m, kind, addr) => Has(r, kind, addr)
         /\ Twice(q, kind, addr) \/ (Has(q, kind, addr) /\ Of(m, kind, addr)) => Twice(r, kind, addr)
         /\ \A i \in DOMAIN q : After(q, i, kind, addr) \/ Of(m, kind, addr) => After(r, i, kind, addr)
<1> DEFINE k == Len(q)
<1>1. /\ k \in Nat /\ DOMAIN q = 1..k /\ DOMAIN r = 1..k + 1 /\ r[k + 1] = m
      /\ \A i \in 1..k : r[i] = q[i]
  BY LenProperties, AppendProperties
<1> HIDE DEF k
<1>2. /\ \A i \in DOMAIN q : i \in DOMAIN r /\ r[i] = q[i] /\ k + 1 > i
      /\ k + 1 \in DOMAIN r
  BY <1>1
<1>3. ASSUME NEW i \in DOMAIN q, After(q, i, kind, addr) \/ Of(m, kind, addr)
      PROVE  After(r, i, kind, addr)
  BY <1>1, <1>2, <1>3 DEF After
<1>4. Has(q, kind, addr) \/ Of(m, kind, addr) => Has(r, kind, addr)
  BY <1>1, <1>2 DEF Has
<1>5. Twice(q, kind, addr) \/ (Has(q, kind, addr) /\ Of(m, kind, addr)) => Twice(r, kind, addr)
  BY <1>2, <1>3 DEF Twice, Has
<1>6. QED
  BY <1>3, <1>4, <1>5

LEMMA QueueTail ==
  ASSUME NEW q \in Seq(Uevents), q # <<>>, NEW r, r = Tail(q), NEW m, m = Head(q),
         NEW kind, NEW addr
  PROVE  /\ Has(q, kind, addr) <=> Of(m, kind, addr) \/ Has(r, kind, addr)
         /\ Twice(q, kind, addr) => Twice(r, kind, addr) \/ (Of(m, kind, addr) /\ Has(r, kind, addr))
         /\ After(q, 1, kind, addr) => Has(r, kind, addr)
         /\ \A i \in DOMAIN r : /\ i + 1 \in DOMAIN q /\ r[i] = q[i + 1]
                                /\ After(q, i + 1, kind, addr) => After(r, i, kind, addr)
         /\ 1 \in DOMAIN q /\ q[1] = m
<1> DEFINE n == Len(q)
<1>1. /\ n \in Nat \ {0} /\ DOMAIN q = 1..n /\ DOMAIN r = 1..n - 1 /\ q[1] = m
      /\ \A i \in 1..n - 1 : r[i] = q[i + 1]
  <2>1. r \in Seq(Uevents) /\ Len(r) = Len(q) - 1 /\ \A i \in 1..Len(r) : r[i] = q[i + 1]
        /\ q[1] = Head(q)
    BY HeadTailProperties
  <2>2. Len(q) \in Nat /\ DOMAIN q = 1..Len(q) /\ Len(q) # 0 /\ DOMAIN r = 1..Len(r)
    BY <2>1, LenProperties, EmptySeq
  <2>3. QED
    BY <2>1, <2>2
<1> HIDE DEF n
<1>2. /\ 1 \in DOMAIN q
      /\ \A i \in DOMAIN r : i \in Nat /\ i + 1 \in DOMAIN q /\ r[i] = q[i + 1]
      /\ \A j \in DOMAIN q : j > 1 => j - 1 \in DOMAIN r /\ r[j - 1] = q[j]
      /\ \A j \in DOMAIN q : j = 1 \/ j > 1
      /\ \A i \in DOMAIN r, j \in DOMAIN q : j > i + 1 => j > 1 /\ j - 1 > i
  <2>1. \A j \in DOMAIN q : j > 1 => j - 1 \in 1..n - 1 /\ (j - 1) + 1 = j
    BY <1>1
  <2>2. \A j \in DOMAIN q : j > 1 => j - 1 \in DOMAIN r /\ r[j - 1] = q[j]
    BY <1>1, <2>1
  <2>3. \A i \in DOMAIN r, j \in DOMAIN q : j > i + 1 => j > 1 /\ j - 1 > i
    BY <1>1
  <2>4. \A j \in DOMAIN q : j = 1 \/ j > 1
    BY <1>1
  <2>5. QED
    BY <1>1, <2>2, <2>3, <2>4
<1>3. After(q, 1, kind, addr) => Has(r, kind, addr)
  BY <1>2 DEF After, Has
<1>4. ASSUME NEW i \in DOMAIN r, After(q, i + 1, kind, addr)
      PROVE  After(r, i, kind, addr)
  <2>1. PICK j \in DOMAIN q : j > i + 1 /\ Of(q[j], kind, addr)
    BY <1>4 DEF After
  <2>2. j - 1 \in DOMAIN r /\ j - 1 > i /\ r[j - 1] = q[j]
    BY <1>2, <2>1
  <2>3. QED
    BY <2>1, <2>2 DEF After
<1>5. Has(q, kind, addr) => Of(m, kind, addr) \/ Has(r, kind, addr)
  <2>1. ASSUME NEW j \in DOMAIN q, Of(q[j], kind, addr)
        PROVE  Of(m, kind, addr) \/ Has(r, kind, addr)
    <3>1. CASE j = 1
      BY <1>1, <2>1, <3>1
    <3>2. CASE j > 1
      BY <1>2, <2>1, <3>2 DEF Has
    <3>3. QED
      BY <1>2, <3>1, <3>2
  <2>2. QED
    BY <2>1 DEF Has
<1>6. Of(m, kind, addr) \/ Has(r, kind, addr) => Has(q, kind, addr)
  BY <1>1, <1>2 DEF Has
<1>7. Twice(q, kind, addr) => Twice(r, kind, addr) \/ (Of(m, kind, addr) /\ Has(r, kind, addr))
  <2>1. ASSUME NEW i \in DOMAIN q, Of(q[i], kind, addr), After(q, i, kind, addr)
        PROVE  Twice(r, kind, addr) \/ (Of(m, kind, addr) /\ Has(r, kind, addr))
    <3>1. CASE i = 1
      BY <1>1, <1>3, <2>1, <3>1
    <3>2. CASE i > 1
      <4>1. i - 1 \in DOMAIN r /\ r[i - 1] = q[i] /\ (i - 1) + 1 = i
        BY <1>1, <1>2, <3>2
      <4>2. After(r, i - 1, kind, addr)
        <5> DEFINE h == i - 1
        <5>1. h \in DOMAIN r /\ After(q, h + 1, kind, addr)
          BY <2>1, <4>1
        <5> HIDE DEF h
        <5>2. After(r, h, kind, addr)
          BY <1>4, <5>1
        <5>3. QED
          BY <5>2 DEF h
      <4>3. QED
        BY <2>1, <4>1, <4>2 DEF Twice
    <3>3. QED
      BY <1>2, <3>1, <3>2
  <2>2. QED
    BY <2>1 DEF Twice
<1>8. QED
  BY <1>1, <1>2, <1>3, <1>4, <1>5, <1>6, <1>7

\* One more uevent, and what it changed.
LEMMA OrderlyAppend ==
  ASSUME NEW q \in Seq(Uevents), NEW m \in Uevents, NEW old, NEW new,
         Orderly(q, old), Addressed(q),
         \A addr : addr # 0 /\ At(new, addr) => At(old, addr) \/ Of(m, "add", addr),
         \A p \in Ports : \A addr : addr # 0 /\ old[p].addr = addr
                                => new[p].addr = addr \/ Of(m, "remove", addr),
         m.kind = "remove" => ~ At(new, m.addr),
         m.kind = "add" => new[m.port].addr = m.addr
  PROVE  Orderly(Append(q, m), new)
<1> DEFINE r == Append(q, m)
           k == Len(q)
<1>1. /\ k \in Nat /\ DOMAIN q = 1..k /\ DOMAIN r = 1..k + 1 /\ r[k + 1] = m
      /\ \A i \in 1..k : r[i] = q[i] /\ q[i] \in Uevents
  BY LenProperties, AppendProperties, ElementOfSeq
<1> HIDE DEF k, r
<1>2. ASSUME NEW i \in DOMAIN q
      PROVE  Current(r, i, new)
  <2>1. r[i] = q[i] /\ q[i] \in Uevents
    BY <1>1
  <2>2. \A kind, addr : After(q, i, kind, addr) \/ Of(m, kind, addr) => After(r, i, kind, addr)
    BY QueueAppend DEF r
  <2>3. ASSUME q[i].kind = "remove", At(new, q[i].addr)
        PROVE  After(r, i, "add", q[i].addr)
    <3>1. q[i].addr # 0
      BY <2>3 DEF Addressed
    <3>2. At(old, q[i].addr) \/ Of(m, "add", q[i].addr)
      BY <2>3, <3>1
    <3>3. QED
      BY <2>2, <2>3, <3>2 DEF Orderly, Current
  <2>4. ASSUME q[i].kind = "add"
        PROVE  new[q[i].port].addr = q[i].addr \/ After(r, i, "remove", q[i].addr)
    <3>1. q[i].addr # 0 /\ q[i].port \in Ports
      BY <2>1, <2>4 DEF Addressed, Uevents
    <3>2. old[q[i].port].addr = q[i].addr \/ After(q, i, "remove", q[i].addr)
      BY <2>4 DEF Orderly, Current
    <3>3. QED
      BY <2>2, <3>1, <3>2
  <2>5. QED
    BY <2>1, <2>3, <2>4 DEF Current
<1>3. Current(r, k + 1, new)
  BY <1>1 DEF Current
<1>4. ASSUME NEW i \in DOMAIN r
      PROVE  Current(r, i, new)
  <2>1. i \in DOMAIN q \/ i = k + 1
    BY <1>1
  <2>2. QED
    BY <1>2, <1>3, <2>1
<1>5. QED
  BY <1>4 DEF Orderly, r

LEMMA OrderlyTail ==
  ASSUME NEW q \in Seq(Uevents), q # <<>>, NEW bus_, Orderly(q, bus_), NEW m, m = Head(q)
  PROVE  /\ Orderly(Tail(q), bus_)
         /\ m.kind = "remove" /\ At(bus_, m.addr) => Has(Tail(q), "add", m.addr)
         /\ m.kind = "add" => bus_[m.port].addr = m.addr \/ Has(Tail(q), "remove", m.addr)
<1> DEFINE r == Tail(q)
<1>1. \A kind, addr :
         /\ After(q, 1, kind, addr) => Has(r, kind, addr)
         /\ \A i \in DOMAIN r : /\ i + 1 \in DOMAIN q /\ r[i] = q[i + 1]
                                /\ After(q, i + 1, kind, addr) => After(r, i, kind, addr)
         /\ 1 \in DOMAIN q /\ q[1] = m
  BY QueueTail
<1> HIDE DEF r
<1>2. ASSUME NEW i \in DOMAIN r
      PROVE  Current(r, i, bus_)
  <2>1. Current(q, i + 1, bus_) /\ r[i] = q[i + 1]
    BY <1>1 DEF Orderly
  <2>2. QED
    BY <1>1, <2>1 DEF Current
<1>3. Current(q, 1, bus_) /\ q[1] = m
  BY <1>1 DEF Orderly
<1>4. QED
  BY <1>1, <1>2, <1>3 DEF Orderly, Current, r

-----------------------------------------------------------------------------
(* Which device it is does not change while somebody has it.               *)

Alike(x, y) == x.addr = y.addr /\ x.port = y.port /\ x.serial = y.serial

StepAlike ==
  \A x \in Objects :
    /\ objs'[x] = Free \/ objs[x].refs = 0 \/ Alike(objs'[x], objs[x])
    /\ objs'[x].attached => objs[x].attached \/ objs[x].refs = 0 \/ x \in Range(devs')

LEMMA DroppedAlike ==
  ASSUME NEW S, NEW mem \in [Objects -> S], NEW o \in Objects, mem[o] \in Device
  PROVE  /\ Dropped(mem, o)[o] # Free => /\ Alike(Dropped(mem, o)[o], mem[o])
                                         /\ Dropped(mem, o)[o].attached = mem[o].attached
         /\ \A x \in Objects : x # o => Dropped(mem, o)[x] = mem[x]
         /\ \E T : Dropped(mem, o) \in [Objects -> T]
<1>1. CASE mem[o].refs = 1
  <2>1. Dropped(mem, o) = [mem EXCEPT ![o] = Free]
    BY <1>1 DEF Dropped
  <2>2. [mem EXCEPT ![o] = Free] \in [Objects -> S \union {Free}]
    OBVIOUS
  <2>3. QED
    BY <2>1, <2>2
<1>2. CASE mem[o].refs # 1
  <2> DEFINE d == [mem[o] EXCEPT !.refs = mem[o].refs - 1]
  <2>1. Dropped(mem, o) = [mem EXCEPT ![o] = d]
    BY <1>2 DEF Dropped
  <2>2. Alike(d, mem[o]) /\ d.attached = mem[o].attached
    BY DEF Alike, Device
  <2> HIDE DEF d
  <2>3. [mem EXCEPT ![o] = d] \in [Objects -> S \union {d}]
    OBVIOUS
  <2>4. QED
    BY <2>1, <2>2, <2>3
<1>3. QED
  BY <1>1, <1>2

LEMMA UnrefAlike ==
  ASSUME MemInv, NEW o \in Objects, objs' = UnrefDevice(objs, o)
  PROVE  StepAlike
<1>1. /\ objs \in [Objects -> Device] /\ objs[o].parent \in Objects \union {None}
      /\ objs[o].parent # o
  BY DEF MemInv, Sound, Device
<1>2. Free.attached = FALSE
  BY DEF Free
<1> DEFINE one == Dropped(objs, o)
<1>3. /\ one[o] # Free => Alike(one[o], objs[o]) /\ one[o].attached = objs[o].attached
      /\ \A x \in Objects : x # o => one[x] = objs[x]
  BY <1>1, DroppedAlike
<1>4. PICK T : one \in [Objects -> T]
  BY <1>1, DroppedAlike
<1> HIDE DEF one
<1>5. CASE objs' = one
  <2>1. \A x \in Objects : objs'[x] # Free => Alike(objs'[x], objs[x]) /\ objs'[x].attached = objs[x].attached
    BY <1>3, <1>5 DEF Alike
  <2>2. QED
    BY <1>2, <2>1 DEF StepAlike
<1>6. CASE objs[o].parent # None /\ objs' = Dropped(one, objs[o].parent)
  <2> DEFINE p == objs[o].parent
             two == Dropped(one, p)
  <2>1. p \in Objects /\ p # o
    BY <1>1, <1>6
  <2>2. one[p] = objs[p] /\ objs[p] \in Device
    BY <1>1, <1>3, <2>1
  <2> HIDE DEF p
  <2>3. /\ two[p] # Free => Alike(two[p], objs[p]) /\ two[p].attached = objs[p].attached
        /\ \A x \in Objects : x # p => two[x] = one[x]
    BY <1>4, <2>1, <2>2, DroppedAlike
  <2> HIDE DEF two
  <2>4. ASSUME NEW x \in Objects, two[x] # Free
        PROVE  Alike(two[x], objs[x]) /\ two[x].attached = objs[x].attached
    BY <1>3, <2>3, <2>4 DEF Alike
  <2>5. objs' = two
    BY <1>6 DEF two, p
  <2>6. QED
    BY <1>2, <2>4, <2>5 DEF StepAlike
<1>7. QED
  BY <1>5, <1>6 DEF UnrefDevice, one

LEMMA RefAlike ==
  ASSUME MemInv, NEW S
  PROVE  \A x \in Objects : /\ Alike(RefDevices(objs, S)[x], objs[x])
                            /\ RefDevices(objs, S)[x].attached = objs[x].attached
                            /\ RefDevices(objs, S)[x] \in Device
<1>1. objs \in [Objects -> Device]
  BY DEF MemInv, Sound
<1>2. ASSUME NEW x \in Objects
      PROVE  /\ Alike(RefDevices(objs, S)[x], objs[x])
             /\ RefDevices(objs, S)[x].attached = objs[x].attached
             /\ RefDevices(objs, S)[x] \in Device
  <2>1. objs[x] \in Device /\ objs[x].refs + 1 \in Nat
    BY <1>1 DEF Device
  <2>2. RefDevices(objs, S)[x] = IF x \in S THEN [objs[x] EXCEPT !.refs = objs[x].refs + 1] ELSE objs[x]
    BY DEF RefDevices
  <2>3. CASE x \in S
    BY <2>1, <2>2, <2>3 DEF Device, Alike
  <2>4. CASE x \notin S
    BY <2>1, <2>2, <2>4 DEF Alike
  <2>5. QED
    BY <2>3, <2>4
<1>3. QED
  BY <1>2

\* A device is made where no other was.
LEMMA NewAlike ==
  ASSUME MemInv, NEW d, objs' = [objs EXCEPT ![CHOOSE x \in Objects \ InUse : TRUE] = d],
         Objects \ InUse # {}
  PROVE  StepAlike
<1> DEFINE o == CHOOSE x \in Objects \ InUse : TRUE
<1>1. objs \in [Objects -> Device]
  BY DEF MemInv, Sound
<1>2. o \in Objects \ InUse
  OBVIOUS
<1>3. o \in Objects /\ objs[o].refs = 0
  BY <1>1, <1>2 DEF InUse, Device
<1>4. objs' = [objs EXCEPT ![o] = d]
  OBVIOUS
<1> HIDE DEF o
<1>5. objs[o].refs = 0 /\ \A x \in Objects : x # o => objs'[x] = objs[x]
  BY <1>1, <1>3, <1>4
<1>6. QED
  BY <1>5 DEF StepAlike, Alike

LEMMA ConnectAlike ==
  ASSUME FlowInv, MemInv, ConnectDevice
  PROVE  StepAlike
<1> DEFINE o == job.obj
<1>1. o \in Objects /\ o \in Range(devs')
  BY ConnectDoes
<1>2. objs' = [WithParent EXCEPT ![o].attached = TRUE] /\ objs \in [Objects -> Device]
  BY DEF ConnectDevice, AttachDevice, MemInv, Sound
<1>3. CASE WithParent = objs
  <2> HIDE DEF o
  <2>1. \A x \in Objects : /\ x # o => objs'[x] = objs[x]
                           /\ Alike(objs'[x], objs[x])
    BY <1>1, <1>2, <1>3 DEF Alike, Device
  <2>2. QED
    BY <1>1, <2>1 DEF StepAlike
<1>4. ASSUME NEW hub, WithParent = [RefDevice(objs, hub) EXCEPT ![o].parent = hub]
      PROVE  StepAlike
  <2> DEFINE r == RefDevice(objs, hub)
  <2>1. \A x \in Objects : Alike(r[x], objs[x]) /\ r[x].attached = objs[x].attached /\ r[x] \in Device
    BY RefAlike DEF RefDevice
  <2>2. r \in [Objects -> Device]
    <3>1. r = [x \in Objects |-> r[x]]
      BY DEF RefDevice, RefDevices
    <3> HIDE DEF r
    <3>2. QED
      BY <2>1, <3>1
  <2>3. objs' = [[r EXCEPT ![o].parent = hub] EXCEPT ![o].attached = TRUE]
    BY <1>2, <1>4
  <2> HIDE DEF r, o
  <2>4. \A x \in Objects : /\ x # o => objs'[x] = r[x]
                           /\ Alike(objs'[x], r[x])
    BY <1>1, <2>2, <2>3 DEF Alike, Device
  <2>5. QED
    BY <1>1, <2>1, <2>4 DEF StepAlike, Alike
<1>5. QED
  BY <1>3, <1>4 DEF WithParent

LEMMA MemoryStep ==
  ASSUME FlowInv, MemInv, [Next]_vars
  PROVE  StepAlike
<1>0. /\ objs \in [Objects -> Device] /\ msgs \in Seq(Messages) /\ batch.msgs \in Seq(Messages)
      /\ devs \in Seq(Objects) /\ Proper(job) /\ job \in Job /\ user \in User
      /\ user.obj # None <=> user.pc \in OpenPcs
      /\ handle \in Objects \union {None}
  BY FlowTypes DEF MemInv, Sound, FlowInv, ListsOK, StepsOK, HeldOK
<1>1. CASE UNCHANGED objs
  BY <1>1 DEF StepAlike, Alike
<1>2. ASSUME NEW S, objs' = RefDevices(objs, S)
      PROVE  StepAlike
  BY <1>2, RefAlike DEF StepAlike
<1>3. ASSUME NEW q \in Seq(Messages), q # <<>>, FreeFirst(q)
      PROVE  StepAlike
  <2>1. Head(q) \in Messages
    BY <1>3, HeadTailProperties
  <2>2. Head(q).obj \in Objects
    BY <2>1 DEF Messages
  <2>3. QED
    BY <1>1, <1>3, <2>2, UnrefAlike DEF FreeFirst
<1>4. CASE Kernel \/ Monitor \/ UNCHANGED vars
  <2>1. UNCHANGED objs
    BY <1>4 DEF Kernel, Plug, Unplug, OtherUevent, Monitor, vars, lists
  <2>2. QED
    BY <1>1, <2>1
<1>5. CASE Enumeration
  <2>1. CASE EnumerateDevice
    <3>1. CASE UNCHANGED objs
      BY <1>1, <3>1
    <3>2. CASE ~ UNCHANGED objs
      <4>1. /\ InUse # Objects
            /\ objs' = [objs EXCEPT ![CHOOSE x \in Objects \ InUse : TRUE] = InitializeDevice(job.addr, job.port)]
        BY <2>1, <3>2 DEF EnumerateDevice
      <4>2. Objects \ InUse # {}
        BY <4>1 DEF InUse
      <4>3. QED
        BY <4>1, <4>2, NewAlike
    <3>3. QED
      BY <3>1, <3>2
  <2>2. CASE EnumerateParent \/ NotifyArrived
    <3>1. UNCHANGED objs
      BY <2>2 DEF EnumerateParent, NotifyArrived, lists
    <3>2. QED
      BY <1>1, <3>1
  <2>3. CASE ConnectDevice
    BY <2>3, ConnectAlike
  <2>4. CASE DeviceDisconnected
    <3>1. CASE WithSessionId(job.addr) = {}
      BY <1>1, <2>4, <3>1 DEF DeviceDisconnected
    <3>2. CASE WithSessionId(job.addr) # {}
      <4>1. PICK d \in Objects : objs' = [RefDevices(objs, {d}) EXCEPT ![d].attached = FALSE]
        BY <2>4, <3>2, DisconnectDoes
      <4> DEFINE r == RefDevices(objs, {d})
      <4>2. \A x \in Objects : Alike(r[x], objs[x]) /\ r[x].attached = objs[x].attached /\ r[x] \in Device
        BY RefAlike
      <4>3. r \in [Objects -> Device]
        <5>1. r = [x \in Objects |-> r[x]]
          BY DEF RefDevices
        <5> HIDE DEF r
        <5>2. QED
          BY <4>2, <5>1
      <4>4. objs' = [r EXCEPT ![d].attached = FALSE]
        BY <4>1
      <4> HIDE DEF r
      <4>5. \A x \in Objects : Alike(objs'[x], r[x]) /\ (objs'[x].attached => r[x].attached)
        BY <4>3, <4>4 DEF Alike, Device
      <4>6. QED
        BY <4>2, <4>5 DEF StepAlike, Alike
    <3>3. QED
      BY <3>1, <3>2
  <2>5. CASE NotifyLeft
    <3> DEFINE b == up # "ready"
    <3>1. objs' = [objs EXCEPT ![job.obj].leaked = b]
      BY <2>5 DEF NotifyLeft
    <3> HIDE DEF b
    <3>2. \A x \in Objects : Alike(objs'[x], objs[x]) /\ objs'[x].attached = objs[x].attached
      BY <1>0, <3>1 DEF Alike, Device
    <3>3. QED
      BY <3>2 DEF StepAlike
  <2>6. CASE DropFound
    <3>1. job.obj \in Objects /\ objs' = UnrefDevice(objs, job.obj)
      BY <1>0, <2>6 DEF DropFound, Proper, Job, WorkPcs
    <3>2. QED
      BY <3>1, UnrefAlike
  <2>7. QED
    BY <1>5, <2>1, <2>2, <2>3, <2>4, <2>5, <2>6 DEF Enumeration
<1>6. CASE HotplugProcess
  <2>1. CASE MessageDone
    BY <1>0, <1>3, <2>1 DEF MessageDone
  <2>2. CASE TakeMessages \/ CallBack \/ FreeUnregistered
    <3>1. UNCHANGED objs
      BY <2>2 DEF TakeMessages, CallBack, FreeUnregistered, lists
    <3>2. QED
      BY <1>1, <3>1
  <2>3. QED
    BY <1>6, <2>1, <2>2 DEF HotplugProcess
<1>7. CASE SetUpTearDown
  <2>1. CASE FreeMessage
    BY <1>0, <1>3, <2>1 DEF FreeMessage
  <2>2. CASE FreeDevice
    <3>1. Head(devs) \in Objects /\ objs' = UnrefDevice(objs, Head(devs))
      BY <1>0, <2>2, HeadTailProperties DEF FreeDevice
    <3>2. QED
      BY <3>1, UnrefAlike
  <2>3. CASE ~ FreeMessage /\ ~ FreeDevice
    <3>1. UNCHANGED objs
      BY <1>7, <2>3 DEF SetUpTearDown, InitContext, StartMonitor, ScanDevices, ScanDevice, ScanDone,
                        HotplugInit, Exit, HotplugExit, StopMonitor, lists
    <3>2. QED
      BY <1>1, <3>1
  <2>4. QED
    BY <2>1, <2>2, <2>3
<1>8. CASE DeviceLists
  <2>1. CASE CopyList
    BY <1>2, <2>1 DEF CopyList, Discovered
  <2>2. CASE GetDeviceList \/ HotplugPoll
    <3>1. UNCHANGED objs
      BY <2>2 DEF GetDeviceList, HotplugPoll, lists
    <3>2. QED
      BY <1>1, <3>1
  <2>3. ASSUME NEW o \in Objects, FreeDeviceList(o)
        PROVE  StepAlike
    BY <2>3, UnrefAlike DEF FreeDeviceList
  <2>4. QED
    BY <1>8, <2>1, <2>2, <2>3 DEF DeviceLists
<1>9. CASE OpenAndClose
  <2>1. ASSUME NEW o \in Objects, Open(o)
        PROVE  StepAlike
    BY <1>2, <2>1 DEF Open, RefDevice
  <2>2. CASE OpenBackend \/ DisconnectGone
    <3>1. UNCHANGED objs
      BY <2>2 DEF OpenBackend, DisconnectGone, lists
    <3>2. QED
      BY <1>1, <3>1
  <2>3. CASE OpenFails
    <3>1. user.obj \in Objects /\ objs' = UnrefDevice(objs, user.obj)
      BY <1>0, <2>3 DEF OpenFails, OpenPcs, User
    <3>2. QED
      BY <3>1, UnrefAlike
  <2>4. CASE WrapSysDevice
    <3>1. objs' = [objs EXCEPT ![CHOOSE x \in Objects \ InUse : TRUE] = WrappedDevice]
          /\ Objects \ InUse # {}
      BY <2>4 DEF WrapSysDevice
    <3>2. QED
      BY <3>1, NewAlike
  <2>5. CASE Close
    <3>1. handle \in Objects /\ objs' = UnrefDevice(objs, handle)
      BY <1>0, <2>5 DEF Close
    <3>2. QED
      BY <3>1, UnrefAlike
  <2>6. QED
    BY <1>9, <2>1, <2>2, <2>3, <2>4, <2>5 DEF OpenAndClose
<1>10. CASE CallbackCalls
  <2>1. ASSUME NEW o \in Objects, FreeSnapshot(o)
        PROVE  StepAlike
    BY <2>1, UnrefAlike DEF FreeSnapshot
  <2>2. CASE ~ \E o \in Objects : FreeSnapshot(o)
    <3>1. UNCHANGED objs
      BY <1>10, <2>2 DEF CallbackCalls, RegisterCallback, DeregisterCallback, FireForListed, Registered, lists
    <3>2. QED
      BY <1>1, <3>1
  <2>3. QED
    BY <2>1, <2>2
<1>11. QED
  BY <1>4, <1>5, <1>6, <1>7, <1>8, <1>9, <1>10 DEF Next

-----------------------------------------------------------------------------
(* The devices on the list or on their way to it, and those the user has.  *)

Making == {o \in Objects : o = job.child \/ (o = job.obj /\ job.pc \in {"parent", "retry"})}
Near   == Range(devs) \union Making
Used   == {o \in Objects : o \in list \/ o = user.obj}

NearLive == \A o \in Near \union Used : o \in Objects /\ objs[o].refs > 0

LEMMA NearHeld == FlowInv /\ MemInv => NearLive
<1> SUFFICES ASSUME FlowInv, MemInv, NEW o \in Near \union Used
             PROVE  o \in Objects /\ objs[o].refs > 0
  BY DEF NearLive
<1>1. CASE o \in Range(devs)
  BY <1>1, HeldInMemory
<1>2. CASE o \in Making \union Used
  <2>1. o \in Objects /\ RefsOK
    BY <1>2, RefTypes DEF Making, Used
  <2>2. CASE o \in Making
    <3>1. One(job.obj = o /\ job.pc \in {"parent", "retry", "left"}) \in {0, 1} /\ One(job.child = o) \in {0, 1}
      BY OneIs
    <3>2. \/ One(job.obj = o /\ job.pc \in {"parent", "retry", "left"}) = 1
          \/ One(job.child = o) = 1
      BY <2>2 DEF Making, One
    <3>3. MakeRef(o) > 0
      BY <3>1, <3>2 DEF MakeRef
    <3>4. Held[o] > 0
      BY <2>1, <3>3 DEF RefsOK
    <3>5. QED
      BY <2>1, <3>4, HeldLive
  <2>3. CASE o \in Used
    <3>1. /\ One(o \in list) \in {0, 1} /\ One(o \in snap) \in {0, 1} /\ One(handle = o) \in {0, 1}
          /\ One(user.obj = o) \in {0, 1}
      BY OneIs
    <3>2. One(o \in list) = 1 \/ One(user.obj = o) = 1
      BY <2>3 DEF Used, One
    <3>3. UserRefs(o) > 0
      BY <3>1, <3>2 DEF UserRefs
    <3>4. Held[o] > 0
      BY <2>1, <3>3 DEF RefsOK
    <3>5. QED
      BY <2>1, <3>4, HeldLive
  <2>4. QED
    BY <1>2, <2>2, <2>3
<1>3. QED
  BY <1>1, <1>2 DEF Near

LEMMA StillThere ==
  ASSUME FlowInv, MemInv, FlowInv', MemInv', StepAlike,
         NEW o, o \in Near \union Used, (o \in Near \union Used)'
  PROVE  /\ o \in Objects /\ objs[o].refs > 0 /\ Alike(objs'[o], objs[o])
         /\ objs'[o].attached => objs[o].attached \/ o \in Range(devs')
<1>1. o \in Objects /\ objs[o].refs > 0
  BY NearHeld DEF NearLive
<1>2. objs'[o].refs > 0
  <2>1. NearLive'
    BY NearHeld, PTL
  <2>2. QED
    BY <2>1 DEF NearLive
<1>3. objs'[o] # Free /\ objs[o].refs # 0
  BY <1>1, <1>2 DEF Free
<1>4. QED
  BY <1>1, <1>3 DEF StepAlike

LEMMA NoneMade ==
  ASSUME job'.child = None, job'.pc \notin {"parent", "retry"}
  PROVE  Making' = {}
  BY DEF Making

LEMMA ResumeMakes ==
  ASSUME FlowInv, job' = Resume
  PROVE  Making' = {o \in Objects : o = job.child}
<1>1. /\ Resume.child = None
      /\ job.child # None => Resume.pc = "retry" /\ Resume.obj = job.child
      /\ job.child = None => Resume.pc \in {"idle", "more"} /\ Resume.obj = None
  BY FlowTypes, ResumeProper
<1>2. QED
  BY <1>1 DEF Making

\* A step that works on no device leaves none half made.
LEMMA WorkMakes ==
  ASSUME NEW by, NEW m
  PROVE  /\ Work(by, m).child = None /\ Work(by, m).pc \in {"enumerate", "disconnect"}
         /\ Work(by, m).addr = m.addr /\ Work(by, m).port = m.port /\ Work(by, m).obj = None
         /\ Work(by, m).pc = "enumerate" <=> m.kind = "add"
         /\ NoJob.child = None /\ NoJob.pc = "idle" /\ NoJob.obj = None
         /\ [NoJob EXCEPT !.by = by, !.pc = "more"].child = None
         /\ [NoJob EXCEPT !.by = by, !.pc = "more"].pc = "more"
  BY DEF Work, NoJob

LEMMA NearEnumeration ==
  ASSUME FlowInv, MemInv, Enumeration, ~ EnumerateDevice
  PROVE  Near' \subseteq Near
<1>0. Proper(job) /\ job \in Job
  BY FlowTypes
<1>1. CASE EnumerateParent
  <2>1. devs' = devs /\ job.pc = "parent" /\ job'.pc = "enumerate" /\ job'.child = job.obj
    BY <1>0, <1>1 DEF EnumerateParent, ParentFirst, lists, Job
  <2>2. QED
    BY <2>1 DEF Near, Making
<1>2. CASE ConnectDevice
  <2>1. /\ Range(devs') = Range(devs) \union {job.obj} /\ job'.pc = "arrived" /\ job'.child = job.child
        /\ job.obj \in Objects /\ job.pc \in {"parent", "retry"}
    BY <1>2, ConnectDoes DEF ConnectDevice
  <2>2. QED
    BY <2>1 DEF Near, Making
<1>3. CASE NotifyArrived \/ DropFound
  <2>1. job' = Resume /\ devs' = devs
    BY <1>3 DEF NotifyArrived, DropFound
  <2>2. QED
    BY <2>1, ResumeMakes DEF Near, Making
<1>4. CASE NotifyLeft
  <2>1. devs' = devs /\ job'.pc = "drop" /\ job'.child = job.child
    BY <1>0, <1>4 DEF NotifyLeft, Job
  <2>2. QED
    BY <2>1 DEF Near, Making
<1>5. CASE DeviceDisconnected
  <2>1. CASE WithSessionId(job.addr) = {}
    <3>1. job' = Resume /\ devs' = devs
      BY <1>5, <2>1 DEF DeviceDisconnected
    <3>2. QED
      BY <3>1, ResumeMakes DEF Near, Making
  <2>2. CASE WithSessionId(job.addr) # {}
    <3>1. PICK d : Range(devs') = Range(devs) \ {d} /\ job'.pc = "left" /\ job'.child = job.child
      BY <1>5, <2>2, DisconnectDoes
    <3>2. QED
      BY <3>1 DEF Near, Making
  <2>3. QED
    BY <2>1, <2>2
<1>6. QED
  BY <1>1, <1>2, <1>3, <1>4, <1>5 DEF Enumeration

LEMMA NearRest ==
  ASSUME FlowInv, MemInv, [Next]_vars, ~ Enumeration
  PROVE  Near' \subseteq Near
<1>0. devs \in Seq(Objects) /\ job \in Job
  BY FlowTypes DEF ListsOK
<1>1. CASE UNCHANGED <<devs, job>>
  BY <1>1 DEF Near, Making
<1>2. ASSUME UNCHANGED devs, job'.child = None, job'.pc \notin {"parent", "retry"}
      PROVE  Near' \subseteq Near
  BY <1>2, NoneMade DEF Near
<1>3. CASE Monitor \/ HotplugPoll
  <2>1. devs' = devs /\ (job' = NoJob \/ \E by : job' = Work(by, Head(queue)))
    BY <1>3 DEF Monitor, HotplugPoll, ReadMessage, lists
  <2>2. QED
    BY <1>2, <2>1, WorkMakes
<1>4. CASE SetUpTearDown
  <2>1. CASE ScanDevices \/ ScanDone
    <3>1. devs' = devs /\ job' \in {NoJob, [NoJob EXCEPT !.by = "scan", !.pc = "more"]}
      BY <2>1 DEF ScanDevices, ScanDone, lists
    <3>2. QED
      BY <1>2, <3>1, WorkMakes
  <2>2. ASSUME NEW p \in Ports, ScanDevice(p)
        PROVE  Near' \subseteq Near
    <3>1. devs' = devs /\ (job' = job \/ \E m : job' = Work("scan", m))
      BY <2>2 DEF ScanDevice, lists
    <3>2. QED
      BY <1>1, <1>2, <3>1, WorkMakes
  <2>3. CASE FreeDevice
    <3>1. devs' = Tail(devs) /\ devs # <<>> /\ job' = job
      BY <2>3 DEF FreeDevice
    <3>2. Range(Tail(devs)) \subseteq Range(devs)
      <4> DEFINE t == Tail(devs)
      <4>1. t \in Seq(Objects) /\ Len(t) = Len(devs) - 1 /\ \A i \in 1..Len(t) : t[i] = devs[i + 1]
        BY <1>0, <3>1, HeadTailProperties
      <4>2. Len(devs) \in Nat /\ Len(t) \in Nat
        BY <1>0, <4>1, LenProperties
      <4>3. \A i \in 1..Len(t) : i + 1 \in 1..Len(devs)
        BY <4>1, <4>2
      <4> HIDE DEF t
      <4>4. ASSUME NEW o \in Range(t)
            PROVE  o \in Range(devs)
        <5>1. PICK i \in 1..Len(t) : t[i] = o
          BY <4>1, RangeIs
        <5>2. i + 1 \in 1..Len(devs) /\ devs[i + 1] = o
          BY <4>1, <4>3, <5>1
        <5>3. QED
          BY <1>0, <5>2, RangeIs
      <4>5. QED
        BY <4>4 DEF t
    <3>3. Making' = Making
      BY <3>1 DEF Making
    <3>4. QED
      BY <3>1, <3>2, <3>3 DEF Near
  <2>4. CASE InitContext \/ StartMonitor \/ HotplugInit \/ Exit \/ HotplugExit \/ FreeMessage \/ StopMonitor
    <3>1. UNCHANGED <<devs, job>>
      BY <2>4 DEF InitContext, StartMonitor, HotplugInit, Exit, HotplugExit, FreeMessage, StopMonitor, lists
    <3>2. QED
      BY <1>1, <3>1
  <2>5. QED
    BY <1>4, <2>1, <2>2, <2>3, <2>4 DEF SetUpTearDown
<1>5. CASE DisconnectGone
  <2>1. devs' = devs /\ (job' = NoJob \/ \E m : job' = Work("open", m))
    BY <1>5 DEF DisconnectGone, lists
  <2>2. QED
    BY <1>2, <2>1, WorkMakes
<1>6. CASE Kernel \/ HotplugProcess \/ UNCHANGED vars
  <2>1. UNCHANGED <<devs, job>>
    BY <1>6 DEF Kernel, Plug, Unplug, OtherUevent, HotplugProcess, TakeMessages, CallBack,
                MessageDone, FreeUnregistered, vars, lists
  <2>2. QED
    BY <1>1, <2>1
<1>7. CASE DeviceLists /\ ~ HotplugPoll
  <2>1. UNCHANGED <<devs, job>>
    BY <1>7 DEF DeviceLists, GetDeviceList, CopyList, FreeDeviceList, lists
  <2>2. QED
    BY <1>1, <2>1
<1>8. CASE OpenAndClose /\ ~ DisconnectGone
  <2>1. UNCHANGED <<devs, job>>
    BY Zenon, <1>8 DEF OpenAndClose, Open, OpenBackend, OpenFails, WrapSysDevice, Close, lists
  <2>2. QED
    BY <1>1, <2>1
<1>9. CASE CallbackCalls
  <2>1. UNCHANGED <<devs, job>>
    BY <1>9 DEF CallbackCalls, RegisterCallback, DeregisterCallback, FireForListed, FreeSnapshot,
                Registered, lists
  <2>2. QED
    BY <1>1, <2>1
<1>10. QED
  BY <1>3, <1>4, <1>5, <1>6, <1>7, <1>8, <1>9 DEF Next

\* What a step of the user thread makes of it.
UserMoves(pc) ==
  \/ user' = Calling(pc) \/ user' = [user EXCEPT !.pc = pc]
  \/ pc = "idle" /\ user' = Idle
  \/ \E S : user' = [user EXCEPT !.pc = pc, !.todo = S]
  \/ \E b : user' = [user EXCEPT !.pc = pc, !.cut = b]
  \/ \E x, y : user' = [Calling(pc) EXCEPT !.asked = x, !.since = y]
  \/ pc = user.pc /\ \E S : user' = [user EXCEPT !.todo = S]

LEMMA UserMoved ==
  ASSUME user \in User, NEW pc, UserMoves(pc)
  PROVE  user'.pc = pc /\ user'.obj \in {user.obj, None}
<1>1. CASE \/ user' = Calling(pc)
           \/ \E x, y : user' = [Calling(pc) EXCEPT !.asked = x, !.since = y]
  BY <1>1 DEF Calling, Idle
<1>2. CASE \/ user' = [user EXCEPT !.pc = pc]
           \/ pc = user.pc /\ \E S : user' = [user EXCEPT !.todo = S]
           \/ \E S : user' = [user EXCEPT !.pc = pc, !.todo = S]
           \/ \E b : user' = [user EXCEPT !.pc = pc, !.cut = b]
  BY <1>2 DEF User
<1>3. CASE pc = "idle" /\ user' = Idle
  <2>1. Idle.pc = "idle" /\ Idle.obj = None
    BY DEF Idle
  <2>2. QED
    BY <1>3, <2>1
<1>4. QED
  BY <1>1, <1>2, <1>3 DEF UserMoves

LEMMA UserNext ==
  ASSUME FlowInv, [Next]_vars
  PROVE  /\ user'.obj \in {user.obj, None} \union list
         /\ \/ user' = user
            \/ user'.pc \notin {"poll", "copy", "gone"} /\ (user.pc = "copy" => CopyList)
            \/ user'.pc = "poll" /\ (GetDeviceList \/ user'.cb # None)
            \/ user'.pc = "copy" /\ HotplugPoll
            \/ user'.pc = "gone" /\ OpenBackend
<1> DEFINE Pcs == {"idle", "start", "started", "scan", "scanned", "hotplug_exit", "free", "fire",
                   "free_list", "failed"}
<1>0. user \in User
  BY DEF FlowInv, StepsOK
<1>1. CASE Kernel \/ Enumeration \/ Monitor \/ HotplugProcess \/ UNCHANGED vars
  <2>1. user' = user
    BY <1>1 DEF Kernel, Plug, Unplug, OtherUevent, Enumeration, EnumerateDevice, EnumerateParent,
                ConnectDevice, NotifyArrived, DeviceDisconnected, NotifyLeft, DropFound, Monitor,
                HotplugProcess, TakeMessages, CallBack, MessageDone, FreeUnregistered, vars
  <2>2. QED
    BY <2>1
<1>2. CASE SetUpTearDown
  <2>1. user' = user \/ (user.pc # "copy" /\ \E pc \in Pcs : UserMoves(pc))
    BY Zenon, <1>2 DEF SetUpTearDown, InitContext, StartMonitor, ScanDevices, ScanDevice, ScanDone,
                HotplugInit, Exit, HotplugExit, FreeMessage, FreeDevice, StopMonitor, UserMoves
  <2>2. QED
    BY <1>0, <2>1, UserMoved
<1>3. CASE DeviceLists
  <2>1. \/ user' = user
        \/ (user.pc # "copy" \/ CopyList) /\ \E pc \in Pcs : UserMoves(pc)
        \/ GetDeviceList /\ UserMoves("poll")
        \/ HotplugPoll /\ UserMoves("copy")
    BY Zenon, <1>3 DEF DeviceLists, GetDeviceList, HotplugPoll, CopyList, FreeDeviceList, UserMoves
  <2>2. QED
    BY <1>0, <2>1, UserMoved
<1>4. CASE OpenAndClose
  <2>1. \/ user' = user
        \/ user.pc # "copy" /\ \E pc \in Pcs : UserMoves(pc)
        \/ user.pc # "copy" /\ \E o \in list : user' = [user EXCEPT !.pc = "open", !.obj = o]
        \/ OpenBackend /\ UserMoves("gone")
    BY Zenon, <1>4 DEF OpenAndClose, Open, OpenBackend, DisconnectGone, OpenFails, WrapSysDevice, Close,
                       Ready, UserMoves
  <2>2. ASSUME NEW o \in list, user' = [user EXCEPT !.pc = "open", !.obj = o]
        PROVE  user'.pc = "open" /\ user'.obj \in list
    BY <1>0, <2>2 DEF User
  <2>3. QED
    BY <1>0, <2>1, <2>2, UserMoved
<1>5. CASE CallbackCalls
  <2>1. \/ user' = user
        \/ user.pc # "copy" /\ \E pc \in Pcs : UserMoves(pc)
        \/ \E c \in Callbacks : user' = [Calling("poll") EXCEPT !.cb = c]
    BY Zenon, <1>5 DEF CallbackCalls, RegisterCallback, DeregisterCallback, FireForListed, FreeSnapshot,
                       Registered, Ready, UserMoves
  <2>2. ASSUME NEW c \in Callbacks, user' = [Calling("poll") EXCEPT !.cb = c]
        PROVE  user'.pc = "poll" /\ user'.obj = None /\ user'.cb # None
    BY <2>2 DEF Calling, Idle
  <2>3. QED
    BY <1>0, <2>1, <2>2, UserMoved
<1>6. QED
  BY <1>1, <1>2, <1>3, <1>4, <1>5 DEF Next

\* A user takes devices off the list, and opens those it has.
LEMMA UsedNext ==
  ASSUME FlowInv, [Next]_vars
  PROVE  Used' \subseteq Used \union Range(devs)
<1>1. CASE DeviceLists
  BY <1>1, UserNext DEF Used, DeviceLists, GetDeviceList, HotplugPoll, CopyList, FreeDeviceList, refs
<1>2. CASE ~ DeviceLists
  <2>1. list' = list
    BY Zenon, <1>2 DEF Next, Kernel, Plug, Unplug, OtherUevent, Enumeration, EnumerateDevice,
       EnumerateParent, ConnectDevice, NotifyArrived, DeviceDisconnected, NotifyLeft, DropFound, Monitor,
       HotplugProcess, TakeMessages, CallBack, MessageDone, FreeUnregistered, SetUpTearDown, InitContext,
       StartMonitor, ScanDevices, ScanDevice, ScanDone, HotplugInit, Exit, HotplugExit, FreeMessage,
       FreeDevice, StopMonitor, OpenAndClose, Open, OpenBackend, DisconnectGone, OpenFails,
       WrapSysDevice, Close, CallbackCalls, RegisterCallback, DeregisterCallback, FireForListed,
       FreeSnapshot, Registered, refs, vars
  <2>2. QED
    BY <2>1, UserNext DEF Used
<1>3. QED
  BY <1>1, <1>2

-----------------------------------------------------------------------------
(* The bus, and which device is where.                                     *)

PlugInv ==
  /\ \A p \in Ports : /\ plugged[p].addr = 0 <=> plugged[p] = NotPlugged
                      /\ plugged[p].serial <= serial
  /\ plugged[Hub].addr = plugged[Leaf].addr => plugged[Hub] = NotPlugged

\* What m says of a bus that was old and is new.
Tells(m, old, new) ==
  /\ m.kind # "other" => m.addr # 0
  /\ \A addr : addr # 0 /\ At(new, addr) => At(old, addr) \/ Of(m, "add", addr)
  /\ \A p \in Ports : \A addr : addr # 0 /\ old[p].addr = addr
                                => new[p].addr = addr \/ Of(m, "remove", addr)
  /\ m.kind = "remove" => ~ At(new, m.addr)
  /\ m.kind = "add" => new[m.port].addr = m.addr
  /\ \A p \in Ports : \/ new[p] = old[p]
                      \/ new[p] = NotPlugged /\ Of(m, "remove", old[p].addr)
                      \/ old[p] = NotPlugged /\ Of(m, "add", new[p].addr)
LEMMA PlugDoes ==
  ASSUME BusOK, PlugInv, NEW p \in Ports, Plug(p)
  PROVE  /\ PlugInv'
         /\ \A q \in Ports : plugged'[q] = plugged[q] \/ plugged'[q].serial = serial'
         /\ \E m \in Uevents : Deliver(m) /\ Tells(m, plugged, plugged')
<1>1. PICK a \in Addresses \ {plugged[q].addr : q \in Ports} :
         /\ plugged' = [plugged EXCEPT ![p] = [addr |-> a, serial |-> serial']]
         /\ Deliver([kind |-> "add", addr |-> a, port |-> p])
  BY DEF Plug
<1>2. plugged[p] = NotPlugged /\ serial' = serial + 1 /\ serial \in Nat /\ plugged \in [Ports -> Plugs]
  BY DEF Plug, BusOK
<1>3. a \in Addresses /\ a # 0 /\ \A q \in Ports : plugged[q].addr # a
  BY <1>1
<1> DEFINE new == [addr |-> a, serial |-> serial']
           m   == [kind |-> "add", addr |-> a, port |-> p]
<1>4. /\ plugged'[p].addr = a /\ plugged'[p].serial = serial' /\ plugged'[p] # NotPlugged
      /\ \A q \in Ports : q # p => plugged'[q] = plugged[q]
  BY <1>1, <1>2, <1>3 DEF NotPlugged
<1>5. /\ m \in Uevents /\ m.kind = "add" /\ m.addr = a /\ m.port = p
      /\ \A addr : Of(m, "add", addr) <=> addr = a
      /\ \A addr : ~ Of(m, "remove", addr)
  BY <1>3 DEF Uevents, Of
<1>6. Deliver(m)
  BY <1>1
<1>7. plugged[p].addr = 0
  BY <1>2 DEF NotPlugged
<1> HIDE DEF m
<1>8. Tells(m, plugged, plugged')
  <2>1. \A addr : addr # 0 /\ At(plugged', addr) => At(plugged, addr) \/ Of(m, "add", addr)
    BY <1>4, <1>5 DEF At
  <2>2. \A q \in Ports : \A addr : addr # 0 /\ plugged[q].addr = addr
                                  => plugged'[q].addr = addr \/ Of(m, "remove", addr)
    BY <1>4, <1>7
  <2>3. \A q \in Ports : plugged'[q] = plugged[q] \/ (plugged[q] = NotPlugged /\ Of(m, "add", plugged'[q].addr))
    BY <1>2, <1>4, <1>5
  <2>4. m.kind = "add" => plugged'[m.port].addr = m.addr
    BY <1>4, <1>5
  <2>5. m.kind # "remove" /\ m.addr # 0
    BY <1>3, <1>5
  <2>6. QED
    BY <2>1, <2>2, <2>3, <2>4, <2>5 DEF Tells
<1>9. PlugInv'
  <2>1. ASSUME NEW q \in Ports
        PROVE  (plugged'[q].addr = 0 <=> plugged'[q] = NotPlugged) /\ plugged'[q].serial <= serial'
    <3>1. CASE q = p
      BY <1>2, <1>3, <1>4, <3>1
    <3>2. CASE q # p
      <4>1. plugged'[q] = plugged[q] /\ plugged[q].serial \in Nat
        BY <1>2, <1>4, <3>2 DEF Plugs
      <4>2. QED
        BY <1>2, <4>1 DEF PlugInv
    <3>3. QED
      BY <3>1, <3>2
  <2>2. plugged'[Hub].addr # plugged'[Leaf].addr
    BY <1>3, <1>4 DEF Ports
  <2>3. QED
    BY <2>1, <2>2 DEF PlugInv
<1>10. \A q \in Ports : plugged'[q] = plugged[q] \/ plugged'[q].serial = serial'
  BY <1>4
<1>11. QED
  BY <1>5, <1>6, <1>8, <1>9, <1>10

LEMMA UnplugDoes ==
  ASSUME BusOK, PlugInv, NEW p \in Ports, Unplug(p)
  PROVE  /\ PlugInv'
         /\ \A q \in Ports : plugged'[q] = plugged[q] \/ plugged'[q] = NotPlugged
         /\ \E m \in Uevents : Deliver(m) /\ Tells(m, plugged, plugged')
<1> DEFINE a == plugged[p].addr
           m == [kind |-> "remove", addr |-> a, port |-> p]
<1>1. /\ plugged' = [plugged EXCEPT ![p] = NotPlugged] /\ Deliver(m)
      /\ serial' = serial + 1 /\ plugged[p] # NotPlugged
  BY DEF Unplug
<1>2. serial \in Nat /\ plugged \in [Ports -> Plugs]
  BY DEF BusOK
<1>3. a # 0 /\ a \in Addresses
  BY <1>1, <1>2 DEF PlugInv, Plugs
<1>4. plugged'[p] = NotPlugged /\ \A q \in Ports : q # p => plugged'[q] = plugged[q]
  BY <1>1, <1>2
<1>5. NotPlugged.addr = 0 /\ NotPlugged.serial = 0
  BY DEF NotPlugged
<1>6. /\ m \in Uevents /\ m.kind = "remove" /\ m.addr = a
      /\ \A addr : Of(m, "remove", addr) <=> addr = a
      /\ \A addr : ~ Of(m, "add", addr)
  BY <1>3 DEF Uevents, Of
<1>7. \A q \in Ports : q # p => plugged[q].addr # a
  BY <1>1, <1>3 DEF PlugInv, Ports
<1> HIDE DEF m, a
<1>8. Tells(m, plugged, plugged')
  <2>1. \A addr : addr # 0 /\ At(plugged', addr) => At(plugged, addr)
    BY <1>4, <1>5 DEF At
  <2>2. \A q \in Ports : \A addr : addr # 0 /\ plugged[q].addr = addr
                                  => plugged'[q].addr = addr \/ Of(m, "remove", addr)
    BY <1>4, <1>6 DEF a
  <2>3. \A q \in Ports : plugged'[q] = plugged[q] \/ (plugged'[q] = NotPlugged /\ Of(m, "remove", plugged[q].addr))
    BY <1>4, <1>6 DEF a
  <2>4. ~ At(plugged', a)
    BY <1>3, <1>4, <1>5, <1>7 DEF At
  <2>5. QED
    BY <1>3, <1>6, <2>1, <2>2, <2>3, <2>4 DEF Tells
<1>9. PlugInv'
  <2>1. ASSUME NEW q \in Ports
        PROVE  (plugged'[q].addr = 0 <=> plugged'[q] = NotPlugged) /\ plugged'[q].serial <= serial'
    <3>1. CASE q = p
      BY <1>1, <1>2, <1>4, <1>5, <3>1
    <3>2. CASE q # p
      <4>1. plugged'[q] = plugged[q] /\ plugged[q].serial \in Nat
        BY <1>2, <1>4, <3>2 DEF Plugs
      <4>2. QED
        BY <1>1, <1>2, <4>1 DEF PlugInv
    <3>3. QED
      BY <3>1, <3>2
  <2>2. plugged'[Hub].addr = plugged'[Leaf].addr => plugged'[Hub] = NotPlugged
    <3>1. CASE p = Hub
      BY <1>4, <3>1
    <3>2. CASE p = Leaf
      BY <1>4, <1>5, <2>1, <3>2 DEF Ports
    <3>3. QED
      BY <3>1, <3>2 DEF Ports
  <2>3. QED
    BY <2>1, <2>2 DEF PlugInv
<1>10. \A q \in Ports : plugged'[q] = plugged[q] \/ plugged'[q] = NotPlugged
  BY <1>4
<1>11. QED
  BY <1>1, <1>6, <1>8, <1>9, <1>10

LEMMA KernelDoes ==
  ASSUME BusOK, PlugInv, Kernel
  PROVE  /\ PlugInv' /\ serial' = serial + 1
         /\ UNCHANGED <<up, monitor, lists, batch, cblist, job, user, refs, told>>
         /\ \A q \in Ports : \/ plugged'[q] = plugged[q] \/ plugged'[q] = NotPlugged
                             \/ plugged'[q].serial = serial'
         /\ \E m \in Uevents : Deliver(m) /\ Tells(m, plugged, plugged')
<1>1. serial' = serial + 1 /\ UNCHANGED <<up, monitor, lists, batch, cblist, job, user, refs, told>>
  BY DEF Kernel, Plug, Unplug, OtherUevent
<1>2. CASE OtherUevent
  <2> DEFINE m == [kind |-> "other", addr |-> 0, port |-> Hub]
  <2>1. Deliver(m) /\ plugged' = plugged /\ m \in Uevents /\ m.kind = "other"
    BY <1>2 DEF OtherUevent, Uevents, Ports
  <2> HIDE DEF m
  <2>2. Tells(m, plugged, plugged')
    BY <2>1 DEF Tells
  <2>3. PlugInv'
    <3>1. serial \in Nat /\ \A p \in Ports : plugged[p].serial \in Nat
      BY DEF BusOK, Plugs
    <3>2. QED
      BY <1>1, <2>1, <3>1 DEF PlugInv
  <2>4. QED
    BY <1>1, <2>1, <2>2, <2>3
<1>3. ASSUME NEW p \in Ports, Plug(p)
      PROVE  /\ PlugInv'
             /\ \A q \in Ports : plugged'[q] = plugged[q] \/ plugged'[q].serial = serial'
             /\ \E m \in Uevents : Deliver(m) /\ Tells(m, plugged, plugged')
  BY <1>3, PlugDoes
<1>4. ASSUME NEW p \in Ports, Unplug(p)
      PROVE  /\ PlugInv'
             /\ \A q \in Ports : plugged'[q] = plugged[q] \/ plugged'[q] = NotPlugged
             /\ \E m \in Uevents : Deliver(m) /\ Tells(m, plugged, plugged')
  BY <1>4, UnplugDoes
<1>5. QED
  BY <1>1, <1>2, <1>3, <1>4 DEF Kernel

LEMMA BusRest ==
  ASSUME [Next]_vars
  PROVE  \/ Kernel
         \/ /\ UNCHANGED <<plugged, serial>>
            /\ \/ queue' \in {queue, <<>>} \/ (queue # <<>> /\ queue' = Tail(queue))
BY Zenon DEF Next, Enumeration, EnumerateDevice, EnumerateParent, ConnectDevice, NotifyArrived,
       DeviceDisconnected, NotifyLeft, DropFound, Monitor, ReadMessage, HotplugProcess, TakeMessages,
       CallBack, MessageDone, FreeUnregistered, SetUpTearDown, InitContext, StartMonitor, ScanDevices,
       ScanDevice, ScanDone, HotplugInit, Exit, HotplugExit, FreeMessage, FreeDevice, StopMonitor,
       DeviceLists, GetDeviceList, HotplugPoll, CopyList, FreeDeviceList, OpenAndClose, Open,
       OpenBackend, DisconnectGone, OpenFails, WrapSysDevice, Close, CallbackCalls, RegisterCallback,
       DeregisterCallback, FireForListed, FreeSnapshot, Registered, bus, vars

\* How work begins.
LEMMA JobStarts ==
  ASSUME [Next]_vars, ~ Enumeration
  PROVE  \/ job' = job
         \/ job' \in {NoJob, [NoJob EXCEPT !.by = "scan", !.pc = "more"]}
         \/ /\ queue # <<>> /\ Head(queue).kind # "other" /\ up # "stopping"
            /\ \E by : job' = Work(by, Head(queue))
         \/ \E p \in Ports : /\ Readable(p) /\ user.pc = "scan"
                             /\ \E m : job' = Work("scan", m) /\ m.addr = plugged[p].addr
         \/ /\ DisconnectGone
            /\ \E m : job' = Work("open", m) /\ m.addr = objs[user.obj].addr
<1>1. CASE UNCHANGED job
  BY <1>1
<1>2. CASE Monitor \/ HotplugPoll
  <2>1. job' = NoJob \/ (queue # <<>> /\ \E by : ReadMessage(by))
    BY <1>2 DEF Monitor, HotplugPoll
  <2>2. QED
    BY <2>1 DEF ReadMessage
<1>3. CASE SetUpTearDown
  <2>1. ASSUME NEW p \in Ports, ScanDevice(p)
        PROVE  \/ job' = job
               \/ /\ Readable(p) /\ user.pc = "scan"
                  /\ \E m : job' = Work("scan", m) /\ m.addr = plugged[p].addr
    <3> DEFINE m == [kind |-> "add", addr |-> GetDeviceAddress(p), port |-> p]
    <3>1. user.pc = "scan" /\ job' = IF Readable(p) THEN Work("scan", m) ELSE job
      BY <2>1 DEF ScanDevice
    <3>2. m.addr = plugged[p].addr
      BY DEF GetDeviceAddress
    <3> HIDE DEF m
    <3>3. QED
      BY <3>1, <3>2
  <2>2. CASE ~ \E p \in Ports : ScanDevice(p)
    <3>1. \/ UNCHANGED job
          \/ job' \in {NoJob, [NoJob EXCEPT !.by = "scan", !.pc = "more"]}
      BY <1>3, <2>2 DEF SetUpTearDown, InitContext, StartMonitor, ScanDevices, ScanDone, HotplugInit,
                        Exit, HotplugExit, FreeMessage, FreeDevice, StopMonitor
    <3>2. QED
      BY <3>1
  <2>3. QED
    BY <2>1, <2>2
<1>4. CASE DisconnectGone
  <2> DEFINE m == [kind |-> "remove", addr |-> objs[user.obj].addr, port |-> Hub]
  <2>1. job' = NoJob \/ job' = Work("open", m)
    BY <1>4 DEF DisconnectGone
  <2>2. m.addr = objs[user.obj].addr
    OBVIOUS
  <2> HIDE DEF m
  <2>3. QED
    BY <1>4, <2>1, <2>2
<1>5. CASE Kernel \/ HotplugProcess \/ UNCHANGED vars
  BY <1>1, <1>5 DEF Kernel, Plug, Unplug, OtherUevent, HotplugProcess, TakeMessages, CallBack,
                    MessageDone, FreeUnregistered, vars
<1>6. CASE DeviceLists /\ ~ HotplugPoll
  BY <1>1, <1>6 DEF DeviceLists, GetDeviceList, CopyList, FreeDeviceList
<1>7. CASE OpenAndClose /\ ~ DisconnectGone
  BY Zenon, <1>1, <1>7 DEF OpenAndClose, Open, OpenBackend, OpenFails, WrapSysDevice, Close
<1>8. CASE CallbackCalls
  BY <1>1, <1>8 DEF CallbackCalls, RegisterCallback, DeregisterCallback, FireForListed, FreeSnapshot,
                    Registered
<1>9. QED
  BY <1>2, <1>3, <1>4, <1>5, <1>6, <1>7, <1>8 DEF Next

LEMMA EnumerationJob ==
  ASSUME FlowInv, Enumeration
  PROVE  EnumerateParent \/ job' = Resume \/ job'.pc \in WorkPcs
<1>1. job \in Job
  BY FlowTypes
<1>2. QED
  BY <1>1 DEF Enumeration, EnumerateDevice, ConnectDevice, NotifyArrived, DeviceDisconnected, NotifyLeft,
              DropFound, Job, WorkPcs

\* What is made is what the port shows.
LEMMA EnumerateDoes ==
  ASSUME FlowInv, MemInv, EnumerateDevice
  PROVE  /\ UNCHANGED <<plugged, serial, queue, up, monitor, devs, user, list>>
         /\ \/ /\ WithSessionId(job.addr) # {} \/ ~ Readable(job.port) \/ InUse = Objects
               /\ job' = Resume /\ objs' = objs
               /\ InUse = Objects => lost'
            \/ \E o \in Objects :
                 /\ WithSessionId(job.addr) = {} /\ Readable(job.port)
                 /\ objs[o].refs = 0 /\ \A x \in Objects : x # o => objs'[x] = objs[x]
                 /\ objs'[o].addr = job.addr /\ objs'[o].port = job.port
                 /\ objs'[o].serial = plugged[job.port].serial
                 /\ job'.pc = "parent" /\ job'.obj = o /\ job'.child = job.child
                 /\ job'.addr = job.addr /\ job'.port = job.port
<1>1. UNCHANGED <<plugged, serial, queue, up, monitor, devs, user, list>>
  BY DEF EnumerateDevice, refs
<1>2. job \in Job /\ objs \in [Objects -> Device] /\ lost \in BOOLEAN
  BY FlowTypes DEF MemInv, Sound, FlowInv, BusOK
<1> DEFINE stays == WithSessionId(job.addr) # {} \/ ~ Readable(job.port) \/ InUse = Objects
<1>3. CASE stays
  BY <1>1, <1>2, <1>3 DEF EnumerateDevice
<1>4. CASE ~ stays
  <2> DEFINE o == CHOOSE x \in Objects \ InUse : TRUE
             d == InitializeDevice(job.addr, job.port)
  <2>1. objs' = [objs EXCEPT ![o] = d] /\ job' = [job EXCEPT !.pc = "parent", !.obj = o]
    BY <1>4 DEF EnumerateDevice
  <2>2. o \in Objects \ InUse
    BY <1>4 DEF InUse
  <2>3. o \in Objects /\ objs[o].refs = 0
    BY <1>2, <2>2 DEF InUse, Device
  <2>4. d.addr = job.addr /\ d.port = job.port /\ d.serial = plugged[job.port].serial
    BY DEF InitializeDevice, AllocDevice, Free
  <2> HIDE DEF o, d
  <2>5. objs'[o] = d /\ \A x \in Objects : x # o => objs'[x] = objs[x]
    BY <1>2, <2>1, <2>3
  <2>6. /\ job'.pc = "parent" /\ job'.obj = o /\ job'.child = job.child
        /\ job'.addr = job.addr /\ job'.port = job.port
    BY <1>2, <2>1 DEF Job
  <2>7. QED
    BY <1>1, <1>4, <2>3, <2>4, <2>5, <2>6
<1>5. QED
  BY <1>3, <1>4

\* Only the enumeration of a device brings another near.
LEMMA NearNext ==
  ASSUME FlowInv, MemInv, [Next]_vars
  PROVE  \/ Near' \subseteq Near
         \/ /\ EnumerateDevice /\ WithSessionId(job.addr) = {} /\ Readable(job.port)
            /\ job'.pc = "parent" /\ job'.obj \in Objects /\ objs[job'.obj].refs = 0
            /\ \A x \in Objects : x # job'.obj => objs'[x] = objs[x]
            /\ objs'[job'.obj].addr = job.addr /\ objs'[job'.obj].port = job.port
            /\ objs'[job'.obj].serial = plugged[job.port].serial
            /\ Near' = Near \union {job'.obj}
<1>1. CASE ~ EnumerateDevice
  BY <1>1, NearRest, NearEnumeration
<1>2. CASE EnumerateDevice
  <2>1. CASE job' = Resume
    <3>1. Making' = {o \in Objects : o = job.child} /\ devs' = devs
      BY <1>2, <2>1, ResumeMakes, EnumerateDoes
    <3>2. QED
      BY <3>1 DEF Near, Making
  <2>2. CASE job' # Resume
    <3>1. PICK o \in Objects :
            /\ WithSessionId(job.addr) = {} /\ Readable(job.port)
            /\ objs[o].refs = 0 /\ \A x \in Objects : x # o => objs'[x] = objs[x]
            /\ objs'[o].addr = job.addr /\ objs'[o].port = job.port
            /\ objs'[o].serial = plugged[job.port].serial
            /\ job'.pc = "parent" /\ job'.obj = o /\ job'.child = job.child
      BY <1>2, <2>2, EnumerateDoes
    <3>2. devs' = devs /\ job.pc = "enumerate"
      BY <1>2, EnumerateDoes DEF EnumerateDevice
    <3>3. Near' = Near \union {o}
      BY <3>1, <3>2 DEF Near, Making
    <3>4. QED
      BY <1>2, <3>1, <3>3
  <2>3. QED
    BY <2>1, <2>2
<1>3. QED
  BY <1>1, <1>2

JobAddressed == job.pc \in {"enumerate", "disconnect"} => job.addr # 0
NearInv == \A o \in Near \union Used : objs[o].addr # 0 /\ objs[o].serial <= serial
BaseInv == PlugInv /\ Addressed(queue) /\ JobAddressed /\ NearInv

LEMMA NearInvNext ==
  ASSUME FlowInv, MemInv, FlowInv', MemInv', BaseInv, [Next]_vars
  PROVE  NearInv'
<1>0. /\ PlugInv /\ NearInv /\ JobAddressed /\ StepAlike /\ serial \in Nat
      /\ plugged \in [Ports -> Plugs] /\ objs \in [Objects -> Device] /\ job \in Job
  BY MemoryStep, FlowTypes DEF BaseInv, FlowInv, BusOK, MemInv, Sound
<1>1. serial' = serial \/ serial' = serial + 1
  <2>1. CASE Kernel
    BY <2>1, KernelDoes, FlowTypes DEF BaseInv, FlowInv
  <2>2. CASE ~ Kernel
    BY <2>2, BusRest
  <2>3. QED
    BY <2>1, <2>2
<1>2. ASSUME NEW o, (o \in Near \union Used)', o \in Near \union Used
      PROVE  objs'[o].addr # 0 /\ objs'[o].serial <= serial'
  <2>1. o \in Objects /\ Alike(objs'[o], objs[o])
    BY <1>0, <1>2, StillThere
  <2>2. objs[o].addr # 0 /\ objs[o].serial <= serial /\ objs[o].serial \in Nat
    BY <1>0, <1>2, <2>1 DEF NearInv, Device
  <2>3. QED
    BY <1>0, <1>1, <2>1, <2>2 DEF Alike
<1>3. Used' \subseteq Used \union Near
  BY UsedNext DEF Near
<1>4. CASE Near' \subseteq Near
  BY <1>2, <1>3, <1>4 DEF NearInv
<1>5. CASE ~ (Near' \subseteq Near)
  <2>1. /\ EnumerateDevice /\ Readable(job.port) /\ Near' = Near \union {job'.obj}
        /\ objs'[job'.obj].addr = job.addr /\ objs'[job'.obj].serial = plugged[job.port].serial
    BY <1>5, NearNext
  <2>2. job.addr # 0 /\ job.port \in Ports
    BY <1>0, <2>1 DEF EnumerateDevice, JobAddressed, Job
  <2>3. plugged[job.port].serial <= serial /\ serial' = serial
    BY <1>0, <2>1, <2>2 DEF PlugInv, EnumerateDevice
  <2>4. ASSUME NEW o, (o \in Near \union Used)'
        PROVE  objs'[o].addr # 0 /\ objs'[o].serial <= serial'
    <3>1. o \in Near \union Used \/ o = job'.obj
      BY <1>3, <2>1, <2>4
    <3>2. QED
      BY <1>2, <2>1, <2>2, <2>3, <2>4, <3>1
  <2>5. QED
    BY <2>4 DEF NearInv
<1>6. QED
  BY <1>4, <1>5

LEMMA BaseNext ==
  ASSUME FlowInv, MemInv, FlowInv', MemInv', CtxInv, BaseInv, [Next]_vars
  PROVE  BaseInv'
<1>0. /\ BusOK /\ PlugInv /\ NearInv /\ JobAddressed /\ Addressed(queue) /\ queue \in Seq(Uevents)
      /\ job \in Job /\ user \in User /\ plugged \in [Ports -> Plugs]
      /\ user.obj # None <=> user.pc \in OpenPcs
  BY FlowTypes DEF BaseInv, FlowInv, BusOK, StepsOK
<1>1. NearInv'
  BY NearInvNext
<1>2. PlugInv'
  <2>1. CASE Kernel
    BY <1>0, <2>1, KernelDoes
  <2>2. CASE ~ Kernel
    <3>1. UNCHANGED <<plugged, serial>>
      BY <2>2, BusRest
    <3>2. QED
      BY <1>0, <3>1 DEF PlugInv
  <2>3. QED
    BY <2>1, <2>2
<1>3. Addressed(queue')
  <2>1. ASSUME NEW m \in Uevents, m.kind # "other" => m.addr # 0
        PROVE  Addressed(Append(queue, m))
    <3>1. \A i \in DOMAIN Append(queue, m) : Append(queue, m)[i] = m \/ (i \in DOMAIN queue /\ Append(queue, m)[i] = queue[i])
      <4>1. Len(queue) \in Nat /\ DOMAIN queue = 1..Len(queue)
        BY <1>0, LenProperties
      <4>2. /\ DOMAIN Append(queue, m) = 1..Len(queue) + 1 /\ Append(queue, m)[Len(queue) + 1] = m
            /\ \A i \in 1..Len(queue) : Append(queue, m)[i] = queue[i]
        BY <1>0, LenProperties, AppendProperties
      <4>3. QED
        BY <4>1, <4>2
    <3>2. QED
      BY <1>0, <2>1, <3>1 DEF Addressed
  <2>2. CASE Kernel
    <3>1. PICK m \in Uevents : Deliver(m) /\ Tells(m, plugged, plugged')
      BY <1>0, <2>2, KernelDoes
    <3>2. (m.kind # "other" => m.addr # 0) /\ queue' \in {queue, Append(queue, m)}
      BY <3>1 DEF Tells, Deliver
    <3>3. QED
      BY <1>0, <2>1, <3>2
  <2>3. CASE queue' = <<>>
    BY <2>3 DEF Addressed
  <2>4. CASE queue # <<>> /\ queue' = Tail(queue)
    <3>1. \A i \in DOMAIN queue' : i + 1 \in DOMAIN queue /\ queue'[i] = queue[i + 1]
      BY <1>0, <2>4, QueueTail
    <3>2. QED
      BY <1>0, <3>1 DEF Addressed
  <2>5. QED
    BY <1>0, <2>2, <2>3, <2>4, BusRest
<1>4. JobAddressed'
  <2>1. CASE Enumeration
    <3>1. CASE EnumerateParent
      <4>1. job'.addr = plugged[Hub].addr /\ Readable(Hub)
        BY <1>0, <3>1 DEF EnumerateParent, ParentFirst, GetDeviceAddress, Job
      <4>2. QED
        BY <1>0, <4>1 DEF Readable, PlugInv, JobAddressed, Ports
    <3>2. CASE job' = Resume
      BY <1>0, <3>2, ResumeProper, FlowTypes DEF JobAddressed
    <3>3. CASE job'.pc \in WorkPcs
      BY <3>3 DEF JobAddressed, WorkPcs
    <3>4. QED
      BY <2>1, <3>1, <3>2, <3>3, EnumerationJob
  <2>2. CASE ~ Enumeration
    <3>1. CASE job' = job \/ job' \in {NoJob, [NoJob EXCEPT !.by = "scan", !.pc = "more"]}
      <4>1. job' = job \/ job'.pc \in {"idle", "more"}
        BY <3>1, WorkMakes
      <4>2. QED
        BY <1>0, <4>1 DEF JobAddressed
    <3>2. CASE /\ queue # <<>> /\ Head(queue).kind # "other"
               /\ \E by : job' = Work(by, Head(queue))
      <4>1. job'.addr = Head(queue).addr
        BY <3>2, WorkMakes
      <4>2. 1 \in DOMAIN queue /\ queue[1] = Head(queue)
        BY <1>0, <3>2, QueueTail
      <4>3. QED
        BY <1>0, <3>2, <4>1, <4>2 DEF Addressed, JobAddressed
    <3>3. ASSUME NEW p \in Ports, Readable(p), NEW m, job' = Work("scan", m), m.addr = plugged[p].addr
          PROVE  JobAddressed'
      <4>1. job'.addr = plugged[p].addr
        BY <3>3, WorkMakes
      <4>2. QED
        BY <1>0, <3>3, <4>1 DEF Readable, PlugInv, JobAddressed
    <3>4. ASSUME DisconnectGone, NEW m, job' = Work("open", m), m.addr = objs[user.obj].addr
          PROVE  JobAddressed'
      <4>1. user.obj \in Used /\ job'.addr = objs[user.obj].addr
        BY <1>0, <3>4, WorkMakes DEF DisconnectGone, Used, User, OpenPcs
      <4>2. QED
        BY <1>0, <4>1 DEF NearInv, JobAddressed
    <3>5. QED
      BY <2>2, <3>1, <3>2, <3>3, <3>4, JobStarts
  <2>3. QED
    BY <2>1, <2>2
<1>5. QED
  BY <1>1, <1>2, <1>3, <1>4 DEF BaseInv

-----------------------------------------------------------------------------
(* What a user has may be gone.                                            *)

AttachedInv == up \in {"scan", "ready"} => \A o \in Used : objs[o].attached => o \in Range(devs)

\* The device is where it was when it was listed.
Fits(bus_, d) == bus_[d.port] = [addr |-> d.addr, serial |-> d.serial]
GoneInv == user.pc = "gone" => ~ Fits(plugged, objs[user.obj])

LEMMA TailLeaves ==
  ASSUME NEW q \in Seq(Objects), q # <<>>
  PROVE  Range(Tail(q)) \subseteq Range(q)
<1> DEFINE t == Tail(q)
<1>1. t \in Seq(Objects) /\ Len(t) = Len(q) - 1 /\ \A i \in 1..Len(t) : t[i] = q[i + 1]
  BY HeadTailProperties
<1>2. Len(q) \in Nat /\ Len(t) \in Nat
  BY <1>1, LenProperties
<1>3. \A i \in 1..Len(t) : i + 1 \in 1..Len(q)
  BY <1>1, <1>2
<1> HIDE DEF t
<1>4. ASSUME NEW o \in Range(t)
      PROVE  o \in Range(q)
  <2>1. PICK i \in 1..Len(t) : t[i] = o
    BY <1>1, RangeIs
  <2>2. i + 1 \in 1..Len(q) /\ q[i + 1] = o
    BY <1>1, <1>3, <2>1
  <2>3. QED
    BY <2>2, RangeIs
<1>5. QED
  BY <1>4 DEF t

LEMMA DevsRest ==
  ASSUME [Next]_vars, ~ ConnectDevice, ~ FreeDevice, ~ DeviceDisconnected
  PROVE  devs' = devs
BY Zenon DEF Next, Kernel, Plug, Unplug, OtherUevent, Enumeration, EnumerateDevice, EnumerateParent,
       NotifyArrived, NotifyLeft, DropFound, Monitor, HotplugProcess, TakeMessages,
       CallBack, MessageDone, FreeUnregistered, SetUpTearDown, InitContext, StartMonitor, ScanDevices,
       ScanDevice, ScanDone, HotplugInit, Exit, HotplugExit, FreeMessage, StopMonitor,
       DeviceLists, GetDeviceList, HotplugPoll, CopyList, FreeDeviceList, OpenAndClose, Open,
       OpenBackend, DisconnectGone, OpenFails, WrapSysDevice, Close, CallbackCalls, RegisterCallback,
       DeregisterCallback, FireForListed, FreeSnapshot, Registered, lists, vars

\* A device that leaves the list of a context in use is detached.
LEMMA LeavesDetached ==
  ASSUME FlowInv, MemInv, CtxInv, [Next]_vars, up # "stopping",
         NEW o \in Range(devs), o \notin Range(devs')
  PROVE  objs'[o].attached = FALSE
<1>0. objs \in [Objects -> Device]
  BY DEF MemInv, Sound
<1>1. CASE DeviceDisconnected /\ WithSessionId(job.addr) # {}
  <2>1. PICK k \in 1..Len(devs) :
          /\ devs[k] \in Objects /\ Range(devs') = Range(devs) \ {devs[k]}
          /\ objs' = [RefDevices(objs, {devs[k]}) EXCEPT ![devs[k]].attached = FALSE]
    BY <1>1, DisconnectDoes
  <2>2. o = devs[k]
    BY <2>1
  <2> DEFINE r == RefDevices(objs, {devs[k]})
             d == devs[k]
  <2>3. r = [x \in Objects |-> r[x]] /\ r[d] \in Device
    <3>1. \A S : RefDevices(objs, S) = [x \in Objects |-> RefDevices(objs, S)[x]]
      BY DEF RefDevices
    <3>2. QED
      BY <2>1, <3>1, RefAlike
  <2>4. objs' = [r EXCEPT ![d].attached = FALSE] /\ d \in Objects
    BY <2>1
  <2> HIDE DEF r, d
  <2>5. objs'[d].attached = FALSE
    BY <2>3, <2>4 DEF Device
  <2>6. QED
    BY <2>2, <2>5 DEF d
<1>2. CASE ConnectDevice
  BY <1>2, ConnectDoes
<1>3. CASE FreeDevice
  BY <1>3 DEF FreeDevice, CtxInv, ExitPcs
<1>4. CASE ~ ConnectDevice /\ ~ FreeDevice /\ ~ (DeviceDisconnected /\ WithSessionId(job.addr) # {})
  <2>1. CASE DeviceDisconnected
    BY <1>4, <2>1 DEF DeviceDisconnected
  <2>2. CASE ~ DeviceDisconnected
    BY <1>4, <2>2, DevsRest
  <2>3. QED
    BY <2>1, <2>2
<1>5. QED
  BY <1>1, <1>2, <1>3, <1>4

LEMMA ContextNext == [Next]_vars => SetUpTearDown \/ UNCHANGED <<up, monitor>>
BY Zenon DEF Next, Kernel, Plug, Unplug, OtherUevent, Enumeration, EnumerateDevice, EnumerateParent,
       ConnectDevice, NotifyArrived, DeviceDisconnected, NotifyLeft, DropFound, Monitor,
       HotplugProcess, TakeMessages, CallBack, MessageDone, FreeUnregistered,
       DeviceLists, GetDeviceList, HotplugPoll, CopyList, FreeDeviceList, OpenAndClose, Open,
       OpenBackend, DisconnectGone, OpenFails, WrapSysDevice, Close, CallbackCalls, RegisterCallback,
       DeregisterCallback, FireForListed, FreeSnapshot, Registered, vars

\* How a context comes to be in use.
LEMMA UpNext ==
  ASSUME FlowInv, CtxInv, [Next]_vars, up' \in {"scan", "ready"}
  PROVE  up \in {"scan", "ready"} \/ InitContext
<1>1. CASE up' = up
  BY <1>1
<1>2. CASE up' # up
  <2>1. SetUpTearDown
    BY <1>2, ContextNext
  <2>2. InitContext \/ HotplugInit
    BY <1>2, <2>1 DEF SetUpTearDown, StartMonitor, ScanDevices,
           ScanDevice, ScanDone, Exit, HotplugExit, FreeMessage, FreeDevice, StopMonitor
  <2>3. QED
    BY <2>2 DEF HotplugInit, CtxInv, SetUpPcs
<1>3. QED
  BY <1>1, <1>2

LEMMA AttachedNext ==
  ASSUME FlowInv, MemInv, FlowInv', MemInv', CtxInv, AttachedInv, [Next]_vars
  PROVE  AttachedInv'
<1> SUFFICES ASSUME up' \in {"scan", "ready"}, NEW o, (o \in Used)', objs'[o].attached
             PROVE  o \in Range(devs')
  BY DEF AttachedInv
<1>1. CASE InitContext
  <2>1. list' = {} /\ user'.obj = None
    BY <1>1 DEF InitContext, refs, Calling, Idle
  <2>2. QED
    BY <2>1 DEF Used
<1>2. CASE up \in {"scan", "ready"}
  <2>1. CASE o \in Range(devs)
    BY <1>2, <2>1, LeavesDetached
  <2>2. CASE o \notin Range(devs)
    <3>1. o \in Used
      BY <2>2, UsedNext
    <3>2. StepAlike
      BY MemoryStep
    <3>3. objs[o].attached \/ o \in Range(devs')
      BY <3>1, <3>2, StillThere
    <3>4. QED
      BY <1>2, <2>2, <3>1, <3>3 DEF AttachedInv
  <2>3. QED
    BY <2>1, <2>2
<1>3. QED
  BY <1>1, <1>2, UpNext

\* What is gone does not come back: what is plugged in gets another number.
LEMMA FitsBack ==
  ASSUME FlowInv, MemInv, FlowInv', MemInv', BaseInv, [Next]_vars,
         NEW o, o \in Near \union Used, (o \in Near \union Used)'
  PROVE  /\ Alike(objs'[o], objs[o]) /\ o \in Objects
         /\ Fits(plugged', objs'[o]) => Fits(plugged, objs[o])
         /\ ~ Kernel => (Fits(plugged', objs'[o]) <=> Fits(plugged, objs[o]))
<1>1. Alike(objs'[o], objs[o]) /\ o \in Objects
  BY MemoryStep, StillThere
<1>2. /\ objs[o].addr # 0 /\ objs[o].serial <= serial /\ objs[o].serial \in Nat
      /\ objs[o].port \in Ports /\ serial \in Nat
  BY <1>1 DEF BaseInv, NearInv, MemInv, Sound, Device, FlowInv, BusOK
<1>3. CASE ~ Kernel
  <2>1. plugged' = plugged
    BY <1>3, BusRest
  <2>2. QED
    BY <1>1, <1>3, <2>1 DEF Fits, Alike
<1>4. CASE Kernel
  <2> DEFINE p == objs[o].port
  <2>1. /\ plugged'[p] = plugged[p] \/ plugged'[p] = NotPlugged \/ plugged'[p].serial = serial'
        /\ serial' = serial + 1
    BY <1>2, <1>4, KernelDoes DEF BaseInv, FlowInv
  <2>2. Fits(plugged', objs'[o]) => plugged'[p].addr = objs[o].addr /\ plugged'[p].serial = objs[o].serial
    BY <1>1 DEF Fits, Alike
  <2>3. Fits(plugged', objs'[o]) => plugged'[p] = plugged[p]
    BY <1>2, <2>1, <2>2 DEF NotPlugged
  <2>4. QED
    BY <1>1, <1>4, <2>3 DEF Fits, Alike
<1>5. QED
  BY <1>3, <1>4

LEMMA GoneNext ==
  ASSUME FlowInv, MemInv, FlowInv', MemInv', CtxInv, BaseInv, GoneInv, [Next]_vars
  PROVE  GoneInv'
<1> SUFFICES ASSUME user'.pc = "gone"
             PROVE  ~ Fits(plugged', objs'[user'.obj])
  BY DEF GoneInv
<1>0. /\ user \in User /\ (user.obj # None <=> user.pc \in OpenPcs)
      /\ user' \in User /\ (user'.obj # None <=> user'.pc \in OpenPcs)
  BY DEF FlowInv, StepsOK
<1>1. PICK o : o = user'.obj
  OBVIOUS
<1>11. o \in Objects /\ (o \in Used)'
  BY <1>0, <1>1 DEF Used, OpenPcs, User
<1>2. CASE OpenBackend
  <2>1. user' = [user EXCEPT !.pc = "gone"] /\ ~ Present(objs[user.obj].addr)
    BY <1>2 DEF OpenBackend, Idle
  <2>2. user'.obj = user.obj
    BY <1>0, <2>1 DEF User
  <2>3. user.obj \in Used /\ user.obj \in Objects
    BY <1>1, <1>11, <2>2 DEF Used
  <2>4. objs[user.obj].port \in Ports /\ objs[user.obj].addr # 0
    BY <2>3 DEF MemInv, Sound, Device, BaseInv, NearInv
  <2>5. ~ Fits(plugged, objs[user.obj])
    BY <2>1, <2>4 DEF Fits, Present, NotPlugged
  <2>6. plugged' = plugged /\ objs' = objs
    BY <1>2 DEF OpenBackend, bus, lists
  <2>7. QED
    BY <2>2, <2>5, <2>6
<1>3. CASE ~ OpenBackend
  <2>1. user'.pc = user.pc /\ user'.obj = user.obj
    BY <1>3, UserNext
  <2>2. (o \in Near \union Used) /\ ~ Fits(plugged, objs[o])
    BY <1>1, <1>11, <2>1 DEF Used, GoneInv
  <2>3. ~ Fits(plugged', objs'[o])
    BY <1>11, <2>2, FitsBack
  <2>4. QED
    BY <1>1, <2>3
<1>4. QED
  BY <1>2, <1>3

-----------------------------------------------------------------------------
(* The list and the bus agree, but for what is on its way.                 *)

Watching == monitor /\ ~ lost /\ up # "stopping"

\* The removal of an address is on its way; two are.
Removing(j, addr)     == j.pc = "disconnect" /\ j.addr = addr
Goes(q, j, addr)      == Removing(j, addr) \/ Has(q, "remove", addr)
GoesTwice(q, j, addr) == (Removing(j, addr) /\ Has(q, "remove", addr)) \/ Twice(q, "remove", addr)

\* Device d is there, or its removal is on its way; or it is behind one that goes.
Pending(bus_, q, j, d)          == Fits(bus_, d) \/ Goes(q, j, d.addr)
Behind(bus_, q, j, d)           == Goes(q, j, d.addr) /\ (Fits(bus_, d) \/ GoesTwice(q, j, d.addr))
Replaced(bus_, q, j, p, addr)   == Goes(q, j, addr) /\ (bus_[p].addr = addr \/ GoesTwice(q, j, addr))

\* The work in hand is outdated only if the opposite is on its way.
WorkInv ==
  /\ job.pc = "disconnect" /\ At(plugged, job.addr) => Has(queue, "add", job.addr)
  /\ job.pc = "enumerate" => plugged[job.port].addr = job.addr \/ Has(queue, "remove", job.addr)

ListedInv == \A o \in Near : Pending(plugged, queue, job, objs[o])

\* What is plugged in is listed, or will be.
Unseen(p) == user.pc = "started" \/ (user.pc = "scan" /\ p \in user.todo)
PresentInv == \A p \in Ports : plugged[p] # NotPlugged =>
  \/ \E o \in Near : objs[o].addr = plugged[p].addr
  \/ job.pc = "enumerate" /\ job.addr = plugged[p].addr
  \/ Has(queue, "add", plugged[p].addr)
  \/ Unseen(p)

\* Two listed devices may have one address, when a child waited for its parent; the
\* newer is found first, and goes first.
SameAddr(i, j) == objs[devs[i]].addr = objs[devs[j]].addr
PairInv == \A i, j \in DOMAIN devs : i < j /\ SameAddr(i, j) =>
  /\ Behind(plugged, queue, job, objs[devs[j]])
  /\ \A k \in DOMAIN devs : k > j => ~ SameAddr(j, k)

MadeInv == job.pc = "parent" => \A o \in Range(devs) : objs[o].addr # objs[job.obj].addr
ChildInv == job.child # None =>
  /\ \A o \in Range(devs) : objs[o].addr = objs[job.child].addr => job.pc = "arrived" /\ o = job.obj
  /\ job.pc = "enumerate" /\ objs[job.child].addr = job.addr
       => Replaced(plugged, queue, job, Hub, job.addr)
  /\ job.pc \in {"parent", "arrived"} /\ objs[job.child].addr = objs[job.obj].addr
       => Behind(plugged, queue, job, objs[job.obj])
RetryInv == job.pc = "retry" =>
  \A i \in DOMAIN devs : objs[devs[i]].addr = objs[job.obj].addr =>
    /\ Behind(plugged, queue, job, objs[devs[i]])
    /\ \A k \in DOMAIN devs : objs[devs[k]].addr = objs[job.obj].addr => k = i

SyncInv == /\ Orderly(queue, plugged) /\ WorkInv /\ ListedInv /\ PresentInv
           /\ PairInv /\ MadeInv /\ ChildInv /\ RetryInv

\* A step of the inductive argument, and what it leaves as true as it was.
Step == /\ FlowInv /\ MemInv /\ CtxInv /\ ArrivedInv /\ BaseInv /\ AttachedInv /\ GoneInv
        /\ FlowInv' /\ MemInv' /\ [Next]_vars

Carry ==
  /\ \A d : d.addr # 0 /\ d.port \in Ports =>
       /\ Pending(plugged, queue, job, d) => Pending(plugged', queue', job', d)
       /\ Behind(plugged, queue, job, d) => Behind(plugged', queue', job', d)
  /\ \A p \in Ports : \A addr : addr # 0 =>
       (Replaced(plugged, queue, job, p, addr) => Replaced(plugged', queue', job', p, addr))

LEMMA CarrySame ==
  ASSUME UNCHANGED <<plugged, queue>>, job' = job \/ job.pc # "disconnect"
  PROVE  Carry
<1>1. \A addr : /\ Goes(queue, job, addr) => Goes(queue', job', addr)
                /\ GoesTwice(queue, job, addr) => GoesTwice(queue', job', addr)
  BY DEF Goes, GoesTwice, Removing
<1>2. QED
  BY <1>1 DEF Carry, Pending, Behind, Replaced, Fits

LEMMA CarryRead ==
  ASSUME queue \in Seq(Uevents), queue # <<>>, queue' = Tail(queue), plugged' = plugged,
         job.pc # "disconnect",
         Head(queue).kind = "remove" => job'.pc = "disconnect" /\ job'.addr = Head(queue).addr
  PROVE  Carry
<1>1. ASSUME NEW addr
      PROVE  /\ Goes(queue, job, addr) => Goes(queue', job', addr)
             /\ GoesTwice(queue, job, addr) => GoesTwice(queue', job', addr)
  <2>1. /\ Has(queue, "remove", addr) <=> Of(Head(queue), "remove", addr) \/ Has(queue', "remove", addr)
        /\ Twice(queue, "remove", addr)
             => Twice(queue', "remove", addr) \/ (Of(Head(queue), "remove", addr) /\ Has(queue', "remove", addr))
    BY QueueTail
  <2>2. Of(Head(queue), "remove", addr) => Removing(job', addr)
    BY DEF Of, Removing
  <2>3. ~ Removing(job, addr)
    BY DEF Removing
  <2>4. QED
    BY <2>1, <2>2, <2>3 DEF Goes, GoesTwice
<1>2. QED
  BY <1>1 DEF Carry, Pending, Behind, Replaced, Fits

LEMMA CarryKernel ==
  ASSUME BusOK, NEW m \in Uevents, queue' = Append(queue, m), Tells(m, plugged, plugged'), job' = job,
         plugged' \in [Ports -> Plugs]
  PROVE  Carry
<1>0. queue \in Seq(Uevents) /\ plugged \in [Ports -> Plugs]
  BY DEF BusOK
<1>1. ASSUME NEW addr
      PROVE  /\ Goes(queue, job, addr) => Goes(queue', job', addr)
             /\ GoesTwice(queue, job, addr) => GoesTwice(queue', job', addr)
             /\ Of(m, "remove", addr) => Goes(queue', job', addr)
             /\ Goes(queue, job, addr) /\ Of(m, "remove", addr) => GoesTwice(queue', job', addr)
  <2>1. /\ Has(queue, "remove", addr) \/ Of(m, "remove", addr) => Has(queue', "remove", addr)
        /\ Twice(queue, "remove", addr) \/ (Has(queue, "remove", addr) /\ Of(m, "remove", addr))
             => Twice(queue', "remove", addr)
    BY <1>0, QueueAppend
  <2>2. QED
    BY <2>1 DEF Goes, GoesTwice, Removing
<1>2. ASSUME NEW p \in Ports, NEW addr, addr # 0, plugged[p].addr = addr
      PROVE  plugged'[p].addr = addr \/ Of(m, "remove", addr)
  BY <1>2 DEF Tells
<1>3. ASSUME NEW d, d.addr # 0, d.port \in Ports, Fits(plugged, d)
      PROVE  Fits(plugged', d) \/ Of(m, "remove", d.addr)
  <2>1. plugged[d.port].addr = d.addr /\ plugged[d.port] = [addr |-> d.addr, serial |-> d.serial]
    BY <1>3 DEF Fits
  <2>2. plugged[d.port] # NotPlugged
    BY <1>3, <2>1 DEF NotPlugged
  <2>3. \/ plugged'[d.port] = plugged[d.port]
        \/ plugged'[d.port] = NotPlugged /\ Of(m, "remove", plugged[d.port].addr)
    BY <1>3, <2>2 DEF Tells
  <2>4. QED
    BY <2>1, <2>3 DEF Fits
<1>4. QED
  BY <1>1, <1>2, <1>3 DEF Carry, Pending, Behind, Replaced

LEMMA NearStays ==
  ASSUME Step, NEW o, o \in Near, (o \in Near)'
  PROVE  /\ o \in Objects /\ objs'[o].addr = objs[o].addr /\ objs[o].addr # 0
         /\ Carry /\ Pending(plugged, queue, job, objs[o]) => Pending(plugged', queue', job', objs'[o])
         /\ Carry /\ Behind(plugged, queue, job, objs[o]) => Behind(plugged', queue', job', objs'[o])
<1>1. StepAlike
  BY MemoryStep DEF Step
<1>2. Alike(objs'[o], objs[o]) /\ o \in Objects
  BY <1>1, StillThere DEF Step
<1>3. objs[o].addr # 0 /\ objs[o].port \in Ports
  BY <1>2 DEF Step, BaseInv, NearInv, MemInv, Sound, Device
<1>4. Fits(plugged', objs[o]) <=> Fits(plugged', objs'[o])
  BY <1>2 DEF Alike, Fits
<1>5. objs'[o].addr = objs[o].addr
  BY <1>2 DEF Alike
<1>6. ASSUME Carry, Pending(plugged, queue, job, objs[o])
      PROVE  Pending(plugged', queue', job', objs'[o])
  <2>1. Pending(plugged', queue', job', objs[o])
    BY <1>3, <1>6 DEF Carry
  <2>2. QED
    BY <1>4, <1>5, <2>1 DEF Pending
<1>7. ASSUME Carry, Behind(plugged, queue, job, objs[o])
      PROVE  Behind(plugged', queue', job', objs'[o])
  <2>1. Behind(plugged', queue', job', objs[o])
    BY <1>3, <1>7 DEF Carry
  <2>2. QED
    BY <1>4, <1>5, <2>1 DEF Behind
<1>8. QED
  BY <1>2, <1>3, <1>5, <1>6, <1>7

LEMMA ListIsNear ==
  FlowInv => /\ \A i \in DOMAIN devs : devs[i] \in Range(devs) /\ devs[i] \in Near
             /\ \A o \in Range(devs) : o \in Near /\ \E i \in DOMAIN devs : devs[i] = o
             /\ DOMAIN devs = 1..Len(devs) /\ Len(devs) \in Nat
<1> SUFFICES ASSUME FlowInv
             PROVE  /\ \A i \in DOMAIN devs : devs[i] \in Range(devs) /\ devs[i] \in Near
                    /\ \A o \in Range(devs) : o \in Near /\ \E i \in DOMAIN devs : devs[i] = o
                    /\ DOMAIN devs = 1..Len(devs) /\ Len(devs) \in Nat
  OBVIOUS
<1>1. devs \in Seq(Objects)
  BY FlowTypes DEF ListsOK
<1>2. DOMAIN devs = 1..Len(devs) /\ Len(devs) \in Nat
  BY <1>1, LenProperties
<1>3. QED
  BY <1>1, <1>2, RangeIs DEF Near

LEMMA ListedOnward ==
  ASSUME Step, Carry, ListedInv, Near' \subseteq Near
  PROVE  ListedInv'
<1>1. ASSUME NEW o, (o \in Near)'
      PROVE  Pending(plugged', queue', job', objs'[o])
  <2>1. o \in Near
    BY <1>1
  <2>2. Pending(plugged, queue, job, objs[o])
    BY <2>1 DEF ListedInv
  <2>3. QED
    BY <1>1, <2>1, <2>2, NearStays
<1>2. QED
  BY <1>1 DEF ListedInv

LEMMA PairOnward ==
  ASSUME Step, Carry, PairInv, devs' = devs
  PROVE  PairInv'
<1>1. ASSUME NEW i \in DOMAIN devs
      PROVE  /\ objs'[devs[i]].addr = objs[devs[i]].addr
             /\ Behind(plugged, queue, job, objs[devs[i]]) => Behind(plugged', queue', job', objs'[devs[i]])
  <2>1. PICK o : o = devs[i]
    OBVIOUS
  <2>2. o \in Near /\ (o \in Near)'
    <3>1. o \in Range(devs) /\ o \in Near
      BY <2>1, ListIsNear DEF Step
    <3>2. QED
      BY <3>1 DEF Near
  <2>3. QED
    BY <2>1, <2>2, NearStays
<1>2. ASSUME NEW i \in DOMAIN devs, NEW j \in DOMAIN devs, i < j,
             objs'[devs[i]].addr = objs'[devs[j]].addr
      PROVE  /\ Behind(plugged', queue', job', objs'[devs[j]])
             /\ \A k \in DOMAIN devs : k > j => objs'[devs[j]].addr # objs'[devs[k]].addr
  <2>1. SameAddr(i, j)
    BY <1>1, <1>2 DEF SameAddr
  <2>2. /\ Behind(plugged, queue, job, objs[devs[j]])
        /\ \A k \in DOMAIN devs : k > j => objs[devs[j]].addr # objs[devs[k]].addr
    BY <1>2, <2>1 DEF PairInv, SameAddr
  <2>3. QED
    BY <1>1, <2>2
<1>3. QED
  BY <1>2 DEF PairInv, SameAddr

\* The work in hand goes on while others act.
LEMMA MakeOnward ==
  ASSUME Step, Carry, up # "stopping", MadeInv, ChildInv, RetryInv, devs' = devs,
         job' = job \/ (job'.child = None /\ job'.pc \notin {"parent", "retry"})
  PROVE  MadeInv' /\ ChildInv' /\ RetryInv'
<1>0. Proper(job) /\ job \in Job /\ FlowInv /\ JobAddressed
  BY FlowTypes DEF Step, BaseInv
<1>1. CASE job' # job
  BY <1>1 DEF MadeInv, ChildInv, RetryInv
<1>2. CASE job' = job
  <2>1. ASSUME NEW o, o \in Near
        PROVE  /\ objs'[o].addr = objs[o].addr
               /\ Behind(plugged, queue, job, objs[o]) => Behind(plugged', queue', job', objs'[o])
    <3>1. (o \in Near)'
      BY <1>2, <2>1 DEF Near, Making
    <3>2. QED
      BY <2>1, <3>1, NearStays
  <2>2. \A o \in Range(devs) : o \in Near
    BY DEF Near
  <2>3. job.pc \in {"parent", "retry"} => job.obj \in Near
    BY <1>0 DEF Near, Making, Proper, WorkPcs, Job
  <2>4. job.pc = "arrived" => job.obj \in Near
    BY DEF Step, ArrivedInv, Near
  <2>5. job.child # None => job.child \in Near
    BY <1>0 DEF Near, Making, Job
  <2>6. MadeInv'
    BY <1>2, <2>1, <2>2, <2>3 DEF MadeInv
  <2>7. RetryInv'
    <3>1. \A i \in DOMAIN devs : devs[i] \in Near
      BY <1>0, ListIsNear
    <3>2. ASSUME job.pc = "retry", NEW i \in DOMAIN devs, objs'[devs[i]].addr = objs'[job.obj].addr
          PROVE  /\ Behind(plugged', queue', job', objs'[devs[i]])
                 /\ \A k \in DOMAIN devs : objs'[devs[k]].addr = objs'[job.obj].addr => k = i
      BY <2>1, <2>3, <3>1, <3>2 DEF RetryInv
    <3>3. QED
      BY <1>2, <3>2 DEF RetryInv
  <2>8. ChildInv'
    <3> SUFFICES ASSUME job.child # None
                 PROVE  ChildInv'
      BY <1>2 DEF ChildInv
    <3>1. \A o \in Range(devs) : objs'[o].addr = objs'[job.child].addr => job.pc = "arrived" /\ o = job.obj
      BY <2>1, <2>2, <2>5 DEF ChildInv
    <3>2. ASSUME job.pc = "enumerate", objs'[job.child].addr = job.addr
          PROVE  Replaced(plugged', queue', job', Hub, job.addr)
      <4>1. Replaced(plugged, queue, job, Hub, job.addr)
        BY <2>1, <2>5, <3>2 DEF ChildInv
      <4>2. job.addr # 0 /\ Hub \in Ports
        BY <1>0, <3>2 DEF JobAddressed, Ports
      <4>3. QED
        BY <4>1, <4>2 DEF Carry
    <3>3. ASSUME job.pc \in {"parent", "arrived"}, objs'[job.child].addr = objs'[job.obj].addr
          PROVE  Behind(plugged', queue', job', objs'[job.obj])
      <4>1. job.obj \in Near
        BY <2>3, <2>4, <3>3
      <4>2. objs[job.child].addr = objs[job.obj].addr
        BY <2>1, <2>5, <3>3, <4>1
      <4>3. Behind(plugged, queue, job, objs[job.obj])
        BY <3>3, <4>2 DEF ChildInv
      <4>4. QED
        BY <2>1, <4>1, <4>3
    <3>4. QED
      BY <1>2, <3>1, <3>2, <3>3 DEF ChildInv
  <2>9. QED
    BY <2>6, <2>7, <2>8
<1>3. QED
  BY <1>1, <1>2

LEMMA PresentOnward ==
  ASSUME Step, PresentInv, UNCHANGED <<plugged, queue>>, Near \subseteq Near',
         job' = job \/ job.pc # "enumerate",
         user' = user \/ user.pc \notin {"started", "scan"}
  PROVE  PresentInv'
<1> SUFFICES ASSUME NEW p \in Ports, plugged[p] # NotPlugged
             PROVE  \/ \E o \in Near' : objs'[o].addr = plugged[p].addr
                    \/ job'.pc = "enumerate" /\ job'.addr = plugged[p].addr
                    \/ Has(queue, "add", plugged[p].addr)
                    \/ Unseen(p)'
  BY DEF PresentInv
<1>1. CASE \E o \in Near : objs[o].addr = plugged[p].addr
  <2>1. PICK o \in Near : objs[o].addr = plugged[p].addr
    BY <1>1
  <2>2. (o \in Near)'
    BY <2>1
  <2>3. objs'[o].addr = objs[o].addr
    BY <2>1, <2>2, NearStays
  <2>4. QED
    BY <2>1, <2>2, <2>3
<1>2. CASE Unseen(p)
  BY <1>2 DEF Unseen
<1>3. CASE job.pc = "enumerate" /\ job.addr = plugged[p].addr
  BY <1>3
<1>4. QED
  BY <1>1, <1>2, <1>3 DEF PresentInv

\* A step that leaves the bus, the list and the work on it alone.
LEMMA SyncSame ==
  ASSUME Step, up # "stopping", SyncInv, UNCHANGED <<plugged, queue, devs, job>>,
         user' = user \/ user.pc \notin {"started", "scan"}
  PROVE  SyncInv'
<1>1. Carry
  BY CarrySame
<1>2. Near' = Near
  BY DEF Near, Making
<1>3. Orderly(queue', plugged') /\ WorkInv'
  BY DEF SyncInv, WorkInv
<1>4. ListedInv'
  BY <1>1, <1>2, ListedOnward DEF SyncInv
<1>5. PairInv'
  BY <1>1, PairOnward DEF SyncInv
<1>6. MadeInv' /\ ChildInv' /\ RetryInv'
  BY <1>1, MakeOnward DEF SyncInv
<1>7. PresentInv'
  BY <1>2, PresentOnward DEF SyncInv
<1>8. QED
  BY <1>3, <1>4, <1>5, <1>6, <1>7 DEF SyncInv

LEMMA SyncKernel ==
  ASSUME Step, Watching, Watching', SyncInv, Kernel
  PROVE  SyncInv'
<1>0. BusOK /\ PlugInv /\ Addressed(queue) /\ queue \in Seq(Uevents) /\ plugged' \in [Ports -> Plugs]
      /\ job \in Job /\ JobAddressed
  BY FlowTypes DEF Step, BaseInv, FlowInv, BusOK
<1>1. PICK m \in Uevents : Deliver(m) /\ Tells(m, plugged, plugged')
  BY <1>0, KernelDoes
<1>2. devs' = devs /\ job' = job /\ user' = user /\ PlugInv'
  BY <1>0, KernelDoes DEF lists
<1>3. queue' = Append(queue, m)
  BY <1>1 DEF Deliver, Watching
<1>4. \A addr : Has(queue, "add", addr) \/ Of(m, "add", addr) => Has(queue', "add", addr)
  BY <1>0, <1>3, QueueAppend
<1>5. \A addr : Has(queue, "remove", addr) \/ Of(m, "remove", addr) => Has(queue', "remove", addr)
  BY <1>0, <1>3, QueueAppend
<1>6. Carry
  BY <1>0, <1>1, <1>2, <1>3, CarryKernel
<1>7. Near' = Near
  BY <1>2 DEF Near, Making
<1>8. Orderly(queue', plugged')
  <2>1. Orderly(queue, plugged)
    BY DEF SyncInv
  <2>2. /\ \A addr : addr # 0 /\ At(plugged', addr) => At(plugged, addr) \/ Of(m, "add", addr)
        /\ \A p \in Ports : \A addr : addr # 0 /\ plugged[p].addr = addr
                                => plugged'[p].addr = addr \/ Of(m, "remove", addr)
        /\ m.kind = "remove" => ~ At(plugged', m.addr)
        /\ m.kind = "add" => plugged'[m.port].addr = m.addr
    BY <1>1 DEF Tells
  <2>3. QED
    BY <1>0, <1>3, <2>1, <2>2, OrderlyAppend
<1>9. WorkInv'
  <2>1. ASSUME job.pc = "disconnect", At(plugged', job.addr)
        PROVE  Has(queue', "add", job.addr)
    <3>1. At(plugged, job.addr) \/ Of(m, "add", job.addr)
      BY <1>0, <1>1, <2>1 DEF Tells, JobAddressed
    <3>2. QED
      BY <1>4, <2>1, <3>1 DEF SyncInv, WorkInv
  <2>2. ASSUME job.pc = "enumerate"
        PROVE  plugged'[job.port].addr = job.addr \/ Has(queue', "remove", job.addr)
    <3>1. plugged[job.port].addr = job.addr \/ Has(queue, "remove", job.addr)
      BY <2>2 DEF SyncInv, WorkInv
    <3>2. job.port \in Ports /\ job.addr # 0
      BY <1>0, <2>2 DEF Job, JobAddressed
    <3>3. plugged[job.port].addr = job.addr => plugged'[job.port].addr = job.addr \/ Of(m, "remove", job.addr)
      BY <1>1, <3>2 DEF Tells
    <3>4. QED
      BY <1>5, <3>1, <3>3
  <2>3. QED
    BY <1>2, <2>1, <2>2 DEF WorkInv
<1>10. PresentInv'
  <2> SUFFICES ASSUME NEW p \in Ports, plugged'[p] # NotPlugged
               PROVE  \/ \E o \in Near' : objs'[o].addr = plugged'[p].addr
                      \/ job'.pc = "enumerate" /\ job'.addr = plugged'[p].addr
                      \/ Has(queue', "add", plugged'[p].addr)
                      \/ Unseen(p)'
    BY DEF PresentInv
  <2>1. plugged'[p] = plugged[p] \/ Of(m, "add", plugged'[p].addr)
    BY <1>1 DEF Tells
  <2>2. objs' = objs
    BY <1>0, KernelDoes DEF lists
  <2>3. Unseen(p) => Unseen(p)'
    BY <1>2 DEF Unseen
  <2>4. QED
    BY <1>2, <1>4, <1>7, <2>1, <2>2, <2>3 DEF SyncInv, PresentInv
<1>11. ListedInv' /\ PairInv' /\ MadeInv' /\ ChildInv' /\ RetryInv'
  BY <1>2, <1>6, <1>7, ListedOnward, PairOnward, MakeOnward DEF SyncInv, Watching
<1>12. QED
  BY <1>8, <1>9, <1>10, <1>11 DEF SyncInv

\* Work begins where there was none.
LEMMA SyncStart ==
  ASSUME Step, Watching, SyncInv, devs' = devs, job.pc \in {"idle", "more"},
         job'.child = None, job'.pc \notin {"parent", "retry"}, Carry,
         Orderly(queue', plugged'), WorkInv', PresentInv'
  PROVE  SyncInv'
<1>1. Near' \subseteq Near
  BY NoneMade DEF Near
<1>2. ListedInv' /\ PairInv' /\ MadeInv' /\ ChildInv' /\ RetryInv'
  BY <1>1, ListedOnward, PairOnward, MakeOnward DEF SyncInv, Watching
<1>3. QED
  BY <1>2 DEF SyncInv

LEMMA ListedOnly ==
  ASSUME FlowInv, job.pc \in {"idle", "more"}
  PROVE  job.child = None /\ Near = Range(devs)
<1>1. Proper(job) /\ job \in Job
  BY FlowTypes
<1>2. job.child = None
  BY <1>1 DEF Proper
<1>3. QED
  BY <1>2 DEF Near, Making

LEMMA SyncRead ==
  ASSUME Step, Watching, SyncInv, devs' = devs, job.pc \in {"idle", "more"}, plugged' = plugged,
         user' = user \/ user.pc \notin {"started", "scan"}, NEW by, queue # <<>>, ReadMessage(by)
  PROVE  SyncInv'
<1> DEFINE m == Head(queue)
<1>0. queue \in Seq(Uevents) /\ queue' = Tail(queue) /\ Orderly(queue, plugged) /\ PresentInv
  BY DEF Step, FlowInv, BusOK, ReadMessage, SyncInv
<1>1. /\ job'.child = None /\ job'.pc \notin {"parent", "retry"}
      /\ m.kind = "other" => job' = NoJob
      /\ m.kind # "other" => job' = Work(by, m)
  BY WorkMakes DEF ReadMessage, Watching
<1>2. m \in Uevents /\ m.kind \in {"add", "remove", "other"}
  <2>1. m \in Uevents
    BY <1>0, HeadTailProperties
  <2>2. QED
    BY <2>1 DEF Uevents
<1> HIDE DEF m
<1>3. /\ m.kind = "add" => job'.pc = "enumerate" /\ job'.addr = m.addr /\ job'.port = m.port
      /\ m.kind = "remove" => job'.pc = "disconnect" /\ job'.addr = m.addr
      /\ m.kind = "other" => job'.pc = "idle"
  BY <1>1, WorkMakes
<1>4. Carry
  BY <1>0, <1>3, CarryRead DEF m
<1>5. /\ Orderly(queue', plugged)
      /\ m.kind = "remove" /\ At(plugged, m.addr) => Has(queue', "add", m.addr)
      /\ m.kind = "add" => plugged[m.port].addr = m.addr \/ Has(queue', "remove", m.addr)
  BY <1>0, OrderlyTail DEF m
<1>6. WorkInv'
  BY <1>2, <1>3, <1>5 DEF WorkInv
<1>7. PresentInv'
  <2> SUFFICES ASSUME NEW p \in Ports, plugged[p] # NotPlugged
               PROVE  \/ \E o \in Near' : objs'[o].addr = plugged[p].addr
                      \/ job'.pc = "enumerate" /\ job'.addr = plugged[p].addr
                      \/ Has(queue', "add", plugged[p].addr)
                      \/ Unseen(p)'
    BY DEF PresentInv
  <2>1. \/ \E o \in Near : objs[o].addr = plugged[p].addr
        \/ Has(queue, "add", plugged[p].addr)
        \/ Unseen(p)
    BY <1>0 DEF PresentInv
  <2>2. ASSUME NEW o \in Near, objs[o].addr = plugged[p].addr
        PROVE  \E x \in Near' : objs'[x].addr = plugged[p].addr
    <3>1. (o \in Near)'
      BY <2>2, ListedOnly DEF Step, Near
    <3>2. QED
      BY <2>2, <3>1, NearStays
  <2>3. \A addr : Has(queue, "add", addr) => Of(m, "add", addr) \/ Has(queue', "add", addr)
    BY <1>0, QueueTail DEF m
  <2>4. Unseen(p) => Unseen(p)'
    BY DEF Unseen
  <2>5. QED
    BY <1>3, <2>1, <2>2, <2>3, <2>4 DEF Of
<1>8. QED
  BY <1>0, <1>1, <1>4, <1>5, <1>6, <1>7, SyncStart

\* What the scan reads of the ports.
LEMMA SyncScan ==
  ASSUME Step, Watching, SyncInv, ScanDevices \/ ScanDone \/ \E p \in Ports : ScanDevice(p)
  PROVE  SyncInv'
<1>0. /\ devs' = devs /\ UNCHANGED <<plugged, queue>> /\ objs' = objs /\ job.pc \in {"idle", "more"}
      /\ Orderly(queue, plugged) /\ PresentInv /\ WorkInv /\ user \in User
  <2>1. UNCHANGED <<bus, lists>> /\ (job = NoJob \/ job.pc = "more")
    BY DEF ScanDevices, ScanDone, ScanDevice
  <2>2. job.pc \in {"idle", "more"}
    BY <2>1, WorkMakes
  <2>3. user \in User
    BY DEF Step, FlowInv, StepsOK
  <2>4. QED
    BY <2>1, <2>2, <2>3 DEF SyncInv, bus, lists
<1>1. Carry
  BY <1>0, CarrySame
<1>2. CASE job'.pc \notin {"enumerate", "disconnect"} /\ job'.child = None /\ job'.pc \notin {"parent", "retry"}
           /\ \A p \in Ports : Unseen(p) => Unseen(p)' \/ plugged[p] = NotPlugged
  <2>1. WorkInv'
    BY <1>2 DEF WorkInv
  <2>2. Near \subseteq Near'
    BY <1>0, ListedOnly DEF Step, Near
  <2>3. PresentInv'
    BY <1>0, <1>2, <2>2 DEF PresentInv
  <2>4. QED
    BY <1>0, <1>1, <1>2, <2>1, <2>3, SyncStart
<1>3. CASE ScanDevices
  <2>1. job' = [NoJob EXCEPT !.by = "scan", !.pc = "more"] /\ user' = [user EXCEPT !.pc = "scan", !.todo = Ports]
    BY <1>3 DEF ScanDevices
  <2>2. user'.pc = "scan" /\ user'.todo = Ports
    BY <1>0, <2>1 DEF User
  <2>3. \A p \in Ports : Unseen(p)'
    BY <2>2 DEF Unseen
  <2>4. QED
    BY <1>2, <2>1, <2>3, WorkMakes
<1>4. CASE ScanDone
  <2>1. job' = NoJob /\ user.pc = "scan" /\ user.todo = {}
    BY <1>4 DEF ScanDone
  <2>2. \A p \in Ports : ~ Unseen(p)
    BY <2>1 DEF Unseen
  <2>3. QED
    BY <1>2, <2>1, <2>2, WorkMakes
<1>5. ASSUME NEW p \in Ports, ScanDevice(p)
      PROVE  SyncInv'
  <2>1. /\ user' = [user EXCEPT !.todo = user.todo \ {p}] /\ user.pc = "scan"
        /\ job.pc = "more"
    BY <1>5 DEF ScanDevice
  <2>2. user'.pc = "scan" /\ user'.todo = user.todo \ {p}
    BY <1>0, <2>1 DEF User
  <2>3. \A q \in Ports : Unseen(q) => Unseen(q)' \/ q = p
    BY <2>1, <2>2 DEF Unseen
  <2>4. CASE ~ Readable(p)
    <3>1. job' = job /\ plugged[p] = NotPlugged
      BY <1>5, <2>4 DEF ScanDevice, Readable
    <3>2. job.child = None
      BY <1>0, ListedOnly DEF Step
    <3>3. QED
      BY <1>2, <2>1, <2>3, <3>1, <3>2
  <2>5. CASE Readable(p)
    <3> DEFINE m == [kind |-> "add", addr |-> GetDeviceAddress(p), port |-> p]
    <3>1. job' = Work("scan", m)
      BY <1>5, <2>5 DEF ScanDevice
    <3>2. m.kind = "add" /\ m.addr = plugged[p].addr /\ m.port = p
      BY DEF GetDeviceAddress
    <3> HIDE DEF m
    <3>3. /\ job'.pc = "enumerate" /\ job'.addr = plugged[p].addr /\ job'.port = p
          /\ job'.child = None
      BY <3>1, <3>2, WorkMakes
    <3>4. WorkInv'
      BY <1>0, <3>3 DEF WorkInv
    <3>5. Near \subseteq Near'
      BY <1>0, ListedOnly DEF Step, Near
    <3>6. PresentInv'
      BY <1>0, <2>1, <2>3, <3>3, <3>5 DEF PresentInv
    <3>7. QED
      BY <1>0, <1>1, <3>3, <3>4, <3>6, SyncStart
  <2>6. QED
    BY <2>4, <2>5
<1>6. QED
  BY <1>3, <1>4, <1>5

\* What was removed and is there was added again.
LEMMA AddedAgain ==
  ASSUME NEW q, NEW bus_, NEW addr, Orderly(q, bus_), Has(q, "remove", addr), At(bus_, addr)
  PROVE  Has(q, "add", addr)
<1>1. PICK i \in DOMAIN q : Of(q[i], "remove", addr)
  BY DEF Has
<1>2. After(q, i, "add", addr)
  BY <1>1 DEF Orderly, Current, Of
<1>3. QED
  BY <1>2 DEF After, Has

LEMMA SyncGone ==
  ASSUME Step, Watching, SyncInv, DisconnectGone
  PROVE  SyncInv'
<1>0. /\ UNCHANGED <<plugged, queue, devs, objs>> /\ job = NoJob /\ job.pc = "idle" /\ user.pc = "gone"
      /\ FlowInv /\ AttachedInv /\ GoneInv /\ ListedInv /\ Orderly(queue, plugged) /\ PresentInv
  BY WorkMakes DEF DisconnectGone, bus, lists, Step, SyncInv
<1>1. CASE ~ objs[user.obj].attached
  <2>1. job' = job
    BY <1>0, <1>1 DEF DisconnectGone
  <2>2. QED
    BY <1>0, <2>1, SyncSame DEF Watching
<1>2. CASE objs[user.obj].attached
  <2> DEFINE a == objs[user.obj].addr
             m == [kind |-> "remove", addr |-> a, port |-> Hub]
  <2>1. job' = Work("open", m)
    BY <1>2 DEF DisconnectGone
  <2>2. m.kind = "remove" /\ m.addr = a
    OBVIOUS
  <2>3. user.obj \in Used /\ up = "ready"
    <3>1. user \in User /\ (user.obj # None <=> user.pc \in OpenPcs)
      BY <1>0 DEF FlowInv, StepsOK
    <3>2. QED
      BY <1>0, <3>1 DEF Step, CtxInv, Used, OpenPcs, User
  <2> HIDE DEF m
  <2>4. job'.pc = "disconnect" /\ job'.addr = a /\ job'.child = None
    BY <2>1, <2>2, WorkMakes
  <2>5. Goes(queue, job, a)
    <3>1. user.obj \in Near
      BY <1>0, <1>2, <2>3 DEF AttachedInv, Near
    <3>2. QED
      BY <1>0, <3>1 DEF ListedInv, Pending, GoneInv
  <2> HIDE DEF a
  <2>6. Has(queue, "remove", a)
    BY <1>0, <2>5 DEF Goes, Removing
  <2>7. WorkInv'
    BY <1>0, <2>4, <2>6, AddedAgain DEF WorkInv
  <2>8. Carry
    BY <1>0, CarrySame
  <2>9. PresentInv'
    <3>1. Near \subseteq Near'
      BY <1>0, ListedOnly DEF Near
    <3>2. QED
      BY <1>0, <3>1, PresentOnward
  <2>10. QED
    BY <1>0, <2>4, <2>7, <2>8, <2>9, SyncStart
<1>3. QED
  BY <1>1, <1>2

\* The work that begins and ends elsewhere than with the list.
LEMMA SyncEnumerate ==
  ASSUME Step, Watching, Watching', SyncInv, EnumerateDevice
  PROVE  SyncInv'
<1>0. /\ UNCHANGED <<plugged, queue, devs, user>> /\ job.pc = "enumerate" /\ FlowInv /\ MemInv /\ [Next]_vars
      /\ Orderly(queue, plugged) /\ WorkInv /\ ListedInv /\ PresentInv /\ PairInv /\ ChildInv
      /\ Proper(job) /\ job \in Job /\ plugged \in [Ports -> Plugs]
  BY EnumerateDoes, FlowTypes DEF Step, SyncInv, EnumerateDevice, FlowInv, BusOK
<1>1. job.addr # 0 /\ job.port \in Ports /\ PlugInv
  BY <1>0 DEF Step, BaseInv, JobAddressed, Job
<1>2. Carry
  BY <1>0, CarrySame
<1>3. PairInv' /\ Orderly(queue', plugged')
  BY <1>0, <1>2, PairOnward
<1>4. \A i \in DOMAIN devs : devs[i] \in Range(devs) /\ devs[i] \in Near
  BY <1>0, ListIsNear
<1>5. \A o \in Range(devs) : o \in Near /\ \E i \in DOMAIN devs : devs[i] = o
  BY <1>0, ListIsNear
<1>6. CASE job' = Resume /\ (WithSessionId(job.addr) # {} \/ ~ Readable(job.port)) /\ objs' = objs
  <2>1. /\ job'.pc \in {"retry", "idle", "more"} /\ job'.child = None
        /\ job'.pc = "retry" => job.child # None /\ job'.obj = job.child
    BY <1>0, <1>6, FlowTypes, ResumeProper
  <2>2. Near' = Near
    <3>1. Making' = {o \in Objects : o = job.child}
      BY <1>0, <1>6, ResumeMakes
    <3>2. QED
      BY <1>0, <3>1 DEF Near, Making
  <2>3. ListedInv'
    BY <1>0, <1>2, <2>2, ListedOnward
  <2>4. WorkInv' /\ MadeInv' /\ ChildInv'
    BY <2>1 DEF WorkInv, MadeInv, ChildInv
  <2>5. RetryInv'
    <3>1. ASSUME job.child # None, NEW i \in DOMAIN devs
          PROVE  objs[devs[i]].addr # objs[job.child].addr
      BY <1>0, <1>4, <3>1 DEF ChildInv
    <3>2. QED
      BY <1>0, <1>6, <2>1, <3>1 DEF RetryInv
  <2>6. PresentInv'
    <3>1. ASSUME NEW p \in Ports, plugged[p].addr = job.addr
          PROVE  (\E o \in Near : objs[o].addr = job.addr) \/ Has(queue, "add", job.addr)
      <4>1. CASE WithSessionId(job.addr) # {}
        BY <1>4, <4>1 DEF WithSessionId
      <4>2. CASE ~ Readable(job.port)
        <5>1. Has(queue, "remove", job.addr)
          BY <1>0, <1>1, <4>2 DEF Readable, WorkInv, PlugInv
        <5>2. At(plugged, job.addr)
          BY <3>1 DEF At
        <5>3. QED
          BY <1>0, <5>1, <5>2, AddedAgain
      <4>3. QED
        BY <1>6, <4>1, <4>2
    <3>2. QED
      BY <1>0, <1>6, <2>2, <3>1 DEF PresentInv, Unseen
  <2>7. QED
    BY <1>3, <2>3, <2>4, <2>5, <2>6 DEF SyncInv
<1>7. ASSUME NEW o \in Objects,
             WithSessionId(job.addr) = {}, objs[o].refs = 0, \A x \in Objects : x # o => objs'[x] = objs[x],
             objs'[o].addr = job.addr, objs'[o].port = job.port,
             objs'[o].serial = plugged[job.port].serial,
             job'.pc = "parent", job'.obj = o, job'.child = job.child
      PROVE  SyncInv'
  <2>1. Near' = Near \union {o}
    BY <1>0, <1>7 DEF Near, Making
  <2>2. ASSUME NEW x, x \in Near
        PROVE  objs'[x].addr = objs[x].addr
    <3>1. (x \in Near)'
      BY <2>1, <2>2
    <3>2. QED
      BY <2>2, <3>1, NearStays
  <2>3. plugged[job.port].addr = job.addr => Fits(plugged, objs'[o])
    <3>1. plugged[job.port] \in Plugs
      BY <1>0, <1>1
    <3>2. QED
      BY <1>7, <3>1 DEF Plugs, Fits
  <2>4. ListedInv'
    <3>1. ASSUME NEW x, (x \in Near)', x \in Near
          PROVE  Pending(plugged', queue', job', objs'[x])
      BY <1>0, <1>2, <3>1, NearStays DEF ListedInv
    <3>2. Pending(plugged', queue', job', objs'[o])
      BY <1>0, <1>7, <2>3 DEF Pending, Goes, WorkInv
    <3>3. ASSUME NEW x, (x \in Near)'
          PROVE  Pending(plugged', queue', job', objs'[x])
      BY <2>1, <3>1, <3>2, <3>3
    <3>4. QED
      BY <3>3 DEF ListedInv
  <2>5. WorkInv' /\ RetryInv'
    BY <1>7 DEF WorkInv, RetryInv
  <2>6. MadeInv'
    <3>1. \A i \in DOMAIN devs : objs[devs[i]].addr # job.addr
      BY <1>7 DEF WithSessionId
    <3>2. \A x \in Range(devs) : objs'[x].addr # job.addr
      BY <1>5, <2>2, <3>1
    <3>3. QED
      BY <1>0, <1>7, <3>2 DEF MadeInv
  <2>7. ChildInv'
    <3> SUFFICES ASSUME job.child # None
                 PROVE  ChildInv'
      BY <1>7 DEF ChildInv
    <3>1. job.child \in Near /\ job.port = Hub
      BY <1>0 DEF Near, Making, Proper, Job
    <3>2. \A x \in Range(devs) : objs'[x].addr # objs'[job.child].addr
      BY <1>0, <1>5, <2>2, <3>1 DEF ChildInv
    <3>3. ASSUME objs'[job.child].addr = objs'[o].addr
          PROVE  Behind(plugged', queue', job', objs'[o])
      <4>1. Replaced(plugged, queue, job, Hub, job.addr)
        BY <1>0, <1>7, <2>2, <3>1, <3>3 DEF ChildInv
      <4>2. Replaced(plugged', queue', job', Hub, job.addr)
        BY <1>1, <1>2, <4>1 DEF Carry, Ports
      <4>3. QED
        BY <1>0, <1>7, <2>3, <3>1, <4>2 DEF Replaced, Behind
    <3>4. QED
      BY <1>0, <1>7, <3>2, <3>3 DEF ChildInv
  <2>8. PresentInv'
    <3>1. ASSUME NEW p \in Ports, plugged[p] # NotPlugged
          PROVE  \/ \E x \in Near' : objs'[x].addr = plugged[p].addr
                 \/ Has(queue, "add", plugged[p].addr)
                 \/ Unseen(p)
      <4>1. CASE \E x \in Near : objs[x].addr = plugged[p].addr
        BY <2>1, <2>2, <4>1
      <4>2. CASE job.addr = plugged[p].addr
        BY <1>7, <2>1, <4>2
      <4>3. QED
        BY <1>0, <3>1, <4>1, <4>2 DEF PresentInv
    <3>2. QED
      BY <1>0, <3>1 DEF PresentInv, Unseen
  <2>9. QED
    BY <1>3, <2>4, <2>5, <2>6, <2>7, <2>8 DEF SyncInv
<1>8. QED
  BY <1>0, <1>6, <1>7, EnumerateDoes DEF Watching

LEMMA SyncParent ==
  ASSUME Step, Watching, SyncInv, EnumerateParent
  PROVE  SyncInv'
<1>0. /\ UNCHANGED <<plugged, queue, devs, user, objs>> /\ job.pc = "parent" /\ FlowInv /\ MemInv
      /\ Orderly(queue, plugged) /\ ListedInv /\ PresentInv /\ PairInv /\ MadeInv /\ PlugInv
      /\ Proper(job) /\ job \in Job /\ Readable(Hub) /\ objs[job.obj].port = Leaf
  BY FlowTypes DEF Step, BaseInv, SyncInv, EnumerateParent, ParentFirst, BehindHub, bus, lists
<1>1. /\ job'.pc = "enumerate" /\ job'.child = job.obj /\ job'.obj = None
      /\ job'.addr = plugged[Hub].addr /\ job'.port = Hub
  BY <1>0 DEF EnumerateParent, GetDeviceAddress, Job
<1>2. job.child = None /\ job.obj \in Objects
  BY <1>0 DEF Proper, MemInv, PortInv, WorkPcs, Job
<1>3. Near' = Near /\ job.obj \in Near
  BY <1>0, <1>1, <1>2 DEF Near, Making
<1>4. Carry
  BY <1>0, CarrySame
<1>5. ListedInv' /\ PairInv' /\ PresentInv' /\ Orderly(queue', plugged')
  BY <1>0, <1>3, <1>4, ListedOnward, PairOnward, PresentOnward
<1>6. WorkInv' /\ MadeInv' /\ RetryInv'
  BY <1>0, <1>1 DEF WorkInv, MadeInv, RetryInv
<1>7. ChildInv'
  <2>1. ASSUME objs[job.obj].addr = plugged[Hub].addr
        PROVE  Replaced(plugged, queue, job', Hub, plugged[Hub].addr)
    <3>1. Pending(plugged, queue, job, objs[job.obj])
      BY <1>0, <1>3 DEF ListedInv
    <3>2. ~ Fits(plugged, objs[job.obj])
      BY <1>0, <2>1 DEF Fits, PlugInv, Readable
    <3>3. Goes(queue, job, plugged[Hub].addr)
      BY <2>1, <3>1, <3>2 DEF Pending
    <3>4. Goes(queue, job', plugged[Hub].addr)
      BY <1>0, <3>3 DEF Goes, Removing
    <3>5. QED
      BY <3>4 DEF Replaced
  <2>2. \A o \in Range(devs) : objs[o].addr # objs[job.obj].addr
    BY <1>0 DEF MadeInv
  <2>3. QED
    BY <1>0, <1>1, <2>1, <2>2 DEF ChildInv
<1>8. QED
  BY <1>5, <1>6, <1>7 DEF SyncInv

LEMMA SyncConnect ==
  ASSUME Step, Watching, SyncInv, ConnectDevice
  PROVE  SyncInv'
<1>0. /\ UNCHANGED <<plugged, queue, user>> /\ job.pc \in {"parent", "retry"} /\ FlowInv /\ MemInv
      /\ Orderly(queue, plugged) /\ ListedInv /\ PresentInv /\ PairInv /\ MadeInv /\ ChildInv /\ RetryInv
      /\ Proper(job) /\ job \in Job
  BY FlowTypes DEF Step, SyncInv, ConnectDevice, bus
<1>1. /\ job.obj \in Objects /\ devs' \in Seq(Objects) /\ Len(devs') = Len(devs) + 1
      /\ devs'[1] = job.obj /\ \A i \in 1..Len(devs) : devs'[i + 1] = devs[i]
      /\ Range(devs') = Range(devs) \union {job.obj}
      /\ job'.pc = "arrived" /\ job'.obj = job.obj /\ job'.child = job.child
  BY <1>0, ConnectDoes
<1>2. Near' = Near /\ job.obj \in Near
  BY <1>0, <1>1 DEF Near, Making
<1>3. Carry
  BY <1>0, CarrySame
<1>4. ASSUME NEW x, x \in Near
      PROVE  /\ objs'[x].addr = objs[x].addr
             /\ Behind(plugged, queue, job, objs[x]) => Behind(plugged', queue', job', objs'[x])
  <2>1. (x \in Near)'
    BY <1>2, <1>4
  <2>2. QED
    BY <1>3, <1>4, <2>1, NearStays
<1>5. ListedInv' /\ PresentInv' /\ Orderly(queue', plugged')
  BY <1>0, <1>2, <1>3, ListedOnward, PresentOnward
<1>6. WorkInv' /\ MadeInv' /\ RetryInv'
  BY <1>1 DEF WorkInv, MadeInv, RetryInv
<1>7. ChildInv'
  <2> SUFFICES ASSUME job.child # None
               PROVE  ChildInv'
    BY <1>1 DEF ChildInv
  <2>1. job.pc = "parent" /\ job.child \in Near
    BY <1>0 DEF Proper, Near, Making, Job
  <2>2. \A o \in Range(devs) : o \in Near
    BY DEF Near
  <2>3. \A o \in Range(devs') : objs'[o].addr = objs'[job.child].addr => o = job.obj
    BY <1>1, <1>4, <2>1, <2>2 DEF ChildInv, SyncInv
  <2>4. objs'[job.child].addr = objs'[job.obj].addr => Behind(plugged', queue', job', objs'[job.obj])
    BY <1>0, <1>2, <1>4, <2>1 DEF ChildInv
  <2>5. QED
    BY <1>1, <2>3, <2>4 DEF ChildInv
<1>8. PairInv'
  <2>0. DOMAIN devs = 1..Len(devs) /\ Len(devs) \in Nat /\ \A i \in 1..Len(devs) : devs[i] \in Near /\ devs[i] \in Range(devs)
    BY <1>0, ListIsNear
  <2> DEFINE n == Len(devs)
  <2>1. DOMAIN devs' = 1..n + 1
    BY <1>1, LenProperties
  <2> HIDE DEF n
  <2>2. \A i \in 1..n + 1 : i = 1 \/ (i - 1 \in 1..n /\ devs'[i] = devs[i - 1])
    <3>1. \A i \in 1..n : devs'[i + 1] = devs[i]
      BY <1>1 DEF n
    <3>2. n \in Nat
      BY <2>0 DEF n
    <3>3. \A i \in 1..n + 1 : i = 1 \/ (i - 1 \in 1..n /\ (i - 1) + 1 = i)
      BY <3>2
    <3>4. QED
      BY <3>1, <3>3
  <2>3. ASSUME NEW i \in 1..n + 1, NEW j \in 1..n + 1, i < j, objs'[devs'[i]].addr = objs'[devs'[j]].addr
        PROVE  /\ Behind(plugged', queue', job', objs'[devs'[j]])
               /\ \A k \in 1..n + 1 : k > j => objs'[devs'[j]].addr # objs'[devs'[k]].addr
    <3> DEFINE h == j - 1
    <3>1. h \in 1..n /\ devs'[j] = devs[h] /\ \A k \in 1..n + 1 : k > j => k - 1 \in 1..n /\ devs'[k] = devs[k - 1] /\ k - 1 > h
      <4>1. n \in Nat
        BY <2>0 DEF n
      <4>2. j # 1 /\ \A k \in 1..n + 1 : k > j => k # 1 /\ k - 1 > h
        BY <2>3, <4>1
      <4>3. QED
        BY <2>2, <4>2
    <3> HIDE DEF h
    <3>2. devs[h] \in Near /\ devs[h] \in Range(devs) /\ h \in DOMAIN devs
      BY <2>0, <3>1 DEF n
    <3>3. \A k \in 1..n : devs[k] \in Near /\ k \in DOMAIN devs
      BY <2>0 DEF n
    <3>4. CASE i = 1
      <4>1. objs[devs[h]].addr = objs[job.obj].addr
        BY <1>1, <1>2, <1>4, <2>3, <3>1, <3>2, <3>4
      <4>2. job.pc = "retry"
        BY <1>0, <3>2, <4>1 DEF MadeInv
      <4>3. /\ Behind(plugged, queue, job, objs[devs[h]])
            /\ \A k \in DOMAIN devs : objs[devs[k]].addr = objs[job.obj].addr => k = h
        BY <1>0, <3>2, <4>1, <4>2 DEF RetryInv
      <4>4. \A k \in DOMAIN devs : k > h => objs[devs[h]].addr # objs[devs[k]].addr
        <5>1. \A k \in DOMAIN devs : k > h => k # h
          BY <2>0, <3>2
        <5>2. QED
          BY <4>1, <4>3, <5>1
      <4>5. QED
        BY <1>4, <3>1, <3>2, <3>3, <4>3, <4>4
    <3>5. CASE i # 1
      <4> DEFINE g == i - 1
      <4>1. g \in 1..n /\ devs'[i] = devs[g] /\ g < h
        <5>1. n \in Nat
          BY <2>0 DEF n
        <5>2. g < h
          BY <2>3, <5>1 DEF h
        <5>3. QED
          BY <2>2, <3>5, <5>2
      <4> HIDE DEF g
      <4>2. SameAddr(g, h)
        BY <1>4, <2>3, <3>1, <3>2, <3>3, <4>1 DEF SameAddr
      <4>3. /\ Behind(plugged, queue, job, objs[devs[h]])
            /\ \A k \in DOMAIN devs : k > h => objs[devs[h]].addr # objs[devs[k]].addr
        BY <1>0, <3>2, <3>3, <4>1, <4>2 DEF PairInv, SameAddr
      <4>4. QED
        BY <1>4, <3>1, <3>2, <3>3, <4>3
    <3>6. QED
      BY <3>4, <3>5
  <2>4. QED
    BY <2>1, <2>3 DEF PairInv, SameAddr
<1>9. QED
  BY <1>5, <1>6, <1>7, <1>8 DEF SyncInv

LEMMA SyncArrived ==
  ASSUME Step, Watching, SyncInv, NotifyArrived
  PROVE  SyncInv'
<1>0. /\ UNCHANGED <<plugged, queue, devs, user, objs>> /\ job.pc = "arrived" /\ job' = Resume
      /\ FlowInv /\ MemInv /\ Orderly(queue, plugged) /\ ListedInv /\ PresentInv /\ PairInv /\ ChildInv
      /\ Proper(job) /\ job \in Job /\ ListedOnce
  BY FlowTypes DEF Step, SyncInv, NotifyArrived, bus, MemInv
<1>1. /\ job'.pc \in {"retry", "idle", "more"} /\ job'.child = None
      /\ job'.pc = "retry" => job.child # None /\ job'.obj = job.child
  BY <1>0, FlowTypes, ResumeProper
<1>2. Near' = Near
  <2>1. Making' = {o \in Objects : o = job.child}
    BY <1>0, ResumeMakes
  <2>2. QED
    BY <1>0, <2>1 DEF Near, Making
<1>3. Carry
  BY <1>0, CarrySame
<1>4. ListedInv' /\ PairInv' /\ PresentInv' /\ Orderly(queue', plugged')
  BY <1>0, <1>2, <1>3, ListedOnward, PairOnward, PresentOnward
<1>5. WorkInv' /\ MadeInv' /\ ChildInv'
  BY <1>1 DEF WorkInv, MadeInv, ChildInv
<1>6. RetryInv'
  <2>1. ASSUME job.child # None, NEW i \in DOMAIN devs, objs[devs[i]].addr = objs[job.child].addr
        PROVE  /\ Behind(plugged', queue', job', objs'[devs[i]])
               /\ \A k \in DOMAIN devs : objs[devs[k]].addr = objs[job.child].addr => k = i
    <3>1. \A k \in DOMAIN devs : objs[devs[k]].addr = objs[job.child].addr => devs[k] = job.obj
      BY <1>0, <2>1, ListIsNear DEF ChildInv
    <3>2. devs[i] = job.obj /\ Behind(plugged, queue, job, objs[job.obj])
      BY <1>0, <2>1, <3>1 DEF ChildInv
    <3>3. job.obj \in Near
      BY <1>0, <2>1, <3>2, ListIsNear
    <3>4. PICK o : o = devs[i]
      OBVIOUS
    <3>5. o \in Near /\ (o \in Near)' /\ Behind(plugged, queue, job, objs[o])
      BY <1>2, <3>2, <3>3, <3>4
    <3>6. Behind(plugged', queue', job', objs'[o])
      BY <1>3, <3>5, NearStays
    <3>7. QED
      BY <1>0, <2>1, <3>1, <3>2, <3>4, <3>6 DEF ListedOnce
  <2>2. QED
    BY <1>0, <1>1, <2>1 DEF RetryInv
<1>7. QED
  BY <1>4, <1>5, <1>6 DEF SyncInv

LEMMA SyncLeaving ==
  ASSUME Step, Watching, SyncInv, NotifyLeft \/ DropFound
  PROVE  SyncInv'
<1>0. /\ UNCHANGED <<plugged, queue, devs, user>> /\ job.pc \in {"left", "drop"}
      /\ job' = [job EXCEPT !.pc = "drop"] \/ job' = Resume
      /\ FlowInv /\ MemInv /\ Orderly(queue, plugged) /\ ListedInv /\ PresentInv /\ PairInv
      /\ MadeInv /\ ChildInv /\ RetryInv /\ Proper(job) /\ job \in Job
  BY FlowTypes DEF Step, SyncInv, NotifyLeft, DropFound, bus
<1>1. job.child = None
  BY <1>0 DEF Proper
<1>2. job'.pc \in {"drop", "idle", "more"} /\ job'.child = None
  <2>1. CASE job' = [job EXCEPT !.pc = "drop"]
    BY <1>0, <1>1, <2>1 DEF Job
  <2>2. CASE job' = Resume
    BY <1>0, <1>1, <2>2, ResumeProper, FlowTypes
  <2>3. QED
    BY <1>0, <2>1, <2>2
<1>3. Near' = Near
  BY <1>0, <1>1, <1>2 DEF Near, Making
<1>4. Carry
  BY <1>0, CarrySame
<1>5. ListedInv' /\ PairInv' /\ PresentInv' /\ Orderly(queue', plugged')
  BY <1>0, <1>3, <1>4, ListedOnward, PairOnward, PresentOnward
<1>6. WorkInv' /\ MadeInv' /\ ChildInv' /\ RetryInv'
  BY <1>2 DEF WorkInv, MadeInv, ChildInv, RetryInv
<1>7. QED
  BY <1>5, <1>6 DEF SyncInv

LEMMA SyncDisconnected ==
  ASSUME Step, Watching, SyncInv, DeviceDisconnected
  PROVE  SyncInv'
<1>0. /\ UNCHANGED <<plugged, queue, user>> /\ job.pc = "disconnect" /\ FlowInv /\ MemInv
      /\ Orderly(queue, plugged) /\ WorkInv /\ ListedInv /\ PresentInv /\ PairInv
      /\ Proper(job) /\ job \in Job
  BY FlowTypes DEF Step, SyncInv, DeviceDisconnected, bus
<1>1. job.child = None /\ Near = Range(devs) /\ job.addr # 0
  BY <1>0 DEF Proper, Near, Making, Step, BaseInv, JobAddressed
<1>2. /\ DOMAIN devs = 1..Len(devs) /\ Len(devs) \in Nat
      /\ \A i \in 1..Len(devs) : devs[i] \in Near
      /\ \A o \in Range(devs) : \E i \in DOMAIN devs : devs[i] = o
  BY <1>0, ListIsNear
<1>3. /\ job'.child = None /\ job'.pc \in {"left", "idle", "more"}
      /\ Range(devs') \subseteq Range(devs)
      /\ Near' = Range(devs')
  <2>1. CASE WithSessionId(job.addr) = {}
    <3>1. job' = Resume /\ devs' = devs
      BY <1>0, <2>1 DEF DeviceDisconnected
    <3>2. job'.child = None /\ job'.pc \in {"idle", "more"}
      BY <1>0, <1>1, <3>1, ResumeProper, FlowTypes
    <3>3. QED
      BY <3>1, <3>2 DEF Near, Making
  <2>2. CASE WithSessionId(job.addr) # {}
    <3>1. \E d : Range(devs') = Range(devs) \ {d} /\ job'.pc = "left" /\ job'.child = job.child
      BY <1>0, <2>2, DisconnectDoes
    <3>2. QED
      BY <1>1, <3>1 DEF Near, Making
  <2>3. QED
    BY <2>1, <2>2
\* Devices with another address are pending, or behind, as before.
<1>4. ASSUME NEW x, x \in Near, (x \in Near)'
      PROVE  /\ objs'[x].addr = objs[x].addr
             /\ Fits(plugged, objs[x]) => Fits(plugged, objs'[x])
             /\ objs[x].addr # job.addr =>
                  /\ Pending(plugged, queue, job, objs[x]) => Pending(plugged', queue', job', objs'[x])
                  /\ Behind(plugged, queue, job, objs[x]) => Behind(plugged', queue', job', objs'[x])
  <2>1. StepAlike
    BY MemoryStep DEF Step
  <2>2. Alike(objs'[x], objs[x])
    BY <1>4, <2>1, StillThere DEF Step
  <2>3. /\ Fits(plugged, objs[x]) => Fits(plugged, objs'[x])
        /\ objs'[x].addr = objs[x].addr
    BY <2>2 DEF Fits, Alike
  <2>4. ASSUME NEW addr, addr # job.addr
        PROVE  /\ Goes(queue, job, addr) => Goes(queue', job', addr)
               /\ GoesTwice(queue, job, addr) => GoesTwice(queue', job', addr)
    BY <1>0, <2>4 DEF Goes, GoesTwice, Removing
  <2>5. QED
    BY <1>0, <2>3, <2>4 DEF Pending, Behind
<1>5. WorkInv' /\ MadeInv' /\ ChildInv' /\ RetryInv' /\ Orderly(queue', plugged')
  BY <1>0, <1>3 DEF WorkInv, MadeInv, ChildInv, RetryInv
<1>6. CASE WithSessionId(job.addr) = {}
  <2>1. devs' = devs /\ objs' = objs /\ Near' = Near
    BY <1>0, <1>1, <1>3, <1>6 DEF DeviceDisconnected
  <2>2. \A i \in DOMAIN devs : objs[devs[i]].addr # job.addr
    BY <1>6 DEF WithSessionId
  <2>3. ListedInv'
    <3>1. ASSUME NEW x, (x \in Near)'
          PROVE  Pending(plugged', queue', job', objs'[x])
      <4>1. x \in Near /\ objs[x].addr # job.addr
        BY <1>1, <1>2, <2>1, <2>2, <3>1
      <4>2. QED
        BY <1>0, <1>4, <3>1, <4>1 DEF ListedInv
    <3>2. QED
      BY <3>1 DEF ListedInv
  <2>4. PairInv'
    <3>1. ASSUME NEW j \in DOMAIN devs, Behind(plugged, queue, job, objs[devs[j]])
          PROVE  Behind(plugged', queue', job', objs'[devs[j]])
      <4>1. PICK x : x = devs[j]
        OBVIOUS
      <4>2. x \in Near /\ (x \in Near)' /\ objs[x].addr # job.addr
        BY <1>2, <2>1, <2>2, <4>1
      <4>3. QED
        BY <1>4, <3>1, <4>1, <4>2
    <3>2. QED
      BY <1>0, <2>1, <3>1 DEF PairInv, SameAddr
  <2>5. PresentInv'
    BY <1>0, <2>1 DEF PresentInv, Unseen
  <2>6. QED
    BY <1>5, <2>3, <2>4, <2>5 DEF SyncInv
<1>7. CASE WithSessionId(job.addr) # {}
  <2>1. PICK k \in 1..Len(devs) :
           /\ objs[devs[k]].addr = job.addr
           /\ \A j \in 1..Len(devs) : objs[devs[j]].addr = job.addr => k <= j
           /\ devs' \in Seq(Objects) /\ Len(devs') = Len(devs) - 1
           /\ \A i \in 1..Len(devs) - 1 : devs'[i] = IF i < k THEN devs[i] ELSE devs[i + 1]
           /\ Range(devs') = Range(devs) \ {devs[k]}
    BY <1>0, <1>7, DisconnectDoes
  <2>2. ASSUME NEW j \in 1..Len(devs), objs[devs[j]].addr = job.addr, j # k
        PROVE  /\ k < j
               /\ Behind(plugged, queue, job, objs[devs[j]])
               /\ \A h \in 1..Len(devs) : h > j => objs[devs[j]].addr # objs[devs[h]].addr
    <3>1. k < j
      <4>1. k <= j
        BY <2>1, <2>2
      <4>2. QED
        BY <1>2, <2>2, <4>1
    <3>2. SameAddr(k, j)
      BY <2>1, <2>2 DEF SameAddr
    <3>3. QED
      BY <1>0, <1>2, <3>1, <3>2 DEF PairInv, SameAddr
  <2>3. ListedInv'
    <3>1. ASSUME NEW x, (x \in Near)'
          PROVE  Pending(plugged', queue', job', objs'[x])
      <4>1. x \in Near /\ x # devs[k]
        BY <1>1, <1>3, <2>1, <3>1
      <4>2. CASE objs[x].addr # job.addr
        BY <1>0, <1>4, <3>1, <4>1, <4>2 DEF ListedInv
      <4>3. CASE objs[x].addr = job.addr
        <5>1. PICK j \in 1..Len(devs) : devs[j] = x
          BY <1>1, <1>2, <4>1
        <5>2. Behind(plugged, queue, job, objs[x])
          BY <2>2, <4>1, <4>3, <5>1
        <5>3. Fits(plugged, objs[x]) \/ Has(queue, "remove", job.addr)
          <6>1. Twice(queue, "remove", job.addr) => Has(queue, "remove", job.addr)
            BY DEF Twice, Has
          <6>2. QED
            BY <4>3, <5>2, <6>1 DEF Behind, GoesTwice
        <5>4. QED
          BY <1>0, <1>4, <3>1, <4>1, <4>3, <5>3 DEF Pending, Goes
      <4>4. QED
        BY <4>2, <4>3
    <3>2. QED
      BY <3>1 DEF ListedInv
  <2>4. PairInv'
    <3> DEFINE n == Len(devs) - 1
               f == [i \in 1..n |-> IF i < k THEN i ELSE i + 1]
    <3>1. /\ DOMAIN devs' = 1..n
          /\ \A i \in 1..n : f[i] \in 1..Len(devs) /\ devs'[i] = devs[f[i]] /\ f[i] # k
          /\ \A i, j \in 1..n : i < j => f[i] < f[j]
      <4>1. DOMAIN devs' = 1..n
        BY <2>1, LenProperties
      <4>2. \A i \in 1..n : f[i] = IF i < k THEN i ELSE i + 1
        OBVIOUS
      <4>3. \A i \in 1..n : devs'[i] = IF i < k THEN devs[i] ELSE devs[i + 1]
        BY <2>1
      <4> HIDE DEF f
      <4>4. n \in Nat \/ n = -1
        BY <1>2
      <4>5. Len(devs) = n + 1
        BY <1>2
      <4> HIDE DEF n
      <4>6. ASSUME NEW i \in 1..n
            PROVE  f[i] \in 1..Len(devs) /\ devs'[i] = devs[f[i]] /\ f[i] # k
        <5>1. i \in 1..n + 1 /\ i + 1 \in 1..n + 1 /\ k \in Int /\ (i < k \/ i + 1 # k)
          BY <4>4, <4>5
        <5>2. devs'[i] = IF i < k THEN devs[i] ELSE devs[i + 1]
          BY <4>3 DEF n
        <5>3. QED
          BY <4>2, <4>5, <5>1, <5>2
      <4>7. \A i, j \in 1..n : i < j => f[i] < f[j]
        BY <4>2, <4>4, <4>5
      <4>8. QED
        BY <4>1, <4>6, <4>7
    <3> HIDE DEF n, f
    <3>2. ASSUME NEW i \in 1..n
          PROVE  /\ objs'[devs'[i]].addr = objs[devs[f[i]]].addr
                 /\ objs[devs[f[i]]].addr # job.addr /\ Behind(plugged, queue, job, objs[devs[f[i]]])
                      => Behind(plugged', queue', job', objs'[devs'[i]])
      <4>1. PICK x : x = devs[f[i]]
        OBVIOUS
      <4>2. x = devs'[i] /\ x \in Near
        BY <1>2, <3>1, <4>1
      <4>3. (x \in Near)'
        <5>1. x \in Range(devs')
          BY <3>1, <4>2 DEF Range
        <5>2. QED
          BY <1>3, <5>1
      <4>4. QED
        BY <1>4, <4>1, <4>2, <4>3
    <3>3. ASSUME NEW i \in 1..n, NEW j \in 1..n, i < j, objs'[devs'[i]].addr = objs'[devs'[j]].addr
          PROVE  /\ Behind(plugged', queue', job', objs'[devs'[j]])
                 /\ \A h \in 1..n : h > j => objs'[devs'[j]].addr # objs'[devs'[h]].addr
      <4>1. f[i] < f[j] /\ objs[devs[f[i]]].addr = objs[devs[f[j]]].addr
            /\ f[i] \in 1..Len(devs) /\ f[j] \in 1..Len(devs) /\ f[i] # k
        BY <3>1, <3>2, <3>3
      <4>2. objs[devs[f[j]]].addr # job.addr
        BY <2>2, <4>1
      <4>3. /\ Behind(plugged, queue, job, objs[devs[f[j]]])
            /\ \A h \in 1..Len(devs) : h > f[j] => objs[devs[f[j]]].addr # objs[devs[h]].addr
        BY <1>0, <1>2, <4>1 DEF PairInv, SameAddr
      <4>4. \A h \in 1..n : h > j => f[h] > f[j] /\ f[h] \in 1..Len(devs)
        <5>1. \A h \in 1..n : h > j => j < h
          OBVIOUS
        <5>2. \A h \in 1..n : f[j] < f[h] => f[h] > f[j]
          OBVIOUS
        <5>3. QED
          BY <3>1, <5>1, <5>2
      <4>5. QED
        BY <3>2, <4>2, <4>3, <4>4
    <3>4. QED
      BY <3>1, <3>3 DEF PairInv, SameAddr
  <2>5. PresentInv'
    <3>1. ASSUME NEW p \in Ports, plugged[p] # NotPlugged
          PROVE  \/ \E x \in Near' : objs'[x].addr = plugged[p].addr
                 \/ Has(queue, "add", plugged[p].addr)
                 \/ Unseen(p)
      <4>1. ASSUME NEW x, x \in Near, objs[x].addr = plugged[p].addr
            PROVE  \/ \E y \in Near' : objs'[y].addr = plugged[p].addr
                   \/ Has(queue, "add", plugged[p].addr)
        <5>1. CASE x = devs[k]
          <6>1. At(plugged, job.addr) /\ plugged[p].addr = job.addr
            BY <2>1, <4>1, <5>1 DEF At
          <6>2. QED
            BY <1>0, <6>1 DEF WorkInv
        <5>2. CASE x # devs[k]
          <6>1. x \in Near'
            BY <1>1, <1>3, <2>1, <4>1, <5>2
          <6>2. QED
            BY <1>4, <4>1, <6>1
        <5>3. QED
          BY <5>1, <5>2
      <4>2. QED
        BY <1>0, <3>1, <4>1 DEF PresentInv
    <3>2. QED
      BY <1>0, <3>1 DEF PresentInv, Unseen
  <2>6. QED
    BY <1>5, <2>3, <2>4, <2>5 DEF SyncInv
<1>8. QED
  BY <1>6, <1>7

\* What wakes the watch.
LEMMA OtherSteps ==
  ASSUME CtxInv, [Next]_vars, up # "stopping", ~ Kernel, ~ Enumeration
  PROVE  \/ StartMonitor
         \/ /\ UNCHANGED <<plugged, queue, devs, job>>
            /\ user' = user \/ user.pc \notin {"started", "scan"}
         \/ Monitor \/ HotplugPoll
         \/ ScanDevices \/ ScanDone \/ \E p \in Ports : ScanDevice(p)
         \/ DisconnectGone
<1>1. CASE Monitor \/ HotplugProcess \/ UNCHANGED vars
  BY <1>1 DEF HotplugProcess, TakeMessages, CallBack, MessageDone, FreeUnregistered, vars, bus, lists
<1>2. CASE SetUpTearDown
  BY <1>2 DEF SetUpTearDown, InitContext, HotplugInit, Exit, HotplugExit, FreeMessage, FreeDevice,
              StopMonitor, bus, lists, CtxInv, ExitPcs
<1>3. CASE DeviceLists
  BY <1>3 DEF DeviceLists, GetDeviceList, CopyList, FreeDeviceList, Ready, bus, lists
<1>4. CASE OpenAndClose
  BY Zenon, <1>4 DEF OpenAndClose, Open, OpenBackend, OpenFails, WrapSysDevice, Close, Ready, bus, lists
<1>5. CASE CallbackCalls
  BY <1>5 DEF CallbackCalls, RegisterCallback, DeregisterCallback, FireForListed, FreeSnapshot,
              Registered, Ready, bus, lists
<1>6. QED
  BY <1>1, <1>2, <1>3, <1>4, <1>5 DEF Next

\* A list that is being watched was watched before, or is empty.
LEMMA WatchNext ==
  ASSUME CtxInv, [Next]_vars, Watching'
  PROVE  Watching \/ StartMonitor
<1>1. CASE StartMonitor
  BY <1>1
<1>2. CASE ~ StartMonitor
  <2>1. monitor' => monitor
    BY <1>2, ContextNext DEF SetUpTearDown, InitContext, ScanDevices, ScanDevice, ScanDone, HotplugInit,
                             Exit, HotplugExit, FreeMessage, FreeDevice, StopMonitor
  <2>2. lost => lost'
    BY Zenon, <1>2 DEF Next, Kernel, Plug, Unplug, OtherUevent, Deliver, Enumeration, EnumerateDevice, EnumerateParent,
       ConnectDevice, NotifyArrived, DeviceDisconnected, NotifyLeft, DropFound, Monitor,
       HotplugProcess, TakeMessages, CallBack, MessageDone, FreeUnregistered, SetUpTearDown, InitContext,
       ScanDevices, ScanDevice, ScanDone, HotplugInit, Exit, HotplugExit, FreeMessage, FreeDevice, StopMonitor,
       DeviceLists, GetDeviceList, HotplugPoll, CopyList, FreeDeviceList, OpenAndClose, Open,
       OpenBackend, DisconnectGone, OpenFails, WrapSysDevice, Close, CallbackCalls, RegisterCallback,
       DeregisterCallback, FireForListed, FreeSnapshot, Registered, bus, vars
  <2>3. up = "stopping" => up' = "stopping" \/ StopMonitor
    <3>1. SetUpTearDown \/ up' = up
      BY ContextNext
    <3>2. QED
      BY Zenon, <3>1 DEF SetUpTearDown, InitContext, StartMonitor, ScanDevices, ScanDevice, ScanDone, HotplugInit,
                  Exit, HotplugExit, FreeMessage, FreeDevice, CtxInv, SetUpPcs, ExitPcs
  <2>4. StopMonitor => ~ monitor'
    BY DEF StopMonitor
  <2>5. QED
    BY <2>1, <2>2, <2>3, <2>4 DEF Watching
<1>3. QED
  BY <1>1, <1>2

LEMMA SyncNext ==
  ASSUME Step, Watching', Watching => SyncInv
  PROVE  SyncInv'
<1>0. CtxInv /\ FlowInv /\ MemInv /\ [Next]_vars
  BY DEF Step
<1>1. CASE StartMonitor
  <2>1. queue' = <<>> /\ devs' = devs /\ job' = job /\ user' = [user EXCEPT !.pc = "started"]
        /\ devs = <<>> /\ job = NoJob
    BY <1>0, <1>1 DEF StartMonitor, lists, CtxInv
  <2>2. user'.pc = "started"
    BY <1>0, <2>1 DEF User, FlowInv, StepsOK
  <2>3. job'.pc = "idle" /\ job'.child = None /\ Near' = {} /\ DOMAIN devs' = {} /\ DOMAIN queue' = {}
    BY <2>1, WorkMakes DEF Near, Making, Range
  <2>4. QED
    BY <2>2, <2>3 DEF SyncInv, Orderly, WorkInv, ListedInv, PresentInv, Unseen, PairInv, MadeInv,
                      ChildInv, RetryInv
<1>2. CASE ~ StartMonitor
  <2>1. Watching /\ SyncInv
    BY <1>0, <1>2, WatchNext
  <2>2. up # "stopping"
    BY <2>1 DEF Watching
  <2>3. CASE Kernel
    BY <2>1, <2>3, SyncKernel
  <2>4. CASE Enumeration
    BY <2>1, <2>4, SyncEnumerate, SyncParent, SyncConnect, SyncArrived, SyncDisconnected, SyncLeaving
       DEF Enumeration
  <2>5. CASE Monitor \/ HotplugPoll
    <3>1. /\ devs' = devs /\ plugged' = plugged /\ job.pc \in {"idle", "more"}
      BY <2>5, WorkMakes DEF Monitor, HotplugPoll, lists
    <3>2. CASE queue = <<>>
      <4>1. HotplugPoll /\ queue' = queue /\ job' = NoJob /\ user.pc = "poll"
        BY <2>5, <3>2 DEF Monitor, HotplugPoll
      <4>2. Near \subseteq Near'
        BY <1>0, <3>1, ListedOnly DEF Near
      <4>3. Carry
        BY <3>1, <4>1, CarrySame
      <4>4. PresentInv'
        BY <2>1, <3>1, <4>1, <4>2, PresentOnward DEF SyncInv
      <4>5. job'.pc = "idle" /\ job'.child = None
        BY <4>1, WorkMakes
      <4>6. WorkInv' /\ Orderly(queue', plugged')
        BY <2>1, <3>1, <4>1, <4>5 DEF WorkInv, SyncInv
      <4>7. QED
        BY <2>1, <3>1, <4>3, <4>4, <4>5, <4>6, SyncStart
    <3>3. CASE queue # <<>>
      <4>1. \E by : ReadMessage(by)
        BY <2>5, <3>3 DEF Monitor, HotplugPoll
      <4>2. user' = user \/ user.pc \notin {"started", "scan"}
        BY <2>5 DEF Monitor, HotplugPoll
      <4>3. QED
        BY <2>1, <3>1, <3>3, <4>1, <4>2, SyncRead
    <3>4. QED
      BY <3>2, <3>3
  <2>6. CASE ScanDevices \/ ScanDone \/ \E p \in Ports : ScanDevice(p)
    BY <2>1, <2>6, SyncScan
  <2>7. CASE DisconnectGone
    BY <2>1, <2>7, SyncGone
  <2>8. CASE /\ UNCHANGED <<plugged, queue, devs, job>>
             /\ user' = user \/ user.pc \notin {"started", "scan"}
    BY <2>1, <2>2, <2>8, SyncSame
  <2>9. QED
    BY <1>0, <1>2, <2>2, <2>3, <2>4, <2>5, <2>6, <2>7, <2>8, OtherSteps
<1>3. QED
  BY <1>1, <1>2

WatchInv == BaseInv /\ AttachedInv /\ GoneInv /\ (Watching => SyncInv)

LEMMA WatchInit == Init => WatchInv
<1> SUFFICES ASSUME Init
             PROVE  WatchInv
  OBVIOUS
<1>1. /\ serial = Old /\ queue = <<>> /\ monitor = FALSE /\ devs = <<>> /\ job = NoJob
      /\ user.pc = "idle" /\ user.obj = None /\ list = {} /\ up = "down"
  BY DEF Init
<1>2. /\ \A p \in Ports : plugged[p] \in {NotPlugged, [addr |-> 1, serial |-> 1], [addr |-> 2, serial |-> 2]}
      /\ plugged[Hub].addr # 2
      /\ plugged[Leaf].addr = 2 <=> plugged[Leaf] # NotPlugged
  BY DEF Init, Ports
<1>3. PlugInv
  <2>1. /\ NotPlugged.addr = 0 /\ NotPlugged.serial = 0
        /\ \A n : [addr |-> n, serial |-> n].addr = n /\ [addr |-> n, serial |-> n].serial = n
    BY DEF NotPlugged
  <2>2. \A p \in Ports : (plugged[p].addr = 0 <=> plugged[p] = NotPlugged) /\ plugged[p].serial <= 2
    BY <1>2, <2>1
  <2>3. QED
    BY <1>1, <1>2, <2>1, <2>2 DEF PlugInv, Old, Ports
<1>4. Near = {} /\ Used = {} /\ DOMAIN queue = {}
  BY <1>1, WorkMakes DEF Near, Making, Used, Range
<1>5. BaseInv
  BY <1>1, <1>3, <1>4, WorkMakes DEF BaseInv, Addressed, JobAddressed, NearInv
<1>6. QED
  BY <1>1, <1>5 DEF WatchInv, AttachedInv, GoneInv, Watching

LEMMA WatchInvariant == Spec => [](FlowInv /\ MemInv /\ CallbackInv /\ WatchInv)
<1>1. /\ FlowInv /\ MemInv /\ CallbackInv /\ WatchInv /\ FlowInv' /\ MemInv'
      /\ [Next]_vars
      => WatchInv'
  <2> SUFFICES ASSUME FlowInv, MemInv, CallbackInv, WatchInv, FlowInv', MemInv', [Next]_vars
               PROVE  WatchInv'
    OBVIOUS
  <2>1. Step /\ CtxInv
    BY DEF Step, CallbackInv, StoryInv, WatchInv
  <2>2. BaseInv' /\ AttachedInv' /\ GoneInv'
    BY <2>1, BaseNext, AttachedNext, GoneNext DEF WatchInv
  <2>3. Watching' => SyncInv'
    BY <2>1, SyncNext DEF WatchInv
  <2>4. QED
    BY <2>2, <2>3 DEF WatchInv
<1>2. QED
  BY <1>1, WatchInit, CallbackInvariant, PTL DEF Spec

LEMMA WatchedList == FlowInv /\ MemInv /\ CallbackInv /\ WatchInv => ListInSync
<1> SUFFICES ASSUME FlowInv, MemInv, CallbackInv, WatchInv,
                    up = "ready", queue = <<>>, job = NoJob, ~ lost
             PROVE  Listed = {plugged[p] : p \in Ports} \ {NotPlugged}
  BY DEF ListInSync
<1>1. SyncInv /\ BaseInv /\ PlugInv /\ user.pc \notin SetUpPcs
  BY DEF CallbackInv, CtxInv, WatchInv, BaseInv, Watching
<1>2. job.pc = "idle" /\ Near = Range(devs)
  BY WorkMakes, ListedOnly
<1>3. \A kind, addr : ~ Has(queue, kind, addr)
  BY DEF Has
<1>4. ASSUME NEW o \in Range(devs)
      PROVE  Fits(plugged, objs[o]) /\ objs[o].addr # 0 /\ objs[o].port \in Ports
  <2>1. Pending(plugged, queue, job, objs[o]) /\ objs[o].addr # 0
    BY <1>1, <1>2 DEF SyncInv, ListedInv, BaseInv, NearInv
  <2>2. o \in Objects
    BY HeldInMemory
  <2>3. QED
    BY <1>2, <1>3, <2>1, <2>2 DEF Pending, Goes, Removing, MemInv, Sound, Device
<1>5. ASSUME NEW x \in Listed
      PROVE  x \in {plugged[p] : p \in Ports} \ {NotPlugged}
  <2>1. PICK o \in Range(devs) : x = [addr |-> objs[o].addr, serial |-> objs[o].serial]
    BY DEF Listed
  <2>2. x = plugged[objs[o].port] /\ x.addr # 0
    BY <1>4, <2>1 DEF Fits
  <2>3. QED
    BY <1>4, <2>1, <2>2 DEF NotPlugged
<1>6. ASSUME NEW p \in Ports, plugged[p] # NotPlugged
      PROVE  plugged[p] \in Listed
  <2>1. PICK o \in Range(devs) : objs[o].addr = plugged[p].addr
    BY <1>1, <1>2, <1>3, <1>6 DEF SyncInv, PresentInv, Unseen, SetUpPcs
  <2>2. plugged[objs[o].port] = [addr |-> objs[o].addr, serial |-> objs[o].serial]
    BY <1>4, <2>1 DEF Fits
  <2>3. plugged[objs[o].port].addr = plugged[p].addr /\ objs[o].port \in Ports
    BY <1>4, <2>1, <2>2
  <2>4. objs[o].port = p
    BY <1>1, <1>6, <2>3 DEF PlugInv, Ports
  <2>5. QED
    BY <2>2, <2>4 DEF Listed
<1>7. QED
  BY <1>5, <1>6

\* When every uevent is read, the list holds what is plugged in, and nothing else
\* (linux_enumerate_device, linux_device_disconnected).
THEOREM ListIsInSync == Spec => []ListInSync
  BY WatchInvariant, WatchedList, PTL

-----------------------------------------------------------------------------
(* What a user who asks for the list gets.                                 *)

Asking  == user.pc \in {"poll", "copy"} /\ user.cb = None
Seen(s) == s > user.since \/ \E p \in Ports : user.asked[p].serial = s
AskedInv == Asking =>
  /\ \A p \in Ports : /\ plugged[p] = user.asked[p] \/ plugged[p] = NotPlugged \/ plugged[p].serial > user.since
                      /\ user.asked[p].serial <= user.since
  /\ user.since <= serial

\* The poll met nothing that cut it short, and lost nothing.
Clear == Asking /\ user.pc = "copy" /\ ~ user.cut /\ ~ lost

\* What was plugged in all the while is listed and stays so.
StillListed(p) ==
  /\ \E o \in Range(devs) : objs[o].port = p /\ Fits(plugged, objs[o])
  /\ ~ Goes(queue, job, plugged[p].addr)
ServedInv == Clear =>
  /\ \A o \in Near : Seen(objs[o].serial)
  /\ \A p \in Ports : plugged[p] = user.asked[p] /\ plugged[p] # NotPlugged => StillListed(p)

\* A call that asks goes on asking the same.
LEMMA AskNext ==
  ASSUME FlowInv, [Next]_vars, Asking'
  PROVE  \/ GetDeviceList
         \/ /\ Asking /\ user' = user
         \/ /\ Asking /\ HotplugPoll /\ user'.asked = user.asked /\ user'.since = user.since
            /\ user.pc = "poll" /\ user'.pc = "copy"
            /\ user'.cut \/ (queue = <<>> /\ user'.cut = user.cut)
<1>0. user \in User /\ user'.pc \in {"poll", "copy"} /\ user'.cb = None
  BY DEF FlowInv, StepsOK, Asking
<1>1. CASE user' = user
  BY <1>0, <1>1 DEF Asking
<1>2. CASE HotplugPoll /\ user' # user
  <2>1. CASE queue = <<>> /\ user' = [user EXCEPT !.pc = "copy"]
    BY <1>0, <1>2, <2>1 DEF HotplugPoll, Asking, User
  <2>2. CASE user' = [user EXCEPT !.pc = "copy", !.cut = TRUE]
    BY <1>0, <1>2, <2>2 DEF HotplugPoll, Asking, User
  <2>3. QED
    BY <1>2, <2>1, <2>2 DEF HotplugPoll
<1>3. QED
  BY <1>0, <1>1, <1>2, UserNext

LEMMA NothingNewBehind ==
  ASSUME NEW q \in Seq(Uevents), NEW m \in Uevents, NEW kind, NEW addr, Has(Append(q, m), kind, addr)
  PROVE  Has(q, kind, addr) \/ Of(m, kind, addr)
<1> DEFINE r == Append(q, m)
           k == Len(q)
<1>1. /\ k \in Nat /\ DOMAIN q = 1..k /\ DOMAIN r = 1..k + 1 /\ r[k + 1] = m
      /\ \A i \in 1..k : r[i] = q[i]
  BY LenProperties, AppendProperties
<1> HIDE DEF k, r
<1>2. PICK i \in DOMAIN r : Of(r[i], kind, addr)
  BY DEF Has, r
<1>3. CASE i = k + 1
  BY <1>1, <1>2, <1>3
<1>4. CASE i # k + 1
  <2>1. i \in DOMAIN q /\ r[i] = q[i]
    BY <1>1, <1>2, <1>4
  <2>2. QED
    BY <1>2, <2>1 DEF Has
<1>5. QED
  BY <1>3, <1>4

\* Enumeration decides on no removal.
LEMMA MakesNoRemoval ==
  ASSUME FlowInv, Enumeration
  PROVE  job'.pc # "disconnect"
<1>1. Resume.pc \in {"retry", "idle", "more"} /\ job \in Job
  BY FlowTypes, ResumeProper
<1>2. EnumerateParent => job'.pc = "enumerate"
  BY <1>1 DEF EnumerateParent, Job
<1>3. QED
  BY <1>1, <1>2, EnumerationJob DEF WorkPcs

\* Nothing that is plugged in begins to go.
LEMMA GoesNext ==
  ASSUME Step, user.pc = "copy", NEW addr, At(plugged', addr), Goes(queue', job', addr)
  PROVE  Goes(queue, job, addr)
<1>0. queue \in Seq(Uevents) /\ FlowInv /\ BusOK /\ PlugInv /\ [Next]_vars
  BY DEF Step, BaseInv, FlowInv, BusOK
<1>1. CASE Kernel
  <2>1. PICK m \in Uevents : Deliver(m) /\ Tells(m, plugged, plugged')
    BY <1>0, <1>1, KernelDoes
  <2>2. ~ Of(m, "remove", addr)
    BY <2>1 DEF Of, Tells
  <2>3. Has(queue', "remove", addr) => Has(queue, "remove", addr)
    <3>1. queue' = queue \/ queue' = Append(queue, m)
      BY <2>1 DEF Deliver
    <3>2. Has(Append(queue, m), "remove", addr) => Has(queue, "remove", addr)
      BY <1>0, <2>2, NothingNewBehind
    <3>3. QED
      BY <3>1, <3>2
  <2>4. job' = job
    BY <1>0, <1>1, KernelDoes
  <2>5. QED
    BY <2>3, <2>4 DEF Goes
<1>2. CASE ~ Kernel
  <2>1. Has(queue', "remove", addr) => Has(queue, "remove", addr)
    <3>1. queue' = queue \/ queue' = <<>> \/ (queue # <<>> /\ queue' = Tail(queue))
      BY <1>0, <1>2, BusRest
    <3>2. ~ Has(<<>>, "remove", addr)
      BY DEF Has
    <3>3. queue # <<>> /\ queue' = Tail(queue) /\ Has(queue', "remove", addr) => Has(queue, "remove", addr)
      BY <1>0, QueueTail
    <3>4. QED
      BY <3>1, <3>2, <3>3
  <2>2. Removing(job', addr) => Goes(queue, job, addr)
    <3>1. CASE Enumeration
      BY <1>0, <3>1, MakesNoRemoval DEF Removing
    <3>2. CASE job' = job
      BY <3>2 DEF Goes
    <3>3. CASE job' \in {NoJob, [NoJob EXCEPT !.by = "scan", !.pc = "more"]}
      BY <3>3, WorkMakes DEF Removing
    <3>4. CASE queue # <<>> /\ Head(queue).kind # "other" /\ \E by : job' = Work(by, Head(queue))
      <4>1. PICK m : m = Head(queue)
        OBVIOUS
      <4>2. m \in Uevents
        BY <1>0, <3>4, <4>1, HeadTailProperties
      <4>3. Removing(job', addr) => Of(m, "remove", addr)
        BY <3>4, <4>1, <4>2, WorkMakes DEF Removing, Of, Uevents
      <4>4. Of(m, "remove", addr) => Has(queue, "remove", addr)
        <5>1. PICK r : r = Tail(queue)
          OBVIOUS
        <5>2. QED
          BY <1>0, <3>4, <4>1, <5>1, QueueTail
      <4>5. QED
        BY <4>3, <4>4 DEF Goes
    <3>5. QED
      BY <1>0, <3>1, <3>2, <3>3, <3>4, JobStarts DEF DisconnectGone
  <2>3. QED
    BY <2>1, <2>2 DEF Goes
<1>3. QED
  BY <1>1, <1>2

LEMMA AskedNext ==
  ASSUME FlowInv, FlowInv', CtxInv, RegInv, BaseInv, AskedInv, [Next]_vars
  PROVE  AskedInv'
<1>0. BusOK /\ PlugInv /\ user \in User /\ serial \in Nat /\ plugged \in [Ports -> Plugs]
  BY DEF FlowInv, BusOK, StepsOK, BaseInv
<1> SUFFICES ASSUME Asking'
             PROVE  AskedInv'
  BY DEF AskedInv
<1>1. CASE GetDeviceList
  <2>1. user' = [Calling("poll") EXCEPT !.asked = plugged, !.since = serial]
        /\ UNCHANGED <<plugged, serial>>
    BY <1>1 DEF GetDeviceList, bus
  <2>2. user'.asked = plugged /\ user'.since = serial
    BY <2>1 DEF Calling, Idle
  <2>3. QED
    BY <1>0, <2>1, <2>2 DEF AskedInv, PlugInv
<1>2. CASE ~ GetDeviceList
  <2>1. Asking /\ user'.asked = user.asked /\ user'.since = user.since
    BY <1>2, AskNext
  <2>2. \A p \in Ports : /\ plugged[p] = user.asked[p] \/ plugged[p] = NotPlugged \/ plugged[p].serial > user.since
                         /\ user.asked[p].serial <= user.since
    BY <2>1 DEF AskedInv
  <2>3. user.since <= serial /\ user.since \in Nat
    BY <1>0, <2>1 DEF AskedInv, User
  <2>4. CASE Kernel
    <3>1. /\ serial' = serial + 1
          /\ \A p \in Ports : plugged'[p] = plugged[p] \/ plugged'[p] = NotPlugged \/ plugged'[p].serial = serial'
      BY <1>0, <2>4, KernelDoes
    <3>2. serial' > user.since /\ user.since <= serial'
      BY <1>0, <2>3, <3>1
    <3>3. \A p \in Ports : plugged'[p] = user.asked[p] \/ plugged'[p] = NotPlugged \/ plugged'[p].serial > user.since
      BY <2>2, <3>1, <3>2
    <3>4. QED
      BY <2>1, <2>2, <3>2, <3>3 DEF AskedInv
  <2>5. CASE ~ Kernel
    <3>1. UNCHANGED <<plugged, serial>>
      BY <2>5, BusRest
    <3>2. QED
      BY <2>1, <2>2, <2>3, <3>1 DEF AskedInv
  <2>6. QED
    BY <2>4, <2>5
<1>3. QED
  BY <1>1, <1>2

\* The poll is over: the list is what is plugged in.
LEMMA ServedFirst ==
  ASSUME Step, RegInv, SyncInv, AskedInv, HotplugPoll, Clear', Asking, user.pc = "poll",
         user'.asked = user.asked, user'.since = user.since, queue = <<>>
  PROVE  ServedInv'
<1>0. /\ job' = NoJob /\ UNCHANGED <<queue, plugged, serial, objs, devs>> /\ job.pc \in {"idle", "more"}
      /\ FlowInv /\ MemInv /\ PlugInv /\ BaseInv /\ CtxInv
  BY WorkMakes DEF HotplugPoll, lists, Step, BaseInv
<1>1. Near = Range(devs) /\ Near' = Near
  <2>1. Near = Range(devs)
    BY <1>0, ListedOnly
  <2>2. Making' = {}
    BY <1>0, WorkMakes, NoneMade
  <2>3. QED
    BY <1>0, <2>1, <2>2 DEF Near
<1>2. \A addr : ~ Goes(queue, job, addr) /\ ~ Goes(queue', job', addr)
  BY <1>0, WorkMakes DEF Goes, Removing, Has
<1>3. ASSUME NEW o \in Near
      PROVE  /\ Fits(plugged, objs[o]) /\ o \in Objects /\ objs[o].addr # 0 /\ objs[o].port \in Ports
  <2>1. Pending(plugged, queue, job, objs[o]) /\ objs[o].addr # 0
    BY <1>0 DEF SyncInv, ListedInv, BaseInv, NearInv
  <2>2. o \in Objects
    BY <1>0, <1>1, HeldInMemory
  <2>3. QED
    BY <1>0, <1>2, <2>1, <2>2 DEF Pending, MemInv, Sound, Device
<1>4. ASSUME NEW o \in Near
      PROVE  Seen(objs[o].serial)
  <2> DEFINE p == objs[o].port
  <2>0. Fits(plugged, objs[o]) /\ objs[o].addr # 0 /\ p \in Ports
    BY <1>3
  <2>1. plugged[p].serial = objs[o].serial /\ plugged[p].addr # 0
    BY <2>0 DEF Fits
  <2>2. plugged[p] # NotPlugged
    BY <2>0, <2>1 DEF NotPlugged
  <2>3. plugged[p] = user.asked[p] \/ plugged[p].serial > user.since
    BY <2>0, <2>2 DEF AskedInv
  <2>4. QED
    BY <2>0, <2>1, <2>3 DEF Seen
<1>5. ASSUME NEW p \in Ports, plugged[p] # NotPlugged
      PROVE  \E o \in Range(devs) : objs[o].port = p /\ Fits(plugged, objs[o])
  <2>1. PICK o \in Near : objs[o].addr = plugged[p].addr
    BY <1>0, <1>2, <1>5 DEF SyncInv, PresentInv, Unseen, Has
  <2>2. plugged[objs[o].port].addr = plugged[p].addr /\ objs[o].port \in Ports /\ Fits(plugged, objs[o])
    BY <1>3, <2>1 DEF Fits
  <2>3. objs[o].port = p
    BY <1>0, <1>5, <2>2 DEF PlugInv, Ports
  <2>4. QED
    BY <1>1, <2>2, <2>3
<1>6. (\A o \in Near : Seen(objs[o].serial))'
  BY <1>0, <1>1, <1>4 DEF Seen
<1>7. \A p \in Ports : plugged'[p] # NotPlugged => StillListed(p)'
  BY <1>0, <1>2, <1>5 DEF StillListed
<1>8. QED
  BY <1>6, <1>7 DEF ServedInv

\* Only a removal of its address takes a device off the list of a context in use.
LEMMA StaysListed ==
  ASSUME FlowInv, MemInv, [Next]_vars, user.pc # "free",
         NEW o \in Range(devs), ~ Removing(job, objs[o].addr)
  PROVE  o \in Range(devs')
<1>1. CASE ConnectDevice
  BY <1>1, ConnectDoes
<1>2. CASE FreeDevice
  BY <1>2 DEF FreeDevice
<1>3. CASE DeviceDisconnected
  <2>1. CASE WithSessionId(job.addr) = {}
    BY <1>3, <2>1 DEF DeviceDisconnected
  <2>2. CASE WithSessionId(job.addr) # {}
    <3>1. PICK k \in 1..Len(devs) : objs[devs[k]].addr = job.addr /\ Range(devs') = Range(devs) \ {devs[k]}
      BY <1>3, <2>2, DisconnectDoes
    <3>2. job.pc = "disconnect"
      BY <1>3 DEF DeviceDisconnected
    <3>3. o # devs[k]
      BY <3>1, <3>2 DEF Removing
    <3>4. QED
      BY <3>1, <3>3
  <2>3. QED
    BY <2>1, <2>2
<1>4. CASE ~ ConnectDevice /\ ~ FreeDevice /\ ~ DeviceDisconnected
  <2>1. devs' = devs
    BY <1>4, DevsRest
  <2>2. QED
    BY <2>1
<1>5. QED
  BY <1>1, <1>2, <1>3, <1>4

\* Until it is copied the list stays as good.
LEMMA ServedOnward ==
  ASSUME Step, AskedInv, ServedInv, Clear, user' = user
  PROVE  ServedInv'
<1>0. /\ FlowInv /\ MemInv /\ FlowInv' /\ MemInv' /\ BusOK /\ PlugInv /\ CtxInv /\ [Next]_vars
      /\ job \in Job /\ user.pc = "copy" /\ Asking
  BY FlowTypes DEF Step, FlowInv, BaseInv, Clear
<1>1. StepAlike
  BY <1>0, MemoryStep
<1>2. ASSUME NEW o \in Near, (o \in Near)'
      PROVE  Alike(objs'[o], objs[o])
  BY <1>0, <1>1, <1>2, StillThere
<1>3. ASSUME NEW o, (o \in Near)'
      PROVE  Seen(objs'[o].serial)
  <2>1. CASE o \in Near
    BY <1>2, <1>3, <2>1 DEF Alike, ServedInv
  <2>2. CASE o \notin Near
    <3>1. /\ Readable(job.port) /\ objs'[job'.obj].serial = plugged[job.port].serial
          /\ Near' = Near \union {job'.obj}
      BY <1>0, <1>3, <2>2, NearNext
    <3>2. o = job'.obj /\ job.port \in Ports /\ plugged[job.port] # NotPlugged
      BY <1>0, <1>3, <2>2, <3>1 DEF Readable, Job
    <3>3. plugged[job.port] = user.asked[job.port] \/ plugged[job.port].serial > user.since
      BY <1>0, <3>2 DEF AskedInv
    <3>4. QED
      BY <3>1, <3>2, <3>3 DEF Seen
  <2>3. QED
    BY <2>1, <2>2
<1>4. ASSUME NEW p \in Ports, plugged'[p] = user.asked[p], plugged'[p] # NotPlugged
      PROVE  StillListed(p)'
  <2>1. plugged'[p] = plugged[p]
    <3>1. CASE Kernel
      <4>1. /\ serial' = serial + 1 /\ serial \in Nat /\ user.since \in Nat /\ plugged'[p].serial \in Nat
            /\ plugged'[p] = plugged[p] \/ plugged'[p] = NotPlugged \/ plugged'[p].serial = serial'
        BY <1>0, <3>1, KernelDoes DEF FlowInv, StepsOK, User, BusOK, Plugs
      <4>2. user.asked[p].serial <= user.since /\ user.since <= serial
        BY <1>0 DEF AskedInv
      <4>3. QED
        BY <1>4, <4>1, <4>2
    <3>2. CASE ~ Kernel
      BY <1>0, <3>2, BusRest
    <3>3. QED
      BY <3>1, <3>2
  <2>2. StillListed(p)
    BY <1>0, <1>4, <2>1 DEF ServedInv
  <2>3. PICK o \in Range(devs) : objs[o].port = p /\ Fits(plugged, objs[o])
    BY <2>2 DEF StillListed
  <2> DEFINE addr == plugged[p].addr
  <2>4. objs[o].addr = addr /\ ~ Goes(queue, job, addr)
    BY <2>2, <2>3 DEF StillListed, Fits
  <2>5. ~ Goes(queue', job', addr)
    BY <1>0, <2>1, <2>4, GoesNext DEF At
  <2>6. o \in Range(devs')
    BY <1>0, <2>4, StaysListed DEF Goes
  <2>7. Alike(objs'[o], objs[o])
    BY <1>2, <2>6 DEF Near
  <2>8. objs'[o].port = p /\ Fits(plugged', objs'[o])
    BY <2>1, <2>3, <2>7 DEF Alike, Fits
  <2>9. QED
    BY <2>1, <2>5, <2>6, <2>8 DEF StillListed
<1>5. (\A o \in Near : Seen(objs[o].serial))'
  BY <1>3 DEF Seen
<1>6. QED
  BY <1>4, <1>5 DEF ServedInv

LEMMA ServedNext ==
  ASSUME Step, CtxInv', RegInv, Watching => SyncInv, AskedInv, ServedInv
  PROVE  ServedInv'
<1> SUFFICES ASSUME Clear'
             PROVE  ServedInv'
  BY DEF ServedInv
<1>0. FlowInv /\ CtxInv /\ [Next]_vars /\ user \in User
  BY DEF Step, FlowInv, StepsOK
<1>1. Watching'
  BY DEF Clear, CtxInv, CallPcs, Watching
<1>2. Asking' /\ user'.pc = "copy" /\ ~ user'.cut
  BY DEF Clear
<1>3. ~ GetDeviceList
  <2>1. GetDeviceList => user'.pc = "poll"
    BY DEF GetDeviceList, Calling, Idle
  <2>2. QED
    BY <1>2, <2>1
<1>4. Watching
  <2>1. user.pc \in {"poll", "copy"}
    BY <1>0, <1>2, <1>3, AskNext DEF Asking
  <2>2. ~ StartMonitor
    BY <2>1 DEF StartMonitor
  <2>3. QED
    BY <1>0, <1>1, <2>2, WatchNext
<1>5. CASE user' = user
  <2>1. Clear
    BY <1>4, <1>5 DEF Clear, Asking, Watching
  <2>2. QED
    BY <1>5, <2>1, ServedOnward
<1>6. CASE user' # user
  <2>1. /\ Asking /\ HotplugPoll /\ user'.asked = user.asked /\ user'.since = user.since
        /\ user.pc = "poll" /\ queue = <<>>
    BY <1>0, <1>2, <1>3, <1>6, AskNext
  <2>2. QED
    BY <1>4, <2>1, ServedFirst
<1>7. QED
  BY <1>5, <1>6

PollInv == FlowInv /\ MemInv /\ CallbackInv /\ WatchInv /\ AskedInv /\ ServedInv

LEMMA PollInvariant == Spec => []PollInv
<1>1. Init => AskedInv /\ ServedInv
  BY DEF Init, AskedInv, ServedInv, Clear, Asking
<1>2. /\ FlowInv /\ MemInv /\ CallbackInv /\ WatchInv /\ AskedInv /\ ServedInv
      /\ FlowInv' /\ MemInv' /\ CallbackInv' /\ [Next]_vars
      => AskedInv' /\ ServedInv'
  <2> SUFFICES ASSUME FlowInv, MemInv, CallbackInv, WatchInv, AskedInv, ServedInv,
                      FlowInv', MemInv', CallbackInv', [Next]_vars
               PROVE  AskedInv' /\ ServedInv'
    OBVIOUS
  <2>1. Step /\ CtxInv /\ RegInv /\ CtxInv' /\ BaseInv /\ (Watching => SyncInv)
    BY DEF Step, CallbackInv, StoryInv, WatchInv
  <2>2. QED
    BY <2>1, AskedNext, ServedNext
<1>3. QED
  BY <1>1, <1>2, WatchInvariant, PTL DEF Spec, PollInv

LEMMA CopiesOnly ==
  ASSUME FlowInv, Copies, [Next]_vars
  PROVE  user.cb = None
<1>1. CopyList /\ user \in User
  BY UserNext DEF Copies, FlowInv, StepsOK
<1>2. CASE user.cb # None
  <2>1. user' = [user EXCEPT !.pc = "fire", !.todo = Range(devs)]
    BY <1>1, <1>2 DEF CopyList
  <2>2. user'.pc = "fire"
    BY <1>1, <2>1 DEF User
  <2>3. QED
    BY <2>2 DEF Copies
<1>3. QED
  BY <1>2

\* What libusb_get_device_list copies is what was plugged in when it was called and still
\* is, and nothing that was gone by then: the poll applies the uevents the monitor has not
\* read yet (usbi_backend.hotplug_poll).
THEOREM ListsAreFresh == Spec => ListIsFresh
<1>1. PollInv /\ [Next]_vars => (Copies /\ ~ lost /\ ~ user.cut => UpToDate)
  <2> SUFFICES ASSUME PollInv, [Next]_vars, Copies, ~ lost, ~ user.cut
               PROVE  UpToDate
    OBVIOUS
  <2>1. user \in User /\ FlowInv /\ ServedInv
    BY DEF PollInv, FlowInv, StepsOK
  <2>2. Clear
    BY <2>1, CopiesOnly DEF Clear, Asking, Copies
  <2>3. \A o \in Range(devs) : Seen(objs[o].serial)
    BY <2>1, <2>2 DEF ServedInv, Near
  <2>4. ASSUME NEW p \in Ports, plugged[p] = user.asked[p], plugged[p] # NotPlugged
        PROVE  \E o \in Range(devs) : objs[o].serial = plugged[p].serial
    <3>1. PICK o \in Range(devs) : objs[o].port = p /\ Fits(plugged, objs[o])
      BY <2>1, <2>2, <2>4 DEF ServedInv, StillListed
    <3>2. objs[o].serial = plugged[p].serial
      BY <3>1 DEF Fits
    <3>3. QED
      BY <3>2
  <2>5. QED
    BY <2>3, <2>4 DEF UpToDate, Seen
<1>2. QED
  BY <1>1, PollInvariant, PTL DEF Spec, ListIsFresh

=============================================================================
